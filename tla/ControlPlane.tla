---------------------------- MODULE ControlPlane ----------------------------
(***************************************************************************)
(* The whole program: main (src/main.rs) reads a scenario, opens the UDP   *)
(* socket and polls the proxy, the HTTP control plane                      *)
(* (src/backgrounds/control_plane.rs) and ctrl-c in one select!; the first *)
(* to end takes the others with it, and main reports.  The control plane   *)
(* serves each connection in a task of its own, on other threads than the  *)
(* proxy's loop, so the handlers' steps interleave with its steps.         *)
(***************************************************************************)
EXTENDS Proxy, Scenario

CONSTANTS
  Files,      \* what main may find where its scenario should be
  Bodies,     \* bodies posted to /reload
  Posters,    \* connections that POST /reload
  Readers     \* connections that GET /metrics

\* A file and a body are Options, every flow that one describes is one that
\* Proxy may run, and a file that main accepts names the protocol of this
\* instance.
ASSUME ControlPlaneAssumption ==
  /\ \A text \in Files \cup Bodies : \A s, t \in text : s = t
  /\ \A text \in Files \cup Bodies : ParseFlow(text) \subseteq Scenarios
  /\ \A scenario \in UNION Files : BuildExtractor(scenario) \subseteq {Protocol}

VARIABLES
  file,       \* Option: the scenario in the file, {} if it holds none
  main,       \* where main is
  server,     \* the listener of the control plane
  ended,      \* Option: which branch of main's select! came to an end
  handler,    \* where the request of each connection is
  log,        \* history: the flows stored, by version
  report      \* Option: the counters in the run report

mainVars    == <<file, main, server, ended, report>>
controlVars == <<handler, log>>
allVars     == <<vars, mainVars, controlVars>>

Connections == Posters \cup Readers

\* Stats::snapshot loads the counters one by one in this order.
LoadOrder == <<"forwarded", "dropped", "delayed", "duplicated", "send_errors",
               "queue_overflows">>
NoCounts == [c \in Counters |-> 0]

\* What the flow is before there is a proxy matters to nobody.
ControlInit ==
  /\ Init
  /\ file \in Files
  /\ ParseFlow(file) # {} => flow.toxics \in ParseFlow(file)
  /\ main = "config"
  /\ server \in {"absent", "unbound"}
  /\ ended = {}
  /\ handler = [c \in Connections |-> [at |-> "idle"]]
  /\ log = <<>>
  /\ report = {}

-----------------------------------------------------------------------------
(* main comes up.  Whatever goes wrong on the way ends the process with an *)
(* error and without a report.                                             *)

\* The group of a scenario is an Option of an address; IPv6 is refused.
MayJoin(group) == group # {"v6"}

\* The file is read and parsed, the flow and the extractor are built.
Configure ==
  /\ main = "config"
  /\ main' = IF \E s \in file : Usable(s)
             THEN "open" ELSE "failed"
  /\ UNCHANGED <<vars, file, server, ended, report, controlVars>>

\* A socket is created, set up and bound; the system may refuse any of it.
OpenSocket ==
  /\ main = "open"
  /\ main' \in {"join", "failed"}
  /\ UNCHANGED <<vars, file, server, ended, report, controlVars>>

\* It joins the group, if there is one, and is handed to the runtime; the
\* system may refuse either.
JoinGroup ==
  /\ main = "join"
  /\ \E s \in file : main' \in {"failed"} \cup (IF MayJoin(s.group) THEN {"run"} ELSE {})
  /\ UNCHANGED <<vars, file, server, ended, report, controlVars>>

StartUp == Configure \/ OpenSocket \/ JoinGroup

\* Mutant: the control plane is up before the proxy.
ServeFirst ==
  /\ server = "unbound"
  /\ server' = "serving"
  /\ UNCHANGED <<vars, file, main, ended, report, controlVars>>

\* serve: the listener is bound and connections are accepted.
Serve ==
  /\ main = "run" /\ Running
  /\ server = "unbound"
  /\ server' = "serving"
  /\ UNCHANGED <<vars, file, main, ended, report, controlVars>>

Serving == server = "serving" /\ Running

\* Flows that were stored or are about to be; bounded like the former.
Posting == published + Cardinality({c \in Posters : handler[c].at = "store"})

Moves(c, state) == handler' = [handler EXCEPT ![c] = state]

-----------------------------------------------------------------------------
(* POST /reload.  Parsing needs nothing but the body; the store and the    *)
(* answer that follows it are one step for everybody else.                 *)

\* Mutant: the answer does not wait for the store.
PostAnswersFirst(c) ==
  /\ Serving
  /\ handler[c].at = "idle"
  /\ \E b \in Bodies :
       Moves(c, IF ParseFlow(b) = {}
                THEN [at |-> "answered", status |-> 400]
                ELSE [at |-> "answered", status |-> 200, body |-> b, version |-> published + 1])
  /\ UNCHANGED <<vars, mainVars, log>>

\* Mutant: a bad scenario takes back the flow that waits in the cell.
PostClears(c) ==
  /\ Serving
  /\ handler[c].at = "idle"
  /\ \E b \in Bodies :
       IF ParseFlow(b) = {}
       THEN Moves(c, [at |-> "answered", status |-> 400]) /\ reload' = {}
       ELSE Moves(c, [at |-> "store", body |-> b]) /\ reload' = reload
  /\ UNCHANGED <<envVars, pc, flow, guards, published, delayQueue, job, stats, history,
                 mainVars, log>>

Post(c) ==
  /\ Serving
  /\ handler[c].at = "idle"
  /\ \E b \in Bodies :
       IF ParseFlow(b) = {}
       THEN Moves(c, [at |-> "answered", status |-> 400])
       ELSE Posting < MaxReloads /\ Moves(c, [at |-> "store", body |-> b])
  /\ UNCHANGED <<vars, mainVars, log>>

\* Mutant: a handler does not replace a flow that the loop has not taken.
StoreWaits(c) ==
  /\ handler[c].at = "store"
  /\ reload = {}
  /\ \E toxics \in ParseFlow(handler[c].body) :
       /\ PublishFlow(toxics)
       /\ log' = Append(log, toxics)
  /\ Moves(c, [at |-> "answered", status |-> 200, body |-> handler[c].body,
               version |-> published + 1])
  /\ UNCHANGED mainVars

Store(c) ==
  /\ handler[c].at = "store"
  /\ \E toxics \in ParseFlow(handler[c].body) :
       /\ PublishFlow(toxics)
       /\ log' = Append(log, toxics)
  /\ Moves(c, [at |-> "answered", status |-> 200, body |-> handler[c].body,
               version |-> published + 1])
  /\ UNCHANGED mainVars

-----------------------------------------------------------------------------
(* GET /metrics.  `floor` is history: the counters when the request came.  *)

Get(c) ==
  /\ Serving
  /\ handler[c].at = "idle"
  /\ Moves(c, [at |-> "load", next |-> 1, reading |-> NoCounts, floor |-> stats])
  /\ UNCHANGED <<vars, mainVars, log>>

Loaded(h, counter, value) ==
  [at      |-> IF h.next = Len(LoadOrder) THEN "read" ELSE "load",
   next    |-> h.next + 1,
   reading |-> [h.reading EXCEPT ![counter] = value],
   floor   |-> h.floor]

\* Mutant: the fields of the reading are filled in the wrong order.
LoadShuffled(c) ==
  /\ Running
  /\ handler[c].at = "load"
  /\ LET n == handler[c].next
     IN  Moves(c, Loaded(handler[c], LoadOrder[n], stats[LoadOrder[Len(LoadOrder) + 1 - n]]))
  /\ UNCHANGED <<vars, mainVars, log>>

LoadCounter(c) ==
  /\ Running
  /\ handler[c].at = "load"
  /\ LET counter == LoadOrder[handler[c].next]
     IN  Moves(c, Loaded(handler[c], counter, stats[counter]))
  /\ UNCHANGED <<vars, mainVars, log>>

\* The answer is out; the connection may send its next request.
Answer(c) ==
  /\ Running
  /\ handler[c].at \in {"answered", "read"}
  /\ Moves(c, [at |-> "idle"])
  /\ UNCHANGED <<vars, mainVars, log>>

-----------------------------------------------------------------------------
(* main polls the loop, the control plane and ctrl-c in one task: the end  *)
(* of one of them drops the others where they are.                         *)

\* Datagrams reach the socket as soon as it is bound.
DataPlane ==
  /\ \/ main = "run" /\ (SwapReload \/ Receive \/ Expire \/ SendSucceeds \/ SendFails \/ Tick)
     \/ main \in {"join", "run"} /\ Arrive
  /\ UNCHANGED <<mainVars, controlVars>>

Ends(branch) ==
  /\ main = "run"
  /\ ended' = {branch}
  /\ server' = "closed"
  /\ UNCHANGED <<file, main, report, controlVars>>

ProxyFails == ReceiveFails /\ Ends("proxy")

\* The address is taken, or accepting connections fails.
ServerFails == server \in {"unbound", "serving"} /\ Cancel /\ Ends("control plane")

Interrupt == Cancel /\ Ends("signal")

\* Mutant: the counters are taken before the proxy has ended.
ReportEarly ==
  /\ main = "run"
  /\ report = {} \/ ended # {}
  /\ report' = IF report = {} THEN {stats} ELSE report
  /\ main' = IF ended = {} THEN main ELSE "exited"
  /\ UNCHANGED <<vars, file, server, ended, controlVars>>

\* Mutant: an error of the proxy or the control plane is returned at once.
ReportOnSuccess ==
  /\ main = "run"
  /\ ended # {}
  /\ report' = IF ended = {"signal"} THEN {stats} ELSE {}
  /\ main' = "exited"
  /\ UNCHANGED <<vars, file, server, ended, controlVars>>

\* After select!, on every way out but a panic.
Report ==
  /\ main = "run"
  /\ ended # {}
  /\ report' = {stats}
  /\ main' = "exited"
  /\ UNCHANGED <<vars, file, server, ended, controlVars>>

Exited ==
  /\ main \in {"failed", "exited"} \/ pc = "panicked"
  /\ UNCHANGED allVars

ControlNext ==
  \/ StartUp
  \/ Serve
  \/ DataPlane
  \/ \E c \in Posters : Post(c) \/ Store(c) \/ Answer(c)
  \/ \E c \in Readers : Get(c) \/ LoadCounter(c) \/ Answer(c)
  \/ ProxyFails \/ ServerFails \/ Interrupt
  \/ Report
  \/ Exited

ControlSpec == ControlInit /\ [][ControlNext]_allVars

\* main goes on after its select!, and a handler's task runs on a thread of
\* its own until it has answered.  Nothing is asked of the loop.
ControlFairness ==
  /\ WF_allVars(Report)
  /\ \A c \in Posters : WF_allVars(Store(c) \/ Answer(c))
  /\ \A c \in Readers : WF_allVars(LoadCounter(c) \/ Answer(c))

FairControlSpec == ControlSpec /\ ControlFairness

-----------------------------------------------------------------------------
(* Properties.                                                             *)

\* Every step of the program is a step of Proxy as far as the proxy is
\* concerned: what holds of Proxy holds of the program, with handlers that
\* parse, store, answer and read at any moment.
IsProxy == Spec

\* All or nothing: a flow that was stored has every operator of a posted
\* scenario, none of them invalid.
PublishedWhole ==
  \A v \in 1 .. published :
    \E scenario \in UNION Bodies :
      /\ Len(log[v]) = Len(scenario.operators)
      /\ \A i \in 1 .. Len(log[v]) :
           Valid(scenario.operators[i]) /\ log[v][i] = Build(scenario.operators[i])

\* A client that has seen 200 has had its flow stored, and nobody else's
\* store went by the same version.
AcknowledgedIsPublished ==
  \A c \in Posters :
    handler[c].at = "answered" /\ handler[c].status = 200
    => /\ handler[c].version <= published
       /\ ParseFlow(handler[c].body) = {log[handler[c].version]}
       /\ \A d \in Posters \ {c} :
            handler[d].at = "answered" /\ handler[d].status = 200
            => handler[d].version # handler[c].version

\* Each counter of a reading is one it had between request and answer.
ReadingInRange ==
  \A c \in Readers :
    handler[c].at \in {"load", "read"} =>
      \A n \in 1 .. (handler[c].next - 1) :
        LET counter == LoadOrder[n]
        IN  /\ handler[c].floor[counter] <= handler[c].reading[counter]
            /\ handler[c].reading[counter] <= stats[counter]

\* What the report says is final.
ReportIsFinal == report \subseteq {stats}

\* A copy is counted after the send of its original.
Consistent(s) == s.duplicated <= s.forwarded + s.send_errors

\* The counters at any moment, and with them the report, are consistent.
MomentsConsistent == Consistent(stats) /\ \A r \in report : Consistent(r)

\* There is a program or there is none: it runs only with a flow, an
\* extractor and a group that hold, and before that, or if it is refused,
\* nobody is served, no packet is touched and nothing is reported.
StartsWhole ==
  IF main \in {"run", "exited"}
  THEN \E s \in file : Usable(s) /\ s.group # {"v6"}
  ELSE /\ \A c \in Connections : handler[c].at = "idle"
       /\ server # "serving"
       /\ published = 0
       /\ stats = NoCounts
       /\ report = {}

\* Whichever of the proxy, the control plane and ctrl-c ends the run, with
\* whatever packets in hand, it is reported.
EveryEndIsReported == pc = "stopped" ~> report # {}

\* No request waits for the loop, which may be parked for as long as no
\* packet comes: it is answered unless the program ends.
RequestsAreAnswered ==
  \A c \in Connections : handler[c].at # "idle" ~> (handler[c].at = "idle" \/ ~Running)

=============================================================================
