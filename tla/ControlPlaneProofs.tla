------------------------- MODULE ControlPlaneProofs -------------------------
(***************************************************************************)
(* Proofs about ControlPlane: the program with its handlers does to the    *)
(* data plane only what Proxy describes, and its report is final.          *)
(***************************************************************************)
EXTENDS ControlPlane, ProxyProofs

\* A handler that is about to store was given one of the bodies.
HandlerInv ==
  /\ DOMAIN handler = Connections
  /\ \A c \in Posters : handler[c].at = "store" => handler[c].body \in Bodies

\* A posted body becomes a flow that the proxy may run.
LEMMA ParseFlowType ==
  ASSUME NEW body \in Bodies
  PROVE  ParseFlow(body) \subseteq Scenarios
BY ControlPlaneAssumption

\* The handlers' steps that leave the proxy alone.
LEMMA HandlersLeaveProxy ==
  ASSUME NEW c, \/ Post(c) \/ Answer(c) \/ Get(c) \/ LoadCounter(c)
                \/ StartUp \/ Serve \/ Report \/ Exited
  PROVE  UNCHANGED vars
BY DEF Post, Answer, Get, LoadCounter, StartUp, Configure, OpenSocket, JoinGroup, Serve,
       Report, Exited, allVars, vars

\* A request that is not about to store keeps the bodies of the others.
LEMMA MovesKeepsHandlers ==
  ASSUME HandlerInv, NEW c \in Connections, NEW state, Moves(c, state),
         state.at = "store" => state.body \in Bodies
  PROVE  HandlerInv'
BY DEF HandlerInv, Moves, Connections

\* The steps of main's own task, and what happens to it.
MainStep == StartUp \/ Serve \/ DataPlane \/ ProxyFails \/ ServerFails \/ Interrupt
              \/ Report \/ Exited

\* main's task does not touch a request.
LEMMA MainLeavesHandlers ==
  ASSUME MainStep
  PROVE  UNCHANGED controlVars
<1>1. CASE StartUp
  BY <1>1 DEF StartUp, Configure, OpenSocket, JoinGroup
<1>2. CASE Serve
  BY <1>2 DEF Serve
<1>3. CASE DataPlane
  BY <1>3 DEF DataPlane
<1>4. CASE ProxyFails \/ ServerFails \/ Interrupt
  BY <1>4 DEF ProxyFails, ServerFails, Interrupt, Ends
<1>5. CASE Report \/ Exited
  BY <1>5 DEF Report, Exited, allVars
<1> QED
  BY <1>1, <1>2, <1>3, <1>4, <1>5 DEF MainStep

LEMMA HandlerInit == ControlInit => HandlerInv
<1> SUFFICES ASSUME ControlInit PROVE HandlerInv
  OBVIOUS
<1>1. handler = [c \in Connections |-> [at |-> "idle"]]
  BY DEF ControlInit
<1>2. \A c \in Connections : handler[c].at = "idle"
  BY <1>1
<1> QED
  BY <1>1, <1>2 DEF HandlerInv, Connections

LEMMA HandlerStep == HandlerInv /\ [ControlNext]_allVars => HandlerInv'
<1> SUFFICES ASSUME HandlerInv, [ControlNext]_allVars PROVE HandlerInv'
  OBVIOUS
<1>1. CASE UNCHANGED handler
  BY <1>1 DEF HandlerInv
<1>2. ASSUME NEW c \in Posters, Post(c) PROVE HandlerInv'
  <2>1. PICK b \in Bodies :
          IF ParseFlow(b) = {}
          THEN Moves(c, [at |-> "answered", status |-> 400])
          ELSE Posting < MaxReloads /\ Moves(c, [at |-> "store", body |-> b])
    BY <1>2 DEF Post
  <2>2. CASE ParseFlow(b) = {}
    <3>1. Moves(c, [at |-> "answered", status |-> 400])
      BY <2>1, <2>2
    <3> QED
      BY <3>1, MovesKeepsHandlers DEF Connections
  <2>3. CASE ParseFlow(b) # {}
    <3>1. Moves(c, [at |-> "store", body |-> b])
      BY <2>1, <2>3
    <3> QED
      BY <3>1, MovesKeepsHandlers DEF Connections
  <2> QED
    BY <2>2, <2>3
<1>3. ASSUME NEW c \in Posters, Store(c) PROVE HandlerInv'
  <2> DEFINE state == [at |-> "answered", status |-> 200, body |-> handler[c].body,
                       version |-> published + 1]
  <2>1. Moves(c, state) /\ state.at # "store"
    BY <1>3 DEF Store
  <2> HIDE DEF state
  <2> QED
    BY <2>1, MovesKeepsHandlers DEF Connections
<1>4. ASSUME NEW c \in Connections, Answer(c) PROVE HandlerInv'
  <2>1. Moves(c, [at |-> "idle"])
    BY <1>4 DEF Answer
  <2> QED
    BY <2>1, MovesKeepsHandlers
<1>5. ASSUME NEW c \in Readers, Get(c) PROVE HandlerInv'
  <2> DEFINE state == [at |-> "load", next |-> 1, reading |-> NoCounts, floor |-> stats]
  <2>1. Moves(c, state) /\ state.at # "store"
    BY <1>5 DEF Get
  <2> HIDE DEF state
  <2> QED
    BY <2>1, MovesKeepsHandlers DEF Connections
<1>6. ASSUME NEW c \in Readers, LoadCounter(c) PROVE HandlerInv'
  <2> DEFINE counter == LoadOrder[handler[c].next]
             state   == Loaded(handler[c], counter, stats[counter])
  <2>1. Moves(c, state)
    BY <1>6 DEF LoadCounter
  <2>2. state.at # "store"
    BY DEF Loaded
  <2> HIDE DEF state
  <2> QED
    BY <2>1, <2>2, MovesKeepsHandlers DEF Connections
<1>7. CASE MainStep \/ UNCHANGED allVars
  BY <1>1, <1>7, MainLeavesHandlers DEF controlVars, allVars
<1> QED
  BY <1>2, <1>3, <1>4, <1>5, <1>6, <1>7 DEF ControlNext, MainStep, Connections

\* What the program does to the proxy is a step of the proxy: the handlers
\* only ever publish a flow that some scenario builds.
LEMMA StepIsProxyStep == HandlerInv /\ [ControlNext]_allVars => [Next]_vars
<1> SUFFICES ASSUME HandlerInv, [ControlNext]_allVars PROVE [Next]_vars
  OBVIOUS
<1>1. CASE DataPlane \/ ProxyFails \/ ServerFails \/ Interrupt
  BY <1>1 DEF DataPlane, ProxyFails, ServerFails, Interrupt, Next, Loop, Environment
<1>2. ASSUME NEW c \in Posters, Store(c) PROVE Next
  <2>1. PICK toxics \in ParseFlow(handler[c].body) : PublishFlow(toxics)
    BY <1>2 DEF Store
  <2>2. handler[c].body \in Bodies
    BY <1>2 DEF Store, HandlerInv
  <2>3. toxics \in Scenarios
    BY <2>1, <2>2, ParseFlowType
  <2> QED
    BY <2>1, <2>3 DEF Publish, Next, Environment
<1>3. CASE UNCHANGED allVars
  BY <1>3 DEF allVars
<1> QED
  BY <1>1, <1>2, <1>3, HandlersLeaveProxy DEF ControlNext

\* The program implements Proxy, for any scenarios, bodies and clients: no
\* handler that parses, stores, answers or reads does anything to the data
\* plane but publish flows that a scenario builds, so the theorems about
\* Proxy hold of the program.
THEOREM ProgramIsProxy == ControlSpec => IsProxy
<1>1. ControlInit => Init
  BY DEF ControlInit
<1> QED
  BY <1>1, HandlerInit, HandlerStep, StepIsProxyStep, PTL DEF ControlSpec, IsProxy, Spec

-----------------------------------------------------------------------------

\* select! has come to an end only once the loop is gone; then there may be
\* a report, and it says what the counters say.
ReportInv ==
  /\ report \subseteq {stats}
  /\ ended # {} => ~Running
  /\ report # {} => ended # {}

\* Once the loop is gone nothing touches the counters.
LEMMA NoStepAfterEnd ==
  ASSUME ~Running, [Next]_vars
  PROVE  UNCHANGED <<stats, pc>>
BY DEF Running, Next, Loop, Environment, Halted, vars, SwapReload, Receive, ReceiveFails,
       Expire, SendSucceeds, SendFails, Arrive, Tick, Publish, PublishFlow, Load, Release, Cancel

\* What ends select! ends the loop.
LEMMA EndsStopTheLoop ==
  ASSUME ProxyFails \/ ServerFails \/ Interrupt
  PROVE  /\ pc' = "stopped"
         /\ ended' # {}
         /\ UNCHANGED <<stats, report>>
<1>1. CASE ProxyFails
  BY <1>1 DEF ProxyFails, ReceiveFails, Halt, Ends
<1>2. CASE ServerFails \/ Interrupt
  BY <1>2 DEF ServerFails, Interrupt, Cancel, Halt, Ends
<1> QED
  BY <1>1, <1>2

\* Nothing else ends select!, and only main writes the report.
LEMMA OthersLeaveTheEnd ==
  ASSUME [ControlNext]_allVars, ~(ProxyFails \/ ServerFails \/ Interrupt), ~Report
  PROVE  UNCHANGED <<ended, report>>
BY DEF ControlNext, StartUp, Configure, OpenSocket, JoinGroup, Serve, DataPlane, Post, Store,
       Get, LoadCounter, Answer, Exited, mainVars, allVars

LEMMA ReportStep == HandlerInv /\ ReportInv /\ [ControlNext]_allVars => ReportInv'
<1> SUFFICES ASSUME HandlerInv, ReportInv, [ControlNext]_allVars PROVE ReportInv'
  OBVIOUS
<1>1. [Next]_vars
  BY StepIsProxyStep
<1>2. CASE Report
  BY <1>2 DEF Report, ReportInv, Running, vars
<1>3. CASE ProxyFails \/ ServerFails \/ Interrupt
  BY <1>3, EndsStopTheLoop DEF ReportInv, Running
<1>4. CASE ~(ProxyFails \/ ServerFails \/ Interrupt) /\ ~Report
  <2>1. UNCHANGED <<ended, report>>
    BY <1>4, OthersLeaveTheEnd
  <2>2. CASE ended = {}
    BY <2>1, <2>2 DEF ReportInv
  <2>3. CASE ended # {}
    <3>1. UNCHANGED <<stats, pc>>
      BY <2>3, <1>1, NoStepAfterEnd DEF ReportInv
    <3> QED
      BY <2>1, <3>1 DEF ReportInv, Running
  <2> QED
    BY <2>2, <2>3
<1> QED
  BY <1>2, <1>3, <1>4

\* The counters in the run report are the final ones: neither the loop nor
\* a handler that is still at work changes a counter after the report.
THEOREM ReportSaysTheEnd == ControlSpec => []ReportIsFinal
<1>1. ControlInit => ReportInv
  BY DEF ControlInit, ReportInv
<1>2. ReportInv => ReportIsFinal
  BY DEF ReportInv, ReportIsFinal
<1> QED
  BY <1>1, <1>2, HandlerInit, HandlerStep, ReportStep, PTL DEF ControlSpec

-----------------------------------------------------------------------------

\* Before main runs nothing has happened but arrivals; it has passed
\* Configure only with a scenario that holds.
StartInv ==
  /\ StartsWhole
  /\ file \in Files
  /\ main \in {"open", "join"} => \E s \in file : Usable(s)

LEMMA StartInit == ControlInit => StartInv
<1> SUFFICES ASSUME ControlInit PROVE StartInv
  OBVIOUS
<1>1. \A c \in Connections : handler[c].at = "idle"
  <2>1. handler = [c \in Connections |-> [at |-> "idle"]]
    BY DEF ControlInit
  <2> QED
    BY <2>1
<1>2. published = 0 /\ stats = NoCounts
  BY DEF ControlInit, Init, NoCounts
<1> QED
  BY <1>1, <1>2 DEF ControlInit, StartInv, StartsWhole

\* What happens while main runs does not end the start.
LEMMA RunningKeepsStart ==
  ASSUME StartInv, main \in {"run", "exited"}, main' \in {"run", "exited"}, UNCHANGED file
  PROVE  StartInv'
BY DEF StartInv, StartsWhole

\* A handler works only in a program that runs.
LEMMA HandlersNeedTheProgram ==
  ASSUME StartInv, NEW c \in Connections,
         Post(c) \/ Store(c) \/ Answer(c) \/ Get(c) \/ LoadCounter(c)
  PROVE  StartInv'
<1>1. UNCHANGED <<main, file>>
  BY DEF Post, Store, Answer, Get, LoadCounter, mainVars
<1>2. server = "serving" \/ handler[c].at # "idle"
  BY DEF Post, Store, Answer, Get, LoadCounter, Serving
<1>3. main \in {"run", "exited"}
  BY <1>2 DEF StartInv, StartsWhole
<1> QED
  BY <1>1, <1>3, RunningKeepsStart

LEMMA StartStep == StartInv /\ [ControlNext]_allVars => StartInv'
<1> SUFFICES ASSUME StartInv, [ControlNext]_allVars PROVE StartInv'
  OBVIOUS
<1>1. CASE Configure
  BY <1>1 DEF Configure, vars, controlVars, StartInv, StartsWhole
<1>2. CASE OpenSocket
  BY <1>2 DEF OpenSocket, vars, controlVars, StartInv, StartsWhole
<1>3. CASE JoinGroup
  <2>1. PICK s \in file :
          main' \in {"failed"} \cup (IF MayJoin(s.group) THEN {"run"} ELSE {})
    BY <1>3 DEF JoinGroup
  <2>2. main = "join" /\ UNCHANGED <<vars, file, server, report, controlVars>>
    BY <1>3 DEF JoinGroup
  <2>3. CASE main' = "failed"
    BY <2>2, <2>3 DEF vars, controlVars, StartInv, StartsWhole
  <2>4. CASE main' = "run"
    <3>1. s.group # {"v6"}
      BY <2>1, <2>4 DEF MayJoin
    <3>2. PICK t \in file : Usable(t)
      BY <2>2 DEF StartInv
    <3>3. s = t
      BY ControlPlaneAssumption DEF StartInv
    <3> QED
      BY <2>2, <2>4, <3>1, <3>2, <3>3 DEF StartInv, StartsWhole
  <2> QED
    BY <2>1, <2>3, <2>4
<1>4. CASE Serve \/ ProxyFails \/ ServerFails \/ Interrupt \/ Report
  BY <1>4, RunningKeepsStart DEF Serve, ProxyFails, ServerFails, Interrupt, Ends, Report
<1>5. CASE DataPlane
  <2>1. UNCHANGED <<mainVars, controlVars>>
    BY <1>5 DEF DataPlane
  <2>2. CASE main = "run"
    BY <2>1, <2>2, RunningKeepsStart DEF mainVars
  <2>3. CASE Arrive
    BY <2>1, <2>3 DEF Arrive, cellVars, mainVars, controlVars, StartInv, StartsWhole
  <2> QED
    BY <1>5, <2>2, <2>3 DEF DataPlane
<1>6. CASE UNCHANGED allVars
  BY <1>6 DEF allVars, vars, mainVars, controlVars, StartInv, StartsWhole
<1> QED
  BY <1>1, <1>2, <1>3, <1>4, <1>5, <1>6, HandlersNeedTheProgram
  DEF ControlNext, StartUp, Connections, Exited

\* A program runs only with all of its parts, and one that is refused has
\* served nobody, for any files, groups and clients.
THEOREM StartIsAllOrNothing == ControlSpec => []StartsWhole
<1>1. StartInv => StartsWhole
  BY DEF StartInv
<1> QED
  BY <1>1, StartInit, StartStep, PTL DEF ControlSpec

-----------------------------------------------------------------------------

\* What the posted bodies describe.
PostedFlows == UNION {ParseFlow(b) : b \in Bodies}

Accepted(c) == handler[c].at = "answered" /\ handler[c].status = 200

\* The log has one entry for each flow stored, and every acknowledgement
\* holds the version of its own.
LogInv ==
  /\ log \in Seq(PostedFlows)
  /\ published = Len(log)
  /\ \A c \in Posters :
       Accepted(c) => /\ handler[c].version \in 1 .. published
                      /\ ParseFlow(handler[c].body) = {log[handler[c].version]}
                      /\ \A d \in Posters \ {c} :
                           Accepted(d) => handler[d].version # handler[c].version

\* A step without a new acknowledgement, and without a store.
LEMMA LogKept ==
  ASSUME LogInv, UNCHANGED <<log, published>>,
         \A c \in Posters : Accepted(c)' => UNCHANGED handler[c]
  PROVE  LogInv'
<1>1. \A c \in Posters : Accepted(c)' => Accepted(c)
  BY DEF Accepted
<1> QED
  BY <1>1 DEF LogInv

\* A request moves, but not to an acknowledgement.
LEMMA MovesKeepsLog ==
  ASSUME LogInv, UNCHANGED <<log, published>>, HandlerInv,
         NEW c \in Connections, NEW state, Moves(c, state),
         ~(state.at = "answered" /\ state.status = 200)
  PROVE  LogInv'
<1>1. \A d \in Posters : Accepted(d)' => UNCHANGED handler[d]
  <2> SUFFICES ASSUME NEW d \in Posters, Accepted(d)' PROVE UNCHANGED handler[d]
    OBVIOUS
  <2>1. handler' = [handler EXCEPT ![c] = state] /\ d \in DOMAIN handler
    BY DEF Moves, HandlerInv, Connections
  <2>2. CASE d = c
    BY <2>1, <2>2 DEF Accepted
  <2>3. CASE d # c
    BY <2>1, <2>3
  <2> QED
    BY <2>2, <2>3
<1> QED
  BY <1>1, LogKept

LEMMA StoreKeepsLog ==
  ASSUME LogInv, HandlerInv, NEW c \in Posters, Store(c)
  PROVE  LogInv'
<1>1. handler[c].body \in Bodies
  BY DEF Store, HandlerInv
<1>2. PICK toxics \in ParseFlow(handler[c].body) :
        PublishFlow(toxics) /\ log' = Append(log, toxics)
  BY DEF Store
<1>3. toxics \in PostedFlows
  BY <1>1, <1>2 DEF PostedFlows
<1>4. ParseFlow(handler[c].body) = {toxics}
  <2>1. \A s, t \in handler[c].body : s = t
    BY <1>1, ControlPlaneAssumption
  <2>2. \A s \in handler[c].body : \A x, y \in BuildFlow(s) : x = y
    BY DEF BuildFlow
  <2>3. ParseFlow(handler[c].body) = UNION {BuildFlow(s) : s \in handler[c].body}
    BY DEF ParseFlow
  <2>4. \A x, y \in ParseFlow(handler[c].body) : x = y
    BY <2>1, <2>2, <2>3
  <2> QED
    BY <2>4, <1>2
<1>5. published' = published + 1
  BY <1>2 DEF PublishFlow
<1>6. /\ log' \in Seq(PostedFlows)
      /\ Len(log') = Len(log) + 1
      /\ log'[Len(log) + 1] = toxics
      /\ \A v \in 1 .. Len(log) : log'[v] = log[v]
  BY <1>2, <1>3 DEF LogInv
<1>7. published \in Nat
  BY DEF LogInv
<1> DEFINE state == [at |-> "answered", status |-> 200, body |-> handler[c].body,
                     version |-> published + 1]
<1>8. handler' = [handler EXCEPT ![c] = state] /\ Posters \subseteq DOMAIN handler
  BY DEF Store, Moves, HandlerInv, Connections
<1>9. handler'[c] = state /\ \A d \in Posters \ {c} : handler'[d] = handler[d]
  BY <1>8
<1>10. /\ handler'[c].version = published + 1
       /\ handler'[c].body = handler[c].body
  BY <1>9
<1>11. \A d \in Posters \ {c} :
         Accepted(d)' => /\ Accepted(d)
                         /\ handler'[d].version = handler[d].version
                         /\ handler'[d].body = handler[d].body
                         /\ handler[d].version \in 1 .. published
                         /\ ParseFlow(handler[d].body) = {log[handler[d].version]}
  <2> SUFFICES ASSUME NEW d \in Posters \ {c}, Accepted(d)'
               PROVE  /\ Accepted(d)
                      /\ handler'[d] = handler[d]
                      /\ handler[d].version \in 1 .. published
                      /\ ParseFlow(handler[d].body) = {log[handler[d].version]}
    OBVIOUS
  <2>1. handler'[d] = handler[d]
    BY <1>9
  <2>2. Accepted(d)
    BY <2>1 DEF Accepted
  <2> QED
    BY <2>1, <2>2 DEF LogInv
<1>12. ASSUME NEW d \in Posters, Accepted(d)'
       PROVE  /\ handler'[d].version \in 1 .. published'
              /\ ParseFlow(handler'[d].body) = {log'[handler'[d].version]}
  <2>1. CASE d = c
    BY <2>1, <1>10, <1>4, <1>5, <1>6, <1>7 DEF LogInv
  <2>2. CASE d # c
    <3>1. /\ handler'[d].version = handler[d].version
          /\ handler'[d].body = handler[d].body
          /\ handler[d].version \in 1 .. published
          /\ ParseFlow(handler[d].body) = {log[handler[d].version]}
      BY <2>2, <1>12, <1>11
    <3>2. log'[handler[d].version] = log[handler[d].version]
      BY <3>1, <1>6 DEF LogInv
    <3>3. handler[d].version \in 1 .. published'
      BY <3>1, <1>5, <1>7
    <3> QED
      BY <3>1, <3>2, <3>3
  <2> QED
    BY <2>1, <2>2
<1>13. ASSUME NEW d \in Posters, Accepted(d)', NEW e \in Posters \ {d}, Accepted(e)'
       PROVE  handler'[e].version # handler'[d].version
  <2>1. CASE d = c
    BY <2>1, <1>13, <1>10, <1>11, <1>7
  <2>2. CASE e = c
    BY <2>2, <1>13, <1>10, <1>11, <1>7
  <2>3. CASE d # c /\ e # c
    BY <2>3, <1>13, <1>11 DEF LogInv
  <2> QED
    BY <2>1, <2>2, <2>3
<1>14. published' = Len(log')
  BY <1>5, <1>6 DEF LogInv
<1> QED
  BY <1>6, <1>12, <1>13, <1>14 DEF LogInv

LEMMA LogStep == LogInv /\ HandlerInv /\ [ControlNext]_allVars => LogInv'
<1> SUFFICES ASSUME LogInv, HandlerInv, [ControlNext]_allVars PROVE LogInv'
  OBVIOUS
<1>1. CASE MainStep \/ UNCHANGED allVars
  <2>1. UNCHANGED controlVars
    BY <1>1, MainLeavesHandlers DEF allVars
  <2>2. UNCHANGED published
    BY <1>1 DEF MainStep, StartUp, Configure, OpenSocket, JoinGroup, Serve, DataPlane,
                SwapReload, Receive, Expire, SendSucceeds, SendFails, Sent, Tick, Arrive,
                ProxyFails, ServerFails, Interrupt, ReceiveFails, Cancel, Report, Exited,
                cellVars, vars, allVars
  <2> QED
    BY <2>1, <2>2, LogKept DEF controlVars
<1>2. ASSUME NEW c \in Posters, Post(c) PROVE LogInv'
  <2>1. UNCHANGED <<log, published>>
    BY <1>2 DEF Post, vars
  <2>2. PICK b \in Bodies : \/ Moves(c, [at |-> "answered", status |-> 400])
                             \/ Moves(c, [at |-> "store", body |-> b])
    BY <1>2 DEF Post
  <2>3. CASE Moves(c, [at |-> "answered", status |-> 400])
    <3>1. [at |-> "answered", status |-> 400].status # 200
      OBVIOUS
    <3> QED
      BY <2>1, <2>3, <3>1, MovesKeepsLog DEF Connections
  <2>4. CASE Moves(c, [at |-> "store", body |-> b])
    BY <2>1, <2>4, MovesKeepsLog DEF Connections
  <2> QED
    BY <2>2, <2>3, <2>4
<1>3. ASSUME NEW c \in Connections, Answer(c) PROVE LogInv'
  <2>1. Moves(c, [at |-> "idle"]) /\ UNCHANGED <<log, published>>
    BY <1>3 DEF Answer, vars
  <2> QED
    BY <2>1, MovesKeepsLog
<1>4. ASSUME NEW c \in Readers, Get(c) PROVE LogInv'
  <2> DEFINE state == [at |-> "load", next |-> 1, reading |-> NoCounts, floor |-> stats]
  <2>1. Moves(c, state) /\ state.at = "load" /\ UNCHANGED <<log, published>>
    BY <1>4 DEF Get, vars
  <2> HIDE DEF state
  <2> QED
    BY <2>1, MovesKeepsLog DEF Connections
<1>5. ASSUME NEW c \in Readers, LoadCounter(c) PROVE LogInv'
  <2> DEFINE counter == LoadOrder[handler[c].next]
             state   == Loaded(handler[c], counter, stats[counter])
  <2>1. Moves(c, state) /\ UNCHANGED <<log, published>>
    BY <1>5 DEF LoadCounter, vars
  <2>2. state.at # "answered"
    BY DEF Loaded
  <2> HIDE DEF state
  <2> QED
    BY <2>1, <2>2, MovesKeepsLog DEF Connections
<1> QED
  BY <1>1, <1>2, <1>3, <1>4, <1>5, StoreKeepsLog DEF ControlNext, MainStep, Connections

LEMMA LogInit == ControlInit => LogInv
<1> SUFFICES ASSUME ControlInit PROVE LogInv
  OBVIOUS
<1>1. \A c \in Connections : handler[c].at = "idle"
  <2>1. handler = [c \in Connections |-> [at |-> "idle"]]
    BY DEF ControlInit
  <2> QED
    BY <2>1
<1>2. log = <<>> /\ published = 0
  BY DEF ControlInit, Init
<1> QED
  BY <1>1, <1>2 DEF LogInv, Accepted, Connections

\* 200 means that the flow of the body was stored, as a version that no other
\* request was acknowledged with, however many clients post at once.
THEOREM AcknowledgedIsStored == ControlSpec => []AcknowledgedIsPublished
<1>1. LogInv => AcknowledgedIsPublished
  <2> SUFFICES ASSUME LogInv, NEW c \in Posters, Accepted(c)
               PROVE  /\ handler[c].version <= published
                      /\ ParseFlow(handler[c].body) = {log[handler[c].version]}
                      /\ \A d \in Posters \ {c} :
                           Accepted(d) => handler[d].version # handler[c].version
    BY DEF AcknowledgedIsPublished, Accepted
  <2>1. published \in Nat
    BY DEF LogInv
  <2>2. /\ handler[c].version \in 1 .. published
        /\ ParseFlow(handler[c].body) = {log[handler[c].version]}
        /\ \A d \in Posters \ {c} :
             Accepted(d) => handler[d].version # handler[c].version
    BY DEF LogInv
  <2>3. \A v \in 1 .. published : v <= published
    BY <2>1
  <2> QED
    BY <2>2, <2>3
<1> QED
  BY <1>1, LogInit, LogStep, HandlerInit, HandlerStep, PTL DEF ControlSpec

\* Every flow that was ever stored is a posted scenario as a whole.
THEOREM ReloadsAreWhole == ControlSpec => []PublishedWhole
<1>1. LogInv => PublishedWhole
  <2> SUFFICES ASSUME LogInv, NEW v \in 1 .. published
               PROVE  \E scenario \in UNION Bodies :
                        /\ Len(log[v]) = Len(scenario.operators)
                        /\ \A i \in 1 .. Len(log[v]) :
                             /\ Valid(scenario.operators[i])
                             /\ log[v][i] = Build(scenario.operators[i])
    BY DEF PublishedWhole
  <2>1. log[v] \in PostedFlows
    BY DEF LogInv
  <2>2. PICK b \in Bodies : log[v] \in ParseFlow(b)
    BY <2>1 DEF PostedFlows
  <2>3. PICK scenario \in b : log[v] \in BuildFlow(scenario)
    BY <2>2 DEF ParseFlow
  <2>4. /\ \A i \in 1 .. Len(scenario.operators) : Valid(scenario.operators[i])
        /\ log[v] = [i \in 1 .. Len(scenario.operators) |-> Build(scenario.operators[i])]
    BY <2>3 DEF BuildFlow
  <2>5. log[v] \in Seq(Toxic)
    BY <2>2, ControlPlaneAssumption, ProxyAssumption
  <2>6. DOMAIN log[v] = 1 .. Len(log[v]) /\ Len(log[v]) \in Nat
    BY <2>5
  <2>7. Len(log[v]) = Len(scenario.operators)
    BY <2>4, <2>6
  <2> QED
    BY <2>4, <2>7, <2>3
<1> QED
  BY <1>1, LogInit, LogStep, HandlerInit, HandlerStep, PTL DEF ControlSpec

-----------------------------------------------------------------------------
(* The counters, in a reading of /metrics and in the report.               *)

\* One more for a counter, and no less for the others.
LEMMA CountGrows ==
  ASSUME NEW s \in [Counters -> Nat], NEW counter \in Counters
  PROVE  /\ Count(s, counter) \in [Counters -> Nat]
         /\ Count(s, counter)[counter] = s[counter] + 1
         /\ \A c \in Counters \ {counter} : Count(s, counter)[c] = s[c]
         /\ \A c \in Counters : s[c] <= Count(s, counter)[c]
BY DEF Count

\* No step of the data plane takes a counter back, and a copy is counted in
\* the step that counts the send of its original.
LEMMA CountersGrow ==
  ASSUME TypeOK, [Next]_vars
  PROVE  /\ \A c \in Counters : stats[c] <= stats'[c]
         /\ Consistent(stats) => Consistent(stats')
<1>1. stats \in [Counters -> Nat]
  BY DEF TypeOK
<1>2. \A c \in Counters : stats[c] \in Nat
  BY <1>1
<1>3. {"forwarded", "send_errors", "duplicated"} \subseteq Counters
  BY DEF Counters
<1>4. CASE UNCHANGED stats
  BY <1>2, <1>4
<1>5. ASSUME NEW counter \in Counters \ {"duplicated"}, stats' = Count(stats, counter)
      PROVE  /\ \A c \in Counters : stats[c] <= stats'[c]
             /\ Consistent(stats) => Consistent(stats')
  <2>1. stats'["duplicated"] = stats["duplicated"] /\ \A c \in Counters : stats[c] <= stats'[c]
    BY <1>1, <1>3, <1>5, CountGrows
  <2>2. stats' \in [Counters -> Nat]
    BY <1>1, <1>5, CountGrows
  <2> QED
    BY <1>2, <1>3, <2>1, <2>2 DEF Consistent
<1>6. CASE Receive
  <2>1. \/ UNCHANGED stats
        \/ \E counter \in {"dropped", "delayed", "queue_overflows"} :
             stats' = Count(stats, counter)
    BY <1>6 DEF Receive, OnForward, OnDrop, OnDelay, OnOversizedDelay, OnDuplicate, CountEnqueue
  <2>2. {"dropped", "delayed", "queue_overflows"} \subseteq Counters \ {"duplicated"}
    BY DEF Counters
  <2> QED
    BY <1>4, <1>5, <2>1, <2>2
<1>7. ASSUME NEW j \in job, NEW outcome \in {"forwarded", "send_errors"}, Sent(j, outcome)
      PROVE  /\ \A c \in Counters : stats[c] <= stats'[c]
             /\ Consistent(stats) => Consistent(stats')
  <2>1. outcome \in Counters \ {"duplicated"} /\ "queue_overflows" \in Counters
    BY DEF Counters
  <2>2. CASE j.copyAfter = {}
    BY <1>5, <1>7, <2>1, <2>2 DEF Sent
  <2>3. CASE j.copyAfter # {}
    <3> DEFINE once == Count(stats, outcome)
    <3>1. PICK counter \in {"duplicated", "queue_overflows"} : stats' = Count(once, counter)
      BY <1>7, <2>3 DEF Sent, CountEnqueue
    <3>2. /\ once \in [Counters -> Nat] /\ once[outcome] = stats[outcome] + 1
          /\ \A c \in Counters \ {outcome} : once[c] = stats[c]
          /\ \A c \in Counters : stats[c] <= once[c]
      BY <1>1, <2>1, CountGrows
    <3>3. counter \in Counters
      BY <1>3, <2>1, <3>1
    <3> HIDE DEF once
    <3>4. /\ stats' \in [Counters -> Nat] /\ stats'[counter] = once[counter] + 1
          /\ \A c \in Counters \ {counter} : stats'[c] = once[c]
          /\ \A c \in Counters : once[c] <= stats'[c]
      BY <3>1, <3>2, <3>3, CountGrows
    <3>5. \A c \in Counters : once[c] \in Nat /\ stats'[c] \in Nat
      BY <3>2, <3>4
    <3>6. \A c \in Counters : stats[c] <= stats'[c]
      BY <1>2, <3>2, <3>4, <3>5
    <3>7. stats'["duplicated"] <= stats["duplicated"] + 1
      <4>1. once["duplicated"] = stats["duplicated"]
        BY <1>3, <2>1, <3>2
      <4>2. stats'["duplicated"] \in {once["duplicated"], once["duplicated"] + 1}
        BY <1>3, <3>1, <3>4
      <4> QED
        BY <1>2, <1>3, <4>1, <4>2
    <3>8. stats'["forwarded"] + stats'["send_errors"]
            >= stats["forwarded"] + stats["send_errors"] + 1
      <4>1. /\ stats'["forwarded"] = once["forwarded"]
            /\ stats'["send_errors"] = once["send_errors"]
        BY <1>3, <3>1, <3>4
      <4>2. CASE outcome = "forwarded"
        BY <1>2, <1>3, <3>2, <3>5, <4>1, <4>2
      <4>3. CASE outcome = "send_errors"
        BY <1>2, <1>3, <3>2, <3>5, <4>1, <4>3
      <4> QED
        BY <4>2, <4>3
    <3>9. \A c \in Counters : stats[c] \in Int /\ stats'[c] \in Int
      BY <1>2, <3>5
    <3> QED
      BY <1>3, <3>6, <3>7, <3>8, <3>9 DEF Consistent
  <2> QED
    BY <2>2, <2>3
<1>8. CASE SendSucceeds \/ SendFails
  BY <1>7, <1>8 DEF SendSucceeds, SendFails
<1>9. CASE SwapReload \/ ReceiveFails \/ Expire \/ Environment \/ Halted \/ UNCHANGED vars
  <2>1. UNCHANGED stats
    BY <1>9 DEF SwapReload, ReceiveFails, Expire, Environment, Arrive, Tick, Publish,
                PublishFlow, Load, Release, Cancel, Halted, vars
  <2> QED
    BY <1>4, <2>1
<1> QED
  BY <1>6, <1>8, <1>9 DEF Next, Loop

ConsistentInv == Consistent(stats)

\* At any moment, and so in the report, no more copies are counted than
\* sends, for any traffic and any end of the run.
THEOREM MomentsAreConsistent == ControlSpec => []MomentsConsistent
<1>1. ControlInit => ConsistentInv
  <2> SUFFICES ASSUME ControlInit PROVE ConsistentInv
    OBVIOUS
  <2>1. stats = [c \in Counters |-> 0]
    BY DEF ControlInit, Init
  <2>2. stats.duplicated = 0 /\ stats.forwarded = 0 /\ stats.send_errors = 0
    BY <2>1 DEF Counters
  <2> QED
    BY <2>2 DEF ConsistentInv, Consistent
<1>2. TypeOK /\ ConsistentInv /\ HandlerInv /\ [ControlNext]_allVars => ConsistentInv'
  BY CountersGrow, StepIsProxyStep DEF ConsistentInv
<1>3. ReportInv /\ ConsistentInv => MomentsConsistent
  BY DEF ReportInv, ConsistentInv, MomentsConsistent
<1>4. ControlInit => ReportInv
  BY DEF ControlInit, ReportInv
<1>5. ControlSpec => []TypeOK
  BY ProgramIsProxy, TypeCorrectness DEF IsProxy
<1> QED
  BY <1>1, <1>2, <1>3, <1>4, <1>5, HandlerInit, HandlerStep, ReportStep, PTL DEF ControlSpec

\* The counters of a request that has loaded those before the n-th: they were
\* loaded when they had their value, after the request came.
LoadedBefore(h, n) ==
  /\ h.reading \in [Counters -> Nat] /\ h.floor \in [Counters -> Nat]
  /\ \A k \in Counters : h.floor[k] <= stats[k]
  /\ \A m \in 1 .. (n - 1) :
       /\ h.floor[LoadOrder[m]] <= h.reading[LoadOrder[m]]
       /\ h.reading[LoadOrder[m]] <= stats[LoadOrder[m]]

ReadingInv ==
  \A c \in Readers :
    handler[c].at \in {"load", "read"} =>
      /\ handler[c].next \in 1 .. (Len(LoadOrder) + 1)
      /\ handler[c].at = "load" => handler[c].next <= Len(LoadOrder)
      /\ LoadedBefore(handler[c], handler[c].next)

LEMMA LoadOrderIsCounters ==
  /\ Len(LoadOrder) = 6
  /\ \A n \in 1 .. 6 : LoadOrder[n] \in Counters
BY DEF LoadOrder, Counters

\* While the others work the counters only grow.
LEMMA ReadingKept ==
  ASSUME TypeOK, ReadingInv, NEW c \in Readers, UNCHANGED handler[c],
         \A k \in Counters : stats[k] <= stats'[k], TypeOK',
         (handler[c].at \in {"load", "read"})'
  PROVE  /\ handler'[c].next \in 1 .. (Len(LoadOrder) + 1)
         /\ handler'[c].at = "load" => handler'[c].next <= Len(LoadOrder)
         /\ LoadedBefore(handler[c], handler[c].next)'
<1>1. /\ handler[c].next \in 1 .. (Len(LoadOrder) + 1)
      /\ handler[c].at = "load" => handler[c].next <= Len(LoadOrder)
      /\ LoadedBefore(handler[c], handler[c].next)
  BY DEF ReadingInv
<1>2. \A k \in Counters : stats[k] \in Nat /\ stats'[k] \in Nat
  BY DEF TypeOK
<1> DEFINE h == handler[c]
<1>3. h.reading \in [Counters -> Nat] /\ h.floor \in [Counters -> Nat]
  BY <1>1 DEF LoadedBefore
<1>4. \A k \in Counters : h.reading[k] \in Nat /\ h.floor[k] \in Nat
  BY <1>3
<1>5. \A k \in Counters : h.floor[k] <= stats'[k]
  BY <1>1, <1>2, <1>4 DEF LoadedBefore
<1>6. \A m \in 1 .. (h.next - 1) :
        /\ h.floor[LoadOrder[m]] <= h.reading[LoadOrder[m]]
        /\ h.reading[LoadOrder[m]] <= stats'[LoadOrder[m]]
  <2> SUFFICES ASSUME NEW m \in 1 .. (h.next - 1)
               PROVE  /\ h.floor[LoadOrder[m]] <= h.reading[LoadOrder[m]]
                      /\ h.reading[LoadOrder[m]] <= stats'[LoadOrder[m]]
    OBVIOUS
  <2>1. LoadOrder[m] \in Counters
    BY <1>1, LoadOrderIsCounters
  <2>2. /\ h.floor[LoadOrder[m]] <= h.reading[LoadOrder[m]]
        /\ h.reading[LoadOrder[m]] <= stats[LoadOrder[m]]
    BY <1>1 DEF LoadedBefore
  <2> QED
    BY <1>2, <1>4, <2>1, <2>2
<1> QED
  BY <1>1, <1>3, <1>5, <1>6 DEF LoadedBefore

\* A load adds one more counter, with the value that it has.
LEMMA LoadKeepsReading ==
  ASSUME TypeOK, HandlerInv, ReadingInv, NEW c \in Readers, LoadCounter(c)
  PROVE  /\ (handler[c].at \in {"load", "read"})'
         /\ handler'[c].next \in 1 .. (Len(LoadOrder) + 1)
         /\ handler'[c].at = "load" => handler'[c].next <= Len(LoadOrder)
         /\ LoadedBefore(handler[c], handler[c].next)'
<1> DEFINE h       == handler[c]
           counter == LoadOrder[h.next]
           after   == Loaded(h, counter, stats[counter])
<1>1. h.at = "load" /\ handler' = [handler EXCEPT ![c] = after] /\ UNCHANGED stats
  BY DEF LoadCounter, Moves, vars
<1>2. h.next \in 1 .. 6 /\ LoadedBefore(h, h.next)
  BY <1>1, LoadOrderIsCounters DEF ReadingInv
<1>3. counter \in Counters
  BY <1>2, LoadOrderIsCounters
<1>4. h.reading \in [Counters -> Nat] /\ h.floor \in [Counters -> Nat]
      /\ stats \in [Counters -> Nat]
  BY <1>2 DEF LoadedBefore, TypeOK
<1>5. handler'[c] = after
  BY <1>1 DEF HandlerInv, Connections
<1>6. /\ after.at = (IF h.next = 6 THEN "read" ELSE "load")
      /\ after.next = h.next + 1
      /\ after.reading = [h.reading EXCEPT ![counter] = stats[counter]]
      /\ after.floor = h.floor
  BY LoadOrderIsCounters DEF Loaded
<1>7. /\ after.reading \in [Counters -> Nat]
      /\ \A k \in Counters :
           after.reading[k] = IF k = counter THEN stats[k] ELSE h.reading[k]
  BY <1>3, <1>4, <1>6
<1>8. ASSUME NEW m \in 1 .. (after.next - 1)
      PROVE  /\ after.floor[LoadOrder[m]] <= after.reading[LoadOrder[m]]
             /\ after.reading[LoadOrder[m]] <= stats[LoadOrder[m]]
  <2>1. m \in 1 .. 6 /\ LoadOrder[m] \in Counters /\ (m = h.next \/ m \in 1 .. (h.next - 1))
    BY <1>2, <1>6, LoadOrderIsCounters
  <2>2. stats[LoadOrder[m]] \in Nat
    BY <1>4, <2>1
  <2>3. CASE LoadOrder[m] = counter
    <3>1. after.reading[counter] = stats[counter]
      BY <1>3, <1>7
    <3>2. after.floor[counter] <= stats[counter]
      BY <1>2, <1>3, <1>6 DEF LoadedBefore
    <3> HIDE DEF after, counter
    <3> QED
      BY <2>2, <2>3, <3>1, <3>2
  <2>4. CASE LoadOrder[m] # counter
    <3>1. m \in 1 .. (h.next - 1)
      BY <2>1, <2>4
    <3> QED
      BY <1>2, <1>6, <1>7, <2>1, <2>4, <3>1 DEF LoadedBefore
  <2> QED
    BY <2>3, <2>4
<1> HIDE DEF after
<1>9. LoadedBefore(after, after.next)
  BY <1>2, <1>4, <1>6, <1>7, <1>8 DEF LoadedBefore
<1>10. LoadedBefore(handler[c], handler[c].next)'
  BY <1>1, <1>5, <1>9 DEF LoadedBefore
<1> QED
  BY <1>2, <1>5, <1>6, <1>10, LoadOrderIsCounters

\* A request starts with nothing loaded.
LEMMA GetKeepsReading ==
  ASSUME TypeOK, HandlerInv, NEW c \in Readers, Get(c)
  PROVE  /\ handler'[c].next \in 1 .. (Len(LoadOrder) + 1)
         /\ handler'[c].at = "load" => handler'[c].next <= Len(LoadOrder)
         /\ LoadedBefore(handler[c], handler[c].next)'
<1> DEFINE h == [at |-> "load", next |-> 1, reading |-> NoCounts, floor |-> stats]
<1>1. handler' = [handler EXCEPT ![c] = h] /\ UNCHANGED stats
  BY DEF Get, Moves, vars
<1>2. handler'[c] = h
  BY <1>1 DEF HandlerInv, Connections
<1>3. stats \in [Counters -> Nat] /\ NoCounts \in [Counters -> Nat]
  BY DEF TypeOK, NoCounts
<1>4. \A k \in Counters : stats[k] <= stats[k]
  BY <1>3
<1>5. LoadedBefore(handler[c], handler[c].next)'
  BY <1>1, <1>2, <1>3, <1>4 DEF LoadedBefore
<1> QED
  BY <1>2, <1>5, LoadOrderIsCounters

LEMMA ReadingStep ==
  TypeOK /\ TypeOK' /\ HandlerInv /\ ReadingInv /\ [ControlNext]_allVars => ReadingInv'
<1> SUFFICES ASSUME TypeOK, TypeOK', HandlerInv, ReadingInv, [ControlNext]_allVars,
                    NEW c \in Readers, (handler[c].at \in {"load", "read"})'
             PROVE  /\ handler'[c].next \in 1 .. (Len(LoadOrder) + 1)
                    /\ handler'[c].at = "load" => handler'[c].next <= Len(LoadOrder)
                    /\ LoadedBefore(handler[c], handler[c].next)'
  BY DEF ReadingInv
<1>1. \A k \in Counters : stats[k] <= stats'[k]
  BY CountersGrow, StepIsProxyStep
<1>2. CASE UNCHANGED handler[c]
  BY <1>1, <1>2, ReadingKept
<1>3. CASE MainStep \/ UNCHANGED allVars
  BY <1>2, <1>3, MainLeavesHandlers DEF controlVars, allVars
<1>4. c \in DOMAIN handler
  BY DEF HandlerInv, Connections
<1>5. ASSUME NEW d, d # c, NEW state, Moves(d, state) PROVE UNCHANGED handler[c]
  BY <1>4, <1>5 DEF Moves
<1>6. ASSUME NEW state, Moves(c, state) PROVE handler'[c] = state
  BY <1>4, <1>6 DEF Moves
<1>7. ASSUME NEW d \in Posters, Post(d) PROVE UNCHANGED handler[c]
  <2>1. PICK state : Moves(d, state) /\ state.at \in {"answered", "store"}
    BY <1>7 DEF Post
  <2> QED
    BY <1>5, <1>6, <2>1
<1>8. ASSUME NEW d \in Posters, Store(d) PROVE UNCHANGED handler[c]
  <2>1. PICK state : Moves(d, state) /\ state.at = "answered"
    BY <1>8 DEF Store
  <2> QED
    BY <1>5, <1>6, <2>1
<1>9. ASSUME NEW d, Answer(d) PROVE UNCHANGED handler[c]
  <2>1. PICK state : Moves(d, state) /\ state.at = "idle"
    BY <1>9 DEF Answer
  <2> QED
    BY <1>5, <1>6, <2>1
<1>10. ASSUME NEW d \in Readers \ {c}, Get(d) \/ LoadCounter(d) PROVE UNCHANGED handler[c]
  <2>1. PICK state : Moves(d, state)
    BY <1>10 DEF Get, LoadCounter
  <2> QED
    BY <1>5, <2>1
<1> QED
  BY <1>2, <1>3, <1>7, <1>8, <1>9, <1>10, GetKeepsReading, LoadKeepsReading
  DEF ControlNext, MainStep

\* Every counter of an answer of /metrics is one that it had between the
\* request and the answer, for any readers and any traffic.
THEOREM ReadingsAreInRange == ControlSpec => []ReadingInRange
<1>1. ControlInit => ReadingInv
  <2>1. ControlInit => \A c \in Connections : handler[c].at = "idle"
    BY DEF ControlInit
  <2> QED
    BY <2>1 DEF ReadingInv, Connections
<1>2. ReadingInv => ReadingInRange
  BY DEF ReadingInv, LoadedBefore, ReadingInRange
<1>3. ControlSpec => []TypeOK
  BY ProgramIsProxy, TypeCorrectness DEF IsProxy
<1> QED
  BY <1>1, <1>2, <1>3, ReadingStep, HandlerInit, HandlerStep, PTL DEF ControlSpec
=============================================================================
