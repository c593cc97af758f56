---------------------------- MODULE ServerProofs ----------------------------
(***************************************************************************)
(* Theorems about Server, for any set of clients: ServerInv is inductive,  *)
(* and with it what a process returns tells why it ended, and no call is   *)
(* cut off before the grace period is over.                                *)
(***************************************************************************)
EXTENDS Server, TLAPS

LEMMA InitEstablishes == Init => ServerInv
BY DEF Init, ServerInv, TypeOK, StopIsMains, ServedIsHere, CodeIsTrue, ExitTellsWhy,
       Stopping, Running

\* The end of a process, whatever becomes of its calls.
LEMMA DownPreserves ==
    ASSUME ServerInv, Down, call' \in [Clients -> {"none", "cut"}],
           UNCHANGED asked, failed' \in BOOLEAN,
           exit' \in {"none", "nil", "error"}, ExitTellsWhy'
    PROVE  ServerInv'
<1>1. TypeOK'
  BY DEF ServerInv, TypeOK, Down
<1>2. StopIsMains' /\ ServedIsHere' /\ CodeIsTrue'
  BY DEF ServerInv, Down, StopIsMains, ServedIsHere, CodeIsTrue, Stopping,
         Running
<1> QED  BY <1>1, <1>2 DEF ServerInv

\* The ways a process ends of itself.
LEMMA ReturnsPreserves ==
    ASSUME ServerInv, NEW with \in {"nil", "error"}, Returns(with),
           IF with = "nil" THEN asked ELSE failed
    PROVE  ServerInv'
<1>1. call' \in [Clients -> {"none", "cut"}]
  BY DEF ServerInv, TypeOK, Returns, Running
<1>2. ExitTellsWhy' /\ exit' \in {"none", "nil", "error"} /\ failed' \in BOOLEAN
  BY DEF ServerInv, TypeOK, Returns, ExitTellsWhy
<1> QED  BY <1>1, <1>2, DownPreserves DEF Returns

LEMMA MainPreserves == ServerInv /\ Main => ServerInv'
<1> SUFFICES ASSUME ServerInv, Main PROVE ServerInv'
  OBVIOUS
<1>1. CASE HostFound \/ Listen
  BY <1>1 DEF HostFound, Listen, GoesTo, clientVars, historyVars, ServerInv, TypeOK, StopIsMains,
              ServedIsHere, CodeIsTrue, ExitTellsWhy, Stopping, Running
<1>2. CASE StartFails
  <2>1. call' \in [Clients -> {"none", "cut"}]
    BY <1>2 DEF StartFails, ServerInv, TypeOK, ServedIsHere, Running
  <2> QED  BY <1>2, <2>1, DownPreserves DEF StartFails, ExitTellsWhy
<1>3. CASE TakesSignal \/ TakesResult
  <2> USE DEF TakesSignal, TakesResult, Stops, clientVars, historyVars, ServerInv
  <2>1. TypeOK'
    BY <1>3 DEF TypeOK
  <2>2. CodeIsTrue'
    BY <1>3 DEF TypeOK, CodeIsTrue, StopIsMains
  <2>3. StopIsMains' /\ ServedIsHere'
    BY <1>3 DEF TypeOK, StopIsMains, ServedIsHere, Stopping, Running
  <2>4. ExitTellsWhy'
    BY <1>3 DEF ExitTellsWhy
  <2> QED  BY <2>1, <2>2, <2>3, <2>4
<1>4. CASE StopDone \/ StopForced
  <2>1. /\ Returns(code)
        /\ code \in {"nil", "error"}
        /\ IF code = "nil" THEN asked ELSE failed
    BY <1>4 DEF StopDone, StopForced, ServerInv, TypeOK, CodeIsTrue
  <2> QED  BY <2>1, ReturnsPreserves
<1> QED  BY <1>1, <1>2, <1>3, <1>4 DEF Main

LEMMA GRPCPreserves == ServerInv /\ GRPC => ServerInv'
<1> SUFFICES ASSUME ServerInv, GRPC PROVE ServerInv'
  OBVIOUS
<1> USE DEF ServerInv, TypeOK, StopIsMains, ServedIsHere, CodeIsTrue, ExitTellsWhy,
            Stopping, Running, clientVars, historyVars
<1>1. CASE ServeStarts
  BY <1>1 DEF ServeStarts
<1>2. CASE ServeFails
  BY <1>2 DEF ServeFails
<1>3. CASE ServeReturns
  BY <1>3 DEF ServeReturns
<1>4. CASE StopAccepting
  BY <1>4 DEF StopAccepting
<1>5. CASE Drained
  BY <1>5 DEF Drained
<1>6. ASSUME NEW c \in Clients, ConnectionDrains(c)
      PROVE  ServerInv'
  BY <1>6 DEF ConnectionDrains, processVars
<1> QED  BY <1>1, <1>2, <1>3, <1>4, <1>5, <1>6 DEF GRPC

LEMMA ClientPreserves ==
    ASSUME ServerInv, NEW c \in Clients, Client(c)
    PROVE  ServerInv'
<1> USE DEF ServerInv, TypeOK, StopIsMains, ServedIsHere, CodeIsTrue, ExitTellsWhy,
            Stopping, Running, processVars, historyVars
<1> QED  BY DEF Client, Connects, Disconnects, Calls, HandlerReturns

LEMMA NextPreserves == ServerInv /\ [Next]_vars => ServerInv'
<1> SUFFICES ASSUME ServerInv, [Next]_vars PROVE ServerInv'
  OBVIOUS
<1>1. CASE TimerEnds \/ Signal \/ StartAgain
  <2> USE DEF TimerEnds, Signal, StartAgain, clientVars, historyVars, ServerInv
  <2>1. TypeOK'
    BY <1>1 DEF TypeOK
  <2>2. StopIsMains' /\ CodeIsTrue'
    BY <1>1 DEF TypeOK, StopIsMains, CodeIsTrue, ServedIsHere
  <2>3. ServedIsHere'
    BY <1>1 DEF TypeOK, ServedIsHere, Stopping, Running
  <2>4. ExitTellsWhy'
    BY <1>1 DEF ExitTellsWhy
  <2> QED  BY <2>1, <2>2, <2>3, <2>4
<1>2. CASE Crash
  <2>1. call' \in [Clients -> {"none", "cut"}] /\ ExitTellsWhy' /\ failed' \in BOOLEAN
    BY <1>2 DEF Crash, ExitTellsWhy, ServerInv, TypeOK
  <2> QED  BY <1>2, <2>1, DownPreserves DEF Crash
<1>3. CASE UNCHANGED vars
  BY <1>3 DEF vars, processVars, clientVars, historyVars, ServerInv, TypeOK, StopIsMains,
              ServedIsHere, CodeIsTrue, ExitTellsWhy, Stopping, Running
<1> QED  BY <1>1, <1>2, <1>3, MainPreserves, GRPCPreserves, ClientPreserves DEF Next

\* The inductive invariant: who stops the server and why, that only a process
\* with a socket has clients, and that a stopped server has none.
THEOREM ServerInvariant == Spec => []ServerInv
BY InitEstablishes, NextPreserves, PTL DEF Spec

\* What a process returns tells why it ended: nil only after a signal, an
\* error only after a failure of its start or of its server.
THEOREM ExitCodesTellWhy == Spec => []ExitTellsWhy
<1>1. ServerInv => ExitTellsWhy
  BY DEF ServerInv
<1> QED  BY <1>1, ServerInvariant, PTL

\* A running call is cut off by a process that returns, and that only when its
\* timer has ended: GracefulStop is not done before every handler is.
LEMMA CutLate == ServerInv /\ [Next]_vars =>
                   [\A c \in Clients : (Running(c) /\ call'[c] = "cut") => expired]_vars
<1> SUFFICES ASSUME ServerInv, [Next]_vars, NEW c \in Clients, Running(c), call'[c] = "cut"
             PROVE  expired
  OBVIOUS
<1>1. call[c] = "running"
  BY DEF Running
<1>2. CASE StopDone
  BY <1>1, <1>2 DEF StopDone, ServerInv, ServedIsHere, Running
<1>3. CASE StopForced
  BY <1>3 DEF StopForced
<1>4. CASE StartFails
  BY <1>1, <1>4 DEF StartFails
<1>5. CASE Crash \/ StartAgain
  BY <1>5 DEF Crash, StartAgain
<1>6. CASE \E d \in Clients : Client(d)
  BY <1>1, <1>6 DEF Client, Connects, Disconnects, HandlerReturns, Calls, ServerInv, TypeOK
<1>7. ASSUME call' = call PROVE FALSE
  BY <1>1, <1>7
<1>8. CASE HostFound \/ Listen \/ TakesSignal \/ TakesResult \/ TimerEnds \/ Signal \/ GRPC
           \/ UNCHANGED vars
  BY <1>7, <1>8 DEF HostFound, Listen, TakesSignal, TakesResult, TimerEnds, Signal, GRPC, GoesTo,
       Stops, ServeStarts, ServeFails, ServeReturns, StopAccepting, Drained, ConnectionDrains,
       clientVars, vars
<1> QED  BY <1>2, <1>3, <1>4, <1>5, <1>6, <1>8 DEF Next, Main

\* No call is cut off by a stop that had time left.
THEOREM CallsAreCutOnlyLate == Spec => CallsAreCutLate
BY ServerInvariant, CutLate, PTL DEF CallsAreCutLate, Spec
=============================================================================
