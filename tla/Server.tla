------------------------------- MODULE Server -------------------------------
(***************************************************************************)
(* The life of one driver process and of those that follow it: internal/   *)
(* cli.go, server.go and util.go.  Five goroutines share the gRPC server:  *)
(*                                                                         *)
(*     main      Serve: start up, wait in a select, stop, return           *)
(*     serve     the goroutine of srv.Serve, which accepts connections     *)
(*     stopper   the goroutine of gracefulStopWithTimeout                  *)
(*     timer     the ten seconds it is given                               *)
(*     calls     one handler for each call of a client                     *)
(*                                                                         *)
(* A signal is a message in a channel that only the select reads.  The     *)
(* gRPC server, the signals and the clients are external.                  *)
(***************************************************************************)
EXTENDS Naturals

CONSTANTS
    Clients         \* the CO's sidecars and the kubelet, one connection each

VARIABLES
    main,       \* where Serve is, "down" when there is no process
    code,       \* what Serve is going to return
    signal,     \* interruptChan holds a signal
    serve,      \* where the goroutine of srv.Serve is
    result,     \* what gRPCErrChan holds
    stopper,    \* where GracefulStop is
    expired,    \* the context of gracefulStopWithTimeout is done
    socket,     \* the socket file: none, of this process, of a dead one
    conn,       \* client -> its connection
    call,       \* client -> its call, whether a process serves or cut it off
    asked,      \* history: this process was sent a signal
    failed,     \* history: a step of this process's start or its server failed
    exit        \* history: what the last process returned, if it did

processVars == <<main, code, signal, serve, result, stopper, expired>>
clientVars == <<conn, call>>
historyVars == <<asked, failed, exit>>
vars == <<processVars, socket, clientVars, historyVars>>

-----------------------------------------------------------------------------
(* The end of a process *)

Running(c) == call[c] = "running"

\* The process is gone, and its handlers, connections and listener with it;
\* a listener that was not closed leaves its file.
Down ==
    /\ main' = "down"
    /\ signal' = FALSE
    /\ serve' = "none"
    /\ result' = "none"
    /\ stopper' = "none"
    /\ expired' = FALSE
    /\ code' = "nil"
    /\ socket' = IF socket = "own" THEN "stale" ELSE socket
    /\ conn' = [c \in Clients |-> "closed"]

\* Serve returns: RunMain does, and os.Exit tells whether with an error.
Returns(with) ==
    /\ Down
    /\ exit' = with
    /\ call' = [c \in Clients |-> IF Running(c) THEN "cut" ELSE call[c]]
    /\ UNCHANGED <<asked, failed>>

\* SIGKILL, or the end of the machine.
Crash ==
    /\ main # "down"
    /\ Down
    /\ exit' = "none"
    /\ call' = [c \in Clients |-> "none"]
    /\ UNCHANGED <<asked, failed>>

\* The kubelet starts the container again.
StartAgain ==
    /\ main = "down"
    /\ main' = "start"
    /\ call' = [c \in Clients |-> "none"]
    /\ asked' = FALSE
    /\ failed' = FALSE
    /\ exit' = "none"
    /\ UNCHANGED <<code, signal, serve, result, stopper, expired, socket, conn>>

\* interruptChan is registered before anything else, and holds one signal.
Signal ==
    /\ main # "down"
    /\ signal' = TRUE
    /\ asked' = TRUE
    /\ UNCHANGED <<main, code, serve, result, stopper, expired, socket, clientVars,
                   failed, exit>>

-----------------------------------------------------------------------------
(* main: Serve up to the select *)

GoesTo(step) ==
    /\ main' = step
    /\ UNCHANGED <<code, signal, result, stopper, expired, clientVars, historyVars>>

\* getHostInstance: the id of the machine, the project, and the one instance
\* that has this id.
HostFound ==
    /\ main = "start"
    /\ GoesTo("listen")
    /\ UNCHANGED <<serve, socket>>

\* There may be none, several, or no answer; so may the socket.  Nothing here
\* reads interruptChan.
StartFails ==
    /\ main \in {"start", "listen"}
    /\ Down
    /\ exit' = "error"
    /\ failed' = TRUE
    /\ UNCHANGED <<call, asked>>

\* Bug: the file of the last process is left in the way.
ListenWhereNoFileIs ==
    /\ main = "listen"
    /\ socket = "none"
    /\ socket' = "own"
    /\ serve' = "starting"
    /\ GoesTo("select")

\* listen removes the file a dead process has left; the goroutine of
\* srv.Serve is started.
Listen ==
    /\ main = "listen"
    /\ socket' = "own"
    /\ serve' = "starting"
    /\ GoesTo("select")

-----------------------------------------------------------------------------
(* main: the select and the stop *)

\* gracefulStopWithTimeout: the goroutine and the timer are started.
Stops(with) ==
    /\ main' = "stopping"
    /\ code' = with
    /\ stopper' = "started"
    /\ UNCHANGED <<serve, expired, socket, clientVars, historyVars>>

\* Bug: main leaves the stop to the goroutine and waits for the next event.
TakesSignalAside ==
    /\ main = "select"
    /\ signal
    /\ signal' = FALSE
    /\ stopper' = "started"
    /\ UNCHANGED <<main, code, serve, result, expired, socket, clientVars, historyVars>>

TakesSignal ==
    /\ main = "select"
    /\ signal
    /\ signal' = FALSE
    /\ Stops("nil")
    /\ UNCHANGED result

\* Bug: an error of the server ends the process like a signal.
TakesResultAsSignal ==
    /\ main = "select"
    /\ result # "none"
    /\ result' = "none"
    /\ Stops("nil")
    /\ UNCHANGED signal

\* ErrServerStopped is no error, and neither is nil.
TakesResult ==
    /\ main = "select"
    /\ result # "none"
    /\ result' = "none"
    /\ Stops(IF result = "error" THEN "error" ELSE "nil")
    /\ UNCHANGED signal

\* Bug: main does not wait for the goroutine.
StopDoneAtOnce ==
    /\ main = "stopping"
    /\ stopper # "none"
    /\ Returns(code)

StopDone ==
    /\ main = "stopping"
    /\ stopper = "done"
    /\ Returns(code)

\* The timer is first, or both are ready: grpcServer.Stop cancels the calls
\* that still run, and Serve returns without them.
StopForced ==
    /\ main = "stopping"
    /\ expired
    /\ Returns(code)

\* Bug: the context of the timer has no deadline.
TimerWithoutEnd == FALSE /\ UNCHANGED vars

TimerEnds ==
    /\ main = "stopping"
    /\ ~expired
    /\ expired' = TRUE
    /\ UNCHANGED <<main, code, signal, serve, result, stopper, socket, clientVars,
                   historyVars>>

Main ==
    \/ HostFound \/ StartFails \/ Listen
    \/ TakesSignal \/ TakesResult
    \/ StopDone \/ StopForced

-----------------------------------------------------------------------------
(* The gRPC server: Serve, GracefulStop, and the connections *)

Stopping == stopper \in {"draining", "done"}

\* A server that was stopped before it served closes the listener and says so.
ServeStarts ==
    /\ serve = "starting"
    /\ IF Stopping
         THEN /\ serve' = "returned"
              /\ result' = "ErrServerStopped"
              /\ socket' = "none"
         ELSE /\ serve' = "accepting"
              /\ UNCHANGED <<result, socket>>
    /\ UNCHANGED <<main, code, signal, stopper, expired, clientVars, historyVars>>

\* Accept fails for good.
ServeFails ==
    /\ serve = "accepting"
    /\ ~Stopping
    /\ serve' = "returned"
    /\ result' = "error"
    /\ socket' = "none"
    /\ failed' = TRUE
    /\ UNCHANGED <<main, code, signal, stopper, expired, clientVars, asked, exit>>

ServeReturns ==
    /\ serve = "accepting"
    /\ stopper = "done"
    /\ serve' = "returned"
    /\ result' = "nil"
    /\ UNCHANGED <<main, code, signal, stopper, expired, socket, clientVars, historyVars>>

\* GracefulStop: the listeners are closed, and the clients are told to go.
StopAccepting ==
    /\ stopper = "started"
    /\ stopper' = "draining"
    /\ socket' = IF serve = "accepting" THEN "none" ELSE socket
    /\ conn' = [c \in Clients |-> IF conn[c] = "open" THEN "draining" ELSE conn[c]]
    /\ UNCHANGED <<main, code, signal, serve, result, expired, call, historyVars>>

\* The client has heard; the connection is closed after its last call.
ConnectionDrains(c) ==
    /\ \/ conn[c] = "draining" /\ conn' = [conn EXCEPT ![c] = "drained"]
       \/ conn[c] = "drained" /\ ~Running(c) /\ conn' = [conn EXCEPT ![c] = "closed"]
    /\ UNCHANGED <<processVars, socket, call, historyVars>>

\* It waits for the connections and for every handler.
Drained ==
    /\ stopper = "draining"
    /\ \A c \in Clients : conn[c] = "closed" /\ ~Running(c)
    /\ stopper' = "done"
    /\ UNCHANGED <<main, code, signal, serve, result, expired, socket, clientVars,
                   historyVars>>

GRPC ==
    \/ ServeStarts \/ ServeFails \/ ServeReturns
    \/ StopAccepting \/ Drained
    \/ \E c \in Clients : ConnectionDrains(c)

-----------------------------------------------------------------------------
(* The clients *)

Connects(c) ==
    /\ serve = "accepting"
    /\ ~Stopping
    /\ conn[c] = "closed"
    /\ conn' = [conn EXCEPT ![c] = "open"]
    /\ UNCHANGED <<processVars, socket, call, historyVars>>

\* A client that has not heard yet that the server stops may still call.
Calls(c) ==
    /\ conn[c] \in {"open", "draining"}
    /\ ~Running(c)
    /\ call' = [call EXCEPT ![c] = "running"]
    /\ UNCHANGED <<processVars, socket, conn, historyVars>>

HandlerReturns(c) ==
    /\ Running(c)
    /\ call' = [call EXCEPT ![c] = "none"]
    /\ UNCHANGED <<processVars, socket, conn, historyVars>>

\* The handler runs on.
Disconnects(c) ==
    /\ conn[c] # "closed"
    /\ conn' = [conn EXCEPT ![c] = "closed"]
    /\ UNCHANGED <<processVars, socket, call, historyVars>>

Client(c) == Connects(c) \/ Disconnects(c) \/ Calls(c) \/ HandlerReturns(c)

-----------------------------------------------------------------------------

Init ==
    /\ main = "start"
    /\ code = "nil"
    /\ signal = FALSE
    /\ serve = "none"
    /\ result = "none"
    /\ stopper = "none"
    /\ expired = FALSE
    /\ socket \in {"none", "stale"}
    /\ conn = [c \in Clients |-> "closed"]
    /\ call = [c \in Clients |-> "none"]
    /\ asked = FALSE
    /\ failed = FALSE
    /\ exit = "none"

Next ==
    \/ Main \/ TimerEnds \/ GRPC
    \/ \E c \in Clients : Client(c)
    \/ Signal \/ Crash \/ StartAgain

Spec == Init /\ [][Next]_vars

\* The goroutines of the process are scheduled, and its timer runs.  The
\* queries of the start may hang: they have no deadline, and a process that
\* waits for them does not read interruptChan.  Nothing is assumed of handlers
\* and clients, and no signal need ever come.
Fairness ==
    /\ WF_vars(main # "start" /\ Main)
    /\ WF_vars(TimerEnds)
    /\ WF_vars(ServeStarts)
    /\ WF_vars(StopAccepting)
    /\ WF_vars(Drained)

\* The kubelet restarts what has ended, and what can go well is not kept from
\* it for ever by failures, signals or crashes; in the end some start finds
\* the host, and does not hang.
Environment ==
    /\ WF_vars(StartAgain)
    /\ SF_vars(HostFound)
    /\ SF_vars(Listen)
    /\ SF_vars(ServeStarts /\ ~Stopping)

FairSpec == Spec /\ Fairness /\ Environment

-----------------------------------------------------------------------------
(* Properties *)

\* Every variable keeps its type.
TypeOK ==
    /\ main \in {"down", "start", "listen", "select", "stopping"}
    /\ code \in {"nil", "error"}
    /\ signal \in BOOLEAN
    /\ serve \in {"none", "starting", "accepting", "returned"}
    /\ result \in {"none", "nil", "error", "ErrServerStopped"}
    /\ stopper \in {"none", "started", "draining", "done"}
    /\ expired \in BOOLEAN
    /\ socket \in {"none", "own", "stale"}
    /\ conn \in [Clients -> {"closed", "open", "draining", "drained"}]
    /\ call \in [Clients -> {"none", "running", "cut"}]
    /\ asked \in BOOLEAN
    /\ failed \in BOOLEAN
    /\ exit \in {"none", "nil", "error"}

\* No call is cut off by a stop that had time left: a process that was sent a
\* signal, or whose server failed, returns with handlers at work only when the
\* grace period is over (util.go:130).
CallsAreCutLate ==
    [][\A c \in Clients : (Running(c) /\ call'[c] = "cut") => expired]_vars

\* What a process returns tells why it ended: nil only after a signal, an
\* error only after a failure.  The cases of the select that would return nil
\* for a server that ended on its own are never taken (server.go:175).
ExitTellsWhy ==
    /\ exit = "nil" => asked
    /\ exit = "error" => failed

\* A stop ends, however long a handler hangs, and whether the signal came while
\* the socket was made, while serving, or together with a failure of the server;
\* one that came earlier ends once the process is past the queries of its start.
StopsInTheEnd == (main # "start" /\ (signal \/ result = "error")) ~> main = "down"

\* A process that was killed at any point is followed by one that serves; the
\* socket file of the dead one is not in its way (util.go:112).
ServesAgain == main = "down" ~> serve = "accepting"

-----------------------------------------------------------------------------
(* Why these hold: the invariant is inductive. *)

\* The server is stopped only by main, which then no longer reads results;
\* and a result that is no error tells of a stop.
StopIsMains ==
    /\ stopper # "none" <=> main = "stopping"
    /\ result \in {"nil", "ErrServerStopped"} => stopper # "none"
    /\ result = "error" => failed

\* Only a process with a socket serves, and a stopped server has no client.
ServedIsHere ==
    /\ main \in {"down", "start", "listen"} =>
         /\ serve = "none"
         /\ result = "none"
         /\ \A c \in Clients : conn[c] = "closed" /\ ~Running(c)
    /\ Stopping => \A c \in Clients : conn[c] # "open"
    /\ stopper = "done" => \A c \in Clients : conn[c] = "closed" /\ ~Running(c)

\* The reason main has taken is one that was there.
CodeIsTrue ==
    /\ signal => asked /\ main # "down"
    /\ IF main = "stopping"
         THEN IF code = "nil" THEN asked ELSE failed
         ELSE code = "nil"

ServerInv ==
    /\ TypeOK
    /\ StopIsMains
    /\ ServedIsHere
    /\ CodeIsTrue
    /\ ExitTellsWhy
=============================================================================
