--------------------------- MODULE AwaitOperation ---------------------------
(***************************************************************************)
(* The polling loop of internal/common/util.go: AwaitOperation,            *)
(* CancellableSleep and GetAsyncOperationResult, run by one handler for    *)
(* one operation, against a Crusoe API whose replies may be late, lost or  *)
(* errors, under a caller context that may be cancelled at any time.       *)
(*                                                                         *)
(* Time is counted in Ticks of an arbitrary unit.  Nothing is urgent: a    *)
(* goroutine may run long after its timer has fired.                       *)
(***************************************************************************)
EXTENDS Naturals

CONSTANTS
    PollInterval,       \* util.go:23
    OperationTimeout,   \* constants.go:56
    MaxTime             \* bound on the clock, for model checking

ASSUME TimeAssumption ==
    /\ PollInterval \in Nat \ {0}
    /\ OperationTimeout \in Nat
    /\ MaxTime \in Nat
    /\ OperationTimeout < MaxTime

VARIABLES
    opState,    \* the operation, as the Crusoe API would report it now
    seen,       \* op.State of the handler's own copy of the operation
    pc,         \* where the handler is in the loop
    now,        \* the clock
    wakeAt,     \* when the timer of CancellableSleep fires
    cancelled,  \* the caller's context is done
    wantsResult,\* called through GetAsyncOperationResult
    polls,      \* history: how many times getOp was called
    answer      \* what the caller was told

vars == <<opState, seen, pc, now, wakeAt, cancelled, wantsResult, polls, answer>>

\* The contract, of this module's own opState and answer.
Contract == INSTANCE AwaitContract WITH opState <- opState, answer <- answer

PCs == {"loop", "polling", "sleeping", "decoding", "returned"}

\* Bug: the operation is awaited under the caller's context alone.
ContextDoneWithoutTimeout == cancelled

\* timeoutCtx is done: by its own deadline or because its parent is done.
ContextDone == cancelled \/ now >= OperationTimeout

\* The operation is the one the API call has just returned, in any state.
Init ==
    /\ opState \in Contract!OpStates
    /\ seen = opState
    /\ pc = "loop"
    /\ now = 0
    /\ wakeAt = 0
    /\ cancelled = FALSE
    /\ wantsResult \in BOOLEAN
    /\ polls = 0
    /\ answer = "none"

-----------------------------------------------------------------------------
(* The handler *)

Return(a) ==
    /\ pc' = "returned"
    /\ answer' = a

\* The loop condition holds and getOp is called.  net/http refuses a request
\* whose context is already done, so the call fails at once.
Poll ==
    /\ pc = "loop"
    /\ seen = "IN_PROGRESS"
    /\ polls' = polls + 1
    /\ IF ContextDone
         THEN Return("error")
         ELSE pc' = "polling" /\ UNCHANGED answer
    /\ UNCHANGED <<opState, seen, now, wakeAt, cancelled, wantsResult>>

\* getOp returns the operation; the handler keeps it and starts its timer,
\* whatever state the operation is in.
PollAnswers ==
    /\ pc = "polling"
    /\ seen' = opState
    /\ pc' = "sleeping"
    /\ wakeAt' = now + PollInterval
    /\ UNCHANGED <<opState, now, cancelled, wantsResult, polls, answer>>

\* Bug: a poll that fails is taken for an operation that failed.
PollFailsAsOperation ==
    /\ pc = "polling"
    /\ Return("failed")
    /\ UNCHANGED <<opState, seen, now, wakeAt, cancelled, wantsResult, polls>>

\* getOp returns an error, for instance because its context is done.
PollFails ==
    /\ pc = "polling"
    /\ Return("error")
    /\ UNCHANGED <<opState, seen, now, wakeAt, cancelled, wantsResult, polls>>

\* Bug: the loop does not sleep.
SleepElapsedAtOnce ==
    /\ pc = "sleeping"
    /\ pc' = "loop"
    /\ UNCHANGED <<opState, seen, now, wakeAt, cancelled, wantsResult, polls, answer>>

\* The two cases of the select in CancellableSleep.  When both are ready the
\* Go runtime picks either.
SleepElapsed ==
    /\ pc = "sleeping"
    /\ now >= wakeAt
    /\ pc' = "loop"
    /\ UNCHANGED <<opState, seen, now, wakeAt, cancelled, wantsResult, polls, answer>>

SleepCancelled ==
    /\ pc = "sleeping"
    /\ ContextDone
    /\ Return("error")
    /\ UNCHANGED <<opState, seen, now, wakeAt, cancelled, wantsResult, polls>>

\* Bug: success is told before the result is decoded, and taken back later.
ExitSucceededTwice ==
    /\ pc = "loop"
    /\ seen = "SUCCEEDED"
    /\ pc' = IF wantsResult THEN "decoding" ELSE "returned"
    /\ answer' = "succeeded"
    /\ UNCHANGED <<opState, seen, now, wakeAt, cancelled, wantsResult, polls>>

\* The switch after the loop, one action per case.
ExitSucceeded ==
    /\ pc = "loop"
    /\ seen = "SUCCEEDED"
    /\ IF wantsResult
         THEN pc' = "decoding" /\ UNCHANGED answer
         ELSE Return("succeeded")
    /\ UNCHANGED <<opState, seen, now, wakeAt, cancelled, wantsResult, polls>>

\* OpResultToError may itself fail; the caller gets an error either way.
ExitFailed ==
    /\ pc = "loop"
    /\ seen = "FAILED"
    /\ \E a \in {"failed", "error"} : Return(a)
    /\ UNCHANGED <<opState, seen, now, wakeAt, cancelled, wantsResult, polls>>

\* Bug: a state without a case of its own is handed to the caller as it is.
ExitUnexpectedUnmapped ==
    /\ pc = "loop"
    /\ seen = "OTHER"
    /\ Return(seen)
    /\ UNCHANGED <<opState, seen, now, wakeAt, cancelled, wantsResult, polls>>

ExitUnexpected ==
    /\ pc = "loop"
    /\ seen = "OTHER"
    /\ Return("error")
    /\ UNCHANGED <<opState, seen, now, wakeAt, cancelled, wantsResult, polls>>

\* GetAsyncOperationResult decodes the result of a succeeded operation; a
\* result of another shape is an error.
DecodeResult ==
    /\ pc = "decoding"
    /\ \E a \in {"succeeded", "error"} : Return(a)
    /\ UNCHANGED <<opState, seen, now, wakeAt, cancelled, wantsResult, polls>>

Handler ==
    \/ Poll
    \/ PollAnswers
    \/ PollFails
    \/ SleepElapsed
    \/ SleepCancelled
    \/ ExitSucceeded
    \/ ExitFailed
    \/ ExitUnexpected
    \/ DecodeResult

-----------------------------------------------------------------------------
(* Its environment: the Crusoe API, the gRPC client and the clock *)

OpMoves ==
    /\ opState \notin Contract!Resolved
    /\ opState' \in Contract!OpStates \ {opState}
    /\ UNCHANGED <<seen, pc, now, wakeAt, cancelled, wantsResult, polls, answer>>

CallerCancels ==
    /\ ~cancelled
    /\ pc # "returned"
    /\ cancelled' = TRUE
    /\ UNCHANGED <<opState, seen, pc, now, wakeAt, wantsResult, polls, answer>>

Tick ==
    /\ now < MaxTime
    /\ now' = now + 1
    /\ UNCHANGED <<opState, seen, pc, wakeAt, cancelled, wantsResult, polls, answer>>

Next == Handler \/ OpMoves \/ CallerCancels \/ Tick

\* Time passes and the handler's goroutine is scheduled.  The Crusoe API
\* promises nothing: a request may hang, and an operation may never resolve.
\* A request whose context is done does return, which net/http guarantees.
Fairness ==
    /\ WF_vars(Tick)
    /\ WF_vars(Handler /\ pc # "polling")
    /\ WF_vars(PollFails /\ ContextDone)

Spec == Init /\ [][Next]_vars
FairSpec == Spec /\ Fairness

-----------------------------------------------------------------------------
(* Properties *)

\* Every variable keeps its type.
TypeOK ==
    /\ opState \in Contract!OpStates
    /\ seen \in Contract!OpStates
    /\ pc \in PCs
    /\ now \in Nat
    /\ wakeAt \in Nat
    /\ cancelled \in BOOLEAN
    /\ wantsResult \in BOOLEAN
    /\ polls \in Nat
    /\ answer \in Contract!Answers

\* A handler is told that an operation succeeded, or failed, only when the
\* operation has reached that state in the cloud, however stale the copy the
\* loop last polled.
Truthful ==
    /\ answer = "succeeded" => opState = "SUCCEEDED"
    /\ answer = "failed" => opState = "FAILED"

\* The loop never polls the Crusoe API faster than once per PollInterval: by
\* the time of the (n+1)-st call of getOp, n intervals have passed, on every
\* path back to the loop condition (util.go:70-83).
PollRate == polls * PollInterval <= now + PollInterval

\* The loop is a correct implementation of the contract every handler uses.
ImplementsContract == Contract!Spec

\* The handler gets an answer, even from an API that hangs or an operation
\* that never resolves: the deadline of timeoutCtx ends the wait.
AwaitReturns == <>(pc = "returned")
=============================================================================
