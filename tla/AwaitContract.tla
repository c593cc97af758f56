--------------------------- MODULE AwaitContract ---------------------------
(***************************************************************************)
(* What every gRPC handler of the driver relies on when it waits for an    *)
(* asynchronous operation of the Crusoe API (internal/common/util.go): one *)
(* caller, one operation, one answer.  The answer is given once, and it    *)
(* says "succeeded" or "failed" only when the operation really has; an     *)
(* "error" says nothing about the operation.                               *)
(***************************************************************************)

VARIABLES
    opState,    \* the operation, as the Crusoe API would report it now
    answer      \* what the caller was told, "none" while it still waits

\* util.go:24-26.  "OTHER" stands for every state the driver has no name for.
OpStates == {"IN_PROGRESS", "SUCCEEDED", "FAILED", "OTHER"}
Resolved == {"SUCCEEDED", "FAILED"}
Answers  == {"none", "succeeded", "failed", "error"}

Init ==
    /\ opState \in OpStates
    /\ answer = "none"

\* A resolved operation never changes again.
OpMoves ==
    /\ opState \notin Resolved
    /\ opState' \in OpStates \ {opState}
    /\ UNCHANGED answer

AnswerSucceeded ==
    /\ answer = "none"
    /\ opState = "SUCCEEDED"
    /\ answer' = "succeeded"
    /\ UNCHANGED opState

AnswerFailed ==
    /\ answer = "none"
    /\ opState = "FAILED"
    /\ answer' = "failed"
    /\ UNCHANGED opState

AnswerError ==
    /\ answer = "none"
    /\ answer' = "error"
    /\ UNCHANGED opState

Next == OpMoves \/ AnswerSucceeded \/ AnswerFailed \/ AnswerError

Spec == Init /\ [][Next]_<<opState, answer>>
=============================================================================
