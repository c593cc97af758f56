------------------------ MODULE AwaitOperationProofs ------------------------
(***************************************************************************)
(* Theorems about AwaitOperation, for every PollInterval, OperationTimeout *)
(* and MaxTime: type correctness, Truthful, PollRate and the refinement of *)
(* AwaitContract.                                                          *)
(***************************************************************************)
EXTENDS AwaitOperation, TLAPS

-----------------------------------------------------------------------------
(* The inductive invariant *)

\* The handler's copy of the operation is stale in one direction only: a
\* resolved copy is a copy of a resolved operation.
CopyIsHonest == seen \in Contract!Resolved => opState = seen

\* The handler decodes a result only after it has seen the success, and only
\* a handler that has returned has an answer.
AnswerMatchesPC ==
    /\ pc = "decoding" => seen = "SUCCEEDED"
    /\ pc # "returned" => answer = "none"

\* A poll is paid for in advance: at the loop condition, and when the timer
\* fires, one whole interval has passed for every poll made so far.
PollsArePaid ==
    /\ pc = "loop" => polls * PollInterval <= now
    /\ pc = "sleeping" => polls * PollInterval <= wakeAt
    /\ polls * PollInterval <= now + PollInterval

IInv == TypeOK /\ CopyIsHonest /\ AnswerMatchesPC /\ Truthful

-----------------------------------------------------------------------------
\* The initial states satisfy the invariant.
LEMMA InitIInv == Init => IInv
<1> SUFFICES ASSUME Init PROVE IInv
  OBVIOUS
<1>1. TypeOK
  BY DEF Init, TypeOK, PCs, Contract!Answers
<1>2. CopyIsHonest /\ AnswerMatchesPC /\ Truthful
  BY DEF Init, CopyIsHonest, AnswerMatchesPC, Truthful
<1> QED
  BY <1>1, <1>2 DEF IInv

\* Every step of the handler and of its environment keeps it.
LEMMA NextIInv == IInv /\ [Next]_vars => IInv'
<1> SUFFICES ASSUME IInv, [Next]_vars PROVE IInv'
  OBVIOUS
<1> USE TimeAssumption
        DEF IInv, TypeOK, CopyIsHonest, AnswerMatchesPC, Truthful, PCs,
            Contract!OpStates, Contract!Resolved, Contract!Answers
<1>1. CASE Poll
  BY <1>1 DEF Poll, Return
<1>2. CASE PollAnswers
  BY <1>2 DEF PollAnswers
<1>3. CASE PollFails
  BY <1>3 DEF PollFails, Return
<1>4. CASE SleepElapsed
  BY <1>4 DEF SleepElapsed
<1>5. CASE SleepCancelled
  BY <1>5 DEF SleepCancelled, Return
<1>6. CASE ExitSucceeded
  BY <1>6 DEF ExitSucceeded, Return
<1>7. CASE ExitFailed
  BY <1>7 DEF ExitFailed, Return
<1>8. CASE ExitUnexpected
  BY <1>8 DEF ExitUnexpected, Return
<1>9. CASE DecodeResult
  BY <1>9 DEF DecodeResult, Return
<1>10. CASE OpMoves
  BY <1>10 DEF OpMoves
<1>11. CASE CallerCancels
  BY <1>11 DEF CallerCancels
<1>12. CASE Tick
  BY <1>12 DEF Tick
<1>13. CASE UNCHANGED vars
  BY <1>13 DEF vars
<1> QED
  BY <1>1, <1>2, <1>3, <1>4, <1>5, <1>6, <1>7, <1>8, <1>9, <1>10, <1>11,
     <1>12, <1>13
  DEF Next, Handler

\* The invariant holds in every reachable state.
THEOREM Invariance == Spec => []IInv
  BY InitIInv, NextIInv, PTL DEF Spec

\* Every variable of the polling loop keeps its type.
THEOREM TypeCorrect == Spec => []TypeOK
<1>1. IInv => TypeOK
  BY DEF IInv
<1> QED
  BY <1>1, Invariance, PTL

\* The answer a handler gets is true of the operation in the cloud.
THEOREM AnswersAreTruthful == Spec => []Truthful
<1>1. IInv => Truthful
  BY DEF IInv
<1> QED
  BY <1>1, Invariance, PTL

-----------------------------------------------------------------------------
(* The polling rate *)

\* One more poll costs one more interval.
LEMMA OneMorePoll ==
  ASSUME NEW n \in Nat
  PROVE  (n + 1) * PollInterval = n * PollInterval + PollInterval
  BY TimeAssumption

\* The loop keeps every poll paid for.
LEMMA NextPollsArePaid == TypeOK /\ PollsArePaid /\ [Next]_vars => PollsArePaid'
<1> SUFFICES ASSUME TypeOK, PollsArePaid, [Next]_vars PROVE PollsArePaid'
  OBVIOUS
<1> DEFINE paid == polls * PollInterval
<1>t. /\ now \in Nat /\ wakeAt \in Nat /\ polls \in Nat /\ PollInterval \in Nat
      /\ paid \in Nat
  BY TimeAssumption DEF TypeOK
<1>1. CASE Poll
  <2>1. polls' * PollInterval = paid + PollInterval
    BY <1>1, <1>t, OneMorePoll DEF Poll
  <2>2. paid <= now /\ now' = now /\ wakeAt' = wakeAt
    BY <1>1 DEF Poll, PollsArePaid
  <2>3. pc' \in {"returned", "polling"}
    BY <1>1 DEF Poll, Return
  <2> HIDE DEF paid
  <2> QED
    BY <2>1, <2>2, <2>3, <1>t DEF PollsArePaid
<1>2. CASE PollAnswers
  <2>1. /\ paid' = paid /\ now' = now /\ wakeAt' = now + PollInterval
        /\ pc' = "sleeping"
    BY <1>2 DEF PollAnswers
  <2>2. paid <= now + PollInterval
    BY DEF PollsArePaid
  <2> QED
    BY <2>1, <2>2 DEF PollsArePaid
<1>3. CASE SleepElapsed
  <2>1. /\ paid' = paid /\ now' = now /\ wakeAt' = wakeAt /\ pc' = "loop"
        /\ wakeAt <= now /\ paid <= wakeAt
    BY <1>3, <1>t DEF SleepElapsed, PollsArePaid
  <2> HIDE DEF paid
  <2>2. paid <= now
    BY <2>1, <1>t
  <2>3. paid <= now + PollInterval
    BY <2>2, <1>t
  <2> QED
    BY <2>1, <2>2, <2>3 DEF PollsArePaid, paid
<1>4. CASE Tick
  <2>1. paid' = paid /\ now' = now + 1 /\ wakeAt' = wakeAt /\ pc' = pc
    BY <1>4 DEF Tick
  <2>2. /\ pc = "loop" => paid <= now
        /\ pc = "sleeping" => paid <= wakeAt
        /\ paid <= now + PollInterval
    BY DEF PollsArePaid
  <2> HIDE DEF paid
  <2>3. /\ paid <= now => paid <= now + 1
        /\ paid <= (now + 1) + PollInterval
    BY <2>2, <1>t
  <2> QED
    BY <2>1, <2>2, <2>3 DEF PollsArePaid, paid
<1>5. CASE PollFails \/ SleepCancelled \/ ExitSucceeded \/ ExitFailed
             \/ ExitUnexpected \/ DecodeResult
  <2>1. polls' = polls /\ now' = now /\ pc' \in {"returned", "decoding"}
    BY <1>5 DEF PollFails, SleepCancelled, ExitSucceeded, ExitFailed,
                ExitUnexpected, DecodeResult, Return
  <2> QED
    BY <2>1 DEF PollsArePaid
<1>6. CASE OpMoves \/ CallerCancels \/ UNCHANGED vars
  BY <1>6 DEF OpMoves, CallerCancels, vars, PollsArePaid
<1> QED
  BY <1>1, <1>2, <1>3, <1>4, <1>5, <1>6 DEF Next, Handler

\* The Crusoe API is polled at most once per PollInterval.
THEOREM PollRateHolds == Spec => []PollRate
<1>1. Init => PollsArePaid
  BY TimeAssumption DEF Init, PollsArePaid
<1>2. PollsArePaid => PollRate
  BY DEF PollsArePaid, PollRate
<1> QED
  BY <1>1, <1>2, NextPollsArePaid, TypeCorrect, PTL DEF Spec

-----------------------------------------------------------------------------
(* The refinement *)

\* Every step of the loop answers as the contract allows, or answers nothing.
LEMMA StepSimulates ==
  IInv /\ [Next]_vars => [Contract!Next]_<<opState, answer>>
<1> SUFFICES ASSUME IInv, [Next]_vars
             PROVE  Contract!Next \/ UNCHANGED <<opState, answer>>
  OBVIOUS
<1> USE DEF IInv, CopyIsHonest, AnswerMatchesPC, Return, Contract!Resolved
<1>1. CASE Poll \/ PollFails \/ SleepCancelled \/ ExitUnexpected
  BY <1>1 DEF Poll, PollFails, SleepCancelled, ExitUnexpected,
              Contract!Next, Contract!AnswerError
<1>2. CASE PollAnswers \/ SleepElapsed \/ CallerCancels \/ Tick \/ UNCHANGED vars
  BY <1>2 DEF PollAnswers, SleepElapsed, CallerCancels, Tick, vars
<1>3. CASE ExitSucceeded
  BY <1>3 DEF ExitSucceeded, Contract!Next, Contract!AnswerSucceeded
<1>4. CASE ExitFailed
  BY <1>4 DEF ExitFailed, Contract!Next, Contract!AnswerFailed,
              Contract!AnswerError
<1>5. CASE DecodeResult
  BY <1>5 DEF DecodeResult, Contract!Next, Contract!AnswerSucceeded,
              Contract!AnswerError
<1>6. CASE OpMoves
  BY <1>6 DEF OpMoves, Contract!Next, Contract!OpMoves, Contract!OpStates
<1> QED
  BY <1>1, <1>2, <1>3, <1>4, <1>5, <1>6 DEF Next, Handler

\* The polling loop implements the contract the handlers rely on.
THEOREM Refinement == Spec => ImplementsContract
<1>1. Init => Contract!Init
  BY DEF Init, Contract!Init
<1> QED
  BY <1>1, StepSimulates, Invariance, PTL
  DEF Spec, ImplementsContract, Contract!Spec
=============================================================================
