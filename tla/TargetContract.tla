--------------------------- MODULE TargetContract ---------------------------
(***************************************************************************)
(* What the node service promises the kubelet for the target paths of one  *)
(* volume.  A target is gone, it is present, or it shows the volume.  The  *)
(* kubelet asks for a change of one target at a time; from then on, and    *)
(* until it is told the outcome, that target may change, and no other one  *)
(* does.  What the kubelet is told is so, and stays so until it asks       *)
(* again.                                                                  *)
(***************************************************************************)
CONSTANT Targets

VARIABLES
    shown,      \* target -> what is there
    known       \* target -> what the kubelet knows to be there, or "unknown"

\* What can be there, and what the kubelet can be told: of a target that is
\* present without the volume it is told nothing.
Shown == {"gone", "present", "volume"}
Told == {"gone", "volume"}

Init ==
    /\ shown \in [Targets -> Shown]
    /\ known \in [Targets -> Told \cup {"unknown"}]
    /\ \A t \in Targets : known[t] # "unknown" => shown[t] = known[t]

\* The kubelet asks for a change of this target.
Ask(t) ==
    /\ known' = [known EXCEPT ![t] = "unknown"]
    /\ UNCHANGED shown

\* Some request for it, perhaps one that was given up, has an effect.
Move(t) ==
    /\ known[t] = "unknown"
    /\ \E s \in Shown : shown' = [shown EXCEPT ![t] = s]
    /\ UNCHANGED known

\* The kubelet is told, perhaps in the same step.
Tell(t) ==
    /\ known[t] = "unknown"
    /\ \E s \in Told :
         /\ shown' = [shown EXCEPT ![t] = s]
         /\ known' = [known EXCEPT ![t] = s]

Next == \E t \in Targets : Ask(t) \/ Move(t) \/ Tell(t)

Spec == Init /\ [][Next]_<<shown, known>>
=============================================================================
