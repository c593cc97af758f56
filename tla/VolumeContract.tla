--------------------------- MODULE VolumeContract ---------------------------
(***************************************************************************)
(* What the driver as a whole, controller and node service together,       *)
(* promises its orchestrator for one volume on one node.  The volume goes  *)
(* through its stages one at a time,                                       *)
(*                                                                         *)
(*     absent  --  created  --  attached  --  mounted                      *)
(*                                                                         *)
(* in either direction: its disk is never detached or deleted under a      *)
(* mount, and never deleted while it is attached.  It moves only after the *)
(* orchestrator has asked for a change and until it is told the outcome;   *)
(* what it is told is the stage the volume is in, and the volume stays     *)
(* there until the next request, whatever older requests still do.         *)
(***************************************************************************)
EXTENDS Sequences, Naturals

VARIABLES
    stage,      \* where the volume is
    known       \* where the orchestrator knows it to be, or "unknown"

Stages == <<"absent", "created", "attached", "mounted">>

IsStage(s) == \E i \in DOMAIN Stages : Stages[i] = s

\* A step to a stage on either side, or none.
Near(s, t) ==
    \E i, j \in DOMAIN Stages :
        /\ Stages[i] = s
        /\ Stages[j] = t
        /\ j \in {i - 1, i, i + 1}

Init ==
    /\ stage = "absent"
    /\ known = "unknown"

\* The orchestrator asks for a change.
Ask ==
    /\ known' = "unknown"
    /\ UNCHANGED stage

\* Some request, perhaps one that was given up, has its effect.
Move ==
    /\ known = "unknown"
    /\ Near(stage, stage')
    /\ UNCHANGED known

\* The orchestrator is told, perhaps in the same step.
Tell ==
    /\ known = "unknown"
    /\ Near(stage, stage')
    /\ known' = stage'

Next == Ask \/ Move \/ Tell

Spec == Init /\ [][Next]_<<stage, known>>
=============================================================================
