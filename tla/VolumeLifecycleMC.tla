------------------------- MODULE VolumeLifecycleMC -------------------------
(***************************************************************************)
(* An instance of VolumeLifecycle for TLC.                                 *)
(***************************************************************************)
EXTENDS VolumeLifecycle, TLC

CONSTANTS
    c1, c2,     \* handlers of the controller
    h1, h2      \* handlers of the node

Name == [prefix |-> "pvc-", kept |-> "a", cut |-> ""]
OneGiB == [required |-> 2, limit |-> 0]
Larger == {[required |-> 4, limit |-> 0]}

\* The last reply is read by no action and no property of this run.
View == <<disks, attachments, ops, controllerPc, controllerReq, controllerSettled, claims,
          attachmentView, nodeVars>>

Symmetry == Permutations(ControllerHandlers) \cup Permutations(NodeHandlers)
=============================================================================
