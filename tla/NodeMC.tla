------------------------------- MODULE NodeMC -------------------------------
(***************************************************************************)
(* Instances of Node for TLC.                                              *)
(***************************************************************************)
EXTENDS Node, TLC

CONSTANTS
    h1, h2, h3,     \* handlers
    t1, t2          \* targets

\* Handlers are alike, and so are targets.
Symmetry == Permutations(Handlers) \cup Permutations(Targets)
=============================================================================
