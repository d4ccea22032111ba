-------------------------- MODULE MCStackRevisions --------------------------
(* One stack with an application that is linked to its environment group   *)
(* and one that is not.                                                    *)
EXTENDS StackRevisions, TLC

ChangeSymmetry == Permutations(Change)
=============================================================================
