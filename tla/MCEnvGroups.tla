---------------------------- MODULE MCEnvGroups ----------------------------
(* An environment group and the applications that may be synced to it.     *)
EXTENDS EnvGroups, TLC

Symmetric == Permutations(Change) \cup Permutations(App)
=============================================================================
