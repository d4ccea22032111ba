------------------------ MODULE MCInfraProvisioning ------------------------
(* One infrastructure with a few requests made of it.                      *)
EXTENDS InfraProvisioning, TLC

RequestSymmetry == Permutations(Request)
=============================================================================
