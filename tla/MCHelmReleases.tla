-------------------------- MODULE MCHelmReleases --------------------------
(* One release with two requests and a tracker job that runs again and again. *)
EXTENDS HelmReleases, TLC

Symmetric == Permutations(Change)
=============================================================================
