----------------------- MODULE MCPreviewDeployments -----------------------
(* One pull request with a few calls and runs.                             *)
EXTENDS PreviewDeployments, TLC

Symmetric == Permutations(Call) \cup Permutations(Run)
=============================================================================
