---------------------------- MODULE MCOwnership ----------------------------
(* The instance of MCDockerProxy, with the memory of names.                 *)
EXTENDS MCDockerProxy, OwnershipRefinement
=============================================================================
