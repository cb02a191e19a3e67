------------------------- MODULE MCRemoteExecution -------------------------
(***************************************************************************)
(* Instances of RemoteExecution: a size class with one worker that comes   *)
(* and goes, and a predeclared larger one.                                 *)
(***************************************************************************)
EXTENDS RemoteExecution

CONSTANTS small, large

MCWorkerClass == (small :> 1) @@ (large :> 2)

Symmetry == Permutations(Clients) \cup Permutations(Keys)

=============================================================================
