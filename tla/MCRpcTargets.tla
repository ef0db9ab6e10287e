---------------------------- MODULE MCRpcTargets ----------------------------
(* Instances of RpcTargets for TLC.  Applications, page numbers and calls are *)
(* interchangeable.                                                           *)
EXTENDS RpcTargets

Symmetry == Permutations(Apps) \cup Permutations(Pages) \cup Permutations(Selects)
=============================================================================
