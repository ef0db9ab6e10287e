---------------------------- MODULE MCXctestRun ----------------------------
(* An instance of XctestRun for TLC. *)
EXTENDS XctestRun
=============================================================================
