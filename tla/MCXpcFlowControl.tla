-------------------------- MODULE MCXpcFlowControl --------------------------
(***************************************************************************)
(* Small instances of XpcFlowControl: two streams, windows of a few bytes, *)
(* payloads that need several frames, and windows the device can shrink    *)
(* below what was already sent.                                            *)
(***************************************************************************)
EXTENDS XpcFlowControl
=============================================================================
