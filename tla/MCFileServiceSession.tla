----------------------- MODULE MCFileServiceSession -----------------------
(***************************************************************************)
(* Instances of FileServiceSession for TLC.  The calls are model values;   *)
(* MaxConns leaves room for a connection per request.                      *)
(***************************************************************************)
EXTENDS FileServiceSession
=============================================================================
