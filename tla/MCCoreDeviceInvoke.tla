------------------------ MODULE MCCoreDeviceInvoke ------------------------
(***************************************************************************)
(* Instances of CoreDeviceInvoke for TLC.                                  *)
(***************************************************************************)
EXTENDS CoreDeviceInvoke
=============================================================================
