------------------------- MODULE OrderedByteStream -------------------------
(***************************************************************************)
(* What the sending side of a RemoteXPC connection promises its callers:   *)
(* the bytes they hand over reach the socket in the order they were handed *)
(* over, none lost in between and none twice, until the connection is      *)
(* replaced by a new one, which starts empty.                              *)
(***************************************************************************)
EXTENDS Sequences, SequencesExt

VARIABLES accepted, delivered

streamVars == <<accepted, delivered>>

Init == accepted = <<>> /\ delivered = <<>>

Accept ==
    /\ IsPrefix(accepted, accepted')
    /\ UNCHANGED delivered

Deliver ==
    /\ IsPrefix(delivered, delivered') /\ IsPrefix(delivered', accepted)
    /\ UNCHANGED accepted

Restart == accepted' = <<>> /\ delivered' = <<>>

Next == Accept \/ Deliver \/ Restart

Spec == Init /\ [][Next]_streamVars
=============================================================================
