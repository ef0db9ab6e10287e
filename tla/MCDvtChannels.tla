--------------------------- MODULE MCDvtChannels ---------------------------
(* An instance of DvtChannels for TLC: two channels, two requests, a reader. *)
EXTENDS DvtChannels
=============================================================================
