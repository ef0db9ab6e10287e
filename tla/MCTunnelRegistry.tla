-------------------------- MODULE MCTunnelRegistry --------------------------
(* An instance of TunnelRegistry for TLC: reconnects off, limited, unlimited. *)
EXTENDS TunnelRegistry

CONSTANTS usb, network, r1, p1

MCRetryLimits == {NoReconnect, 0, 1}
=============================================================================
