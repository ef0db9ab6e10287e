-------------------------- MODULE MCAfcConnection --------------------------
(* Instances of AfcConnection for TLC. *)
EXTENDS AfcConnection

CONSTANTS o1, o2, r1, x1, NoValue

O1 == {o1}
O2 == {o1, o2}
R1 == {r1}
X1 == {x1}
NoCalls == {}
=============================================================================
