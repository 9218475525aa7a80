----------------------------- MODULE MCSnmpWalk -----------------------------
(* A small instance of SnmpWalk for TLC.                                   *)
EXTENDS SnmpWalk

CONSTANTS ifDescr, ifMtu, ifAlias      \* model values

ThreeOids == {ifDescr, ifMtu, ifAlias}
TwoRows   == {1, 2}
=============================================================================
