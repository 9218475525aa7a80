------------------------------ MODULE MCEnlaces ------------------------------
(* Small instances of Enlaces for TLC.                                     *)
EXTENDS Enlaces, TLC

CONSTANTS r1, r2, l1, l2, e1, e2, e3      \* model values

TwoRequests == {r1, r2}
OneEnlace   == {l1}
TwoEnlaces  == {l1, l2}
ThreeEnds   == {e1, e2, e3}

NoStatus    == {}
Up          == {"up"}
AnyNull     == {"DevicesInterfacesDestination", "lastStatus"}
EndsOnly    == {"DevicesInterfacesDestination"}

\* Requests, links and destinations are interchangeable (safety runs only).
Symmetric ==
  Permutations(Req) \cup Permutations(Enlace) \cup Permutations(DestinationEnlace)
=============================================================================
