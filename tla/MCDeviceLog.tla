----------------------------- MODULE MCDeviceLog -----------------------------
(* Small instances of DeviceLog for TLC.                                   *)
EXTENDS DeviceLog

CONSTANTS r1, r2, d1, m1      \* model values

OneRequest  == {r1}
TwoRequests == {r1, r2}
OneDevice   == {d1}
OneMapa     == {m1}

UpDown      == {"up", "down"}
AllStatuses == {"up", "down", "verified"}

StatusOnly  == {"StatusIcmp"}
None        == {}

\* The slots are interchangeable.
Symmetric == Permutations(Req)
=============================================================================
