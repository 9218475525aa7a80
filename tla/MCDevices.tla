------------------------------ MODULE MCDevices ------------------------------
(* Small instances of Devices for TLC.                                     *)
EXTENDS DevicesRoster, TLC

CONSTANTS r1, r2, d1, d2, m1, m2      \* model values

OneRequest  == {r1}
TwoRequests == {r1, r2}
OneDevice   == {d1}
TwoDevices  == {d1, d2}
OneMapa     == {m1}
TwoMapas    == {m1, m2}

DownOnly    == {"down"}
UpDown      == {"up", "down"}
AllStatuses == {"up", "down", "verified"}

MapsOnly    == {"MapUUID"}

\* Requests, devices and maps are interchangeable (safety runs only).
Symmetric == Permutations(Req) \cup Permutations(Device) \cup Permutations(Mapa)
=============================================================================
