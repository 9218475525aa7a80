------------------------------ MODULE MCAlerts ------------------------------
(* Small instances of Alerts for TLC.                                      *)
EXTENDS Alerts

CONSTANTS r1, r2, a1, d1, d2, c1      \* model values

TwoRequests == {r1, r2}
OneAlert    == {a1}
TwoDevices  == {d1, d2}
OneChannel  == {c1}

\* Creates with two devices and a channel, or with isActiveAlert; updates with
\* these, and with isActiveAlert alone.
Bodies ==
  {[devices |-> {d1, d2}, channels |-> {c1}], [devices |-> {}, isActiveAlert |-> "false"],
   [devices |-> {d1}, isActiveAlert |-> "null"], [isActiveAlert |-> "true"],
   [isActiveAlert |-> "null"]}

\* The slots are interchangeable.
Symmetric == Permutations(Req)
=============================================================================
