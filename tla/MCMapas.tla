------------------------------- MODULE MCMapas -------------------------------
(* Small instances of Mapas for TLC.                                       *)
EXTENDS Mapas, TLC

CONSTANTS r1, r2, m1, m2, k1, l1, t1      \* model values

TwoRequests == {r1, r2}
TwoMapas    == {m1, m2}
OneClass    == {k1}
OneLabel    == {l1}
OneTicket   == {t1}

\* Clients fill m1, only create and remove m2, an inner map of m1, and put the
\* label on m2.
Bodies ==
  [x \in TwoMapas \cup OneLabel |->
     CASE x = l1 -> {[mapa |-> m2]}
       [] x = m2 -> {NoDto}
       [] OTHER  -> {[mapsInternal |-> {m2}], [classifications |-> {k1}]}]

\* The same with tickets, which an update may empty, and with nulls for the lists
\* of m1 and the map of the label.
BodiesWithNulls ==
  [x \in TwoMapas \cup OneLabel |->
     CASE x = l1 -> {[mapa |-> m2], [mapa |-> "null"]}
       [] x = m2 -> {NoDto}
       [] OTHER  -> {[mapsInternal |-> {m2}, classifications |-> NullList],
                     [mapsInternal |-> {}, ubersmithTicketId |-> t1],
                     [mapsInternal |-> NullList, ubersmithTicketId |-> NoTicket],
                     [classifications |-> {k1}]}]

\* The slots are interchangeable.
Symmetric == Permutations(Req)
=============================================================================
