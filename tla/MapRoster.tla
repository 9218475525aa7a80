------------------------------ MODULE MapRoster ------------------------------
(***************************************************************************)
(* What DevicesService promises the readers of the maps: each device is in *)
(* a set of maps, one device is placed at a time and in all its maps at    *)
(* once, and each map's counter is the number of devices placed in it.     *)
(***************************************************************************)
EXTENDS Naturals, FiniteSets

CONSTANTS Device, Mapa

VARIABLES
  placed,      \* placed[d]: the maps that list d
  counted      \* counted[m]: the counter of map m

rosterVars == <<placed, counted>>

RosterInit ==
  /\ placed = [d \in Device |-> {}]
  /\ counted = [m \in Mapa |-> 0]

\* Device d is created in, moved to, or (with no maps) removed from them.
Place(d, maps) ==
  /\ placed' = [placed EXCEPT ![d] = maps]
  /\ counted' = [m \in Mapa |-> Cardinality({e \in Device : m \in placed'[e]})]

RosterNext == \E d \in Device, maps \in SUBSET Mapa : Place(d, maps)

RosterSpec == RosterInit /\ [][RosterNext]_rosterVars
=============================================================================
