---------------------------- MODULE DevicesRoster ----------------------------
(***************************************************************************)
(* Devices, with one request at a time on each device, implements          *)
(* MapRoster: the roster is read off the map documents alone, as the pages *)
(* that show a map do.                                                     *)
(***************************************************************************)
EXTENDS Devices

Placed == [d \in Device |-> {m \in Mapa : mapa[m].Devices[d] > 0}]

Counted == [m \in Mapa |-> mapa[m].AmountDevices]

Roster == INSTANCE MapRoster WITH placed <- Placed, counted <- Counted

\* With one request at a time on each device, nobody sees a device half moved:
\* failures, restarts and the interleaving of the awaits of create, update and
\* remove leave the maps as if each request had been one step.
ImplementsMapRoster == Roster!RosterSpec
=============================================================================
