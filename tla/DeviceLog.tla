------------------------------ MODULE DeviceLog ------------------------------
(***************************************************************************)
(* The status history of the devices: DevicesService emits an event after  *)
(* a commit and its own listener, handledeviceStatusIcmpChangedEvent,      *)
(* turns the event into an EventLog document.                              *)
(*                                                                         *)
(* The emitter does not wait for the listener: the request is answered     *)
(* while the listener still has to read the last log and write the next    *)
(* one, so the listeners of several requests interleave.  This module      *)
(* replaces the HandlerDone step of Devices by the listener's two awaits.  *)
(***************************************************************************)
EXTENDS Devices, SequencesExt

VARIABLES
  log,         \* log[d]: the EventLog documents of d, in the order they were written
  found,       \* found[r]: what the listener in slot r has read
  unlogged     \* devices whose last change of status makes no log (history)

logVars == <<log, found, unlogged>>

Unread == [is |-> "unread"]
NoLog  == [is |-> "none"]

\* StatusTransition.from is "" in a first log; Time is kept as milliseconds.
EventLog == [is : {"log"}, Status : StatusValue, changedAt : Nat,
             from : StatusValue \cup {""}, Time : Int]

LogTypeOK ==
  /\ TypeOK
  /\ log \in [Device -> Seq(EventLog)]
  /\ found \in [Req -> EventLog \cup {Unread, NoLog}]
  /\ unlogged \subseteq Device

LogInit ==
  /\ Init
  /\ log = [d \in Device |-> << >>]
  /\ found = [r \in Req |-> Unread]
  /\ unlogged = {}

\* A committed change that still has to be logged.
Owes(r) == req[r].pc = "logging" \/ (req[r].pc = "after" /\ StatusChanged(r))

\* A change for which the handlers emit nothing: an update sets the status to null,
\* or remove takes a device down that was not up (verified, or null).
Silent(d) ==
  /\ device'[d].StatusIcmp # device[d].StatusIcmp
  /\ \/ device'[d].StatusIcmp = "null"
     \/ /\ device[d].StatusIcmp # "up"
        /\ device[d].state = "active" /\ device'[d].state = "inactive"

\* The changes of a step no listener will see: the event is lost with the request
\* or the listener, or there is none.
Dropped ==
  {req[r].dev : r \in {q \in Req : Owes(q) /\ req'[q].pc = "idle"}} \cup
  {d \in Device : Silent(d)}

Unlogged == unlogged' = unlogged \cup Dropped
Logged(d) == unlogged' = unlogged \ {d}

\* Mutant: sorts by changedAt in ascending order.
FirstLogs(d) ==
  {l \in Range(log[d]) : \A other \in Range(log[d]) : other.changedAt >= l.changedAt}

\* findOne().sort({changedAt: -1}): any of the latest, when they tie.
LastLogs(d) ==
  {l \in Range(log[d]) : \A other \in Range(log[d]) : other.changedAt <= l.changedAt}

\* Mutant: writes a log for every event.
HandlerFindNoSkip(r) ==
  /\ req[r].pc = "logging" /\ found[r] = Unread
  /\ \E last \in IF log[req[r].dev] = << >> THEN {NoLog} ELSE LastLogs(req[r].dev) :
       found' = [found EXCEPT ![r] = last]
  /\ UNCHANGED <<vars, log, unlogged>>

\* A log is not written when the last one has the status of the event.
HandlerFind(r) ==
  LET d == req[r].dev IN
  /\ req[r].pc = "logging" /\ found[r] = Unread
  /\ \E last \in IF log[d] = << >> THEN {NoLog} ELSE LastLogs(d) :
       IF last # NoLog /\ last.Status = req[r].event.StatusIcmp
       THEN HandlerDone(r) /\ Logged(d) /\ UNCHANGED found
       ELSE found' = [found EXCEPT ![r] = last] /\ UNCHANGED <<vars, unlogged>>
  /\ UNCHANGED log

\* Mutant: writes a StatusTransition without a previous log to start from.
NextLogAlwaysFrom(event, last) ==
  [is |-> "log", Status |-> event.StatusIcmp, changedAt |-> event.lastChangeStatusTime,
   from |-> "undefined", Time |-> 0]

NextLog(event, last) ==
  [is |-> "log",
   Status |-> event.StatusIcmp,
   changedAt |-> event.lastChangeStatusTime,
   from |-> IF last = NoLog THEN "" ELSE last.Status,
   Time |-> IF last = NoLog THEN 0 ELSE event.lastChangeStatusTime - last.changedAt]

\* StatusTransition requires its from and its to: with a null status on either side
\* the log is not valid.
NotValid(event, last) ==
  last # NoLog /\ "null" \in {event.StatusIcmp, last.Status}

HandlerCreate(r) ==
  /\ found[r] # Unread /\ ~NotValid(req[r].event, found[r])
  /\ log' = [log EXCEPT ![req[r].dev] = Append(@, NextLog(req[r].event, found[r]))]
  /\ found' = [found EXCEPT ![r] = Unread]
  /\ HandlerDone(r) /\ Logged(req[r].dev)

\* A database error in the listener, or a log that is not valid: the event is not
\* emitted again.
HandlerFail(r) ==
  /\ Faults \/ (found[r] # Unread /\ NotValid(req[r].event, found[r]))
  /\ HandlerDone(r) /\ Unlogged
  /\ found' = [found EXCEPT ![r] = Unread]
  /\ UNCHANGED log

LogRestart ==
  /\ Restart /\ Unlogged
  /\ found' = [r \in Req |-> Unread]
  /\ UNCHANGED log

LogNext ==
  \/ ServiceStep /\ Unlogged /\ UNCHANGED <<log, found>>
  \/ \E r \in Req : HandlerFind(r) \/ HandlerCreate(r) \/ HandlerFail(r)
  \/ LogRestart

LogSpec == LogInit /\ [][LogNext]_<<vars, logVars>>

-----------------------------------------------------------------------------
(* Properties.                                                             *)

Quiet == \A r \in Req : req[r].pc = "idle"

\* With one request and its listener at a time: when the server is quiet the
\* newest log of every stored device has the device's StatusIcmp, through create,
\* update, remove and reactivation, errors and restarts, unless the event of its
\* last change was lost or the handlers emit none for it (Silent); and the next
\* change that is logged makes them agree again.
LogFollowsStatus ==
  Quiet => \A d \in Device \ unlogged : device[d].state # "absent" =>
    \E last \in LastLogs(d) : last.Status = device[d].StatusIcmp

\* With one request and its listener at a time, even when events are lost: the
\* logs of a device form a chain.  Each one starts from the status of the one
\* before it, changes it, and its Time is the time between the two.
LogChain ==
  \A d \in Device : \A i \in 2 .. Len(log[d]) :
    LET before == log[d][i - 1]
        this   == log[d][i]
    IN /\ this.from = before.Status /\ this.Status # before.Status
       /\ this.Time = this.changedAt - before.changedAt /\ this.Time > 0

\* A log is written only when its status differs from that of the last log
\* (SI EL ESTADO NO HA CAMBIADO, NO SE REGISTRA NINGUN LOG).
NoLogWithoutChange ==
  [][\A d \in Device : Len(log'[d]) > Len(log[d]) =>
       \A last \in LastLogs(d) : Last(log'[d]).Status # last.Status]_<<vars, logVars>>
=============================================================================
