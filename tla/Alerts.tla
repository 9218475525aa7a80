------------------------------- MODULE Alerts -------------------------------
(***************************************************************************)
(* AlertsService (src/alerts/alerts.service.ts) and ChannelsService: the   *)
(* create, update and remove handlers of alerts, which refer to devices    *)
(* and channels, and the listener that keeps the history of isActiveAlert. *)
(*                                                                         *)
(* No handler opens a transaction: each is a sequence of awaits, and what  *)
(* it read or validated may have changed when it writes.  A write selects  *)
(* the alert by its id alone.  The listener is not awaited: it reads the   *)
(* last log and writes the next one while other requests run.              *)
(*                                                                         *)
(* raced and lost are history variables, for the properties only.  The     *)
(* fields of an alert no condition reads (oid, operator, delay, severity,  *)
(* counters ...) are left out.                                             *)
(***************************************************************************)
EXTENDS Integers, SequencesExt

CONSTANTS
  Req,         \* request slots of the server
  Alert,       \* the ids of the alerts
  Device, Channel,
  Body,        \* the bodies the clients send
  Faults,      \* TRUE: database calls may fail and the server may restart
  MaxClock     \* bound: no request begins once the clock is there

NoAlert == "none"      \* an undefined or null id

\* The values of isActiveAlert.
IsActiveAlert == {"true", "false", "null"}

\* The fields of the bodies: an update brings any of them, a create at least its
\* devices.  Null devices or channels are as good as none, looked up or stored.
CreateAlertDto ==
  [devices : SUBSET Device, channels : SUBSET Channel, isActiveAlert : IsActiveAlert]
UpdateAlertDto ==
  {Restrict(dto, fields) : dto \in CreateAlertDto,
                           fields \in SUBSET {"devices", "channels", "isActiveAlert"}}

ASSUME AlertsAssumption ==
  /\ Body \subseteq UpdateAlertDto /\ NoAlert \notin Alert
  /\ Faults \in BOOLEAN /\ MaxClock \in Nat

VARIABLES
  alert,       \* the stored alert documents
  isActive,    \* isActive of the device documents
  channel,     \* the channel documents
  log,         \* log[a]: the EventLog documents of a, in the order they were written
  req,         \* what each request slot is doing
  now,         \* the clock
  raced,       \* alerts of which two requests, or their listeners, overlapped
  lost         \* alerts of which a change was never logged, and none since

vars == <<alert, isActive, channel, log, req, now, raced, lost>>

DocState == {"absent", "stored", "gone"}      \* an id is never used again

AlertDoc == [state : DocState, devices : SUBSET Device, channels : SUBSET Channel,
             isActiveAlert : IsActiveAlert]

\* isActiveAlert is true, channels empty, unless the body says otherwise.
Defaults == [state |-> "stored", devices |-> {}, channels |-> {}, isActiveAlert |-> "true"]

NotStored(state) ==
  [state |-> state, devices |-> {}, channels |-> {}, isActiveAlert |-> "false"]

\* statusString: what is not true is down.
StatusString(isActiveAlert) == IF isActiveAlert = "true" THEN "up" ELSE "down"

\* Time is kept as a number, from is "" in a first log.
EventLog == [is : {"log"}, Status : {"up", "down"}, changedAt : Nat,
             from : {"", "up", "down"}, Time : Int]
Unread == [is |-> "unread"]
NoLog  == [is |-> "none"]

\* A payload of ALERT_IS_ACTIVE_CHANGED.
Payload == [alert : Alert \cup {NoAlert}, Status : {"up", "down"}, at : Nat]

NoDto == << >>

Request ==
  [pc : {"idle", "find", "devices", "channels", "write", "emit", "logging"},
   op : {"create", "update", "remove"},
   alert : Alert \cup {NoAlert},
   dto : UpdateAlertDto \cup {NoDto},
   current : IsActiveAlert,     \* isActiveAlert of the alert update read first
   seen : SUBSET Device,        \* history: the devices active at some time since it began
   event : Payload,             \* the event it will emit, or its listener received
   found : EventLog \cup {Unread, NoLog}]      \* the log its listener has read

NoPayload == [alert |-> NoAlert, Status |-> "down", at |-> 0]

Idle == [pc |-> "idle", op |-> "remove", alert |-> NoAlert, dto |-> NoDto, current |-> "false",
         seen |-> {}, event |-> NoPayload, found |-> Unread]

AlertsTypeOK ==
  /\ alert \in [Alert -> AlertDoc]
  /\ isActive \in [Device -> BOOLEAN]
  /\ channel \in [Channel -> DocState]
  /\ log \in [Alert \cup {NoAlert} -> Seq(EventLog)]
  /\ req \in [Req -> Request]
  /\ now \in 0 .. MaxClock
  /\ raced \subseteq Alert /\ lost \subseteq Alert

Init ==
  /\ alert = [a \in Alert |-> NotStored("absent")]
  /\ isActive = [d \in Device |-> FALSE]
  /\ channel = [c \in Channel |-> "absent"]
  /\ log = [a \in Alert \cup {NoAlert} |-> << >>]
  /\ req = [r \in Req |-> Idle]
  /\ now = 0 /\ raced = {} /\ lost = {}

-----------------------------------------------------------------------------
(* The requests.                                                           *)

Busy(r) == req[r].pc # "idle"

Active == {d \in Device : isActive[d]}

\* Mutant: update goes straight to its validations.
FirstPcUnchecked(op) == IF op = "remove" THEN "find" ELSE "devices"

\* The first await: create validates devices at once, the others look for the alert.
FirstPc(op) == IF op = "create" THEN "devices" ELSE "find"

Begin(r, a, op, dto) ==
  /\ ~Busy(r) /\ now < MaxClock
  /\ req' = [req EXCEPT ![r] = [Idle EXCEPT !.pc = FirstPc(op), !.op = op, !.alert = a,
                                            !.dto = dto, !.seen = Active]]
  /\ now' = now + 1
  /\ raced' = IF \E q \in Req : req[q].alert = a THEN raced \cup {a} ELSE raced
  /\ UNCHANGED <<alert, isActive, channel, log, lost>>

\* A new alert has a new id; the other requests come with one the client has seen.
ClientRequest(r) ==
  \E a \in Alert :
    \/ /\ alert[a].state = "absent" /\ \A q \in Req : req[q].alert # a
       /\ \E dto \in Body : "devices" \in DOMAIN dto /\ Begin(r, a, "create", dto)
    \/ /\ alert[a].state # "absent"
       /\ \/ \E dto \in Body : Begin(r, a, "update", dto)
          \/ Begin(r, a, "remove", NoDto)

\* The documents of the body that are looked up; create looks for no devices too.
Names(r, field) == IF field \in DOMAIN req[r].dto THEN req[r].dto[field] ELSE {}

Exist(r, field) ==
  IF field = "devices" THEN Names(r, "devices") \subseteq Active
  ELSE \A c \in Names(r, "channels") : channel[c] = "stored"

\* The awaits still ahead, without the lookups of nothing.
PcAfter(r, pc) ==
  IF pc = "find" /\ Names(r, "devices") # {} THEN "devices"
  ELSE IF pc # "channels" /\ Names(r, "channels") # {} THEN "channels"
  ELSE "write"

Find(r) ==
  /\ req[r].pc = "find" /\ alert[req[r].alert].state = "stored"
  /\ req' = [req EXCEPT ![r].pc = PcAfter(r, "find"),
                        ![r].current = alert[req[r].alert].isActiveAlert]
  /\ UNCHANGED <<alert, isActive, channel, log, now, raced, lost>>

\* Mutant: it is enough that one of the documents is found.
FoundAny(r) ==
  \/ req[r].pc = "devices" /\ Names(r, "devices") \cap Active # {}
  \/ req[r].pc = "channels" /\ Exist(r, "channels")

\* validateDevices and validateChannels: as many documents as ids.
Found(r) == req[r].pc \in {"devices", "channels"} /\ Exist(r, req[r].pc)

Validate(r) ==
  /\ Found(r)
  /\ req' = [req EXCEPT ![r].pc = PcAfter(r, req[r].pc)]
  /\ UNCHANGED <<alert, isActive, channel, log, now, raced, lost>>

\* $set: the fields of dto over those of doc.
Merged(doc, dto) ==
  [field \in DOMAIN doc |-> IF field \in DOMAIN dto THEN dto[field] ELSE doc[field]]

\* Mutant: an update of an alert that is gone stores it again (upsert).
WrittenUpsert(r) ==
  LET doc == alert[req[r].alert] IN
  CASE req[r].op = "create" -> Merged(Defaults, req[r].dto)
    [] req[r].op = "update" -> Merged([doc EXCEPT !.state = "stored"], req[r].dto)
    [] OTHER                -> NotStored("gone")

\* create, findByIdAndUpdate (which finds nothing when the alert is gone),
\* findByIdAndDelete.
Written(r) ==
  LET doc == alert[req[r].alert] IN
  CASE req[r].op = "create" -> Merged(Defaults, req[r].dto)
    [] req[r].op = "update" -> IF doc.state = "stored" THEN Merged(doc, req[r].dto) ELSE doc
    [] OTHER                -> NotStored("gone")

\* Mutant: the event depends on the value sent, not on a change.
ChangesIfOff(r) ==
  req[r].op = "create" \/ (req[r].op = "update" /\ "isActiveAlert" \in DOMAIN req[r].dto
                                                /\ req[r].dto.isActiveAlert # "true")

\* create always emits; update when the body brings isActiveAlert and the
\* alert it read first differs from the one it got back, null included.
Changes(r) ==
  \/ req[r].op = "create"
  \/ /\ req[r].op = "update" /\ "isActiveAlert" \in DOMAIN req[r].dto
     /\ Written(r).state = "stored" => req[r].current # Written(r).isActiveAlert

\* What the event will say: no id and down when there was nothing to update.
EventOf(r) ==
  [alert |-> IF Written(r).state = "stored" THEN req[r].alert ELSE NoAlert,
   Status |-> StatusString(Written(r).isActiveAlert), at |-> 0]

\* The schema requires isActiveAlert: a create is validated, an update is not.
PassesSchema(r) ==
  req[r].op = "create" /\ "isActiveAlert" \in DOMAIN req[r].dto => req[r].dto.isActiveAlert # "null"

Write(r) ==
  /\ req[r].pc = "write" /\ PassesSchema(r)
  /\ alert' = [alert EXCEPT ![req[r].alert] = Written(r)]
  /\ req' = [req EXCEPT ![r] =
               IF Changes(r) THEN [Idle EXCEPT !.pc = "emit", !.alert = req[r].alert,
                                                   !.event = EventOf(r)]
               ELSE Idle]
  /\ UNCHANGED <<isActive, channel, log, now, raced, lost>>

\* The answer is there: lastChangeStatusTime is taken now.
Emit(r) ==
  /\ req[r].pc = "emit"
  /\ req' = [req EXCEPT ![r].pc = "logging", ![r].event.at = now]
  /\ UNCHANGED <<alert, isActive, channel, log, now, raced, lost>>

\* No such alert, device or channel; or what create takes is not an alert.
Refuse(r) ==
  /\ \/ req[r].pc = "find" /\ alert[req[r].alert].state # "stored"
     \/ req[r].pc \in {"devices", "channels"} /\ ~Found(r)
     \/ req[r].pc = "write" /\ ~PassesSchema(r)
  /\ req' = [req EXCEPT ![r] = Idle]
  /\ UNCHANGED <<alert, isActive, channel, log, now, raced, lost>>

-----------------------------------------------------------------------------
(* The listener, handleAlertIsActiveChangedEvent.                          *)

\* findOne().sort({changedAt: -1}): any of the latest, when they tie.
LastLogs(a) ==
  {l \in Range(log[a]) : \A other \in Range(log[a]) : other.changedAt <= l.changedAt}

\* Mutant: compares with the status before the last change.
SkipsOnFrom(last, event) == last # NoLog /\ last.from = event.Status

\* No log is written when the last one has the status of the event.
Skips(last, event) == last # NoLog /\ last.Status = event.Status

ListenerFind(r) ==
  /\ req[r].pc = "logging" /\ req[r].found = Unread
  /\ \E last \in IF log[req[r].event.alert] = << >> THEN {NoLog} ELSE LastLogs(req[r].event.alert) :
       IF Skips(last, req[r].event)
       THEN /\ req' = [req EXCEPT ![r] = Idle]
            /\ lost' = lost \ {req[r].alert}
       ELSE /\ req' = [req EXCEPT ![r].found = last]
            /\ UNCHANGED lost
  /\ UNCHANGED <<alert, isActive, channel, log, now, raced>>

\* Mutant: a first log comes from nowhere.
NextLogAlwaysFrom(event, last) ==
  [is |-> "log", Status |-> event.Status, changedAt |-> event.at,
   from |-> IF last = NoLog THEN "undefined" ELSE last.Status, Time |-> 0]

NextLog(event, last) ==
  [is |-> "log", Status |-> event.Status, changedAt |-> event.at,
   from |-> IF last = NoLog THEN "" ELSE last.Status,
   Time |-> IF last = NoLog THEN 0 ELSE event.at - last.changedAt]

ListenerCreate(r) ==
  /\ req[r].found # Unread
  /\ log' = [log EXCEPT ![req[r].event.alert] = Append(@, NextLog(req[r].event, req[r].found))]
  /\ req' = [req EXCEPT ![r] = Idle]
  /\ lost' = lost \ {req[r].alert}
  /\ UNCHANGED <<alert, isActive, channel, now, raced>>

-----------------------------------------------------------------------------
(* Failures, and the documents the alerts refer to.                        *)

\* The alerts of the changes that the slots in slots were about to log.
Unlogged(slots) == {req[r].alert : r \in {q \in slots : req[q].pc \in {"emit", "logging"}}}

\* A database call fails, or its answer is lost: nothing is tried again.
DbError(r) ==
  /\ Faults /\ Busy(r)
  /\ req' = [req EXCEPT ![r] = Idle]
  /\ lost' = lost \cup Unlogged({r})
  /\ UNCHANGED <<alert, isActive, channel, log, now, raced>>

Restart ==
  /\ Faults
  /\ req' = [r \in Req |-> Idle]
  /\ lost' = lost \cup Unlogged(Req)
  /\ UNCHANGED <<alert, isActive, channel, log, now, raced>>

\* DevicesService creates, removes and reactivates devices.
DeviceChanges(d) ==
  /\ isActive' = [isActive EXCEPT ![d] = ~@]
  /\ req' = [r \in Req |-> IF Busy(r) THEN [req[r] EXCEPT !.seen = @ \cup {d}] ELSE req[r]]
  /\ UNCHANGED <<alert, channel, log, now, raced, lost>>

\* ChannelsService.create and remove; no handler looks at the alerts that refer
\* to the channel.  update changes its name and url only.
CreateChannel(c) ==
  /\ channel[c] = "absent"
  /\ channel' = [channel EXCEPT ![c] = "stored"]
  /\ UNCHANGED <<alert, isActive, log, req, now, raced, lost>>

RemoveChannel(c) ==
  /\ channel[c] = "stored"
  /\ channel' = [channel EXCEPT ![c] = "gone"]
  /\ UNCHANGED <<alert, isActive, log, req, now, raced, lost>>

-----------------------------------------------------------------------------

Progress(r) ==
  \/ Find(r) \/ Validate(r) \/ Write(r) \/ Emit(r) \/ Refuse(r)
  \/ ListenerFind(r) \/ ListenerCreate(r)

Next ==
  \/ \E r \in Req : ClientRequest(r) \/ Progress(r) \/ DbError(r)
  \/ \E d \in Device : DeviceChanges(d)
  \/ \E c \in Channel : CreateChannel(c) \/ RemoveChannel(c)
  \/ Restart

Spec == Init /\ [][Next]_vars

-----------------------------------------------------------------------------
(* Properties.                                                             *)

Quiet(a) == \A r \in Req : req[r].alert # a

\* The newest log of a stored alert says whether it is active (null is not), once
\* nothing about it is in flight: unless its requests overlapped, or the last change
\* was lost to a failure.  One more change that is logged repairs a lost one.
LogFollowsAlert ==
  \A a \in Alert \ (raced \cup lost) : alert[a].state = "stored" /\ Quiet(a) =>
    \E last \in LastLogs(a) : last.Status = StatusString(alert[a].isActiveAlert)

\* Unless its requests overlapped, the logs of an alert form a chain, whatever
\* was lost in between: each starts from the status of the one before it,
\* changes it, and its Time is the time between the two.
AlertLogChain ==
  \A a \in Alert \ raced : \A i \in 2 .. Len(log[a]) :
    LET before == log[a][i - 1]
        this   == log[a][i]
    IN /\ this.from = before.Status /\ this.Status # before.Status
       /\ this.Time = this.changedAt - before.changedAt /\ this.Time > 0

\* The logs that name no alert come from updates of an alert removed while
\* they ran: with no overlap there is none.
EveryLogHasItsAlert == raced = {} => log[NoAlert] = << >>

\* A step adds only devices that its request has seen active.
AttachesActiveDevices ==
  \A a \in Alert : \A d \in alert'[a].devices \ alert[a].devices :
    \E r \in Req : req[r].alert = a /\ req[r].pc = "write" /\ d \in req[r].seen

\* A device enters an alert only by a request during which it was active at
\* some time, however many other requests and removals of devices overlap:
\* validateDevices looks at the very devices that are then written.
DevicesWereActive == [][AttachesActiveDevices]_vars

\* A step leaves the removed alerts removed.
KeepsRemoved == \A a \in Alert : alert[a].state = "gone" => alert'[a].state = "gone"

\* A removed alert stays removed: an update that was in flight when it went
\* does not bring it back.
RemovedStaysRemoved == [][KeepsRemoved]_vars
=============================================================================
