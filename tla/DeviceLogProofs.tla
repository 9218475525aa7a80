--------------------------- MODULE DeviceLogProofs ---------------------------
(***************************************************************************)
(* Theorems about DeviceLog.  Types hold for any requests; that the logs   *)
(* follow the devices and form a chain is proved as the code has it: for   *)
(* one request and its listener at a time, with any devices, maps, errors  *)
(* and restarts.                                                           *)
(***************************************************************************)
EXTENDS DeviceLog, DevicesProofs

-----------------------------------------------------------------------------
(* The listener adds to what Devices does, and changes none of it: a step of *)
(* DeviceLog is a step of Devices or leaves it alone, so whatever was proved *)
(* of Devices holds here.                                                    *)

LEMMA LogStepIsAStep == [LogNext]_<<vars, logVars>> => [Next]_vars
<1>1. ASSUME NEW r \in Req, HandlerFind(r) \/ HandlerCreate(r) \/ HandlerFail(r)
      PROVE  HandlerDone(r) \/ UNCHANGED vars
  <2>1. HandlerFind(r) => HandlerDone(r) \/ UNCHANGED vars
    BY DEF HandlerFind
  <2> QED
    BY <1>1, <2>1 DEF HandlerCreate, HandlerFail
<1>2. LogRestart => Restart
  BY DEF LogRestart
<1> QED
  BY <1>1, <1>2 DEF LogNext, Next

THEOREM LogIsDevices == LogSpec => Spec
BY LogStepIsAStep, PTL DEF LogSpec, LogInit, Spec

-----------------------------------------------------------------------------
(* Types.                                                                    *)

\* The logs of a device, one by one.
LEMMA LogTypes ==
  ASSUME LogTypeOK, NEW d \in Device
  PROVE  /\ log[d] \in Seq(EventLog) /\ Len(log[d]) \in Nat
         /\ DOMAIN log[d] = 1 .. Len(log[d])
         /\ log[d] = << >> <=> Len(log[d]) = 0
         /\ \A i \in 1 .. Len(log[d]) :
              /\ log[d][i] \in EventLog /\ log[d][i].changedAt \in Nat
              /\ log[d][i].Status \in StatusValue /\ log[d][i] # Unread /\ log[d][i] # NoLog
<1>1. log[d] \in Seq(EventLog)
  BY DEF LogTypeOK
<1>2. \A i \in 1 .. Len(log[d]) : log[d][i] \in EventLog
  BY <1>1
<1>3. \A l \in EventLog : l.is = "log" /\ l.changedAt \in Nat /\ l.Status \in StatusValue
  BY DEF EventLog
<1>4. Unread.is # "log" /\ NoLog.is # "log"
  BY DEF Unread, NoLog
<1>5. Len(log[d]) \in Nat /\ DOMAIN log[d] = 1 .. Len(log[d]) /\ (log[d] = << >> <=> Len(log[d]) = 0)
  BY <1>1
<1> QED
  BY <1>1, <1>2, <1>3, <1>4, <1>5

LEMMA LastLogsAreLogs ==
  ASSUME LogTypeOK, NEW d \in Device
  PROVE  LastLogs(d) \subseteq EventLog
BY LogTypes DEF LastLogs, Range

LEMMA NextLogIsALog ==
  ASSUME NEW event \in Payload, NEW last \in EventLog \cup {NoLog}
  PROVE  /\ NextLog(event, last) \in EventLog
         /\ NextLog(event, last).Status = event.StatusIcmp
         /\ NextLog(event, last).changedAt = event.lastChangeStatusTime
         /\ last # NoLog =>
              /\ NextLog(event, last).from = last.Status
              /\ NextLog(event, last).Time = event.lastChangeStatusTime - last.changedAt
<1>1. ASSUME NEW status \in StatusValue, NEW at \in Nat, NEW from \in StatusValue \cup {""},
             NEW gap \in Int
      PROVE  [is |-> "log", Status |-> status, changedAt |-> at, from |-> from, Time |-> gap]
               \in EventLog
  BY DEF EventLog
<1>2. event.lastChangeStatusTime \in Nat /\ event.StatusIcmp \in StatusValue
  BY DEF Payload, StatusValue
<1>3. last # NoLog => last.changedAt \in Nat /\ last.Status \in StatusValue
  BY DEF EventLog
<1>4. NextLog(event, last).Status = event.StatusIcmp
      /\ NextLog(event, last).changedAt = event.lastChangeStatusTime
  BY DEF NextLog
<1>5. CASE last = NoLog
  <2>1. NextLog(event, last) =
          [is |-> "log", Status |-> event.StatusIcmp, changedAt |-> event.lastChangeStatusTime,
           from |-> "", Time |-> 0]
    BY <1>5 DEF NextLog
  <2>2. "" \in StatusValue \cup {""} /\ 0 \in Int
    OBVIOUS
  <2>3. [is |-> "log", Status |-> event.StatusIcmp, changedAt |-> event.lastChangeStatusTime,
         from |-> "", Time |-> 0] \in EventLog
    BY <1>1, <1>2, <2>2, Zenon
  <2> QED
    BY <1>4, <1>5, <2>1, <2>3
<1>6. CASE last # NoLog
  <2> DEFINE gap == event.lastChangeStatusTime - last.changedAt
  <2>1. gap \in Int
    BY <1>2, <1>3, <1>6
  <2>2. NextLog(event, last).from = last.Status /\ NextLog(event, last).Time = gap
    BY <1>6 DEF NextLog
  <2>3. NextLog(event, last) =
          [is |-> "log", Status |-> event.StatusIcmp, changedAt |-> event.lastChangeStatusTime,
           from |-> last.Status, Time |-> gap]
    BY <1>6 DEF NextLog
  <2>4. NextLog(event, last) \in EventLog
    <3> HIDE DEF gap
    <3> QED
      BY <1>1, <1>2, <1>3, <1>6, <2>1, <2>3
  <2> QED
    BY <1>4, <2>2, <2>4
<1> QED
  BY <1>5, <1>6

LEMMA DroppedAreDevices ==
  ASSUME TypeInv
  PROVE  Dropped \subseteq Device
<1>1. ASSUME NEW r \in Req, Owes(r) PROVE req[r].dev \in Device
  BY <1>1 DEF Owes, TypeInv, RequestOK
<1> QED
  BY <1>1 DEF Dropped

LEMMA NextLogTypes ==
  ASSUME TypeInv, TypeInv', LogTypeOK, [LogNext]_<<vars, logVars>>
  PROVE  LogTypeOK'
<1>1. TypeOK'
  BY DEF TypeInv
<1>2. Unlogged => unlogged' \subseteq Device
  BY DroppedAreDevices DEF Unlogged, LogTypeOK
<1> USE DEF LogTypeOK
<1>3. CASE ServiceStep /\ Unlogged /\ UNCHANGED <<log, found>>
  BY <1>1, <1>2, <1>3
<1>4. ASSUME NEW r \in Req, HandlerFind(r) PROVE LogTypeOK'
  <2>1. req[r].dev \in Device
    BY <1>4 DEF HandlerFind, TypeInv, RequestOK
  <2>2. unlogged' \subseteq Device /\ log' = log
    BY <1>4 DEF HandlerFind, Logged
  <2>3. \A last : last \in (IF log[req[r].dev] = << >> THEN {NoLog} ELSE LastLogs(req[r].dev))
                  => last \in EventLog \cup {NoLog}
    BY <2>1, LastLogsAreLogs
  <2>4. PICK last : /\ last \in IF log[req[r].dev] = << >> THEN {NoLog}
                                 ELSE LastLogs(req[r].dev)
                    /\ found' = found \/ found' = [found EXCEPT ![r] = last]
    BY <1>4 DEF HandlerFind
  <2>5. found' \in [Req -> EventLog \cup {Unread, NoLog}]
    BY <2>3, <2>4
  <2> QED
    BY <1>1, <2>2, <2>5
<1>5. ASSUME NEW r \in Req, HandlerCreate(r) PROVE LogTypeOK'
  <2>1. req[r].dev \in Device /\ req[r].event \in Payload
    BY <1>5 DEF HandlerCreate, HandlerDone, TypeInv, TypeOK, RequestOK, Request
  <2>2. found[r] \in EventLog \cup {NoLog}
    BY <1>5 DEF HandlerCreate
  <2>3. NextLog(req[r].event, found[r]) \in EventLog
    BY <2>1, <2>2, NextLogIsALog
  <2>4. log' \in [Device -> Seq(EventLog)]
    BY <1>5, <2>1, <2>3, LogTypes DEF HandlerCreate
  <2>5. found' \in [Req -> EventLog \cup {Unread, NoLog}] /\ unlogged' \subseteq Device
    BY <1>5 DEF HandlerCreate, Logged
  <2> QED
    BY <1>1, <2>4, <2>5
<1>6. ASSUME NEW r \in Req, HandlerFail(r) PROVE LogTypeOK'
  BY <1>1, <1>2, <1>6 DEF HandlerFail
<1>7. CASE LogRestart
  BY <1>1, <1>2, <1>7 DEF LogRestart
<1>8. CASE UNCHANGED <<vars, logVars>>
  BY <1>1, <1>8 DEF logVars
<1> QED
  BY <1>3, <1>4, <1>5, <1>6, <1>7, <1>8 DEF LogNext

\* Every state of the status history is well typed, however many requests and
\* listeners are running.
THEOREM LogTypeCorrect == LogSpec => []LogTypeOK
<1>1. LogInit => LogTypeOK
  BY InitTypeInv DEF LogInit, LogTypeOK, TypeInv
<1>2. TypeInv /\ TypeInv' /\ LogTypeOK /\ [LogNext]_<<vars, logVars>> => LogTypeOK'
  BY NextLogTypes
<1> QED
  BY <1>1, <1>2, LogIsDevices, TypeInvariance, PTL DEF LogSpec

-----------------------------------------------------------------------------
(* The inductive invariant.                                                 *)

OneSlot == \A r, q \in Req : r = q

LogsBefore(d, t) == \A i \in DOMAIN log[d] : log[d][i].changedAt < t

LogsOrdered(d) ==
  \A i, j \in DOMAIN log[d] : i < j => log[d][i].changedAt < log[d][j].changedAt

NewestLog(d) == log[d][Len(log[d])]

LastTells(d) == log[d] # << >> /\ NewestLog(d).Status = device[d].StatusIcmp

\* What the listener has read is still the newest log, and differs from the event.
FoundIsNewest(r) ==
  LET d == req[r].dev IN
  IF log[d] = << >> THEN found[r] = NoLog
  ELSE found[r] = NewestLog(d) /\ found[r].Status # req[r].event.StatusIcmp

\* The change a slot may come to log is later than every log of its device.
SlotLogs(r) ==
  LET d == req[r].dev IN
  /\ req[r].pc = "find" => LogsBefore(d, now)
  /\ req[r].pc = "work" => LogsBefore(d, req[r].stamp)
  /\ req[r].pc \in {"after", "logging"} => device[d].state # "absent"
  /\ req[r].pc = "after" /\ StatusChanged(r) =>
       IF req[r].op = "insert"
       THEN log[d] = << >> /\ device[d].StatusIcmp = req[r].dto.StatusIcmp
       ELSE LogsBefore(d, device[d].lastChangeStatusTime)
  /\ req[r].pc = "logging" =>
       /\ LogsBefore(d, req[r].event.lastChangeStatusTime)
       /\ req[r].event.lastChangeStatusTime <= now
       /\ req[r].event.StatusIcmp = device[d].StatusIcmp
  /\ found[r] # Unread => req[r].pc = "logging" /\ FoundIsNewest(r)

DeviceLogs(d) ==
  /\ device[d].state = "absent" => log[d] = << >>
  /\ device[d].state # "absent" => device[d].StatusIcmp # "unknown"
  /\ LogsBefore(d, now + 1) /\ LogsOrdered(d)
  /\ device[d].state # "absent" /\ d \notin unlogged
       /\ (\A r \in Req : Owes(r) => req[r].dev # d) => LastTells(d)

LogInv ==
  /\ \A r \in Req : SlotLogs(r)
  /\ \A d \in Device : DeviceLogs(d)
  /\ LogChain
-----------------------------------------------------------------------------
(* Lemmas about the logs.                                                    *)

LEMMA InitLogInv == LogInit => LogInv
BY DEF LogInit, Init, LogInv, SlotLogs, DeviceLogs, LogsBefore, LogsOrdered, LogChain,
       NoDoc, Idle

\* findOne().sort({changedAt: -1}) reads the log that was written last.
LEMMA NewestIsLast ==
  ASSUME LogTypeOK, NEW d \in Device, LogsOrdered(d), log[d] # << >>
  PROVE  LastLogs(d) = {NewestLog(d)} /\ NewestLog(d) # NoLog /\ NewestLog(d) # Unread
<1> DEFINE n == Len(log[d])
<1>1. /\ n \in Nat /\ n # 0 /\ DOMAIN log[d] = 1 .. n
      /\ \A i \in 1 .. n : log[d][i].changedAt \in Nat /\ log[d][i] # NoLog /\ log[d][i] # Unread
  BY LogTypes
<1>2. n \in 1 .. n /\ NewestLog(d) = log[d][n]
  BY <1>1 DEF NewestLog
<1>3. Range(log[d]) = {log[d][i] : i \in 1 .. n}
  BY <1>1 DEF Range
<1>4. \A i \in 1 .. n : i = n \/ log[d][i].changedAt < log[d][n].changedAt
  BY <1>1, <1>2 DEF LogsOrdered
<1> HIDE DEF n
<1>5. log[d][n] \in LastLogs(d)
  BY <1>1, <1>2, <1>3, <1>4 DEF LastLogs
<1>6. ASSUME NEW l \in LastLogs(d) PROVE l = log[d][n]
  <2>1. PICK i \in 1 .. n : l = log[d][i]
    BY <1>3, <1>6 DEF LastLogs
  <2>2. log[d][n].changedAt <= log[d][i].changedAt
    BY <1>2, <1>3, <1>6, <2>1 DEF LastLogs
  <2> QED
    BY <1>1, <1>2, <1>4, <2>1, <2>2
<1> QED
  BY <1>1, <1>2, <1>5, <1>6

\* The chain goes on: a log later than the others, from the status of the last.
LEMMA AppendKeepsLogs ==
  ASSUME LogTypeOK, NEW d \in Device, NEW next \in EventLog,
         LogsOrdered(d), LogsBefore(d, next.changedAt), next.changedAt <= now, now \in Nat,
         LogsBefore(d, now + 1),
         \A i \in 2 .. Len(log[d]) :
           /\ log[d][i].from = log[d][i - 1].Status /\ log[d][i].Status # log[d][i - 1].Status
           /\ log[d][i].Time = log[d][i].changedAt - log[d][i - 1].changedAt
           /\ log[d][i].Time > 0,
         log[d] # << >> =>
           /\ next.from = NewestLog(d).Status /\ next.Status # NewestLog(d).Status
           /\ next.Time = next.changedAt - NewestLog(d).changedAt
  PROVE  LET new == Append(log[d], next) IN
         /\ new # << >> /\ new[Len(new)] = next
         /\ \A i \in DOMAIN new : new[i].changedAt < now + 1
         /\ \A i, j \in DOMAIN new : i < j => new[i].changedAt < new[j].changedAt
         /\ \A i \in 2 .. Len(new) :
              /\ new[i].from = new[i - 1].Status /\ new[i].Status # new[i - 1].Status
              /\ new[i].Time = new[i].changedAt - new[i - 1].changedAt /\ new[i].Time > 0
<1> DEFINE n == Len(log[d])
<1>1. /\ log[d] \in Seq(EventLog) /\ n \in Nat /\ DOMAIN log[d] = 1 .. n
      /\ log[d] = << >> <=> n = 0
      /\ \A i \in 1 .. n : log[d][i].changedAt \in Nat
  BY LogTypes
<1>2. next.changedAt \in Nat
  BY DEF EventLog
<1>3. PICK new :
        /\ new = Append(log[d], next) /\ Len(new) = n + 1 /\ DOMAIN new = 1 .. n + 1
        /\ new[n + 1] = next /\ \A i \in 1 .. n : new[i] = log[d][i]
  <2> DEFINE app == Append(log[d], next)
  <2>1. /\ Len(app) = n + 1 /\ DOMAIN app = 1 .. n + 1 /\ app[n + 1] = next
        /\ \A i \in 1 .. n : app[i] = log[d][i]
    BY <1>1
  <2> QED
    BY <2>1
<1>4. \A i \in 1 .. n : log[d][i].changedAt < next.changedAt
  BY <1>1 DEF LogsBefore
<1>5. \A i, j \in 1 .. n : i < j => log[d][i].changedAt < log[d][j].changedAt
  BY <1>1 DEF LogsOrdered
<1>6. \A i \in 1 .. n : log[d][i].changedAt < now + 1
  BY <1>1 DEF LogsBefore
<1>7. n # 0 => /\ next.from = log[d][n].Status /\ next.Status # log[d][n].Status
               /\ next.Time = next.changedAt - log[d][n].changedAt /\ n \in 1 .. n
  BY <1>1 DEF NewestLog
<1>8. \A i \in 2 .. n :
         /\ log[d][i].from = log[d][i - 1].Status /\ log[d][i].Status # log[d][i - 1].Status
         /\ log[d][i].Time = log[d][i].changedAt - log[d][i - 1].changedAt
         /\ log[d][i].Time > 0
  OBVIOUS
<1> HIDE DEF n
<1>9. new # << >> /\ new[Len(new)] = next
  BY <1>1, <1>3
<1>10. \A i \in DOMAIN new : new[i].changedAt < now + 1
  BY <1>1, <1>2, <1>3, <1>6
<1>11. \A i, j \in DOMAIN new : i < j => new[i].changedAt < new[j].changedAt
  BY <1>1, <1>2, <1>3, <1>4, <1>5
<1>12. ASSUME NEW i \in 2 .. Len(new)
       PROVE  /\ new[i].from = new[i - 1].Status /\ new[i].Status # new[i - 1].Status
              /\ new[i].Time = new[i].changedAt - new[i - 1].changedAt /\ new[i].Time > 0
  <2>1. CASE i = n + 1
    <3>1. n # 0 /\ n \in 1 .. n /\ i - 1 = n
      BY <1>1, <1>3, <2>1
    <3>2. new[i] = next /\ new[i - 1] = log[d][n]
      BY <1>3, <2>1, <3>1
    <3> QED
      BY <1>1, <1>2, <1>4, <1>7, <3>1, <3>2
  <2>2. CASE i # n + 1
    <3>1. i \in 2 .. n /\ i \in 1 .. n /\ i - 1 \in 1 .. n
      BY <1>1, <1>3, <2>2
    <3>2. new[i] = log[d][i] /\ new[i - 1] = log[d][i - 1]
      BY <1>3, <3>1
    <3> QED
      BY <1>8, <3>1, <3>2
  <2> QED
    BY <2>1, <2>2
<1> QED
  BY <1>3, <1>9, <1>10, <1>11, <1>12

\* A step that writes no log and no device: what a slot no longer owes, it lost.
LEMMA LogFrame ==
  ASSUME TypeInv, TypeInv', LogTypeOK, LogInv,
         device' = device, log' = log, now <= now', unlogged \subseteq unlogged',
         \A p \in Req : SlotLogs(p)',
         \A p \in Req : Owes(p) => \/ Owes(p)' /\ req'[p].dev = req[p].dev
                                   \/ req[p].dev \in unlogged'
  PROVE  LogInv'
<1>1. LogChain'
  BY DEF LogInv, LogChain
<1>2. ASSUME NEW d \in Device PROVE DeviceLogs(d)'
  <2>1. DeviceLogs(d)
    BY DEF LogInv
  <2>2. LogsBefore(d, now + 1)'
    <3>1. now \in Nat /\ now' \in Nat
      BY DEF TypeInv, TypeOK
    <3> QED
      BY <2>1, <3>1, LogTypes DEF DeviceLogs, LogsBefore
  <2>3. LogsOrdered(d)'
    BY <2>1 DEF DeviceLogs, LogsOrdered
  <2>4. ASSUME device'[d].state # "absent", d \notin unlogged',
               \A p \in Req : Owes(p)' => req'[p].dev # d
        PROVE  LastTells(d)'
    <3>1. \A p \in Req : Owes(p) => req[p].dev # d
      BY <2>4
    <3>2. LastTells(d)
      BY <2>1, <2>4, <3>1 DEF DeviceLogs
    <3> QED
      BY <3>2 DEF LastTells, NewestLog
  <2> QED
    BY <2>1, <2>2, <2>3, <2>4 DEF DeviceLogs
<1> QED
  BY <1>1, <1>2 DEF LogInv

\* A slot that owes a log and is freed without one leaves its device unlogged.
LEMMA UnloggedKeeps ==
  ASSUME Unlogged, NEW r \in Req
  PROVE  /\ unlogged \subseteq unlogged'
         /\ Owes(r) /\ req'[r].pc = "idle" => req[r].dev \in unlogged'
BY DEF Unlogged, Dropped

-----------------------------------------------------------------------------
(* The steps of the service.                                                 *)

\* The bounds of the single slot and of its device, in one place.
LEMMA SlotFacts ==
  ASSUME TypeInv, LogTypeOK, ClockInv, LogInv, NEW r \in Req
  PROVE  /\ req[r] \in Request /\ req \in [Req -> Request] /\ now \in Nat /\ boot \in Nat
         /\ req[r].stamp \in Nat /\ SlotLogs(r) /\ SlotClock(r)
         /\ req[r].pc # "logging" => found[r] = Unread
         /\ req[r].pc # "idle" =>
              /\ req[r].dev \in Device /\ device[req[r].dev] \in DeviceDoc
              /\ DeviceLogs(req[r].dev)
BY DEF TypeInv, TypeOK, RequestOK, Request, LogInv, SlotLogs, ClockInv

LEMMA BeginLogs ==
  ASSUME OneSlot, ClockStep > 0, TypeInv, TypeInv', LogTypeOK, ClockInv, LogInv,
         NEW r \in Req, ClientRequest(r), Unlogged, log' = log, found' = found
  PROVE  LogInv'
<1>1. PICK d \in Device, op \in {"create", "update", "remove"}, dto \in CreateDeviceDto
             \cup UpdateDeviceDto \cup {NoDto} : Begin(r, d, op, dto)
  BY DEF ClientRequest
<1>2. req'[r].pc = "find" /\ req'[r].dev = d /\ req[r].pc = "idle"
  BY <1>1, SlotFacts DEF Begin, Idle
<1>3. device' = device /\ now' = now + ClockStep /\ now \in Nat /\ ClockStep \in Nat
  BY <1>1, SlotFacts, DevicesAssumption DEF Begin
<1>4. SlotLogs(r)'
  <2>1. LogsBefore(d, now + 1)
    BY DEF LogInv, DeviceLogs
  <2>2. LogsBefore(d, now)'
    BY <1>3, <2>1, LogTypes DEF LogsBefore
  <2>3. found'[r] = Unread
    BY <1>2, SlotFacts
  <2> QED
    BY <1>2, <2>2, <2>3 DEF SlotLogs
<1>5. ~Owes(r)
  BY <1>2 DEF Owes
<1> QED
  BY <1>3, <1>4, <1>5, LogFrame, UnloggedKeeps DEF OneSlot

LEMMA FindLogs ==
  ASSUME OneSlot, TypeInv, TypeInv', LogTypeOK, ClockInv, LogInv,
         NEW r \in Req, Find(r), Unlogged, log' = log, found' = found
  PROVE  LogInv'
<1>1. /\ req[r].pc = "find" /\ req'[r].pc = "work" /\ req'[r].dev = req[r].dev
      /\ req'[r].stamp = now
  BY SlotFacts DEF Find, Request
<1>2. device' = device /\ now' = now /\ now \in Nat
  BY SlotFacts DEF Find
<1>3. SlotLogs(r)'
  <2>1. LogsBefore(req[r].dev, now) /\ found'[r] = Unread
    BY <1>1, SlotFacts DEF SlotLogs
  <2>2. \A i \in DOMAIN log'[req'[r].dev] : log'[req'[r].dev][i].changedAt < req'[r].stamp
    BY <1>1, <2>1 DEF LogsBefore
  <2> QED
    BY <1>1, <2>1, <2>2 DEF SlotLogs, LogsBefore
<1>4. ~Owes(r)
  BY <1>1 DEF Owes
<1> QED
  BY <1>2, <1>3, <1>4, LogFrame, UnloggedKeeps DEF OneSlot

LEMMA WorkLogs ==
  ASSUME OneSlot, TypeInv, TypeInv', LogTypeOK, ClockInv, LogInv, NEW r \in Req,
         \/ \E m \in Mapa : PullFromMap(r, m) \/ LookUpMap(r, m) \/ PushToMap(r, m)
         \/ WriteDevice(r),
         Unlogged, log' = log, found' = found
  PROVE  LogInv'
<1>1. req[r].pc = "work" /\ device' = device /\ now' = now
  BY DEF PullFromMap, CanPull, LookUpMap, CanLook, PushToMap, CanPush, WriteDevice,
         CanWriteDevice
<1>2. req'[r].pc = "work" /\ req'[r].dev = req[r].dev /\ req'[r].stamp \in {req[r].stamp, now}
  BY <1>1, SlotFacts DEF PullFromMap, LookUpMap, PushToMap, WriteDevice, Request
<1>3. SlotLogs(r)'
  <2>1. /\ LogsBefore(req[r].dev, req[r].stamp) /\ found'[r] = Unread
        /\ req[r].stamp <= now /\ req[r].stamp \in Nat /\ now \in Nat /\ req[r].dev \in Device
    BY <1>1, SlotFacts DEF SlotLogs, SlotClock
  <2>2. \A i \in DOMAIN log[req[r].dev] : log[req[r].dev][i].changedAt < req'[r].stamp
    BY <1>2, <2>1, LogTypes DEF LogsBefore
  <2> QED
    BY <1>2, <2>1, <2>2 DEF SlotLogs, LogsBefore
<1>4. ~Owes(r)
  BY <1>1 DEF Owes
<1>5. now <= now'
  BY <1>1, SlotFacts
<1> QED
  BY <1>1, <1>3, <1>4, <1>5, LogFrame, UnloggedKeeps DEF OneSlot

\* What a commit stores, seen from the logs: a new status comes with the time
\* of the request, or with the first document; the same status changes nothing;
\* and of a status set to null, or of the removal of a device that was not up, no
\* log will tell.
LEMMA CommitChanges ==
  ASSUME TypeInv, SerialInv, ClockInv, LogTypeOK, LogInv, NEW r \in Req, Commit(r)
  PROVE  LET doc == device[req[r].dev] IN
         /\ Written(r).state # "absent" /\ Written(r).StatusIcmp # "unknown"
         /\ req[r].op = "insert" =>
              doc.state = "absent" /\ Written(r).StatusIcmp = req[r].dto.StatusIcmp
         /\ StatusChanged(r) /\ req[r].op # "insert" =>
              Written(r).lastChangeStatusTime = req[r].stamp
         /\ ~StatusChanged(r) =>
              /\ doc.state # "absent"
              /\ Written(r).StatusIcmp = doc.StatusIcmp \/ req[r].dev \in Dropped
<1> DEFINE doc == device[req[r].dev]
<1>1. /\ req[r].op \in {"insert", "reactivate", "update", "remove"}
      /\ req[r].dev \in Device /\ doc \in DeviceDoc /\ DeviceLogs(req[r].dev)
      /\ req[r].pc = "work" /\ req[r].dev \in writes[r]
      /\ req[r].op \in {"insert", "reactivate"} =>
           req[r].dto.StatusIcmp \in {"up", "down", "verified"}
      /\ req[r].op = "update" =>
           req[r].dto.StatusIcmp \in {"up", "down", "verified", "keep", "null"}
  BY SlotFacts, BodyFacts DEF Commit, CanCommit, TypeInv, TypeOK, RequestOK, Request
<1>2. /\ req[r].op = "insert" => doc.state = "absent"
      /\ req[r].op = "reactivate" => doc.state = "inactive" /\ req[r].seen = doc
      /\ req[r].op \in {"update", "remove"} => req[r].seen = doc /\ doc.state = "active"
  BY <1>1 DEF SerialInv, SeenIsCurrent, ClockInv, SlotClock
<1>3. doc.state # "absent" => doc.StatusIcmp \in {"up", "down", "verified", "null"}
  BY <1>1 DEF DeviceLogs, DeviceDoc, StatusValue
<1>4. device'[req[r].dev] = Written(r)
  BY <1>1 DEF Commit, TypeInv, TypeOK
<1>5. CASE req[r].op = "insert"
  BY <1>1, <1>2, <1>5 DEF Written, InsertedDoc, StatusChanged
<1>6. CASE req[r].op = "reactivate"
  BY <1>1, <1>2, <1>6 DEF Written, ReactivatedDoc, StatusChanged, Stamp
<1>7. CASE req[r].op = "update"
  <2>1. req[r].dto.StatusIcmp = "null" =>
          Written(r).StatusIcmp = doc.StatusIcmp \/ req[r].dev \in Dropped
    BY <1>1, <1>4, <1>7 DEF Written, UpdatedDoc, Dropped, Silent
  <2> QED
    BY <1>1, <1>2, <1>3, <1>7, <2>1 DEF Written, UpdatedDoc, StatusChanged, Stamp
<1>8. CASE req[r].op = "remove"
  <2>1. /\ Written(r).state = "inactive" /\ Written(r).StatusIcmp = "down"
        /\ Written(r).lastChangeStatusTime = Stamp(r)
    BY <1>8 DEF Written, RemovedDoc
  <2>2. ~StatusChanged(r) => doc.StatusIcmp \in {"down", "verified", "null"}
    BY <1>2, <1>3, <1>8 DEF StatusChanged
  <2>3. doc.StatusIcmp \in {"verified", "null"} => req[r].dev \in Dropped
    BY <1>1, <1>2, <1>4, <1>8, <2>1 DEF Dropped, Silent
  <2> QED
    BY <1>2, <1>8, <2>1, <2>2, <2>3 DEF Stamp
<1> QED
  BY <1>1, <1>5, <1>6, <1>7, <1>8

LEMMA CommitLogs ==
  ASSUME OneSlot, TypeInv, TypeInv', SerialInv, ClockInv, LogTypeOK, LogInv,
         NEW r \in Req, Commit(r), Unlogged, log' = log, found' = found
  PROVE  LogInv'
<1> DEFINE d == req[r].dev
           doc == device[d]
<1>1. /\ req[r].pc = "work" /\ d \in Device /\ DeviceLogs(d) /\ now' = now /\ found'[r] = Unread
      /\ LogsBefore(d, req[r].stamp)
  BY SlotFacts DEF Commit, CanCommit, SlotLogs
<1>2. \A e \in Device : device'[e] = IF e = d THEN Written(r) ELSE device[e]
  BY <1>1 DEF Commit, TypeInv, TypeOK
<1>3. /\ req'[r].pc = "after" /\ req'[r].dev = d /\ req'[r].op = req[r].op
      /\ req'[r].dto = req[r].dto /\ req'[r].seen = req[r].seen
  BY SlotFacts DEF Commit, Request
<1>4. StatusChanged(r)' <=> StatusChanged(r)
  BY <1>3 DEF StatusChanged
<1>5. \A p \in Req : p = r /\ ~Owes(p)
  BY <1>1 DEF OneSlot, Owes
<1>6. SlotLogs(r)'
  <2>1. device'[d] = Written(r) /\ device'[d].state # "absent"
    BY <1>1, <1>2, CommitChanges
  <2>2. ASSUME StatusChanged(r)
        PROVE  IF req[r].op = "insert"
               THEN log[d] = << >> /\ device'[d].StatusIcmp = req[r].dto.StatusIcmp
               ELSE \A i \in DOMAIN log[d] :
                      log[d][i].changedAt < device'[d].lastChangeStatusTime
    BY <1>1, <2>1, <2>2, CommitChanges DEF DeviceLogs, LogsBefore
  <2> QED
    BY <1>1, <1>3, <1>4, <2>1, <2>2 DEF SlotLogs, LogsBefore
<1>7. ASSUME NEW e \in Device PROVE DeviceLogs(e)'
  <2>1. DeviceLogs(e) /\ (device[e].state # "absent" /\ e \notin unlogged => LastTells(e))
    BY <1>5 DEF LogInv, DeviceLogs
  <2>2. LogsBefore(e, now + 1)' /\ LogsOrdered(e)'
    BY <1>1, <2>1 DEF DeviceLogs, LogsBefore, LogsOrdered
  <2>3. unlogged \subseteq unlogged' /\ Dropped \subseteq unlogged'
    BY DEF Unlogged
  <2>4. CASE e # d
    <3>1. device'[e] = device[e]
      BY <1>2, <2>4
    <3>2. LastTells(e) => LastTells(e)'
      BY <3>1 DEF LastTells, NewestLog
    <3> QED
      BY <2>1, <2>2, <2>3, <3>1, <3>2 DEF DeviceLogs
  <2>5. CASE e = d
    <3>1. device'[e] = Written(r) /\ device'[e].state # "absent" /\ device'[e].StatusIcmp # "unknown"
      BY <1>2, <2>5, CommitChanges
    <3>2. ASSUME e \notin unlogged', \A p \in Req : Owes(p)' => req'[p].dev # e
          PROVE  LastTells(e)'
      <4>1. ~StatusChanged(r)
        BY <1>3, <1>4, <2>5, <3>2 DEF Owes
      <4>2. device[e].state # "absent" /\ device'[e].StatusIcmp = device[e].StatusIcmp
        BY <2>3, <2>5, <3>1, <3>2, <4>1, CommitChanges
      <4>3. LastTells(e)
        BY <2>1, <2>3, <3>2, <4>2
      <4> QED
        BY <4>2, <4>3 DEF LastTells, NewestLog
    <3> QED
      BY <2>2, <3>1, <3>2 DEF DeviceLogs
  <2> QED
    BY <2>4, <2>5
<1>8. LogChain'
  BY DEF LogInv, LogChain
<1> QED
  BY <1>5, <1>6, <1>7, <1>8 DEF LogInv

\* What is emitted is the status the device has now, and its time.
LEMMA EmitLogs ==
  ASSUME OneSlot, TypeInv, TypeInv', LogTypeOK, ClockInv, LogInv,
         NEW r \in Req, Emit(r), Unlogged, log' = log, found' = found
  PROVE  LogInv'
<1> DEFINE d == req[r].dev
           doc == device[d]
           event == IF req[r].op = "insert"
                    THEN [StatusIcmp |-> req[r].dto.StatusIcmp, lastChangeStatusTime |-> boot]
                    ELSE [StatusIcmp |-> doc.StatusIcmp,
                          lastChangeStatusTime |-> doc.lastChangeStatusTime]
<1>1. /\ req[r].pc = "after" /\ StatusChanged(r) /\ SlotLogs(r) /\ found'[r] = Unread
      /\ d \in Device /\ device' = device /\ now' = now
  BY SlotFacts DEF Emit
<1>2. req'[r].pc = "logging" /\ req'[r].dev = d /\ req'[r].event = event
  BY SlotFacts DEF Emit, Idle
<1>3. boot <= now /\ doc.lastChangeStatusTime <= now /\ now \in Nat
  BY <1>1, SlotFacts DEF ClockInv
<1>4. /\ \A i \in DOMAIN log[d] : log[d][i].changedAt < event.lastChangeStatusTime
      /\ event.lastChangeStatusTime <= now /\ event.StatusIcmp = doc.StatusIcmp
  <2>1. CASE req[r].op = "insert"
    <3>1. log[d] = << >> /\ doc.StatusIcmp = req[r].dto.StatusIcmp
      BY <1>1, <2>1 DEF SlotLogs
    <3> QED
      BY <1>3, <2>1, <3>1
  <2>2. CASE req[r].op # "insert"
    BY <1>1, <1>3, <2>2 DEF SlotLogs, LogsBefore
  <2> QED
    BY <2>1, <2>2
<1> HIDE DEF event
<1>5. SlotLogs(r)'
  BY <1>1, <1>2, <1>4 DEF SlotLogs, LogsBefore
<1>6. Owes(r)' /\ now <= now'
  BY <1>1, <1>2, <1>3 DEF Owes
<1> QED
  BY <1>1, <1>2, <1>5, <1>6, LogFrame, UnloggedKeeps DEF OneSlot

\* An answer owes nothing; an error after the commit, and a listener that fails,
\* lose the change, and the device is unlogged.
LEMMA LeaveLogs ==
  ASSUME OneSlot, TypeInv, TypeInv', LogTypeOK, ClockInv, LogInv, NEW r \in Req,
         \/ (Respond(r) \/ EndWithError(r)) /\ req[r].pc # "logging" /\ found' = found
         \/ HandlerFail(r),
         Unlogged, log' = log
  PROVE  LogInv'
<1>1. req' = [req EXCEPT ![r] = Idle] /\ device' = device /\ now' = now
  BY DEF Respond, EndWithError, HandlerFail, HandlerDone
<1>2. req'[r].pc = "idle"
  BY <1>1, SlotFacts DEF Idle
<1>3. found'[r] = Unread
  BY SlotFacts DEF HandlerFail, LogTypeOK
<1>4. SlotLogs(r)' /\ now <= now'
  BY <1>1, <1>2, <1>3, SlotFacts DEF SlotLogs
<1> QED
  BY <1>1, <1>2, <1>4, LogFrame, UnloggedKeeps DEF OneSlot

LEMMA MapasWriteLogs ==
  ASSUME TypeInv, TypeInv', LogTypeOK, LogInv, NEW m \in Mapa, NEW state \in DocState,
         MapasWrite(m, state), Unlogged, log' = log, found' = found
  PROVE  LogInv'
<1>1. req' = req /\ device' = device /\ now' = now /\ now <= now'
  BY DEF MapasWrite, TypeInv, TypeOK
<1>2. \A p \in Req : SlotLogs(p)' /\ (Owes(p) => Owes(p)')
  BY <1>1 DEF LogInv, SlotLogs, LogsBefore, StatusChanged, FoundIsNewest, NewestLog, Owes
<1>3. unlogged \subseteq unlogged'
  BY DEF Unlogged
<1> QED
  BY <1>1, <1>2, <1>3, LogFrame

LEMMA ServiceLogs ==
  ASSUME OneSlot, ClockStep > 0, TypeInv, TypeInv', SerialInv, ClockInv, LogTypeOK, LogInv,
         ServiceStep, Unlogged, UNCHANGED <<log, found>>
  PROVE  LogInv'
<1>1. ASSUME NEW r \in Req, ClientRequest(r) PROVE LogInv'
  BY <1>1, BeginLogs
<1>2. ASSUME NEW r \in Req, Refuse(r) PROVE LogInv'
  <2>1. req[r].pc \in {"find", "work"}
    BY <1>2 DEF Refuse, Refused, CanLook, MayRepeatIp, CanWriteDevice, CanPull,
           CanPush
  <2> QED
    BY <1>2, <2>1, LeaveLogs DEF Refuse
<1>3. ASSUME NEW r \in Req, DbError(r) PROVE LogInv'
  BY <1>3, LeaveLogs DEF DbError, InFlight
<1>4. ASSUME NEW r \in Req, Respond(r) PROVE LogInv'
  <2>1. req[r].pc = "after"
    BY <1>4 DEF Respond
  <2> QED
    BY <1>4, <2>1, LeaveLogs
<1>5. ASSUME NEW r \in Req, Progress(r) PROVE LogInv'
  BY <1>2, <1>4, <1>5, FindLogs, WorkLogs, CommitLogs, EmitLogs DEF Progress
<1>6. ASSUME NEW m \in Mapa, NEW state \in DocState, MapasWrite(m, state) PROVE LogInv'
  BY <1>6, MapasWriteLogs
<1> QED
  BY <1>1, <1>3, <1>5, <1>6 DEF ServiceStep

-----------------------------------------------------------------------------
(* The steps of the listener.                                                *)

\* The listener is done, and the newest log of its device tells its status.
LEMMA ListenerEnds ==
  ASSUME OneSlot, TypeInv, LogTypeOK, ClockInv, LogInv, NEW r \in Req,
         HandlerDone(r), Logged(req[r].dev), found'[r] = Unread,
         \A e \in Device \ {req[r].dev} : log'[e] = log[e],
         LogChain', NEW d \in Device, d = req[r].dev,
         LogsBefore(d, now + 1)', LogsOrdered(d)', LastTells(d)'
  PROVE  LogInv'
<1>1. device' = device /\ now' = now /\ req[r].pc = "logging" /\ SlotLogs(r)
      /\ device[d].state # "absent" /\ unlogged' = unlogged \ {d}
  BY SlotFacts DEF HandlerDone, Logged, SlotLogs
<1>2. req'[r].pc = "idle"
  BY SlotFacts DEF HandlerDone, Idle
<1>3. SlotLogs(r)'
  BY <1>2 DEF SlotLogs
<1>4. ASSUME NEW e \in Device PROVE DeviceLogs(e)'
  <2>1. DeviceLogs(e)
    BY DEF LogInv
  <2>2. CASE e = d
    BY <1>1, <2>1, <2>2 DEF DeviceLogs
  <2>3. CASE e # d
    <3>1. log'[e] = log[e] /\ device'[e] = device[e] /\ (e \notin unlogged' => e \notin unlogged)
      BY <1>1, <2>3
    <3>2. \A p \in Req : req[p].dev # e
      BY <2>3 DEF OneSlot
    <3>3. device[e].state # "absent" /\ e \notin unlogged => LastTells(e)
      BY <2>1, <3>2 DEF DeviceLogs
    <3>4. LogsBefore(e, now + 1)' /\ LogsOrdered(e)' /\ (LastTells(e) => LastTells(e)')
      BY <1>1, <2>1, <3>1 DEF DeviceLogs, LogsBefore, LogsOrdered, LastTells, NewestLog
    <3> QED
      BY <2>1, <3>1, <3>3, <3>4 DEF DeviceLogs
  <2> QED
    BY <2>2, <2>3
<1> QED
  BY <1>3, <1>4 DEF LogInv, OneSlot

\* The listener reads the newest log, and stops when it has the status of the
\* event, which is the status of the device.
LEMMA HandlerFindLogs ==
  ASSUME OneSlot, TypeInv, TypeInv', LogTypeOK, ClockInv, LogInv,
         NEW r \in Req, HandlerFind(r)
  PROVE  LogInv'
<1>1. PICK d \in Device : d = req[r].dev
  BY DEF HandlerFind, TypeInv, RequestOK
<1>2. /\ req[r].pc = "logging" /\ found[r] = Unread /\ log' = log
      /\ SlotLogs(r) /\ DeviceLogs(d) /\ req \in [Req -> Request]
  BY <1>1, SlotFacts DEF HandlerFind
<1>3. PICK last :
        /\ last \in IF log[d] = << >> THEN {NoLog} ELSE LastLogs(d)
        /\ IF last # NoLog /\ last.Status = req[r].event.StatusIcmp
           THEN HandlerDone(r) /\ Logged(d) /\ UNCHANGED found
           ELSE found' = [found EXCEPT ![r] = last] /\ UNCHANGED <<vars, unlogged>>
  BY <1>1 DEF HandlerFind
<1>4. IF log[d] = << >> THEN last = NoLog ELSE last = NewestLog(d) /\ last # NoLog
  BY <1>2, <1>3, NewestIsLast DEF DeviceLogs
<1>5. CASE last # NoLog /\ last.Status = req[r].event.StatusIcmp
  <2>1. HandlerDone(r) /\ Logged(d) /\ found' = found /\ device' = device /\ now' = now
    BY <1>3, <1>5 DEF HandlerDone
  <2>2. LastTells(d)
    BY <1>1, <1>2, <1>4, <1>5 DEF SlotLogs, LastTells
  <2>3. LastTells(d)' /\ LogsBefore(d, now + 1)' /\ LogsOrdered(d)'
    BY <1>2, <2>1, <2>2 DEF DeviceLogs, LastTells, NewestLog, LogsBefore, LogsOrdered
  <2>4. LogChain'
    BY <1>2 DEF LogInv, LogChain
  <2> QED
    BY <1>1, <1>2, <2>1, <2>3, <2>4, ListenerEnds
<1>6. CASE ~(last # NoLog /\ last.Status = req[r].event.StatusIcmp)
  <2>1. found' = [found EXCEPT ![r] = last] /\ UNCHANGED <<vars, unlogged>>
    BY <1>3, <1>6
  <2>2. req' = req /\ device' = device /\ now' = now /\ now <= now' /\ found'[r] = last
    BY <2>1 DEF vars, LogTypeOK, TypeInv, TypeOK
  <2>3. SlotLogs(r)'
    BY <1>1, <1>2, <1>4, <1>6, <2>2 DEF SlotLogs, LogsBefore, FoundIsNewest, NewestLog
  <2>4. Owes(r)' /\ unlogged' = unlogged
    BY <1>2, <2>1, <2>2 DEF Owes
  <2> QED
    BY <1>2, <2>2, <2>3, <2>4, LogFrame DEF OneSlot
<1> QED
  BY <1>5, <1>6

LEMMA HandlerCreateLogs ==
  ASSUME OneSlot, TypeInv, TypeInv', LogTypeOK, ClockInv, LogInv,
         NEW r \in Req, HandlerCreate(r)
  PROVE  LogInv'
<1> DEFINE next == NextLog(req[r].event, found[r])
<1>1. PICK d \in Device : d = req[r].dev
  BY DEF HandlerCreate, HandlerDone, TypeInv, RequestOK
<1>2. /\ req[r].pc = "logging" /\ found[r] # Unread /\ HandlerDone(r) /\ Logged(d)
      /\ found'[r] = Unread /\ device' = device /\ now' = now /\ now \in Nat
      /\ log' = [log EXCEPT ![d] = Append(@, next)]
      /\ SlotLogs(r) /\ DeviceLogs(d) /\ FoundIsNewest(r) /\ req[r].event \in Payload
  BY <1>1, SlotFacts DEF HandlerCreate, HandlerDone, LogTypeOK, SlotLogs, Request
<1>3. /\ LogsBefore(d, req[r].event.lastChangeStatusTime)
      /\ req[r].event.lastChangeStatusTime <= now
      /\ req[r].event.StatusIcmp = device[d].StatusIcmp
  BY <1>1, <1>2 DEF SlotLogs
<1>4. found[r] \in EventLog \cup {NoLog}
  BY <1>2 DEF LogTypeOK
<1>5. log[d] # << >> => /\ found[r] = NewestLog(d) /\ found[r] # NoLog
                        /\ found[r].Status # req[r].event.StatusIcmp
  BY <1>1, <1>2, NewestIsLast DEF FoundIsNewest, DeviceLogs
<1>6. /\ next \in EventLog /\ next.changedAt = req[r].event.lastChangeStatusTime
      /\ next.Status = device[d].StatusIcmp
      /\ log[d] # << >> =>
           /\ next.from = NewestLog(d).Status /\ next.Status # NewestLog(d).Status
           /\ next.Time = next.changedAt - NewestLog(d).changedAt
  BY <1>2, <1>3, <1>4, <1>5, NextLogIsALog
<1>7. \A i \in 2 .. Len(log[d]) :
        /\ log[d][i].from = log[d][i - 1].Status /\ log[d][i].Status # log[d][i - 1].Status
        /\ log[d][i].Time = log[d][i].changedAt - log[d][i - 1].changedAt
        /\ log[d][i].Time > 0
  BY DEF LogInv, LogChain
<1> HIDE DEF next
<1>8. /\ log'[d] = Append(log[d], next)
      /\ \A e \in Device \ {d} : log'[e] = log[e]
  BY <1>2 DEF LogTypeOK
<1>9. /\ log'[d] # << >> /\ log'[d][Len(log'[d])] = next
      /\ \A i \in DOMAIN log'[d] : log'[d][i].changedAt < now + 1
      /\ \A i, j \in DOMAIN log'[d] : i < j => log'[d][i].changedAt < log'[d][j].changedAt
      /\ \A i \in 2 .. Len(log'[d]) :
           /\ log'[d][i].from = log'[d][i - 1].Status
           /\ log'[d][i].Status # log'[d][i - 1].Status
           /\ log'[d][i].Time = log'[d][i].changedAt - log'[d][i - 1].changedAt
           /\ log'[d][i].Time > 0
  <2>1. /\ LogsOrdered(d) /\ LogsBefore(d, next.changedAt) /\ next.changedAt <= now
        /\ LogsBefore(d, now + 1)
    BY <1>2, <1>3, <1>6 DEF DeviceLogs
  <2> QED
    BY <1>2, <1>6, <1>7, <1>8, <2>1, AppendKeepsLogs, SMTT(30)
<1>10. LastTells(d)' /\ LogsBefore(d, now + 1)' /\ LogsOrdered(d)'
  BY <1>2, <1>6, <1>9 DEF LastTells, NewestLog, LogsBefore, LogsOrdered
<1>11. LogChain'
  <2> SUFFICES ASSUME NEW e \in Device, NEW i \in 2 .. Len(log'[e])
               PROVE  /\ log'[e][i].from = log'[e][i - 1].Status
                      /\ log'[e][i].Status # log'[e][i - 1].Status
                      /\ log'[e][i].Time = log'[e][i].changedAt - log'[e][i - 1].changedAt
                      /\ log'[e][i].Time > 0
    BY DEF LogChain
  <2>1. CASE e = d
    BY <1>9, <2>1
  <2>2. CASE e # d
    BY <1>8, <2>2 DEF LogInv, LogChain
  <2> QED
    BY <2>1, <2>2
<1> QED
  BY <1>1, <1>2, <1>8, <1>10, <1>11, ListenerEnds

LEMMA RestartLogs ==
  ASSUME TypeInv, TypeInv', LogTypeOK, LogInv, LogRestart
  PROVE  LogInv'
<1>1. device' = device /\ log' = log /\ now' = now /\ now <= now'
  BY DEF LogRestart, Restart, TypeInv, TypeOK
<1>2. \A p \in Req : req'[p].pc = "idle" /\ found'[p] = Unread
  BY DEF LogRestart, Restart, Idle
<1>3. \A p \in Req : SlotLogs(p)'
  BY <1>2 DEF SlotLogs
<1>4. unlogged \subseteq unlogged' /\ \A p \in Req : Owes(p) => req[p].dev \in unlogged'
  BY <1>2, UnloggedKeeps DEF LogRestart, Unlogged, Dropped
<1> QED
  BY <1>1, <1>3, <1>4, LogFrame

LEMMA NextLogInv ==
  ASSUME OneSlot, ClockStep > 0, TypeInv, TypeInv', SerialInv, ClockInv, LogTypeOK, LogInv,
         [LogNext]_<<vars, logVars>>
  PROVE  LogInv'
<1>1. CASE ServiceStep /\ Unlogged /\ UNCHANGED <<log, found>>
  BY <1>1, ServiceLogs
<1>2. ASSUME NEW r \in Req, HandlerFind(r) PROVE LogInv'
  BY <1>2, HandlerFindLogs
<1>3. ASSUME NEW r \in Req, HandlerCreate(r) PROVE LogInv'
  BY <1>3, HandlerCreateLogs
<1>4. ASSUME NEW r \in Req, HandlerFail(r) PROVE LogInv'
  <2>1. Unlogged /\ log' = log
    BY <1>4 DEF HandlerFail
  <2> QED
    BY <1>4, <2>1, LeaveLogs
<1>5. CASE LogRestart
  BY <1>5, RestartLogs
<1>6. CASE UNCHANGED <<vars, logVars>>
  <2>1. device' = device /\ log' = log /\ req' = req /\ found' = found /\ now' = now
        /\ unlogged' = unlogged /\ now <= now'
    BY <1>6 DEF vars, logVars, TypeInv, TypeOK
  <2>2. \A p \in Req : SlotLogs(p)' /\ (Owes(p) => Owes(p)')
    BY <2>1 DEF LogInv, SlotLogs, LogsBefore, StatusChanged, FoundIsNewest, NewestLog, Owes
  <2> QED
    BY <2>1, <2>2, LogFrame
<1> QED
  BY <1>1, <1>2, <1>3, <1>4, <1>5, <1>6 DEF LogNext

-----------------------------------------------------------------------------
(* The theorems.  The three hypotheses are the schedule the properties are   *)
(* about: one slot, which serves one request and its listener at a time, and *)
(* a clock that moves between two requests.                                  *)

THEOREM LogInvariance ==
  ASSUME OneSlot, ~Overlap, ClockStep > 0
  PROVE  LogSpec => []LogInv
<1>1. TypeInv /\ TypeInv' /\ SerialInv /\ ClockInv /\ LogTypeOK /\ LogInv
        /\ [LogNext]_<<vars, logVars>> => LogInv'
  BY NextLogInv
<1> QED
  BY <1>1, InitLogInv, LogIsDevices, TypeInvariance, SerialInvariance, ClockInvariance,
     LogTypeCorrect, PTL DEF LogSpec

\* When the server is quiet, the newest log of every stored device has its
\* StatusIcmp, unless the event of its last change was lost or its last change was
\* one the handlers emit nothing for: a status set to null, or the removal of a
\* device that was not up.
THEOREM LogsFollowStatus ==
  ASSUME OneSlot, ~Overlap, ClockStep > 0
  PROVE  LogSpec => []LogFollowsStatus
<1>1. LogTypeOK /\ LogInv => LogFollowsStatus
  <2> SUFFICES ASSUME LogTypeOK, LogInv, Quiet, NEW d \in Device \ unlogged,
                      device[d].state # "absent"
               PROVE  \E last \in LastLogs(d) : last.Status = device[d].StatusIcmp
    BY DEF LogFollowsStatus
  <2>1. \A r \in Req : ~Owes(r)
    BY DEF Quiet, Owes
  <2>2. LastTells(d) /\ LogsOrdered(d)
    BY <2>1 DEF LogInv, DeviceLogs
  <2>3. LastLogs(d) = {NewestLog(d)}
    BY <2>2, NewestIsLast DEF LastTells
  <2> QED
    BY <2>2, <2>3 DEF LastTells
<1> QED
  BY <1>1, LogInvariance, LogTypeCorrect, PTL

\* The logs of a device form a chain, even when events are lost: each starts
\* from the status of the one before it, changes it, and tells the time between.
THEOREM LogsAreAChain ==
  ASSUME OneSlot, ~Overlap, ClockStep > 0
  PROVE  LogSpec => []LogChain
<1>1. LogInv => LogChain
  BY DEF LogInv
<1> QED
  BY <1>1, LogInvariance, PTL
=============================================================================
