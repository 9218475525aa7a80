---------------------------- MODULE AlertsProofs ----------------------------
(***************************************************************************)
(* Theorems about Alerts, for any alerts, devices, channels and bodies,    *)
(* however many requests overlap and however long the clock runs.          *)
(***************************************************************************)
EXTENDS Alerts, TLAPS

-----------------------------------------------------------------------------
(* Bodies and documents.                                                   *)

LEMMA DtoFields ==
  ASSUME NEW dto \in UpdateAlertDto \cup {NoDto}
  PROVE  /\ DOMAIN dto \subseteq {"devices", "channels", "isActiveAlert"}
         /\ "devices" \in DOMAIN dto => dto["devices"] \in SUBSET Device
         /\ "channels" \in DOMAIN dto => dto["channels"] \in SUBSET Channel
         /\ "isActiveAlert" \in DOMAIN dto => dto["isActiveAlert"] \in IsActiveAlert
<1>1. CASE dto \in UpdateAlertDto
  <2>1. PICK full \in CreateAlertDto,
             fields \in SUBSET {"devices", "channels", "isActiveAlert"} : dto = Restrict(full, fields)
    BY <1>1 DEF UpdateAlertDto
  <2>2. dto = [x \in fields |-> full[x]]
    BY <2>1 DEF Restrict
  <2>3. /\ full["devices"] \in SUBSET Device /\ full["channels"] \in SUBSET Channel
        /\ full["isActiveAlert"] \in IsActiveAlert
    BY <2>1 DEF CreateAlertDto
  <2> QED
    BY <2>1, <2>2, <2>3
<1>2. CASE dto = NoDto
  BY <1>2 DEF NoDto
<1> QED
  BY <1>1, <1>2

LEMMA MergedFields ==
  ASSUME NEW doc \in AlertDoc, NEW dto \in UpdateAlertDto
  PROVE  LET merged == Merged(doc, dto) IN
         /\ merged \in AlertDoc
         /\ merged.state = doc.state
         /\ merged.devices = IF "devices" \in DOMAIN dto THEN dto["devices"] ELSE doc.devices
         /\ merged.isActiveAlert =
              IF "isActiveAlert" \in DOMAIN dto THEN dto["isActiveAlert"] ELSE doc.isActiveAlert
<1>1. DOMAIN doc = {"state", "devices", "channels", "isActiveAlert"}
  BY DEF AlertDoc
<1> QED
  BY <1>1, DtoFields DEF Merged, AlertDoc

LEMMA DocsAreDocs ==
  Defaults \in AlertDoc /\ \A state \in DocState : NotStored(state) \in AlertDoc
BY DEF Defaults, NotStored, AlertDoc, DocState, IsActiveAlert

LEMMA IdleIsARequest == Idle \in Request
BY DEF Idle, Request, NoPayload, Payload, IsActiveAlert

-----------------------------------------------------------------------------
(* The inductive invariant.                                                *)

\* Before its write, and after it: about to emit, or its listener at work.
Before(r) == req[r].pc \in {"find", "devices", "channels", "write"}
After(r)  == req[r].pc \in {"emit", "logging"}

StatusOf(a) == StatusString(alert[a].isActiveAlert)
LastLog(a)  == IF log[a] = << >> THEN NoLog ELSE log[a][Len(log[a])]

\* What a request knows before its write.  An alert only it is about is as it
\* found it.
BeforeOK(r) ==
  /\ req[r].alert \in Alert /\ req[r].found = Unread
  /\ Active \subseteq req[r].seen
  /\ req[r].op = "create" => req[r].pc # "find" /\ alert[req[r].alert].state = "absent"
  /\ req[r].op # "create" => alert[req[r].alert].state # "absent"
  /\ IF req[r].op = "remove" THEN req[r].dto = NoDto /\ req[r].pc \in {"find", "write"}
     ELSE req[r].dto \in UpdateAlertDto
  /\ req[r].pc \in {"channels", "write"} => Names(r, "devices") \subseteq req[r].seen
  /\ req[r].op = "update" /\ req[r].pc # "find" =>
       \/ req[r].alert \in raced
       \/ /\ alert[req[r].alert].state = "stored"
          /\ req[r].current = alert[req[r].alert].isActiveAlert

\* The event of a change names the alert, unless the alert was removed while
\* the request ran.
AfterOK(r) ==
  /\ req[r].alert \in Alert /\ req[r].event.at <= now
  /\ \/ req[r].event.alert = req[r].alert
     \/ req[r].event.alert = NoAlert /\ req[r].alert \in raced
  /\ req[r].pc = "emit" => req[r].found = Unread

SlotOK(r) ==
  /\ ~Busy(r) => req[r] = Idle
  /\ Before(r) => BeforeOK(r)
  /\ After(r) => AfterOK(r)

\* Two requests about one alert are noted, and an alert has none before it exists.
OverlapsAreNoted ==
  /\ \A r, q \in Req : r # q /\ req[r].alert = req[q].alert /\ req[r].alert \in Alert =>
       req[r].alert \in raced
  /\ \A a \in Alert : alert[a].state = "absent" => a \notin raced

\* The logs of an alert, from the oldest to the newest, each by the clock then.
LogsOrdered(a) ==
  /\ \A i \in 1 .. Len(log[a]) : log[a][i].changedAt <= now
  /\ \A i, j \in 1 .. Len(log[a]) : i < j => log[a][i].changedAt < log[a][j].changedAt

LogsChained(a) ==
  \A i \in 2 .. Len(log[a]) :
    /\ log[a][i].from = log[a][i - 1].Status /\ log[a][i].Status # log[a][i - 1].Status
    /\ log[a][i].Time = log[a][i].changedAt - log[a][i - 1].changedAt /\ log[a][i].Time > 0

\* The change of r will be later than every log; its event says what the alert
\* is; and the log its listener has read is the last one, of another status.
ChangeIsNext(r) ==
  LET a == req[r].alert IN
  /\ \A i \in 1 .. Len(log[a]) :
       log[a][i].changedAt < IF req[r].pc = "logging" THEN req[r].event.at ELSE now
  /\ After(r) => req[r].event.Status = StatusOf(a)
  /\ After(r) /\ req[r].found # Unread =>
       req[r].found = LastLog(a) /\ ~Skips(req[r].found, req[r].event)

\* With no change on its way to the log, the last log says what the alert is.
LastIsLogged(a) ==
  alert[a].state = "stored" /\ (\A r \in Req : req[r].alert = a => Before(r)) =>
    LastLog(a) # NoLog /\ LastLog(a).Status = StatusOf(a)

LogOK(a) ==
  /\ LogsOrdered(a) /\ LogsChained(a)
  /\ \A r \in Req : req[r].alert = a => ChangeIsNext(r)
  /\ a \notin lost => LastIsLogged(a)

AlertsInv ==
  /\ AlertsTypeOK
  /\ \A r \in Req : SlotOK(r)
  /\ OverlapsAreNoted
  /\ \A a \in Alert \ raced : LogOK(a)
  /\ raced = {} => log[NoAlert] = << >>

-----------------------------------------------------------------------------
(* What the types say, and what a step leaves as it was.                   *)

LEMMA SlotKinds ==
  ASSUME AlertsInv, NEW r \in Req
  PROVE  /\ req[r] \in Request
         /\ Busy(r) <=> Before(r) \/ After(r)
         /\ ~(Before(r) /\ After(r))
         /\ req[r].alert \in Alert <=> Busy(r)
         /\ req[r].alert # NoAlert => Busy(r)
<1>1. req[r] \in Request /\ SlotOK(r)
  BY DEF AlertsInv, AlertsTypeOK
<1>2. Busy(r) <=> Before(r) \/ After(r)
  BY <1>1 DEF Busy, Before, After, Request
<1>3. Busy(r) => req[r].alert \in Alert
  BY <1>1, <1>2 DEF SlotOK, BeforeOK, AfterOK
<1>4. ~Busy(r) => req[r].alert = NoAlert
  BY <1>1 DEF SlotOK, Idle
<1> QED
  BY <1>1, <1>2, <1>3, <1>4, AlertsAssumption DEF Before, After

LEMMA LogTypes ==
  ASSUME AlertsTypeOK, NEW a \in Alert \cup {NoAlert}
  PROVE  /\ log[a] \in Seq(EventLog) /\ Len(log[a]) \in Nat
         /\ \A i \in 1 .. Len(log[a]) :
              /\ log[a][i] \in EventLog
              /\ log[a][i].changedAt \in Nat /\ log[a][i].Status \in {"up", "down"}
              /\ log[a][i] # Unread /\ log[a][i] # NoLog
<1>1. log[a] \in Seq(EventLog)
  BY DEF AlertsTypeOK
<1>2. \A i \in 1 .. Len(log[a]) : log[a][i] \in EventLog
  BY <1>1
<1>3. \A l \in EventLog : l.is = "log" /\ l.changedAt \in Nat /\ l.Status \in {"up", "down"}
  BY DEF EventLog
<1>4. Unread.is # "log" /\ NoLog.is # "log"
  BY DEF Unread, NoLog
<1> QED
  BY <1>1, <1>2, <1>3, <1>4

LEMMA OtherSlotKeeps ==
  ASSUME AlertsInv, NEW r \in Req, req'[r] = req[r], isActive' = isActive,
         raced \subseteq raced', now \in Nat, now' \in Nat, now <= now',
         \/ alert'[req[r].alert] = alert[req[r].alert]
         \/ /\ req[r].alert \in raced'
            /\ alert[req[r].alert].state # "absent" /\ alert'[req[r].alert].state # "absent"
  PROVE  SlotOK(r)'
<1>1. SlotOK(r) /\ req[r] \in Request
  BY DEF AlertsInv, AlertsTypeOK
<1>2. ASSUME Before(r) PROVE BeforeOK(r)'
  <2>1. BeforeOK(r)
    BY <1>1, <1>2 DEF SlotOK
  <2>2. Active' = Active /\ Names(r, "devices")' = Names(r, "devices")
    BY DEF Active, Names
  <2> QED
    BY <2>1, <2>2 DEF BeforeOK
<1>3. ASSUME After(r) PROVE AfterOK(r)'
  <2>1. AfterOK(r) /\ req[r].event.at \in Nat
    BY <1>1, <1>3 DEF SlotOK, Request, Payload
  <2> QED
    BY <2>1 DEF AfterOK
<1> QED
  BY <1>1, <1>2, <1>3 DEF SlotOK, Busy, Before, After

\* The logs of an alert depend on the stage its requests are at, not on what
\* they have seen.
SameStage(r) ==
  /\ req'[r].pc = req[r].pc /\ req'[r].event = req[r].event /\ req'[r].found = req[r].found
  /\ req'[r].alert = req[r].alert

LEMMA OtherLogKeeps ==
  ASSUME AlertsInv, AlertsTypeOK', NEW a \in Alert, LogOK(a),
         log'[a] = log[a], alert'[a] = alert[a], now <= now', a \notin lost' => a \notin lost,
         \A r \in Req : req[r].alert = a \/ req'[r].alert = a => SameStage(r)
  PROVE  LogOK(a)'
<1>1. /\ \A i \in 1 .. Len(log[a]) : log[a][i].changedAt \in Nat
      /\ Len(log[a]) \in Nat /\ now \in Nat /\ now' \in Nat
  BY LogTypes, AlertsAssumption DEF AlertsInv, AlertsTypeOK
<1>2. LogsOrdered(a)'
  BY <1>1 DEF LogOK, LogsOrdered
<1>3. LogsChained(a)'
  BY DEF LogOK, LogsChained
<1>4. ASSUME NEW r \in Req, req'[r].alert = a PROVE ChangeIsNext(r)'
  <2>1. ChangeIsNext(r) /\ SameStage(r) /\ req[r].alert = a
    BY <1>4 DEF LogOK, SameStage
  <2> QED
    BY <1>1, <2>1 DEF ChangeIsNext, SameStage, After, StatusOf, LastLog, Skips
<1>5. ASSUME a \notin lost' PROVE LastIsLogged(a)'
  <2>1. LastIsLogged(a)
    BY <1>5 DEF LogOK
  <2> QED
    BY <2>1 DEF LastIsLogged, SameStage, Before, LastLog, StatusOf
<1> QED
  BY <1>2, <1>3, <1>4, <1>5 DEF LogOK

\* An alert that is not raced has one request at most.
LEMMA OnlyOne ==
  ASSUME AlertsInv, NEW r \in Req, NEW p \in Req, p # r,
         req[r].alert \in Alert \ raced
  PROVE  req[p].alert # req[r].alert
BY DEF AlertsInv, OverlapsAreNoted

\* Steps of one slot that change neither the alerts nor the logs.
LEMMA SlotStepKeeps ==
  ASSUME AlertsInv, UNCHANGED <<alert, isActive, channel, log, now, raced>>,
         NEW r \in Req, NEW q \in Request, req' = [req EXCEPT ![r] = q],
         q.alert \in {req[r].alert, NoAlert}, lost' \subseteq Alert,
         \A a \in Alert \ {req[r].alert} : a \in lost' <=> a \in lost,
         SlotOK(r)',
         \A a \in Alert \ raced : a = req[r].alert =>
           /\ q.alert = a => ChangeIsNext(r)'
           /\ a \notin lost' => LastIsLogged(a)'
  PROVE  AlertsInv'
<1>1. AlertsTypeOK'
  BY DEF AlertsInv, AlertsTypeOK
<1>2. req'[r] = q /\ \A p \in Req \ {r} : req'[p] = req[p]
  BY DEF AlertsInv, AlertsTypeOK
<1>3. ASSUME NEW p \in Req PROVE SlotOK(p)'
  <2>1. CASE p = r
    BY <2>1
  <2>2. CASE p # r
    <3>1. req'[p] = req[p] /\ now \in Nat
      BY <1>2, <2>2, AlertsAssumption DEF AlertsInv, AlertsTypeOK
    <3> QED
      BY <3>1, OtherSlotKeeps
  <2> QED
    BY <2>1, <2>2
<1>4. OverlapsAreNoted'
  BY <1>2, AlertsAssumption DEF AlertsInv, OverlapsAreNoted
<1>5. ASSUME NEW a \in Alert \ raced PROVE LogOK(a)'
  <2>1. LogOK(a)
    BY DEF AlertsInv
  <2>2. CASE a # req[r].alert
    <3>1. \A p \in Req : req[p].alert = a \/ req'[p].alert = a => SameStage(p)
      BY <1>2, <2>2, AlertsAssumption DEF SameStage
    <3>2. now <= now'
      BY AlertsAssumption DEF AlertsInv, AlertsTypeOK
    <3> QED
      BY <1>1, <2>1, <2>2, <3>1, <3>2, OtherLogKeeps
  <2>3. CASE a = req[r].alert
    <3>1. LogsOrdered(a)' /\ LogsChained(a)'
      BY <2>1 DEF LogOK, LogsOrdered, LogsChained
    <3>2. ASSUME NEW p \in Req, req'[p].alert = a PROVE ChangeIsNext(p)'
      BY <1>2, <2>3, <3>2, OnlyOne
    <3> QED
      BY <2>3, <3>1, <3>2 DEF LogOK
  <2> QED
    BY <2>2, <2>3
<1> QED
  BY <1>1, <1>3, <1>4, <1>5 DEF AlertsInv

-----------------------------------------------------------------------------
(* One lemma for each action.                                              *)

\* A request that ends without a write, or its listener by a failure.
LEMMA EndKeeps ==
  ASSUME AlertsInv, UNCHANGED <<alert, isActive, channel, log, now, raced>>,
         NEW r \in Req, Busy(r), req' = [req EXCEPT ![r] = Idle],
         lost' \subseteq Alert,
         \A a \in Alert \ {req[r].alert} : a \in lost' <=> a \in lost,
         req[r].alert \in lost' \/ (Before(r) /\ req[r].alert \notin lost)
  PROVE  AlertsInv'
<1>1. req'[r] = Idle /\ \A p \in Req \ {r} : req'[p] = req[p]
  BY DEF AlertsInv, AlertsTypeOK
<1>2. SlotOK(r)'
  BY <1>1 DEF SlotOK, Busy, Before, After, Idle
<1>3. ASSUME NEW a \in Alert \ raced, a = req[r].alert, a \notin lost'
      PROVE  LastIsLogged(a)'
  <2>1. LastIsLogged(a) /\ Before(r) /\ \A p \in Req \ {r} : req[p].alert # a
    BY <1>3, OnlyOne DEF AlertsInv, LogOK
  <2> QED
    BY <1>3, <2>1 DEF LastIsLogged, LastLog, StatusOf
<1> QED
  BY <1>2, <1>3, IdleIsARequest, SlotStepKeeps, AlertsAssumption DEF Idle

LEMMA RefuseKeeps ==
  ASSUME AlertsInv, NEW r \in Req, Refuse(r)
  PROVE  AlertsInv'
<1>1. Busy(r) /\ Before(r)
  BY DEF Refuse, Busy, Before
<1>2. CASE req[r].alert \notin lost
  BY <1>1, <1>2, EndKeeps DEF Refuse, AlertsInv, AlertsTypeOK
<1>3. CASE req[r].alert \in lost
  BY <1>1, <1>3, EndKeeps DEF Refuse, AlertsInv, AlertsTypeOK
<1> QED
  BY <1>2, <1>3

\* A change that was on its way is noted as lost.
LEMMA DbErrorKeeps ==
  ASSUME AlertsInv, NEW r \in Req, DbError(r)
  PROVE  AlertsInv'
<1>1. Busy(r) /\ req[r].alert \in Alert
  BY SlotKinds DEF DbError
<1>2. lost' = IF After(r) THEN lost \cup {req[r].alert} ELSE lost
  BY DEF DbError, Unlogged, After
<1>3. Before(r) \/ After(r)
  BY <1>1, SlotKinds
<1> QED
  BY <1>1, <1>2, <1>3, EndKeeps DEF DbError, AlertsInv, AlertsTypeOK

\* A request that goes on before its write.
LEMMA BeforeStepKeeps ==
  ASSUME AlertsInv, UNCHANGED <<alert, isActive, channel, log, now, raced, lost>>,
         NEW r \in Req, Before(r), NEW q \in Request, req' = [req EXCEPT ![r] = q],
         q.alert = req[r].alert, q.pc \in {"devices", "channels", "write"}, BeforeOK(r)'
  PROVE  AlertsInv'
<1>1. req'[r] = q /\ \A p \in Req \ {r} : req'[p] = req[p]
  BY DEF AlertsInv, AlertsTypeOK
<1>2. SlotOK(r)' /\ Before(r)' /\ ~After(r)'
  BY <1>1 DEF SlotOK, Busy, Before, After
<1>3. ASSUME NEW a \in Alert \ raced, a = req[r].alert
      PROVE  ChangeIsNext(r)' /\ (a \notin lost' => LastIsLogged(a)')
  <2>1. ChangeIsNext(r) /\ (a \notin lost => LastIsLogged(a))
    BY <1>3 DEF AlertsInv, LogOK
  <2>2. ChangeIsNext(r)'
    BY <1>1, <1>2, <2>1 DEF ChangeIsNext, Before
  <2>3. \A p \in Req : (req[p].alert = a <=> req'[p].alert = a) /\ (Before(p)' <=> Before(p))
    BY <1>1, <1>2 DEF Before
  <2> QED
    BY <2>1, <2>2, <2>3 DEF LastIsLogged, LastLog, StatusOf
<1> QED
  BY <1>2, <1>3, SlotStepKeeps DEF AlertsInv, AlertsTypeOK

LEMMA PcAfterIsNext ==
  ASSUME NEW r, NEW pc
  PROVE  /\ PcAfter(r, pc) \in {"devices", "channels", "write"}
         /\ pc = "find" /\ PcAfter(r, pc) # "devices" => Names(r, "devices") = {}
         /\ pc # "find" => PcAfter(r, pc) # "devices"
         /\ Names(r, "devices") = {} /\ Names(r, "channels") = {} => PcAfter(r, pc) = "write"
BY DEF PcAfter

\* The alert is stored: what update read of it is what it is now.
LEMMA FindKeeps ==
  ASSUME AlertsInv, NEW r \in Req, Find(r)
  PROVE  AlertsInv'
<1> DEFINE pc == PcAfter(r, "find")
           q == [req[r] EXCEPT !.pc = pc, !.current = alert[req[r].alert].isActiveAlert]
<1>1. /\ req[r] \in Request /\ req[r].pc = "find" /\ Before(r) /\ BeforeOK(r)
      /\ req[r].alert \in Alert /\ alert[req[r].alert].state = "stored"
  BY DEF Find, AlertsInv, AlertsTypeOK, SlotOK, Before, BeforeOK
<1>2. /\ pc \in {"devices", "channels", "write"}
      /\ pc # "devices" => Names(r, "devices") = {}
      /\ req[r].op = "remove" => pc = "write"
  <2>1. req[r].op = "remove" => Names(r, "devices") = {} /\ Names(r, "channels") = {}
    BY <1>1 DEF BeforeOK, Names, NoDto
  <2> QED
    BY <2>1, PcAfterIsNext
<1> HIDE DEF pc
<1>3. alert[req[r].alert].isActiveAlert \in IsActiveAlert
  BY <1>1 DEF AlertsInv, AlertsTypeOK, AlertDoc
<1>4. q \in Request
  BY <1>1, <1>2, <1>3 DEF Request
<1>5. req' = [req EXCEPT ![r] = q]
  BY DEF Find, AlertsInv, AlertsTypeOK, pc
<1>6. /\ req'[r].pc = pc /\ req'[r].op = req[r].op /\ req'[r].alert = req[r].alert
      /\ req'[r].dto = req[r].dto /\ req'[r].seen = req[r].seen /\ req'[r].found = req[r].found
      /\ req'[r].current = alert[req[r].alert].isActiveAlert
  BY <1>1, <1>5 DEF AlertsInv, AlertsTypeOK, Request
<1>7. BeforeOK(r)'
  <2>1. Names(r, "devices")' = Names(r, "devices") /\ Active' = Active
    BY <1>6 DEF Find, Names, Active
  <2> QED
    BY <1>1, <1>2, <1>6, <2>1 DEF Find, BeforeOK
<1>8. q.alert = req[r].alert /\ q.pc = pc
  BY <1>1 DEF Request
<1> HIDE DEF q
<1> QED
  BY <1>1, <1>2, <1>4, <1>5, <1>7, <1>8, BeforeStepKeeps DEF Find

\* The devices found active now were seen.
LEMMA ValidateKeeps ==
  ASSUME AlertsInv, NEW r \in Req, Validate(r)
  PROVE  AlertsInv'
<1> DEFINE pc == PcAfter(r, req[r].pc)
           q == [req[r] EXCEPT !.pc = pc]
<1>1. /\ req[r] \in Request /\ req[r].pc \in {"devices", "channels"} /\ Before(r) /\ BeforeOK(r)
      /\ Exist(r, req[r].pc)
  BY DEF Validate, Found, AlertsInv, AlertsTypeOK, SlotOK, Before
<1>2. pc \in {"channels", "write"}
  BY <1>1, PcAfterIsNext
<1>3. req' = [req EXCEPT ![r] = q]
  BY DEF Validate, AlertsInv, AlertsTypeOK
<1> HIDE DEF pc
<1>4. q \in Request /\ q.alert = req[r].alert /\ q.pc = pc
  BY <1>1, <1>2 DEF Request
<1>5. /\ req'[r].pc = pc /\ req'[r].op = req[r].op /\ req'[r].alert = req[r].alert
      /\ req'[r].dto = req[r].dto /\ req'[r].seen = req[r].seen /\ req'[r].found = req[r].found
      /\ req'[r].current = req[r].current
  BY <1>1, <1>3 DEF AlertsInv, AlertsTypeOK, Request
<1>6. BeforeOK(r)'
  <2>1. Names(r, "devices")' = Names(r, "devices") /\ Active' = Active
    BY <1>5 DEF Validate, Names, Active
  <2>2. Names(r, "devices") \subseteq req[r].seen
    BY <1>1 DEF BeforeOK, Exist
  <2> QED
    BY <1>1, <1>2, <1>5, <2>1, <2>2 DEF Validate, BeforeOK
<1> HIDE DEF q
<1> QED
  BY <1>1, <1>2, <1>3, <1>4, <1>6, BeforeStepKeeps DEF Validate

\* The clock at the event is past every log of the alert.
LEMMA EmitKeeps ==
  ASSUME AlertsInv, NEW r \in Req, Emit(r)
  PROVE  AlertsInv'
<1> DEFINE event == [req[r].event EXCEPT !.at = now]
           q == [req[r] EXCEPT !.pc = "logging", !.event = event]
<1>1. /\ req[r] \in Request /\ req[r].pc = "emit" /\ After(r) /\ AfterOK(r)
      /\ req[r].event \in Payload /\ now \in Nat
  BY AlertsAssumption DEF Emit, AlertsInv, AlertsTypeOK, SlotOK, After, Request
<1>2. event \in Payload /\ event.alert = req[r].event.alert /\ event.at = now
      /\ event.Status = req[r].event.Status
  BY <1>1 DEF Payload
<1>3. req' = [req EXCEPT ![r] = q]
  BY DEF Emit, AlertsInv, AlertsTypeOK
<1> HIDE DEF event
<1>4. q \in Request /\ q.alert = req[r].alert
  BY <1>1, <1>2 DEF Request
<1>5. /\ req'[r].pc = "logging" /\ req'[r].alert = req[r].alert
      /\ req'[r].event = event /\ req'[r].found = Unread
  BY <1>1, <1>3 DEF AlertsInv, AlertsTypeOK, Request, AfterOK
<1>6. SlotOK(r)'
  BY <1>1, <1>2, <1>5 DEF Emit, SlotOK, Busy, Before, After, AfterOK
<1>7. ASSUME NEW a \in Alert \ raced, a = req[r].alert
      PROVE  ChangeIsNext(r)' /\ (a \notin lost' => LastIsLogged(a)')
  <2>1. ChangeIsNext(r)
    BY <1>7 DEF AlertsInv, LogOK
  <2>2. ChangeIsNext(r)'
    BY <1>1, <1>2, <1>5, <1>7, <2>1 DEF Emit, ChangeIsNext, After, StatusOf
  <2>3. ~Before(r)' /\ req'[r].alert = a
    BY <1>5, <1>7 DEF Before
  <2>4. LastIsLogged(a)'
    BY <2>3 DEF LastIsLogged
  <2> QED
    BY <2>2, <2>4
<1> HIDE DEF q
<1> QED
  BY <1>3, <1>4, <1>6, <1>7, SlotStepKeeps DEF Emit, AlertsInv, AlertsTypeOK

\* The logs in order, the latest is the last.
LEMMA LatestIsLast ==
  ASSUME AlertsTypeOK, NEW a \in Alert, LogsOrdered(a), log[a] # << >>
  PROVE  LastLogs(a) = {LastLog(a)}
<1> DEFINE n == Len(log[a])
<1>1. /\ log[a] \in Seq(EventLog) /\ n \in Nat /\ n # 0 /\ DOMAIN log[a] = 1 .. n
      /\ \A i \in 1 .. n : log[a][i].changedAt \in Nat
  BY LogTypes
<1>2. n \in 1 .. n /\ LastLog(a) = log[a][n]
  BY <1>1 DEF LastLog
<1>3. Range(log[a]) = {log[a][i] : i \in 1 .. n}
  BY <1>1 DEF Range
<1>4. \A i \in 1 .. n : i = n \/ log[a][i].changedAt < log[a][n].changedAt
  BY <1>1, <1>2 DEF LogsOrdered
<1> HIDE DEF n
<1>5. log[a][n] \in LastLogs(a)
  BY <1>1, <1>2, <1>3, <1>4 DEF LastLogs
<1>6. ASSUME NEW l \in LastLogs(a) PROVE l = log[a][n]
  <2>1. PICK i \in 1 .. n : l = log[a][i]
    BY <1>3, <1>6 DEF LastLogs
  <2>2. log[a][n].changedAt <= log[a][i].changedAt
    BY <1>2, <1>3, <1>6, <2>1 DEF LastLogs
  <2> QED
    BY <1>1, <1>2, <1>4, <2>1, <2>2
<1> QED
  BY <1>2, <1>5, <1>6

\* Of an alert with no other request, the listener reads the last log.
LEMMA ListenerFindKeeps ==
  ASSUME AlertsInv, NEW r \in Req, ListenerFind(r)
  PROVE  AlertsInv'
<1> DEFINE b == req[r].event.alert
<1>1. /\ req[r] \in Request /\ req[r].pc = "logging" /\ req[r].found = Unread
      /\ After(r) /\ Busy(r) /\ AfterOK(r) /\ b \in Alert \cup {NoAlert} /\ req[r].alert \in Alert
  BY DEF ListenerFind, AlertsInv, AlertsTypeOK, SlotOK, After, AfterOK, Busy, Request, Payload
<1>2. PICK last \in IF log[b] = << >> THEN {NoLog} ELSE LastLogs(b) :
        IF Skips(last, req[r].event)
        THEN req' = [req EXCEPT ![r] = Idle] /\ lost' = lost \ {req[r].alert}
        ELSE req' = [req EXCEPT ![r].found = last] /\ lost' = lost
  BY DEF ListenerFind
<1>3. last \in EventLog \cup {NoLog}
  <2>1. DOMAIN log[b] = 1 .. Len(log[b]) /\ \A i \in 1 .. Len(log[b]) : log[b][i] \in EventLog
    BY <1>1, LogTypes DEF AlertsInv
  <2> QED
    BY <1>2, <2>1 DEF LastLogs, Range
<1>4. ASSUME NEW a \in Alert \ raced, a = req[r].alert
      PROVE  b = a /\ last = LastLog(a) /\ ChangeIsNext(r)
  <2>1. b = a /\ LogsOrdered(a) /\ ChangeIsNext(r)
    BY <1>1, <1>4 DEF AfterOK, AlertsInv, LogOK
  <2> QED
    BY <1>2, <2>1, LatestIsLast DEF AlertsInv, LastLog
<1> HIDE DEF b
<1>5. UNCHANGED <<alert, isActive, channel, log, now, raced>>
  BY DEF ListenerFind
<1>6. CASE Skips(last, req[r].event)
  <2>1. req'[r] = Idle
    BY <1>2, <1>6 DEF AlertsInv, AlertsTypeOK
  <2>2. SlotOK(r)'
    BY <2>1 DEF SlotOK, Busy, Before, After, Idle
  <2>3. ASSUME NEW a \in Alert \ raced, a = req[r].alert PROVE LastIsLogged(a)'
    <3>1. LastLog(a) # NoLog /\ LastLog(a).Status = StatusOf(a)
      BY <1>1, <1>4, <1>6, <2>3 DEF Skips, ChangeIsNext
    <3> QED
      BY <1>5, <3>1 DEF LastIsLogged, LastLog, StatusOf
  <2>4. Idle.alert = NoAlert
    BY DEF Idle
  <2> QED
    BY <1>2, <1>5, <1>6, <2>2, <2>3, <2>4, IdleIsARequest, SlotStepKeeps, AlertsAssumption
       DEF AlertsInv, AlertsTypeOK
<1>7. CASE ~Skips(last, req[r].event)
  <2> DEFINE q == [req[r] EXCEPT !.found = last]
  <2>1. q \in Request /\ q.alert = req[r].alert
    BY <1>1, <1>3 DEF Request
  <2>2. req' = [req EXCEPT ![r] = q] /\ lost' = lost
    BY <1>2, <1>7 DEF AlertsInv, AlertsTypeOK
  <2>3. /\ req'[r].pc = "logging" /\ req'[r].alert = req[r].alert
        /\ req'[r].event = req[r].event /\ req'[r].found = last
    BY <1>1, <2>2 DEF AlertsInv, AlertsTypeOK, Request
  <2>4. SlotOK(r)'
    BY <1>1, <1>5, <2>3 DEF SlotOK, Busy, Before, After, AfterOK
  <2>5. ASSUME NEW a \in Alert \ raced, a = req[r].alert
        PROVE  ChangeIsNext(r)' /\ (a \notin lost' => LastIsLogged(a)')
    <3>1. ChangeIsNext(r)'
      BY <1>1, <1>4, <1>5, <1>7, <2>3, <2>5 DEF ChangeIsNext, After, StatusOf, LastLog, Skips
    <3>2. LastIsLogged(a)'
      BY <2>3, <2>5 DEF LastIsLogged, Before
    <3> QED
      BY <3>1, <3>2
  <2> HIDE DEF q
  <2> QED
    BY <1>5, <2>1, <2>2, <2>4, <2>5, SlotStepKeeps DEF AlertsInv, AlertsTypeOK
<1> QED
  BY <1>6, <1>7

\* The log written is the next one of its alert, later than the others and of
\* another status than the last.
LEMMA AppendKeepsLogs ==
  ASSUME AlertsInv, NEW r \in Req, req[r].pc = "logging", req[r].found # Unread,
         NEW a \in Alert \ raced, a = req[r].alert, now' = now,
         log'[a] = Append(log[a], NextLog(req[r].event, req[r].found))
  PROVE  LogsOrdered(a)' /\ LogsChained(a)' /\ LastLog(a)' = NextLog(req[r].event, req[r].found)
         /\ LastLog(a)' # NoLog
<1> DEFINE n == Len(log[a])
           next == NextLog(req[r].event, req[r].found)
<1>1. /\ LogsOrdered(a) /\ LogsChained(a) /\ ChangeIsNext(r) /\ AfterOK(r) /\ After(r)
      /\ req[r].event \in Payload /\ now \in Nat
  BY AlertsAssumption DEF AlertsInv, AlertsTypeOK, LogOK, SlotOK, After, Request
<1>2. /\ log[a] \in Seq(EventLog) /\ n \in Nat
      /\ \A i \in 1 .. n : log[a][i].changedAt \in Nat /\ log[a][i].Status \in {"up", "down"}
                           /\ log[a][i] # NoLog
  BY LogTypes DEF AlertsInv
<1>3. req[r].event.at \in Nat /\ req[r].event.at <= now
  BY <1>1 DEF AfterOK, Payload
<1>4. /\ req[r].found = LastLog(a) /\ ~Skips(LastLog(a), req[r].event)
      /\ \A i \in 1 .. n : log[a][i].changedAt < req[r].event.at
  BY <1>1 DEF ChangeIsNext
<1>5. /\ next.changedAt = req[r].event.at /\ next.Status = req[r].event.Status
      /\ next.is = "log"
      /\ n # 0 => /\ next.from = log[a][n].Status /\ next.Status # log[a][n].Status
                  /\ next.Time = req[r].event.at - log[a][n].changedAt
  <2>1. log[a] = << >> <=> n = 0
    BY <1>2
  <2>2. n # 0 => LastLog(a) = log[a][n] /\ log[a][n] # NoLog
    BY <1>2, <2>1 DEF LastLog
  <2> QED
    BY <1>4, <2>2 DEF NextLog, Skips
<1>6. next # NoLog
  BY <1>5 DEF NoLog
<1> HIDE DEF next
<1>7. /\ Len(log'[a]) = n + 1 /\ log'[a][n + 1] = next
      /\ \A i \in 1 .. n : log'[a][i] = log[a][i]
      /\ log'[a] # << >>
  <2>1. log'[a] = Append(log[a], next)
    BY DEF next
  <2> QED
    BY <1>2, <2>1
<1> HIDE DEF n
<1>8. LogsOrdered(a)'
  <2>1. ASSUME NEW i \in 1 .. n
        PROVE  /\ log'[a][i].changedAt \in Nat /\ log'[a][i].changedAt <= now
               /\ log'[a][i].changedAt < log'[a][n + 1].changedAt
               /\ \A j \in 1 .. n : i < j => log'[a][i].changedAt < log'[a][j].changedAt
    BY <1>1, <1>2, <1>4, <1>5, <1>7 DEF LogsOrdered, n
  <2>2. log'[a][n + 1].changedAt <= now
    BY <1>3, <1>5, <1>7
  <2>3. Len(log'[a]) = n + 1 /\ n \in Nat
    BY <1>2, <1>7
  <2>4. \A i \in 1 .. n + 1 : i \in 1 .. n \/ i = n + 1
    BY <2>3
  <2> QED
    BY <2>1, <2>2, <2>3, <2>4 DEF LogsOrdered
<1>9. LogsChained(a)'
  <2> SUFFICES ASSUME NEW i \in 2 .. n + 1
      PROVE  /\ log'[a][i].from = log'[a][i - 1].Status
             /\ log'[a][i].Status # log'[a][i - 1].Status
             /\ log'[a][i].Time = log'[a][i].changedAt - log'[a][i - 1].changedAt
             /\ log'[a][i].Time > 0
    BY <1>7 DEF LogsChained
  <2>1. CASE i = n + 1
    <3>1. n # 0 /\ i - 1 = n /\ n \in 1 .. n
      BY <1>2, <2>1
    <3>2. next.Time = next.changedAt - log[a][n].changedAt /\ next.Time > 0
      BY <1>2, <1>3, <1>4, <1>5, <3>1
    <3> QED
      BY <1>5, <1>7, <2>1, <3>1, <3>2
  <2>2. CASE i # n + 1
    <3>1. i \in 2 .. n /\ i \in 1 .. n /\ i - 1 \in 1 .. n
      BY <1>2, <2>2
    <3> QED
      BY <1>1, <1>7, <3>1 DEF LogsChained, n
  <2> QED
    BY <2>1, <2>2
<1>10. LastLog(a)' = next
  BY <1>7 DEF LastLog
<1> QED
  BY <1>6, <1>8, <1>9, <1>10 DEF next

LEMMA NextLogIsALog ==
  ASSUME NEW event \in Payload, NEW last \in EventLog \cup {NoLog}
  PROVE  NextLog(event, last) \in EventLog
<1>1. ASSUME NEW status \in {"up", "down"}, NEW at \in Nat, NEW before \in {"", "up", "down"},
             NEW gap \in Int
      PROVE  [is |-> "log", Status |-> status, changedAt |-> at, from |-> before, Time |-> gap]
               \in EventLog
  BY DEF EventLog
<1>2. event.at \in Nat /\ event.Status \in {"up", "down"}
  BY DEF Payload
<1>3. last # NoLog => last.changedAt \in Nat /\ last.Status \in {"up", "down"}
  BY DEF EventLog
<1> DEFINE before == IF last = NoLog THEN "" ELSE last.Status
           gap    == IF last = NoLog THEN 0 ELSE event.at - last.changedAt
<1>4. before \in {"", "up", "down"} /\ gap \in Int
  <2>1. CASE last = NoLog
    BY <2>1
  <2>2. CASE last # NoLog
    <3>1. event.at - last.changedAt \in Int
      BY <1>2, <1>3, <2>2
    <3>2. gap = event.at - last.changedAt /\ before = last.Status
      BY <2>2
    <3> HIDE DEF before, gap
    <3> QED
      BY <1>3, <2>2, <3>1, <3>2
  <2> QED
    BY <2>1, <2>2
<1>5. NextLog(event, last) = [is |-> "log", Status |-> event.Status, changedAt |-> event.at,
                              from |-> before, Time |-> gap]
  BY DEF NextLog
<1> HIDE DEF before, gap
<1> QED
  BY <1>1, <1>2, <1>4, <1>5

LEMMA ListenerCreateKeeps ==
  ASSUME AlertsInv, NEW r \in Req, ListenerCreate(r)
  PROVE  AlertsInv'
<1> DEFINE b == req[r].event.alert
           next == NextLog(req[r].event, req[r].found)
<1>1. /\ req[r] \in Request /\ SlotOK(r) /\ req[r].found # Unread
  BY DEF ListenerCreate, AlertsInv, AlertsTypeOK
<1>2. req[r].pc = "logging"
  BY <1>1 DEF SlotOK, Idle, Busy, Before, After, BeforeOK, AfterOK, Request
<1>3. /\ AfterOK(r) /\ After(r) /\ req[r].alert \in Alert /\ b \in Alert \cup {NoAlert}
      /\ req[r].event \in Payload /\ req[r].found \in EventLog \cup {NoLog}
  BY <1>1, <1>2 DEF SlotOK, After, AfterOK, Request, Payload
<1>4. next \in EventLog
  BY <1>3, NextLogIsALog
<1>5. /\ log' = [log EXCEPT ![b] = Append(@, next)] /\ req' = [req EXCEPT ![r] = Idle]
      /\ lost' = lost \ {req[r].alert}
      /\ UNCHANGED <<alert, isActive, channel, now, raced>>
  BY DEF ListenerCreate
<1> HIDE DEF next
<1>6. /\ req'[r] = Idle /\ \A p \in Req \ {r} : req'[p] = req[p]
      /\ log'[b] = Append(log[b], next)
      /\ \A a \in Alert \cup {NoAlert} : a # b => log'[a] = log[a]
  BY <1>3, <1>5 DEF AlertsInv, AlertsTypeOK
<1>7. AlertsTypeOK'
  <2>1. log' \in [Alert \cup {NoAlert} -> Seq(EventLog)]
    BY <1>3, <1>4, <1>5, LogTypes DEF AlertsInv, AlertsTypeOK
  <2> QED
    BY <1>5, <2>1, IdleIsARequest DEF AlertsInv, AlertsTypeOK
<1>8. ASSUME NEW p \in Req PROVE SlotOK(p)'
  <2>1. CASE p = r
    BY <1>6, <2>1 DEF SlotOK, Busy, Before, After, Idle
  <2>2. CASE p # r
    <3>1. req'[p] = req[p] /\ now \in Nat
      BY <1>6, <2>2, AlertsAssumption DEF AlertsInv, AlertsTypeOK
    <3> QED
      BY <1>5, <3>1, OtherSlotKeeps
  <2> QED
    BY <2>1, <2>2
<1>9. OverlapsAreNoted'
  BY <1>5, <1>6, AlertsAssumption DEF AlertsInv, OverlapsAreNoted, Idle
<1>10. ASSUME NEW a \in Alert \ raced PROVE LogOK(a)'
  <2>1. LogOK(a)
    BY DEF AlertsInv
  <2>2. CASE a # req[r].alert
    <3>1. a # b
      BY <1>3, <2>2, AlertsAssumption DEF AfterOK
    <3>2. \A p \in Req : req[p].alert = a \/ req'[p].alert = a => SameStage(p)
      BY <1>6, <2>2, AlertsAssumption DEF SameStage, Idle
    <3>3. now <= now'
      BY <1>5, AlertsAssumption DEF AlertsInv, AlertsTypeOK
    <3> QED
      BY <1>5, <1>6, <1>7, <2>1, <2>2, <3>1, <3>2, <3>3, OtherLogKeeps
  <2>3. CASE a = req[r].alert
    <3>1. b = a /\ ChangeIsNext(r) /\ \A p \in Req : req'[p].alert # a
      BY <1>3, <1>6, <2>1, <2>3, OnlyOne, AlertsAssumption DEF AfterOK, LogOK, Idle
    <3>2. /\ LogsOrdered(a)' /\ LogsChained(a)' /\ LastLog(a)' = next /\ LastLog(a)' # NoLog
      BY <1>1, <1>2, <1>5, <1>6, <2>3, <3>1, AppendKeepsLogs DEF next
    <3>3. next.Status = StatusOf(a)
      BY <1>3, <2>3, <3>1 DEF ChangeIsNext, next, NextLog
    <3>4. LastIsLogged(a)'
      BY <1>5, <3>2, <3>3 DEF LastIsLogged, StatusOf
    <3> QED
      BY <3>1, <3>2, <3>4 DEF LogOK
  <2> QED
    BY <2>2, <2>3
<1>11. raced = {} => log'[NoAlert] = << >>
  <2>1. raced = {} => b # NoAlert
    BY <1>3, AlertsAssumption DEF AfterOK
  <2> QED
    BY <1>6, <2>1 DEF AlertsInv
<1> QED
  BY <1>5, <1>7, <1>8, <1>9, <1>10, <1>11 DEF AlertsInv

\* What a write leaves: an alert never becomes absent again, nor comes back.
LEMMA WrittenFields ==
  ASSUME AlertsInv, NEW r \in Req, Before(r)
  PROVE  LET old == alert[req[r].alert]
             new == Written(r)
         IN /\ new \in AlertDoc
            /\ req[r].op = "create" => old.state = "absent" /\ new.state = "stored"
            /\ req[r].op = "update" =>
                 /\ new.state = old.state /\ old.state \in {"stored", "gone"}
                 /\ "isActiveAlert" \notin DOMAIN req[r].dto => new.isActiveAlert = old.isActiveAlert
            /\ req[r].op = "remove" => old.state # "absent" /\ new.state = "gone"
            /\ new.devices \subseteq old.devices \cup Names(r, "devices")
<1> DEFINE old == alert[req[r].alert]
<1>1. /\ req[r] \in Request /\ BeforeOK(r) /\ old \in AlertDoc
      /\ req[r].op \in {"create", "update", "remove"}
  BY DEF AlertsInv, AlertsTypeOK, SlotOK, BeforeOK, Request
<1>2. old.state \in {"absent", "stored", "gone"}
  BY <1>1 DEF AlertDoc, DocState
<1>3. CASE req[r].op = "create"
  <2>1. req[r].dto \in UpdateAlertDto /\ Written(r) = Merged(Defaults, req[r].dto)
    BY <1>1, <1>3 DEF BeforeOK, Written
  <2>2. /\ Written(r) \in AlertDoc /\ Written(r).state = Defaults.state
        /\ Written(r).devices = IF "devices" \in DOMAIN req[r].dto THEN req[r].dto["devices"]
                                ELSE Defaults.devices
    BY <2>1, DocsAreDocs, MergedFields
  <2>3. Defaults.state = "stored" /\ Defaults.devices = {}
    BY DEF Defaults
  <2> QED
    BY <1>1, <1>3, <2>2, <2>3 DEF BeforeOK, Names
<1>4. CASE req[r].op = "update" /\ old.state = "stored"
  <2>1. req[r].dto \in UpdateAlertDto /\ Written(r) = Merged(old, req[r].dto)
    BY <1>1, <1>4 DEF BeforeOK, Written
  <2>2. /\ Written(r) \in AlertDoc /\ Written(r).state = old.state
        /\ Written(r).devices = IF "devices" \in DOMAIN req[r].dto THEN req[r].dto["devices"]
                                ELSE old.devices
        /\ Written(r).isActiveAlert =
              IF "isActiveAlert" \in DOMAIN req[r].dto THEN req[r].dto["isActiveAlert"]
              ELSE old.isActiveAlert
    BY <1>1, <2>1, MergedFields
  <2> QED
    BY <1>1, <1>2, <1>4, <2>2 DEF BeforeOK, Names
<1>5. CASE req[r].op = "update" /\ old.state # "stored"
  <2>1. Written(r) = old
    BY <1>5 DEF Written
  <2> QED
    BY <1>1, <1>2, <1>5, <2>1 DEF BeforeOK
<1>6. CASE req[r].op = "remove"
  <2>1. Written(r) = NotStored("gone")
    BY <1>6 DEF Written
  <2> QED
    BY <1>1, <1>6, <2>1, DocsAreDocs DEF BeforeOK, NotStored, DocState
<1> QED
  BY <1>1, <1>3, <1>4, <1>5, <1>6

\* An alert only one request is about: its event says what the alert is now,
\* and without an event it says what it said.
LEMMA WriteKeeps ==
  ASSUME AlertsInv, NEW r \in Req, Write(r)
  PROVE  AlertsInv'
<1> DEFINE a == req[r].alert
           new == Written(r)
           event == EventOf(r)
           q == IF Changes(r)
                THEN [Idle EXCEPT !.pc = "emit", !.alert = a, !.event = event] ELSE Idle
<1>1. /\ req[r] \in Request /\ req[r].pc = "write" /\ Before(r) /\ BeforeOK(r)
      /\ a \in Alert /\ alert[a] \in AlertDoc
      /\ req[r].op \in {"create", "update", "remove"}
  BY DEF Write, AlertsInv, AlertsTypeOK, SlotOK, Before, BeforeOK, Request
<1>2. /\ new \in AlertDoc /\ new.isActiveAlert \in IsActiveAlert /\ new.state # "absent"
      /\ req[r].op # "create" => alert[a].state # "absent"
  BY <1>1, WrittenFields DEF AlertDoc
<1>3. /\ event \in Payload /\ event.at = 0
      /\ event.Status = StatusString(new.isActiveAlert)
      /\ event.alert = IF new.state = "stored" THEN a ELSE NoAlert
  BY <1>1 DEF EventOf, Payload, StatusString
<1>4. /\ alert' = [alert EXCEPT ![a] = new] /\ req' = [req EXCEPT ![r] = q]
      /\ UNCHANGED <<isActive, channel, log, now, raced, lost>>
  BY DEF Write
<1>5. Changes(r) => req[r].op \in {"create", "update"}
  BY DEF Changes
<1>6. ASSUME Changes(r), new.state # "stored" PROVE a \in raced
  BY <1>1, <1>5, <1>6, WrittenFields DEF BeforeOK
<1>7. ASSUME a \notin raced, ~Changes(r), new.state = "stored"
      PROVE  alert[a].state = "stored" /\ new.isActiveAlert = alert[a].isActiveAlert
  <2>1. req[r].op = "update"
    BY <1>1, <1>7, WrittenFields DEF Changes
  <2>2. req[r].current = alert[a].isActiveAlert
    BY <1>1, <1>7, <2>1 DEF BeforeOK
  <2>3. "isActiveAlert" \in DOMAIN req[r].dto => req[r].current = new.isActiveAlert
    BY <1>7, <2>1 DEF Changes
  <2> QED
    BY <1>1, <1>7, <2>1, <2>2, <2>3, WrittenFields
<1> HIDE DEF event, new
<1>8. q \in Request
  <2>1. [Idle EXCEPT !.pc = "emit", !.alert = a, !.event = event] \in Request
    BY <1>1, <1>3, IdleIsARequest DEF Request
  <2> QED
    BY <2>1, IdleIsARequest
<1>9. /\ req'[r] = q /\ \A p \in Req \ {r} : req'[p] = req[p]
      /\ alert'[a] = new /\ \A c \in Alert \ {a} : alert'[c] = alert[c]
  BY <1>1, <1>4 DEF AlertsInv, AlertsTypeOK
<1>10. /\ q.alert = IF Changes(r) THEN a ELSE NoAlert
       /\ q.pc = IF Changes(r) THEN "emit" ELSE "idle"
       /\ Changes(r) => q.event = event /\ q.found = Unread
       /\ ~Changes(r) => q = Idle
  BY DEF Idle
<1>11. AlertsTypeOK'
  BY <1>2, <1>4, <1>8 DEF AlertsInv, AlertsTypeOK
<1> HIDE DEF q
<1>12. now \in Nat
  BY AlertsAssumption DEF AlertsInv, AlertsTypeOK
<1>13. ASSUME NEW p \in Req PROVE SlotOK(p)'
  <2>1. CASE p = r /\ Changes(r)
    BY <1>1, <1>3, <1>4, <1>6, <1>9, <1>10, <1>12, <2>1
       DEF SlotOK, Busy, Before, After, AfterOK
  <2>2. CASE p = r /\ ~Changes(r)
    BY <1>9, <1>10, <2>2 DEF SlotOK, Busy, Before, After
  <2>3. CASE p # r
    <3>1. req'[p] = req[p]
      BY <1>9, <2>3
    <3>2. req[p].alert = a => a \in raced
      BY <1>1, <2>3 DEF AlertsInv, OverlapsAreNoted
    <3>3. a \in raced => alert[a].state # "absent"
      BY <1>1 DEF AlertsInv, OverlapsAreNoted
    <3>4. req[p].alert # a => alert'[req[p].alert] = alert[req[p].alert]
      BY <1>4 DEF AlertsInv, AlertsTypeOK
    <3> QED
      BY <1>2, <1>4, <1>9, <1>12, <3>1, <3>2, <3>3, <3>4, OtherSlotKeeps
  <2> QED
    BY <2>1, <2>2, <2>3
<1>14. OverlapsAreNoted'
  <2>1. ASSUME NEW c \in Alert, alert'[c].state = "absent" PROVE c \notin raced
    BY <1>2, <1>9, <2>1 DEF AlertsInv, OverlapsAreNoted
  <2>2. \A p \in Req : req'[p].alert \in {req[p].alert, NoAlert}
    BY <1>9, <1>10
  <2> QED
    BY <1>4, <2>1, <2>2, AlertsAssumption DEF AlertsInv, OverlapsAreNoted
<1>15. ASSUME NEW c \in Alert \ raced PROVE LogOK(c)'
  <2>1. LogOK(c)
    BY DEF AlertsInv
  <2>2. CASE c # a
    <3>1. \A p \in Req : req[p].alert = c \/ req'[p].alert = c => SameStage(p)
      BY <1>9, <1>10, <2>2, AlertsAssumption DEF SameStage
    <3> QED
      BY <1>4, <1>9, <1>11, <1>12, <2>1, <2>2, <3>1, OtherLogKeeps
  <2>3. CASE c = a
    <3>1. LogsOrdered(c)' /\ LogsChained(c)'
      BY <1>4, <2>1 DEF LogOK, LogsOrdered, LogsChained
    <3>2. \A p \in Req \ {r} : req[p].alert # a /\ req'[p].alert # a
      BY <1>1, <1>9, <2>3, OnlyOne
    <3>3. CASE Changes(r)
      <4>1. ChangeIsNext(r)
        BY <2>1, <2>3 DEF LogOK
      <4>2. ChangeIsNext(r)'
        BY <1>1, <1>3, <1>4, <1>9, <1>10, <3>3, <4>1 DEF ChangeIsNext, StatusOf
      <4>3. req'[r].alert = a /\ ~Before(r)'
        BY <1>9, <1>10, <3>3 DEF Before
      <4>4. LastIsLogged(c)'
        BY <2>3, <4>3 DEF LastIsLogged
      <4>5. \A p \in Req : req'[p].alert = c => p = r
        BY <2>3, <3>2
      <4> QED
        BY <3>1, <4>2, <4>4, <4>5 DEF LogOK
    <3>4. CASE ~Changes(r)
      <4>1. \A p \in Req : req'[p].alert # c
        BY <1>9, <1>10, <2>3, <3>2, <3>4, AlertsAssumption
      <4>2. ASSUME c \notin lost, new.state = "stored"
            PROVE  LastLog(c) # NoLog /\ LastLog(c).Status = StatusOf(c)
        <5>1. LastIsLogged(c)
          BY <2>1, <4>2 DEF LogOK
        <5>2. \A p \in Req : req[p].alert = c => Before(p)
          BY <1>1, <2>3, <3>2
        <5> QED
          BY <1>7, <2>3, <3>4, <4>2, <5>1, <5>2 DEF LastIsLogged
      <4>3. c \notin lost => LastIsLogged(c)'
        BY <1>4, <1>7, <1>9, <2>3, <3>4, <4>2 DEF LastIsLogged, LastLog, StatusOf
      <4> QED
        BY <1>4, <3>1, <4>1, <4>3 DEF LogOK
    <3> QED
      BY <3>3, <3>4
  <2> QED
    BY <2>2, <2>3
<1> QED
  BY <1>4, <1>11, <1>13, <1>14, <1>15 DEF AlertsInv

\* A request begins after every log there is, and notes any other about its alert.
LEMMA BeginKeeps ==
  ASSUME AlertsInv, NEW r \in Req, NEW a \in Alert, NEW op \in {"create", "update", "remove"},
         NEW dto, IF op = "remove" THEN dto = NoDto ELSE dto \in UpdateAlertDto,
         Begin(r, a, op, dto),
         op = "create" => alert[a].state = "absent" /\ \A p \in Req : req[p].alert # a,
         op # "create" => alert[a].state # "absent"
  PROVE  AlertsInv'
<1> DEFINE q == [Idle EXCEPT !.pc = FirstPc(op), !.op = op, !.alert = a,
                             !.dto = dto, !.seen = Active]
<1>1. /\ req' = [req EXCEPT ![r] = q] /\ now' = now + 1 /\ now < MaxClock
      /\ raced' = IF \E p \in Req : req[p].alert = a THEN raced \cup {a} ELSE raced
      /\ UNCHANGED <<alert, isActive, channel, log, lost>> /\ ~Busy(r)
  BY DEF Begin
<1>2. now \in 0 .. MaxClock /\ now' \in 0 .. MaxClock /\ now \in Nat /\ now' \in Nat /\ now < now'
  BY <1>1, AlertsAssumption DEF AlertsInv, AlertsTypeOK
<1>3. /\ q.pc = (IF op = "create" THEN "devices" ELSE "find") /\ q.op = op /\ q.alert = a
      /\ q.dto = dto /\ q.seen = Active /\ q.found = Unread
  BY DEF Idle, FirstPc
<1>4. q \in Request
  <2>1. /\ Active \in SUBSET Device /\ dto \in UpdateAlertDto \cup {NoDto}
        /\ FirstPc(op) \in {"find", "devices"}
    BY DEF Active, FirstPc
  <2> QED
    BY <2>1, IdleIsARequest DEF Request
<1> HIDE DEF q
<1>5. req'[r] = q /\ \A p \in Req \ {r} : req'[p] = req[p]
  BY <1>1 DEF AlertsInv, AlertsTypeOK
<1>6. AlertsTypeOK'
  BY <1>1, <1>2, <1>4 DEF AlertsInv, AlertsTypeOK
<1>7. ASSUME NEW p \in Req PROVE SlotOK(p)'
  <2>1. CASE p = r
    <3>1. BeforeOK(r)'
      BY <1>1, <1>3, <1>5 DEF BeforeOK, Active
    <3> QED
      BY <1>3, <1>5, <2>1, <3>1 DEF SlotOK, Busy, Before, After
  <2>2. CASE p # r
    <3>1. req'[p] = req[p]
      BY <1>5, <2>2
    <3> QED
      BY <1>1, <1>2, <3>1, OtherSlotKeeps
  <2> QED
    BY <2>1, <2>2
<1>8. OverlapsAreNoted'
  <2>1. ASSUME NEW p \in Req, NEW s \in Req, p # s, req'[p].alert = req'[s].alert,
               req'[p].alert \in Alert
        PROVE  req'[p].alert \in raced'
    <3>1. CASE p = r \/ s = r
      BY <1>1, <1>3, <1>5, <2>1, <3>1
    <3>2. CASE p # r /\ s # r
      BY <1>1, <1>5, <2>1, <3>2 DEF AlertsInv, OverlapsAreNoted
    <3> QED
      BY <3>1, <3>2
  <2>2. ASSUME NEW c \in Alert, alert'[c].state = "absent" PROVE c \notin raced'
    BY <1>1, <2>2 DEF AlertsInv, OverlapsAreNoted
  <2> QED
    BY <2>1, <2>2 DEF OverlapsAreNoted
<1>9. ASSUME NEW c \in Alert \ raced' PROVE LogOK(c)'
  <2>1. c \in Alert \ raced /\ LogOK(c) /\ now <= now'
    BY <1>1, <1>2 DEF AlertsInv
  <2>2. CASE c # a
    <3>1. req[r].alert # c
      BY <1>1, SlotKinds
    <3>2. \A p \in Req : req[p].alert = c \/ req'[p].alert = c => SameStage(p)
      BY <1>3, <1>5, <2>2, <3>1 DEF SameStage
    <3> QED
      BY <1>1, <1>6, <2>1, <3>2, OtherLogKeeps
  <2>3. CASE c = a
    <3>1. \A p \in Req : req[p].alert # a
      BY <1>1, <1>9, <2>3
    <3>2. Len(log[c]) \in Nat /\ \A i \in 1 .. Len(log[c]) : log[c][i].changedAt \in Nat
      BY LogTypes DEF AlertsInv
    <3>3. LogsOrdered(c)' /\ LogsChained(c)'
      BY <1>1, <1>2, <2>1, <3>2 DEF LogOK, LogsOrdered, LogsChained
    <3>4. ASSUME NEW p \in Req, req'[p].alert = c PROVE ChangeIsNext(p)'
      <4>1. p = r /\ req'[p].pc \in {"find", "devices"} /\ req'[p].alert = c
        BY <1>3, <1>5, <2>3, <3>1, <3>4
      <4>2. \A i \in 1 .. Len(log[c]) : log[c][i].changedAt < now'
        BY <1>2, <2>1, <3>2 DEF LogOK, LogsOrdered
      <4> QED
        BY <1>1, <4>1, <4>2 DEF ChangeIsNext, After
    <3>5. c \notin lost' => LastIsLogged(c)'
      BY <1>1, <2>1, <2>3, <3>1 DEF LogOK, LastIsLogged, LastLog, StatusOf
    <3> QED
      BY <3>3, <3>4, <3>5 DEF LogOK
  <2> QED
    BY <2>2, <2>3
<1>10. raced' = {} => log'[NoAlert] = << >>
  BY <1>1 DEF AlertsInv
<1> QED
  BY <1>6, <1>7, <1>8, <1>9, <1>10 DEF AlertsInv

LEMMA ClientRequestKeeps ==
  ASSUME AlertsInv, NEW r \in Req, ClientRequest(r)
  PROVE  AlertsInv'
<1>1. PICK a \in Alert :
        \/ /\ alert[a].state = "absent" /\ \A p \in Req : req[p].alert # a
           /\ \E dto \in Body : "devices" \in DOMAIN dto /\ Begin(r, a, "create", dto)
        \/ /\ alert[a].state # "absent"
           /\ \/ \E dto \in Body : Begin(r, a, "update", dto)
              \/ Begin(r, a, "remove", NoDto)
  BY DEF ClientRequest
<1>2. Body \subseteq UpdateAlertDto
  BY AlertsAssumption
<1>3. CASE alert[a].state = "absent"
  BY <1>1, <1>2, <1>3, BeginKeeps
<1>4. CASE alert[a].state # "absent"
  BY <1>1, <1>2, <1>4, BeginKeeps
<1> QED
  BY <1>3, <1>4

\* The requests at work see the device; nothing else of them depends on it.
LEMMA DeviceChangesKeeps ==
  ASSUME AlertsInv, NEW d \in Device, DeviceChanges(d)
  PROVE  AlertsInv'
<1>1. /\ isActive' \in [Device -> BOOLEAN] /\ Active' \subseteq Active \cup {d}
      /\ UNCHANGED <<alert, channel, log, now, raced, lost>>
      /\ now \in Nat
  BY AlertsAssumption DEF DeviceChanges, AlertsInv, AlertsTypeOK, Active
<1>2. ASSUME NEW r \in Req
      PROVE  /\ req'[r] \in Request
             /\ req'[r].pc = req[r].pc /\ req'[r].op = req[r].op
             /\ req'[r].alert = req[r].alert /\ req'[r].dto = req[r].dto
             /\ req'[r].current = req[r].current /\ req'[r].event = req[r].event
             /\ req'[r].found = req[r].found
             /\ Busy(r) => req'[r].seen = req[r].seen \cup {d}
             /\ ~Busy(r) => req'[r] = req[r]
  BY DEF DeviceChanges, AlertsInv, AlertsTypeOK, Request
<1>3. AlertsTypeOK'
  <2>1. req' \in [Req -> Request]
    BY <1>2 DEF DeviceChanges
  <2> QED
    BY <1>1, <2>1 DEF AlertsInv, AlertsTypeOK
<1>4. ASSUME NEW r \in Req PROVE SlotOK(r)'
  <2>1. SlotOK(r)
    BY DEF AlertsInv
  <2>2. ASSUME Before(r) PROVE BeforeOK(r)'
    <3>1. BeforeOK(r) /\ Busy(r) /\ Names(r, "devices")' = Names(r, "devices")
      BY <1>2, <2>1, <2>2 DEF SlotOK, Before, Busy, Names
    <3> QED
      BY <1>1, <1>2, <3>1 DEF BeforeOK
  <2>3. ASSUME After(r) PROVE AfterOK(r)'
    BY <1>1, <1>2, <2>1, <2>3 DEF SlotOK, AfterOK
  <2> QED
    BY <1>2, <2>1, <2>2, <2>3 DEF SlotOK, Busy, Before, After
<1>5. OverlapsAreNoted'
  BY <1>1, <1>2 DEF AlertsInv, OverlapsAreNoted
<1>6. ASSUME NEW a \in Alert \ raced PROVE LogOK(a)'
  <2>1. LogOK(a) /\ now <= now' /\ \A r \in Req : SameStage(r)
    BY <1>1, <1>2 DEF AlertsInv, SameStage
  <2> QED
    BY <1>1, <1>3, <2>1, OtherLogKeeps
<1> QED
  BY <1>1, <1>3, <1>4, <1>5, <1>6 DEF AlertsInv

LEMMA ChannelsKeep ==
  ASSUME AlertsInv, UNCHANGED <<alert, isActive, log, req, now, raced, lost>>,
         channel' \in [Channel -> DocState]
  PROVE  AlertsInv'
<1>1. AlertsTypeOK'
  BY DEF AlertsInv, AlertsTypeOK
<1>2. now \in Nat
  BY AlertsAssumption DEF AlertsInv, AlertsTypeOK
<1>3. \A r \in Req : SlotOK(r)'
  BY <1>2, OtherSlotKeeps
<1>4. \A a \in Alert \ raced : LogOK(a)'
  BY <1>1, <1>2, OtherLogKeeps DEF AlertsInv, SameStage
<1> QED
  BY <1>1, <1>3, <1>4 DEF AlertsInv, OverlapsAreNoted

\* The changes that were on their way are noted as lost.
LEMMA RestartKeeps ==
  ASSUME AlertsInv, Restart
  PROVE  AlertsInv'
<1>1. /\ \A r \in Req : req'[r] = Idle
      /\ lost' = lost \cup Unlogged(Req)
      /\ UNCHANGED <<alert, isActive, channel, log, now, raced>>
  BY DEF Restart
<1>2. Unlogged(Req) \subseteq Alert
  BY DEF Unlogged, AlertsInv, SlotOK, After, AfterOK
<1>3. AlertsTypeOK'
  <2>1. req' \in [Req -> Request]
    BY IdleIsARequest DEF Restart
  <2> QED
    BY <1>1, <1>2, <2>1 DEF AlertsInv, AlertsTypeOK
<1>4. ASSUME NEW r \in Req PROVE SlotOK(r)'
  <2>1. req'[r] = Idle
    BY <1>1
  <2> QED
    BY <2>1 DEF SlotOK, Busy, Before, After, Idle
<1>5. OverlapsAreNoted'
  BY <1>1, AlertsAssumption DEF AlertsInv, OverlapsAreNoted, Idle
<1>6. ASSUME NEW a \in Alert \ raced PROVE LogOK(a)'
  <2>1. LogOK(a)
    BY DEF AlertsInv
  <2>2. \A r \in Req : req'[r].alert # a
    BY <1>1, AlertsAssumption DEF Idle
  <2>3. LogsOrdered(a)' /\ LogsChained(a)'
    BY <1>1, <2>1 DEF LogOK, LogsOrdered, LogsChained
  <2>4. ASSUME a \notin lost' PROVE LastIsLogged(a)'
    <3>1. a \notin lost /\ \A r \in Req : req[r].alert = a => ~After(r)
      BY <1>1, <2>4 DEF Unlogged, After
    <3>2. \A r \in Req : req[r].alert = a => Before(r)
      BY <3>1, SlotKinds
    <3> QED
      BY <1>1, <2>1, <3>1, <3>2 DEF LogOK, LastIsLogged, LastLog, StatusOf
  <2> QED
    BY <2>2, <2>3, <2>4 DEF LogOK
<1> QED
  BY <1>1, <1>3, <1>4, <1>5, <1>6 DEF AlertsInv

LEMMA InitAlertsInv == Init => AlertsInv
<1> SUFFICES ASSUME Init PROVE AlertsInv
  OBVIOUS
<1>1. AlertsTypeOK
  <2>1. alert \in [Alert -> AlertDoc]
    BY DocsAreDocs DEF Init, DocState
  <2>2. log \in [Alert \cup {NoAlert} -> Seq(EventLog)]
    BY DEF Init
  <2> QED
    BY <2>1, <2>2, IdleIsARequest, AlertsAssumption DEF Init, AlertsTypeOK, DocState
<1>2. \A r \in Req : SlotOK(r) /\ req[r].alert = NoAlert
  BY DEF Init, SlotOK, Busy, Before, After, Idle
<1>3. OverlapsAreNoted
  BY <1>2, AlertsAssumption DEF Init, OverlapsAreNoted
<1>4. ASSUME NEW a \in Alert PROVE LogOK(a)
  <2>1. /\ log[a] = << >> /\ alert[a].state = "absent" /\ Len(log[a]) = 0
        /\ \A r \in Req : req[r].alert # a
    BY <1>2, AlertsAssumption DEF Init, NotStored
  <2> QED
    BY <2>1 DEF LogOK, LogsOrdered, LogsChained, LastIsLogged
<1> QED
  BY <1>1, <1>2, <1>3, <1>4 DEF AlertsInv, Init

LEMMA NextAlertsInv == AlertsInv /\ [Next]_vars => AlertsInv'
<1> SUFFICES ASSUME AlertsInv, [Next]_vars PROVE AlertsInv'
  OBVIOUS
<1>1. ASSUME NEW r \in Req, ClientRequest(r) \/ Progress(r) \/ DbError(r) PROVE AlertsInv'
  BY <1>1, ClientRequestKeeps, FindKeeps, ValidateKeeps, WriteKeeps, EmitKeeps, RefuseKeeps,
     ListenerFindKeeps, ListenerCreateKeeps, DbErrorKeeps DEF Progress
<1>2. ASSUME NEW d \in Device, DeviceChanges(d) PROVE AlertsInv'
  BY <1>2, DeviceChangesKeeps
<1>3. ASSUME NEW c \in Channel, CreateChannel(c) \/ RemoveChannel(c) PROVE AlertsInv'
  <2>1. channel' \in [Channel -> DocState]
    BY <1>3 DEF CreateChannel, RemoveChannel, AlertsInv, AlertsTypeOK, DocState
  <2> QED
    BY <1>3, <2>1, ChannelsKeep DEF CreateChannel, RemoveChannel
<1>4. CASE Restart
  BY <1>4, RestartKeeps
<1>5. CASE UNCHANGED vars
  BY <1>5, ChannelsKeep DEF vars, AlertsInv, AlertsTypeOK
<1> QED
  BY <1>1, <1>2, <1>3, <1>4, <1>5 DEF Next

\* The inductive invariant holds in every state the services reach.
THEOREM AlertsInvariance == Spec => []AlertsInv
BY InitAlertsInv, NextAlertsInv, PTL DEF Spec

-----------------------------------------------------------------------------
(* The invariants the run checks.                                          *)

\* Every alert, log and request keeps its type.
THEOREM AlertsTypeCorrect == Spec => []AlertsTypeOK
<1>1. AlertsInv => AlertsTypeOK
  BY DEF AlertsInv
<1> QED
  BY <1>1, AlertsInvariance, PTL

\* Of an alert whose requests never overlapped, and of which no change was lost,
\* the newest log says what the alert is once nothing about it is in flight.
THEOREM LogsFollowAlerts == Spec => []LogFollowsAlert
<1>1. AlertsInv => LogFollowsAlert
  <2> SUFFICES ASSUME AlertsInv, NEW a \in Alert \ (raced \cup lost),
                      alert[a].state = "stored", Quiet(a)
      PROVE  \E last \in LastLogs(a) : last.Status = StatusString(alert[a].isActiveAlert)
    BY DEF LogFollowsAlert
  <2>1. LogsOrdered(a) /\ LastIsLogged(a)
    BY DEF AlertsInv, LogOK
  <2>2. LastLog(a) # NoLog /\ LastLog(a).Status = StatusOf(a)
    BY <2>1 DEF LastIsLogged, Quiet
  <2>3. LastLogs(a) = {LastLog(a)}
    BY <2>1, <2>2, LatestIsLast DEF AlertsInv, LastLog
  <2> QED
    BY <2>2, <2>3 DEF StatusOf
<1> QED
  BY <1>1, AlertsInvariance, PTL

\* The logs of such an alert form a chain, whatever was lost in between.
THEOREM LogsFormAChain == Spec => []AlertLogChain
<1>1. AlertsInv => AlertLogChain
  BY DEF AlertsInv, LogOK, LogsChained, AlertLogChain
<1> QED
  BY <1>1, AlertsInvariance, PTL

\* A log that names no alert comes from requests that overlapped.
THEOREM LogsHaveAlerts == Spec => []EveryLogHasItsAlert
<1>1. AlertsInv => EveryLogHasItsAlert
  BY DEF AlertsInv, EveryLogHasItsAlert
<1> QED
  BY <1>1, AlertsInvariance, PTL

-----------------------------------------------------------------------------
(* The action properties.                                                  *)

\* r writes its alert.
LEMMA StepWrites ==
  ASSUME AlertsInv, [Next]_vars, NEW a \in Alert, alert'[a] # alert[a]
  PROVE  \E r \in Req : /\ Before(r) /\ req[r].pc = "write" /\ req[r].alert = a
                        /\ alert'[a] = Written(r)
<1>1. PICK r \in Req : Write(r)
  BY DEF Next, ClientRequest, Begin, Progress, Find, Validate, Emit, Refuse, ListenerFind,
     ListenerCreate, DbError, DeviceChanges, CreateChannel, RemoveChannel, Restart, vars
<1>2. Before(r) /\ req[r].pc = "write"
  BY <1>1 DEF Write, Before
<1>3. req[r].alert = a /\ alert'[a] = Written(r)
  BY <1>1 DEF Write, AlertsInv, AlertsTypeOK
<1> QED
  BY <1>2, <1>3

\* A removed alert stays removed, whatever updates were in flight.
THEOREM RemovedAlertsStay == Spec => RemovedStaysRemoved
<1>1. AlertsInv /\ [Next]_vars => [KeepsRemoved]_vars
  <2> SUFFICES ASSUME AlertsInv, [Next]_vars, NEW a \in Alert,
                      alert[a].state = "gone", alert'[a].state # "gone"
      PROVE  FALSE
    BY DEF KeepsRemoved
  <2>1. PICK r \in Req : Before(r) /\ req[r].alert = a /\ alert'[a] = Written(r)
    BY StepWrites
  <2>2. req[r].op \in {"create", "update", "remove"}
    BY DEF AlertsInv, AlertsTypeOK, Request
  <2> QED
    BY <2>1, <2>2, WrittenFields
<1> QED
  BY <1>1, AlertsInvariance, PTL DEF Spec, RemovedStaysRemoved

\* A device enters an alert only by a request during which it was active.
THEOREM AttachedDevicesWereActive == Spec => DevicesWereActive
<1>1. AlertsInv /\ [Next]_vars => [AttachesActiveDevices]_vars
  <2> SUFFICES ASSUME AlertsInv, [Next]_vars, NEW a \in Alert,
                      NEW d \in alert'[a].devices \ alert[a].devices
      PROVE  \E r \in Req : req[r].alert = a /\ req[r].pc = "write" /\ d \in req[r].seen
    BY DEF AttachesActiveDevices
  <2>1. PICK r \in Req : /\ Before(r) /\ req[r].pc = "write" /\ req[r].alert = a
                         /\ alert'[a] = Written(r)
    BY StepWrites
  <2>2. Written(r).devices \subseteq alert[a].devices \cup Names(r, "devices")
    BY <2>1, WrittenFields
  <2>3. Names(r, "devices") \subseteq req[r].seen
    BY <2>1 DEF AlertsInv, SlotOK, BeforeOK
  <2> QED
    BY <2>1, <2>2, <2>3
<1> QED
  BY <1>1, AlertsInvariance, PTL DEF Spec, DevicesWereActive
=============================================================================
