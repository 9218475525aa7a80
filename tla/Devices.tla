------------------------------- MODULE Devices -------------------------------
(***************************************************************************)
(* DevicesService (src/devices/devices.service.ts): the create, update and *)
(* remove handlers of the REST API, each a MongoDB transaction over one    *)
(* device document and the documents of the maps the device belongs to.    *)
(*                                                                         *)
(* The device lists its maps (MapUUID) and each map lists its devices      *)
(* (Devices) and counts them (AmountDevices): the handlers keep the two    *)
(* sides together.  A handler is a sequence of awaits; between two of them *)
(* any other request, MapasService and, with Faults, a database error or a *)
(* restart of the server may come.                                         *)
(*                                                                         *)
(* A device stands for its document.  Which ip it has is left open: an     *)
(* update may change it, so a create may find any device, and a write that *)
(* carries an ip may meet another device's.  The fields that take part in  *)
(* no condition (name, position, Type, SnmpSettings, tickets ...) are left *)
(* out.                                                                    *)
(***************************************************************************)
EXTENDS MongoTxn, Integers, FiniteSets

CONSTANTS
  Device,      \* device documents
  Mapa,        \* map documents
  Statuses,    \* the StatusIcmp values the clients send
  Nulls,       \* the fields an update may set to null (PartialType lets null pass)
  Overlap,     \* TRUE: two requests on one device may be in flight at once
  Faults,      \* TRUE: database calls may fail and the server may restart
  ClockStep,   \* how far the clock moves between two requests
  MaxClock,    \* bound: no request begins once the clock is there
  MaxCopies    \* bound: no request begins on a device listed more often in a map

ASSUME DevicesAssumption ==
  /\ Statuses \subseteq {"up", "down", "verified"}
  /\ Nulls \subseteq {"StatusIcmp", "MapUUID"}
  /\ Overlap \in BOOLEAN /\ Faults \in BOOLEAN
  /\ ClockStep \in Nat /\ MaxClock \in Nat /\ MaxCopies \in Nat
  /\ Device \cap Mapa = {} /\ IsFiniteSet(Device) /\ "null" \notin Mapa

VARIABLES
  device,      \* the committed device documents
  mapa,        \* the committed map documents
  req,         \* what each request slot is doing
  now,         \* the clock, Date.now()
  boot         \* when device.entity.ts was loaded: the default lastChangeStatusTime

vars == <<device, mapa, req, now, boot, txnVars>>

DocState == {"absent", "active", "inactive"}      \* isActive, or not stored

StatusValue == {"unknown", "up", "down", "verified", "null"}

\* A MapUUID that is null: no array, so nothing can go through its maps.
NullMaps == {"null"}

DeviceDoc == [state : DocState, StatusIcmp : StatusValue,
              lastChangeStatusTime : Nat, MapUUID : (SUBSET Mapa) \cup {NullMaps}]

\* Devices is an array that $push may extend twice and $pull empties of
\* every copy: the number of times it holds each device.
MapaDoc == [state : DocState, Devices : [Device -> Nat], AmountDevices : Int]

NoDoc == [state |-> "absent", StatusIcmp |-> "unknown",
          lastChangeStatusTime |-> 0, MapUUID |-> {}]

NoMapa == [state |-> "absent", Devices |-> [d \in Device |-> 0], AmountDevices |-> 0]

\* The bodies of the requests.  An update may leave MapUUID and StatusIcmp out,
\* or set them to null; setsMaps says that it brings an array of maps.
Dto == [setsMaps : BOOLEAN, MapUUID : (SUBSET Mapa) \cup {NullMaps},
        StatusIcmp : Statuses \cup {"keep", "null"}]
NoDto == [setsMaps |-> FALSE, MapUUID |-> {}, StatusIcmp |-> "keep"]
CreateDeviceDto ==
  {dto \in Dto : dto.setsMaps /\ dto.MapUUID # NullMaps /\ dto.StatusIcmp \in Statuses}
UpdateDeviceDto ==
  {dto \in Dto :
     /\ dto.MapUUID = NullMaps => ~dto.setsMaps /\ "MapUUID" \in Nulls
     /\ dto.setsMaps \/ dto.MapUUID \in {{}, NullMaps}
     /\ dto.StatusIcmp = "null" => "StatusIcmp" \in Nulls}

Payload == [StatusIcmp : StatusValue, lastChangeStatusTime : Nat]
NoPayload == [StatusIcmp |-> "unknown", lastChangeStatusTime |-> 0]

NoDevice == "none"

Request ==
  [pc : {"idle", "find", "work", "after", "logging"},
   op : {"create", "insert", "reactivate", "update", "remove"},
   dev : Device \cup {NoDevice},
   dto : Dto,
   seen : DeviceDoc,              \* the document findOne or findById returned
   stamp : Nat,                   \* the Date.now() the handler took
   pulled : SUBSET Mapa,          \* maps whose $pull and $inc -1 were sent
   looked : SUBSET Mapa,          \* the map mapasService.findById returned
   pushed : SUBSET Mapa,          \* maps whose $push and $inc +1 were sent
   event : Payload]               \* the event emitted, while its handler runs

Idle == [pc |-> "idle", op |-> "remove", dev |-> NoDevice, dto |-> NoDto,
         seen |-> NoDoc, stamp |-> 0, pulled |-> {}, looked |-> {}, pushed |-> {},
         event |-> NoPayload]

TypeOK ==
  /\ device \in [Device -> DeviceDoc]
  /\ mapa \in [Mapa -> MapaDoc]
  /\ req \in [Req -> Request]
  /\ now \in Nat /\ boot \in Nat
  /\ writes \in [Req -> SUBSET (Device \cup Mapa)]
  /\ missed \in [Req -> SUBSET (Device \cup Mapa)]

Init ==
  /\ device = [d \in Device |-> NoDoc]
  /\ mapa = [m \in Mapa |-> NoMapa]
  /\ req = [r \in Req |-> Idle]
  /\ now = 0 /\ boot = 0
  /\ TxnInit

-----------------------------------------------------------------------------
(* What a request still has to do.                                         *)

InFlight(r) == req[r].pc \in {"find", "work", "after"}

Creates(r) == req[r].op \in {"insert", "reactivate"}

\* Mutant: takes the device out of the new maps instead of the old ones.
MapsToPullNew(r) == req[r].dto.MapUUID

\* update leaves the old maps when the body brings new ones, remove always.
LeavesMaps(r) == req[r].op = "remove" \/ (req[r].op = "update" /\ req[r].dto.setsMaps)

\* A map that is not stored is passed over.
MapsToPull(r) ==
  {m \in req[r].seen.MapUUID \cap Mapa : LeavesMaps(r) /\ mapa[m].state # "absent"}

MapsToPush(r) == IF req[r].dto.setsMaps THEN req[r].dto.MapUUID ELSE {}

CanPull(r, m) ==
  /\ req[r].pc = "work"
  /\ m \in MapsToPull(r) \ req[r].pulled

\* create writes the device before the maps, update after them.
CanLook(r, m) ==
  /\ req[r].pc = "work" /\ req[r].looked = {}
  /\ IF Creates(r) THEN req[r].dev \in writes[r] ELSE req[r].pulled = MapsToPull(r)
  /\ m \in MapsToPush(r) \ req[r].pushed

CanPush(r, m) == req[r].pc = "work" /\ m \in req[r].looked

CanWriteDevice(r) ==
  /\ req[r].pc = "work" /\ req[r].dev \notin writes[r]
  /\ Creates(r) \/ (req[r].pulled = MapsToPull(r) /\ req[r].pushed = MapsToPush(r))

CanCommit(r) ==
  /\ req[r].pc = "work" /\ req[r].dev \in writes[r]
  /\ req[r].pulled = MapsToPull(r) /\ req[r].pushed = MapsToPush(r)

\* Mutant: does not compare the new status with the one it read.
StatusChangedIfGiven(r) == req[r].dto.StatusIcmp \notin {"keep", "null"}

\* The test each handler makes on the document it read: insert always emits,
\* the others when the status they were asked for is not the one they read.  A
\* status set to null passes for none: it is stored without a stamp or an event.
StatusChanged(r) ==
  CASE req[r].op = "insert" -> TRUE
    [] req[r].op = "remove" -> req[r].seen.StatusIcmp = "up"
    [] OTHER -> req[r].dto.StatusIcmp \notin {"keep", "null", req[r].seen.StatusIcmp}

-----------------------------------------------------------------------------
(* The steps of a handler.                                                 *)

\* The bounds of the model: nothing in the code limits them.
WithinBounds(d) ==
  /\ now + ClockStep <= MaxClock
  /\ \A m \in Mapa : /\ mapa[m].Devices[d] <= MaxCopies
                     /\ mapa[m].AmountDevices \in -MaxCopies .. MaxCopies * Cardinality(Device)

Begin(r, d, op, dto) ==
  /\ req[r].pc = "idle"
  /\ Overlap \/ \A q \in Req : InFlight(q) => req[q].dev # d
  /\ WithinBounds(d)
  /\ req' = [req EXCEPT ![r] = [Idle EXCEPT !.pc = "find", !.op = op, !.dev = d, !.dto = dto]]
  /\ now' = now + ClockStep
  /\ UNCHANGED <<device, mapa, boot, txnVars>>

\* create looks for an inactive device of that ip, to reactivate it.
FoundOp(op, doc) ==
  IF op # "create" THEN op
  ELSE IF doc.state = "inactive" THEN "reactivate" ELSE "insert"

\* update and remove need an active device, and one whose MapUUID is not null when
\* they go through its maps: for ... of null throws before the next await.
Usable(r) ==
  LET doc == device[req[r].dev] IN
  doc.state = "active" /\ (doc.MapUUID = NullMaps => ~LeavesMaps(r))

\* The Date.now() of update and of a reactivation is taken as soon as the
\* document is there.
Find(r) ==
  LET doc == device[req[r].dev] IN
  /\ req[r].pc = "find"
  /\ req[r].op = "create" \/ Usable(r)
  /\ req' = [req EXCEPT ![r].pc = "work",
                        ![r].op = FoundOp(@, doc),
                        ![r].seen = IF FoundOp(req[r].op, doc) = "insert" THEN NoDoc ELSE doc,
                        ![r].stamp = now]
  /\ UNCHANGED <<device, mapa, now, boot, txnVars>>

\* $inc AmountDevices -1 and $pull Devices, whatever the map's isActive.  The
\* read before it decides nothing else: maps are never deleted.
PullFromMap(r, m) ==
  /\ CanPull(r, m)
  /\ TxnWrite(r, m)
  /\ req' = [req EXCEPT ![r].pulled = @ \cup {m}]
  /\ UNCHANGED <<device, mapa, now, boot>>

\* mapasService.findById: the map must be active now, not when it is pushed.
LookUpMap(r, m) ==
  /\ CanLook(r, m)
  /\ mapa[m].state = "active"
  /\ req' = [req EXCEPT ![r].looked = {m}]
  /\ UNCHANGED <<device, mapa, now, boot, txnVars>>

\* $inc AmountDevices +1 and $push Devices.
PushToMap(r, m) ==
  /\ CanPush(r, m)
  /\ TxnWrite(r, m)
  /\ req' = [req EXCEPT ![r].looked = {}, ![r].pushed = @ \cup {m}]
  /\ UNCHANGED <<device, mapa, now, boot>>

\* An insert needs its device not to be stored yet; the other writes select by _id
\* alone, so they change the document whatever became of its isActive.
WriteDevice(r) ==
  /\ CanWriteDevice(r)
  /\ req[r].op = "insert" => device[req[r].dev].state = "absent"
  /\ TxnWrite(r, req[r].dev)
  /\ req' = [req EXCEPT ![r].stamp = IF req[r].op = "remove" THEN now ELSE @]
  /\ UNCHANGED <<device, mapa, now, boot>>

\* What a handler stores in the device document: the fields of the body over
\* those of the document, and the time it took when the status changes.
Stamp(r) ==
  IF StatusChanged(r) THEN req[r].stamp ELSE device[req[r].dev].lastChangeStatusTime

InsertedDoc(r) ==
  [state |-> "active", StatusIcmp |-> req[r].dto.StatusIcmp,
   lastChangeStatusTime |-> boot, MapUUID |-> req[r].dto.MapUUID]

ReactivatedDoc(r) ==
  [state |-> "active", StatusIcmp |-> req[r].dto.StatusIcmp,
   lastChangeStatusTime |-> Stamp(r), MapUUID |-> req[r].dto.MapUUID]

\* Mutant: an update without StatusIcmp writes the field all the same.
UpdatedDocUndefined(r) ==
  [device[req[r].dev] EXCEPT !.StatusIcmp = req[r].dto.StatusIcmp]

\* Everything the body brings is in $set, a null as well; isActive is not, whatever
\* it is now.
UpdatedDoc(r) ==
  LET dto == req[r].dto
      doc == device[req[r].dev]
  IN [state |-> doc.state,
      StatusIcmp |-> IF dto.StatusIcmp = "keep" THEN doc.StatusIcmp ELSE dto.StatusIcmp,
      lastChangeStatusTime |-> Stamp(r),
      MapUUID |-> IF dto.setsMaps \/ dto.MapUUID = NullMaps THEN dto.MapUUID
                  ELSE doc.MapUUID]

RemovedDoc(r) ==
  [state |-> "inactive", StatusIcmp |-> "down",
   lastChangeStatusTime |-> Stamp(r), MapUUID |-> device[req[r].dev].MapUUID]

Written(r) ==
  CASE req[r].op = "insert"     -> InsertedDoc(r)
    [] req[r].op = "reactivate" -> ReactivatedDoc(r)
    [] req[r].op = "update"     -> UpdatedDoc(r)
    [] OTHER                    -> RemovedDoc(r)

\* Mutant: the device leaves the map and the counter keeps it.
RewrittenNoDec(r, m) ==
  LET d == req[r].dev
      out == m \in req[r].pulled
      in == m \in req[r].pushed
  IN [mapa[m] EXCEPT !.Devices[d] = (IF out THEN 0 ELSE @) + (IF in THEN 1 ELSE 0),
                     !.AmountDevices = @ + (IF in THEN 1 ELSE 0)]

\* Mutant: update pushes the device to the new maps before it pulls the old.
RewrittenPullLast(r, m) ==
  LET d == req[r].dev
      out == m \in req[r].pulled
      in == m \in req[r].pushed
  IN [mapa[m] EXCEPT !.Devices[d] = IF out THEN 0 ELSE @ + (IF in THEN 1 ELSE 0),
                     !.AmountDevices = @ - (IF out THEN 1 ELSE 0) + (IF in THEN 1 ELSE 0)]

\* Document m with the updates of r applied: $pull removes every copy.
Rewritten(r, m) ==
  LET d == req[r].dev
      out == m \in req[r].pulled
      in == m \in req[r].pushed
  IN [mapa[m] EXCEPT
        !.Devices[d] = (IF out THEN 0 ELSE @) + (IF in THEN 1 ELSE 0),
        !.AmountDevices = @ - (IF out THEN 1 ELSE 0) + (IF in THEN 1 ELSE 0)]

Commit(r) ==
  /\ CanCommit(r)
  /\ device' = [device EXCEPT ![req[r].dev] = Written(r)]
  /\ mapa' = [m \in Mapa |-> Rewritten(r, m)]
  /\ TxnCommit(r)
  /\ req' = [req EXCEPT ![r].pc = "after", ![r].pulled = {}, ![r].pushed = {}]
  /\ UNCHANGED <<now, boot>>

\* insert emits the document it built; the others read the committed one
\* again, which another request may have changed since.
Emit(r) ==
  LET doc == device[req[r].dev]
      event == IF req[r].op = "insert"
               THEN [StatusIcmp |-> req[r].dto.StatusIcmp, lastChangeStatusTime |-> boot]
               ELSE [StatusIcmp |-> doc.StatusIcmp,
                     lastChangeStatusTime |-> doc.lastChangeStatusTime]
  IN
  /\ req[r].pc = "after" /\ StatusChanged(r)
  /\ req' = [req EXCEPT ![r] = [Idle EXCEPT !.pc = "logging", !.dev = req[r].dev,
                                                !.event = event]]
  /\ UNCHANGED <<device, mapa, now, boot, txnVars>>

Respond(r) ==
  /\ req[r].pc = "after" /\ ~StatusChanged(r)
  /\ req' = [req EXCEPT ![r] = Idle]
  /\ UNCHANGED <<device, mapa, now, boot, txnVars>>

\* Mutant: without endSession in finally the transaction stays open.
EndWithErrorLeaking(r) ==
  /\ req' = [req EXCEPT ![r] = Idle]
  /\ UNCHANGED <<device, mapa, now, boot, txnVars>>

\* handleExceptions always throws: the abortTransaction after it is never
\* reached, and endSession in finally is what aborts the transaction.
EndWithError(r) ==
  /\ req' = [req EXCEPT ![r] = Idle]
  /\ TxnAbort(r)
  /\ UNCHANGED <<device, mapa, now, boot>>

\* The ip the write carries is another device's: an insert when its own device is
\* stored by now, and whatever sets an ip when there are others.
MayRepeatIp(r) ==
  /\ CanWriteDevice(r)
  /\ \/ req[r].op = "insert" /\ device[req[r].dev].state # "absent"
     \/ req[r].op # "remove" /\ \E d \in Device \ {req[r].dev} : device[d].state # "absent"

\* Mutant: a conflicting write waits for the other transaction.
RefusedUnlessConflict(r) ==
  \/ req[r].pc = "find" /\ req[r].op # "create" /\ ~Usable(r)
  \/ \E m \in Mapa : CanLook(r, m) /\ mapa[m].state # "active"
  \/ MayRepeatIp(r)

\* The next call of r is refused: no such device, no array of maps to go through, no
\* such active map, a duplicate ip, a write conflict.
Refused(r) ==
  \/ req[r].pc = "find" /\ req[r].op # "create" /\ ~Usable(r)
  \/ \E m \in Mapa : CanLook(r, m) /\ mapa[m].state # "active"
  \/ MayRepeatIp(r)
  \/ CanWriteDevice(r) /\ WriteConflict(r, req[r].dev)
  \/ \E m \in Mapa : (CanPull(r, m) \/ CanPush(r, m)) /\ WriteConflict(r, m)

Refuse(r) == Refused(r) /\ EndWithError(r)

\* A call fails before the commit; or the commit's answer, or the read after
\* it, is lost: the client gets an error, the change stays, nothing is emitted.
DbError(r) == Faults /\ InFlight(r) /\ EndWithError(r)

\* The event handler is done (DeviceLog says what it does).
HandlerDone(r) ==
  /\ req[r].pc = "logging"
  /\ req' = [req EXCEPT ![r] = Idle]
  /\ UNCHANGED <<device, mapa, now, boot, txnVars>>

\* MapasService creates, updates, reactivates or removes a map, without
\* touching Devices and AmountDevices.  Maps are never deleted.
MapasWrite(m, state) ==
  /\ state \in {"active", "inactive"}
  /\ state = "active" \/ mapa[m].state # "absent"
  /\ PlainWrite(m)
  /\ mapa' = [mapa EXCEPT ![m].state = state]
  /\ UNCHANGED <<device, req, now, boot>>

Restart ==
  /\ Faults
  /\ req' = [r \in Req |-> Idle]
  /\ TxnAbortAll
  /\ boot' = now
  /\ UNCHANGED <<device, mapa, now>>

-----------------------------------------------------------------------------

ClientRequest(r) ==
  \E d \in Device :
    \/ \E dto \in CreateDeviceDto : Begin(r, d, "create", dto)
    \/ \E dto \in UpdateDeviceDto : Begin(r, d, "update", dto)
    \/ Begin(r, d, "remove", NoDto)

Progress(r) ==
  \/ Find(r)
  \/ \E m \in Mapa : PullFromMap(r, m) \/ LookUpMap(r, m) \/ PushToMap(r, m)
  \/ WriteDevice(r) \/ Commit(r)
  \/ Emit(r) \/ Respond(r)
  \/ Refuse(r)

\* Everything but a restart and the handlers of the emitted events.
ServiceStep ==
  \/ \E r \in Req : ClientRequest(r) \/ Progress(r) \/ DbError(r)
  \/ \E m \in Mapa, state \in DocState : MapasWrite(m, state)

Next ==
  \/ ServiceStep
  \/ \E r \in Req : HandlerDone(r)
  \/ Restart

Spec == Init /\ [][Next]_vars

\* Node runs every callback, MongoDB answers every call, and a conflicting
\* write fails instead of waiting.  Nothing makes clients send requests.
Fairness == \A r \in Req : WF_vars(Progress(r))

FairSpec == Spec /\ Fairness

-----------------------------------------------------------------------------
(* Properties.                                                             *)

\* With one request at a time on each device, the two sides agree: a map's
\* Devices array holds an active device of the map exactly once, and no other
\* device, whatever fails between the awaits of create, update and remove.  Only of
\* a device whose MapUUID was set to null there is no telling where it is.
MembershipExact ==
  \A m \in Mapa, d \in Device :
    /\ mapa[m].Devices[d] \in {0, 1}
    /\ device[d].MapUUID # NullMaps =>
         (mapa[m].Devices[d] = 1 <=> device[d].state = "active" /\ m \in device[d].MapUUID)

\* With one request at a time on each device, the $inc counter AmountDevices
\* is the number of devices in the array it is kept beside.
AmountExact ==
  \A m \in Mapa :
    mapa[m].AmountDevices = Cardinality({d \in Device : mapa[m].Devices[d] > 0})

\* However requests on one device overlap, an active device is never missing
\* from the Devices array of a map its MapUUID names.
ActiveDevicesListed ==
  \A d \in Device : device[d].state = "active" =>
    \A m \in device[d].MapUUID \cap Mapa : mapa[m].Devices[d] > 0

\* A transaction that holds documents belongs to a handler that will still
\* commit or end it: no error path (handleExceptions throws before
\* abortTransaction) leaves a document locked.
NoLeakedTransaction ==
  \A r \in Req : writes[r] # {} => req[r].pc = "work"

\* A device that is stored keeps its lastChangeStatusTime or gets a later one
\* together with another StatusIcmp.
StampsTheChange ==
  \A d \in Device :
    device[d].state # "absent"
      /\ device'[d].lastChangeStatusTime # device[d].lastChangeStatusTime
    => /\ device'[d].StatusIcmp # device[d].StatusIcmp
       /\ device'[d].lastChangeStatusTime > device[d].lastChangeStatusTime

\* With one request at a time on each device, lastChangeStatusTime of a
\* stored device moves only when StatusIcmp does, and never backwards
\* (SOLO ACTUALIZA EL TIMESTAMP SI EL ESTADO CAMBIO).
StampFollowsStatus == [][StampsTheChange]_vars

\* A map's counter goes down only when its array loses a device (the comment
\* beside $pull: SI NO EXISTE NO DISMINUYA EL CONTADOR AmountDevices).
CounterFollowsArray ==
  [][\A m \in Mapa : mapa'[m].AmountDevices < mapa[m].AmountDevices =>
       \E d \in Device : mapa'[m].Devices[d] < mapa[m].Devices[d]]_vars

\* Every request is answered, or lost in a restart: conflicting transactions
\* end with an error, they never wait for one another.
EveryRequestEnds ==
  \A r \in Req : InFlight(r) ~> ~InFlight(r)
=============================================================================
