---------------------------- MODULE DevicesProofs ----------------------------
(***************************************************************************)
(* Theorems about Devices, for every set of requests, devices and maps.    *)
(***************************************************************************)
EXTENDS DevicesRoster, FiniteSetTheorems, TLAPS

-----------------------------------------------------------------------------
(* Type correctness.  TypeOK alone is not inductive: a step of a request    *)
(* writes the document req[r].dev, so a request that is not idle must have  *)
(* one, and what Written stores depends on the body its operation takes.    *)

BodyOK(op, dto) ==
  /\ op \in {"create", "insert", "reactivate"} => dto \in CreateDeviceDto
  /\ op = "update" => dto \in UpdateDeviceDto
  /\ op = "remove" => dto = NoDto

RequestOK ==
  \A r \in Req :
    /\ req[r].pc # "idle" => req[r].dev \in Device
    /\ req[r].pc = "find" => req[r].op \in {"create", "update", "remove"}
    /\ req[r].pc \in {"work", "after"} => req[r].op # "create"
    /\ BodyOK(req[r].op, req[r].dto)

TypeInv == TypeOK /\ RequestOK

\* What the bodies of each operation hold.
LEMMA BodyFacts ==
  ASSUME NEW op, NEW dto, BodyOK(op, dto)
  PROVE  /\ op \in {"create", "insert", "reactivate"} =>
              /\ dto.setsMaps /\ dto.MapUUID \in SUBSET Mapa /\ dto.MapUUID # NullMaps
              /\ dto.StatusIcmp \in {"up", "down", "verified"}
         /\ op = "update" =>
              /\ dto.setsMaps \/ dto.MapUUID \in {{}, NullMaps}
              /\ dto.setsMaps => dto.MapUUID \in SUBSET Mapa /\ dto.MapUUID # NullMaps
              /\ dto.MapUUID \in (SUBSET Mapa) \cup {NullMaps}
              /\ dto.StatusIcmp \in {"up", "down", "verified", "keep", "null"}
         /\ op = "remove" => ~dto.setsMaps /\ dto.MapUUID = {}
<1>1. CASE op \in {"create", "insert", "reactivate"}
  BY <1>1, DevicesAssumption DEF BodyOK, CreateDeviceDto, Dto
<1>2. CASE op = "update"
  BY <1>2, DevicesAssumption DEF BodyOK, UpdateDeviceDto, Dto
<1>3. CASE op = "remove"
  BY <1>3 DEF BodyOK, NoDto
<1> QED
  BY <1>1, <1>2, <1>3

\* The values a slot and a document start from have their types.
LEMMA StartTypes ==
  NoDoc \in DeviceDoc /\ NoMapa \in MapaDoc /\ Idle \in Request
BY DevicesAssumption
   DEF NoDoc, DeviceDoc, DocState, NoMapa, MapaDoc, Idle, Request, NoDto, Dto,
       NoPayload, Payload, NoDevice, StatusValue

LEMMA InitTypeInv == Init => TypeInv
BY StartTypes DEF Init, TxnInit, TypeInv, TypeOK, RequestOK, BodyOK, Idle

\* The transactions' bookkeeping stays within the documents.
LEMMA TxnTypes ==
  ASSUME NEW r \in Req, NEW doc \in Device \cup Mapa, TypeOK
  PROVE  /\ TxnWrite(r, doc) \/ TxnCommit(r) \/ TxnAbort(r) \/ PlainWrite(doc)
              \/ TxnAbortAll \/ UNCHANGED txnVars
            => /\ writes' \in [Req -> SUBSET (Device \cup Mapa)]
               /\ missed' \in [Req -> SUBSET (Device \cup Mapa)]
BY DEF TypeOK, TxnWrite, TxnCommit, TxnAbort, PlainWrite, TxnAbortAll, txnVars

\* What a handler would store has the type of a document.
LEMMA WrittenType ==
  ASSUME TypeInv, NEW r \in Req, req[r].pc = "work"
  PROVE  Written(r) \in DeviceDoc
<1>1. req[r].dev \in Device /\ req[r].op # "create"
  BY DEF TypeInv, RequestOK
<1>2. device[req[r].dev] \in DeviceDoc
  BY <1>1 DEF TypeInv, TypeOK
<1>3. req[r] \in Request /\ boot \in Nat
  BY DEF TypeInv, TypeOK
<1>4. /\ req[r].op \in {"insert", "reactivate"} =>
           /\ req[r].dto.StatusIcmp \in {"up", "down", "verified"}
           /\ req[r].dto.MapUUID \in SUBSET Mapa
      /\ req[r].op = "update" =>
           req[r].dto.StatusIcmp \in {"up", "down", "verified", "keep", "null"}
  BY BodyFacts DEF TypeInv, RequestOK
<1>5. req[r].dto.MapUUID \in (SUBSET Mapa) \cup {NullMaps}
  BY <1>3 DEF Request, Dto
<1>6. req[r].stamp \in Nat /\ req[r].op \in {"insert", "reactivate", "update", "remove"}
  BY <1>1, <1>3 DEF Request
<1>7. Stamp(r) \in Nat
  BY <1>2, <1>6 DEF DeviceDoc, Stamp
<1>8. CASE req[r].op = "insert"
  BY <1>2, <1>3, <1>4, <1>6, <1>8 DEF Written, InsertedDoc, DeviceDoc, DocState, StatusValue
<1>9. CASE req[r].op = "reactivate"
  BY <1>2, <1>4, <1>6, <1>7, <1>9 DEF Written, ReactivatedDoc, DeviceDoc, DocState, StatusValue
<1>10. CASE req[r].op = "update"
  BY <1>2, <1>4, <1>5, <1>6, <1>7, <1>10
     DEF Written, UpdatedDoc, DeviceDoc, DocState, StatusValue
<1>11. CASE req[r].op = "remove"
  BY <1>2, <1>6, <1>7, <1>11 DEF Written, RemovedDoc, DeviceDoc, DocState, StatusValue
<1> QED
  BY <1>6, <1>8, <1>9, <1>10, <1>11

LEMMA RewrittenType ==
  ASSUME TypeInv, NEW r \in Req, NEW m \in Mapa
  PROVE  Rewritten(r, m) \in MapaDoc
<1> DEFINE d == req[r].dev
           n == (IF m \in req[r].pulled THEN 0 ELSE mapa[m].Devices[d])
                  + (IF m \in req[r].pushed THEN 1 ELSE 0)
           a == mapa[m].AmountDevices - (IF m \in req[r].pulled THEN 1 ELSE 0)
                  + (IF m \in req[r].pushed THEN 1 ELSE 0)
           devices == [mapa[m].Devices EXCEPT ![d] = n]
<1>1. mapa[m] \in MapaDoc
  BY DEF TypeInv, TypeOK
<1>2. a \in Int /\ (d \in Device => n \in Nat)
  BY <1>1 DEF MapaDoc
<1>3. devices \in [Device -> Nat]
  BY <1>1, <1>2 DEF MapaDoc
<1>4. Rewritten(r, m) = [mapa[m] EXCEPT !.Devices = devices, !.AmountDevices = a]
  BY <1>1 DEF Rewritten, MapaDoc
<1> QED
  BY <1>1, <1>2, <1>3, <1>4 DEF MapaDoc

\* A step that only changes what the slot r holds keeps the types when the
\* new content of the slot is a request with its constraints.
LEMMA SlotStep ==
  ASSUME TypeInv, NEW r \in Req, NEW q \in Request,
         req' = [req EXCEPT ![r] = q],
         q.pc # "idle" => q.dev \in Device,
         q.pc = "find" => q.op \in {"create", "update", "remove"},
         q.pc \in {"work", "after"} => q.op # "create",
         BodyOK(q.op, q.dto)
  PROVE  req' \in [Req -> Request] /\ RequestOK'
BY DEF TypeInv, TypeOK, RequestOK

LEMMA BeginTypeInv ==
  ASSUME TypeInv, NEW r \in Req, ClientRequest(r)
  PROVE  TypeInv'
<1>1. PICK d \in Device :
        \/ \E dto \in CreateDeviceDto : Begin(r, d, "create", dto)
        \/ \E dto \in UpdateDeviceDto : Begin(r, d, "update", dto)
        \/ Begin(r, d, "remove", NoDto)
  BY DEF ClientRequest
<1>2. PICK op \in {"create", "update", "remove"}, dto \in Dto :
        Begin(r, d, op, dto) /\ BodyOK(op, dto)
  <2>1. NoDto \in Dto /\ CreateDeviceDto \subseteq Dto /\ UpdateDeviceDto \subseteq Dto
    BY DEF NoDto, Dto, CreateDeviceDto, UpdateDeviceDto
  <2> QED
    BY <1>1, <2>1 DEF BodyOK
<1> DEFINE q == [Idle EXCEPT !.pc = "find", !.op = op, !.dev = d, !.dto = dto]
<1>3. q \in Request /\ q.pc = "find" /\ q.op = op /\ q.dev = d /\ q.dto = dto
  BY StartTypes DEF Request, Idle
<1>4. req' = [req EXCEPT ![r] = q]
  BY <1>2 DEF Begin
<1> HIDE DEF q
<1>5. req' \in [Req -> Request] /\ RequestOK'
  BY <1>2, <1>3, <1>4, SlotStep
<1> QED
  BY <1>2, <1>5, DevicesAssumption DEF Begin, TypeInv, TypeOK, txnVars

\* Find changes its own slot.
LEMMA FindSlot ==
  ASSUME TypeInv, NEW r \in Req, Find(r)
  PROVE  LET doc == device[req[r].dev]
             op == FoundOp(req[r].op, doc)
             seen == IF op = "insert" THEN NoDoc ELSE doc
         IN req' = [req EXCEPT ![r] = [req[r] EXCEPT !.pc = "work", !.op = op, !.seen = seen, !.stamp = now]]
<1>1. req[r] \in Request /\ req[r].pc = "find" /\ req[r].dev \in Device /\ now \in Nat
  BY DEF Find, TypeInv, TypeOK, RequestOK
<1> QED
  BY <1>1 DEF Find, TypeInv, TypeOK, Request

LEMMA FindTypeInv ==
  ASSUME TypeInv, NEW r \in Req, Find(r)
  PROVE  TypeInv'
<1> DEFINE doc == device[req[r].dev]
           op == FoundOp(req[r].op, doc)
           seen == IF op = "insert" THEN NoDoc ELSE doc
           q == [req[r] EXCEPT !.pc = "work", !.op = op, !.seen = seen, !.stamp = now]
<1>1. req[r] \in Request /\ req[r].pc = "find" /\ req[r].dev \in Device /\ now \in Nat
  BY DEF Find, TypeInv, TypeOK, RequestOK
<1>2. seen \in DeviceDoc
  BY <1>1, StartTypes DEF TypeInv, TypeOK
<1>3. op \in {"insert", "reactivate", "update", "remove"}
  BY <1>1 DEF Request, FoundOp
<1>4. /\ q \in Request /\ q.pc = "work" /\ q.dev = req[r].dev
      /\ q.op = op /\ q.dto = req[r].dto
  BY <1>1, <1>2, <1>3 DEF Request
<1>5. req' = [req EXCEPT ![r] = q]
  BY FindSlot
<1>6. /\ op \in {"insert", "reactivate"} => req[r].op = "create" \/ req[r].op = op
      /\ op \in {"update", "remove"} => req[r].op = op
  BY <1>3 DEF FoundOp
<1> HIDE DEF q, op, seen
<1>7. req' \in [Req -> Request] /\ RequestOK'
  <2>1. op # "create"
    BY <1>3
  <2>2. BodyOK(op, req[r].dto)
    BY <1>3, <1>6 DEF TypeInv, RequestOK, BodyOK
  <2> QED
    BY <1>1, <1>4, <1>5, <2>1, <2>2, SlotStep
<1> QED
  BY <1>7 DEF Find, TypeInv, TypeOK, txnVars

\* The slot goes on with the same request.
StillAtWork(r) ==
  \E q \in Request :
    /\ req' = [req EXCEPT ![r] = q]
    /\ q.pc = "work" /\ q.dev = req[r].dev /\ q.op = req[r].op /\ q.dto = req[r].dto

\* The awaits of the transaction: one more document, and the slot remembers.
LEMMA WorkTypeInv ==
  ASSUME TypeInv, NEW r \in Req,
         \/ \E m \in Mapa : PullFromMap(r, m) \/ LookUpMap(r, m) \/ PushToMap(r, m)
         \/ WriteDevice(r)
  PROVE  TypeInv'
<1>1. req[r] \in Request /\ now \in Nat
  BY DEF TypeInv, TypeOK
<1>2. req[r].pc = "work" /\ req[r].dev \in Device /\ req[r].op # "create"
  BY DEF PullFromMap, CanPull, LookUpMap, CanLook, PushToMap, CanPush, WriteDevice,
         CanWriteDevice, TypeInv, RequestOK
<1>3. PICK doc \in Device \cup Mapa : TxnWrite(r, doc) \/ UNCHANGED txnVars
  BY <1>2 DEF PullFromMap, LookUpMap, PushToMap, WriteDevice
<1>4. StillAtWork(r)
  <2>1. ASSUME NEW m \in Mapa, PullFromMap(r, m) PROVE StillAtWork(r)
    <3> DEFINE q == [req[r] EXCEPT !.pulled = @ \cup {m}]
    <3>1. q \in Request /\ q.pc = "work" /\ q.dev = req[r].dev /\ q.op = req[r].op
          /\ q.dto = req[r].dto
      BY <1>1, <1>2 DEF Request
    <3>2. req' = [req EXCEPT ![r] = q]
      BY <2>1 DEF PullFromMap, TypeInv, TypeOK, Request
    <3> QED BY <3>1, <3>2 DEF StillAtWork
  <2>2. ASSUME NEW m \in Mapa, LookUpMap(r, m) PROVE StillAtWork(r)
    <3> DEFINE q == [req[r] EXCEPT !.looked = {m}]
    <3>1. q \in Request /\ q.pc = "work" /\ q.dev = req[r].dev /\ q.op = req[r].op
          /\ q.dto = req[r].dto
      BY <1>1, <1>2 DEF Request
    <3>2. req' = [req EXCEPT ![r] = q]
      BY <2>2 DEF LookUpMap, TypeInv, TypeOK, Request
    <3> QED BY <3>1, <3>2 DEF StillAtWork
  <2>3. ASSUME NEW m \in Mapa, PushToMap(r, m) PROVE StillAtWork(r)
    <3> DEFINE q == [req[r] EXCEPT !.looked = {}, !.pushed = @ \cup {m}]
    <3>1. q \in Request /\ q.pc = "work" /\ q.dev = req[r].dev /\ q.op = req[r].op
          /\ q.dto = req[r].dto
      BY <1>1, <1>2 DEF Request
    <3>2. req' = [req EXCEPT ![r] = q]
      BY <2>3 DEF PushToMap, TypeInv, TypeOK, Request
    <3> QED BY <3>1, <3>2 DEF StillAtWork
  <2>4. ASSUME WriteDevice(r) PROVE StillAtWork(r)
    <3> DEFINE q == [req[r] EXCEPT !.stamp = IF req[r].op = "remove" THEN now ELSE @]
    <3>1. q \in Request /\ q.pc = "work" /\ q.dev = req[r].dev /\ q.op = req[r].op
          /\ q.dto = req[r].dto
      BY <1>1, <1>2 DEF Request
    <3>2. req' = [req EXCEPT ![r] = q]
      BY <2>4 DEF WriteDevice, TypeInv, TypeOK, Request
    <3> QED BY <3>1, <3>2 DEF StillAtWork
  <2> QED BY <2>1, <2>2, <2>3, <2>4
<1>5. req' \in [Req -> Request] /\ RequestOK'
  <2>1. PICK q \in Request :
          /\ req' = [req EXCEPT ![r] = q]
          /\ q.pc = "work" /\ q.dev = req[r].dev /\ q.op = req[r].op /\ q.dto = req[r].dto
    BY <1>4 DEF StillAtWork
  <2> QED
    BY <1>2, <2>1, SlotStep DEF TypeInv, RequestOK
<1>6. writes' \in [Req -> SUBSET (Device \cup Mapa)]
      /\ missed' \in [Req -> SUBSET (Device \cup Mapa)]
  BY <1>3, TxnTypes DEF TypeInv
<1>7. UNCHANGED <<device, mapa, now, boot>>
  BY DEF PullFromMap, LookUpMap, PushToMap, WriteDevice
<1> QED
  BY <1>5, <1>6, <1>7 DEF TypeInv, TypeOK

LEMMA CommitTypeInv ==
  ASSUME TypeInv, NEW r \in Req, Commit(r)
  PROVE  TypeInv'
<1> DEFINE q == [req[r] EXCEPT !.pc = "after", !.pulled = {}, !.pushed = {}]
<1>1. req[r] \in Request /\ req[r].pc = "work" /\ req[r].dev \in Device
      /\ req[r].op # "create"
  BY DEF Commit, CanCommit, TypeInv, TypeOK, RequestOK
<1>2. q \in Request /\ q.pc = "after" /\ q.dev = req[r].dev /\ q.op = req[r].op
      /\ q.dto = req[r].dto
  BY <1>1 DEF Request
<1>3. req' = [req EXCEPT ![r] = q]
  BY DEF Commit, TypeInv, TypeOK, Request
<1> HIDE DEF q
<1>4. req' \in [Req -> Request] /\ RequestOK'
  BY <1>1, <1>2, <1>3, SlotStep DEF TypeInv, RequestOK
<1>5. device' \in [Device -> DeviceDoc]
  BY <1>1, WrittenType DEF Commit, TypeInv, TypeOK
<1>6. mapa' \in [Mapa -> MapaDoc]
  BY RewrittenType DEF Commit
<1>7. writes' \in [Req -> SUBSET (Device \cup Mapa)]
      /\ missed' \in [Req -> SUBSET (Device \cup Mapa)]
  BY <1>1, TxnTypes DEF Commit, TypeInv
<1> QED
  BY <1>4, <1>5, <1>6, <1>7 DEF Commit, TypeInv, TypeOK

LEMMA EmitTypeInv ==
  ASSUME TypeInv, NEW r \in Req, Emit(r)
  PROVE  TypeInv'
<1> DEFINE doc == device[req[r].dev]
           event == IF req[r].op = "insert"
                    THEN [StatusIcmp |-> req[r].dto.StatusIcmp, lastChangeStatusTime |-> boot]
                    ELSE [StatusIcmp |-> doc.StatusIcmp,
                          lastChangeStatusTime |-> doc.lastChangeStatusTime]
           q == [Idle EXCEPT !.pc = "logging", !.dev = req[r].dev, !.event = event]
<1>1. req[r] \in Request /\ req[r].pc = "after" /\ req[r].dev \in Device
      /\ doc \in DeviceDoc /\ boot \in Nat
  BY DEF Emit, TypeInv, TypeOK, RequestOK
<1>2. req[r].op = "insert" => req[r].dto.StatusIcmp \in {"up", "down", "verified"}
  BY BodyFacts DEF TypeInv, RequestOK
<1>3. event \in Payload
  BY <1>1, <1>2 DEF DeviceDoc, Payload, StatusValue
<1>4. q \in Request /\ q.dev = req[r].dev /\ q.pc = "logging" /\ q.op = "remove"
      /\ q.dto = NoDto
  BY <1>1, <1>3, StartTypes DEF Request, Idle
<1>5. req' = [req EXCEPT ![r] = q]
  BY DEF Emit
<1> HIDE DEF q
<1>6. req' \in [Req -> Request] /\ RequestOK'
  BY <1>1, <1>4, <1>5, SlotStep DEF BodyOK
<1> QED
  BY <1>6 DEF Emit, TypeInv, TypeOK, txnVars

\* The steps that free the slot, however they end the transaction.
LEMMA EndTypeInv ==
  ASSUME TypeInv, NEW r \in Req, Respond(r) \/ EndWithError(r) \/ HandlerDone(r)
  PROVE  TypeInv'
<1>1. req' = [req EXCEPT ![r] = Idle]
  BY DEF Respond, EndWithError, HandlerDone
<1>2. req' \in [Req -> Request] /\ RequestOK'
  BY <1>1, StartTypes, SlotStep DEF Idle, BodyOK
<1>3. TxnAbort(r) \/ UNCHANGED txnVars
  BY DEF Respond, EndWithError, HandlerDone
<1>4. writes' \in [Req -> SUBSET (Device \cup Mapa)]
      /\ missed' \in [Req -> SUBSET (Device \cup Mapa)]
  BY <1>3 DEF TypeInv, TypeOK, TxnAbort, txnVars
<1>5. UNCHANGED <<device, mapa, now, boot>>
  BY DEF Respond, EndWithError, HandlerDone
<1> QED
  BY <1>2, <1>4, <1>5 DEF TypeInv, TypeOK

LEMMA MapasWriteTypeInv ==
  ASSUME TypeInv, NEW m \in Mapa, NEW state \in DocState, MapasWrite(m, state)
  PROVE  TypeInv'
<1>1. mapa' \in [Mapa -> MapaDoc]
  BY DEF MapasWrite, TypeInv, TypeOK, MapaDoc
<1>2. writes' \in [Req -> SUBSET (Device \cup Mapa)]
      /\ missed' \in [Req -> SUBSET (Device \cup Mapa)]
  BY DEF MapasWrite, PlainWrite, TypeInv, TypeOK
<1> QED
  BY <1>1, <1>2 DEF MapasWrite, TypeInv, TypeOK, RequestOK

LEMMA RestartTypeInv ==
  ASSUME TypeInv, Restart
  PROVE  TypeInv'
BY StartTypes DEF Restart, TxnAbortAll, TypeInv, TypeOK, RequestOK, BodyOK, Idle

LEMMA NextTypeInv == TypeInv /\ [Next]_vars => TypeInv'
<1> SUFFICES ASSUME TypeInv, [Next]_vars PROVE TypeInv'
  OBVIOUS
<1>1. ASSUME NEW r \in Req, ClientRequest(r) PROVE TypeInv'
  BY <1>1, BeginTypeInv
<1>2. ASSUME NEW r \in Req, Progress(r) PROVE TypeInv'
  BY <1>2, FindTypeInv, WorkTypeInv, CommitTypeInv, EmitTypeInv, EndTypeInv
     DEF Progress, Refuse
<1>3. ASSUME NEW r \in Req, DbError(r) \/ HandlerDone(r) PROVE TypeInv'
  BY <1>3, EndTypeInv DEF DbError
<1>4. ASSUME NEW m \in Mapa, NEW state \in DocState, MapasWrite(m, state) PROVE TypeInv'
  BY <1>4, MapasWriteTypeInv
<1>5. CASE Restart
  BY <1>5, RestartTypeInv
<1>6. CASE UNCHANGED vars
  BY <1>6 DEF vars, txnVars, TypeInv, TypeOK, RequestOK
<1> QED
  BY <1>1, <1>2, <1>3, <1>4, <1>5, <1>6 DEF Next, ServiceStep

THEOREM TypeInvariance == Spec => []TypeInv
BY InitTypeInv, NextTypeInv, PTL DEF Spec

\* Every state of DevicesService is well typed: documents, requests, clocks
\* and the transactions' bookkeeping.
THEOREM TypeCorrect == Spec => []TypeOK
BY TypeInvariance, PTL DEF TypeInv

-----------------------------------------------------------------------------
(* However requests overlap, an active device is listed in its maps.  The   *)
(* property is inductive beside the types: only a commit changes device or  *)
(* Devices, and what it pushed is what it stored in MapUUID.                *)

\* What the commit of r leaves in the map documents.
LEMMA CommitDevices ==
  ASSUME TypeInv, NEW r \in Req, Commit(r), NEW m \in Mapa, NEW d \in Device
  PROVE  /\ mapa'[m].Devices[d] =
               IF d = req[r].dev
               THEN (IF m \in req[r].pulled THEN 0 ELSE mapa[m].Devices[d])
                      + (IF m \in req[r].pushed THEN 1 ELSE 0)
               ELSE mapa[m].Devices[d]
         /\ mapa'[m].AmountDevices =
               mapa[m].AmountDevices - (IF m \in req[r].pulled THEN 1 ELSE 0)
                                     + (IF m \in req[r].pushed THEN 1 ELSE 0)
<1>1. mapa[m] \in MapaDoc /\ req[r].dev \in Device
  BY DEF Commit, CanCommit, TypeInv, TypeOK, RequestOK
<1>2. mapa'[m] = Rewritten(r, m)
  BY DEF Commit
<1> QED
  BY <1>1, <1>2 DEF Rewritten, MapaDoc

\* Only a commit changes devices, and only a commit changes what maps list.
LEMMA OthersKeepDocuments ==
  ASSUME TypeInv, [Next]_vars, \A r \in Req : ~Commit(r)
  PROVE  /\ device' = device
         /\ \A m \in Mapa : /\ mapa'[m].Devices = mapa[m].Devices
                            /\ mapa'[m].AmountDevices = mapa[m].AmountDevices
<1>1. ASSUME NEW r \in Req, ClientRequest(r) \/ DbError(r) \/ HandlerDone(r) \/ Progress(r)
      PROVE  device' = device /\ mapa' = mapa
  BY <1>1 DEF ClientRequest, Begin, DbError, EndWithError, HandlerDone, Progress, Find,
              PullFromMap, LookUpMap, PushToMap, WriteDevice, Emit, Respond, Refuse
<1>2. ASSUME NEW n \in Mapa, NEW state \in DocState, MapasWrite(n, state)
      PROVE  /\ device' = device
             /\ \A m \in Mapa : /\ mapa'[m].Devices = mapa[m].Devices
                                /\ mapa'[m].AmountDevices = mapa[m].AmountDevices
  <2>1. \A m \in Mapa : mapa[m] \in MapaDoc
    BY DEF TypeInv, TypeOK
  <2> QED
    BY <1>2, <2>1 DEF MapasWrite, TypeInv, TypeOK, MapaDoc
<1>3. CASE Restart
  BY <1>3 DEF Restart
<1>4. CASE UNCHANGED vars
  BY <1>4 DEF vars
<1> QED
  BY <1>1, <1>2, <1>3, <1>4 DEF Next, ServiceStep

LEMMA CommitListed ==
  ASSUME TypeInv, ActiveDevicesListed, NEW r \in Req, Commit(r)
  PROVE  ActiveDevicesListed'
<1> SUFFICES ASSUME NEW d \in Device, device'[d].state = "active",
                    NEW m \in device'[d].MapUUID \cap Mapa
             PROVE  mapa'[m].Devices[d] > 0
  BY DEF ActiveDevicesListed
<1>1. req[r] \in Request /\ req[r].op \in {"insert", "reactivate", "update", "remove"}
      /\ req[r].dev \in Device /\ device[req[r].dev] \in DeviceDoc
      /\ req[r].pulled = MapsToPull(r) /\ req[r].pushed = MapsToPush(r)
      /\ req[r].pc = "work"
  BY DEF Commit, CanCommit, TypeInv, TypeOK, RequestOK, Request
<1>2. device' = [device EXCEPT ![req[r].dev] = Written(r)] /\ device \in [Device -> DeviceDoc]
  BY DEF Commit, TypeInv, TypeOK
<1>3. BodyOK(req[r].op, req[r].dto) /\ m # "null"
  BY DevicesAssumption DEF TypeInv, RequestOK
<1>4. mapa[m].Devices[d] \in Nat
  BY <1>3 DEF TypeInv, TypeOK, MapaDoc
<1>5. CASE d # req[r].dev
  BY <1>2, <1>3, <1>5, CommitDevices DEF ActiveDevicesListed
<1>6. CASE d = req[r].dev /\ m \in req[r].pushed
  BY <1>3, <1>4, <1>6, CommitDevices
<1>7. CASE d = req[r].dev /\ m \notin req[r].pushed
  <2>1. device'[d] = Written(r)
    BY <1>2, <1>7
  <2>2. req[r].op = "update" /\ ~req[r].dto.setsMaps
    <3>1. req[r].op # "insert"
      BY <1>1, <1>3, <1>7, <2>1, BodyFacts DEF Written, InsertedDoc, MapsToPush
    <3>2. req[r].op # "reactivate"
      BY <1>1, <1>3, <1>7, <2>1, BodyFacts DEF Written, ReactivatedDoc, MapsToPush
    <3>3. req[r].op # "remove"
      BY <1>1, <2>1 DEF Written, RemovedDoc
    <3>4. req[r].op = "update" => ~req[r].dto.setsMaps
      BY <1>1, <1>7, <2>1 DEF Written, UpdatedDoc, MapsToPush
    <3> QED
      BY <1>1, <3>1, <3>2, <3>3, <3>4
  <2>3. device'[d].state = device[d].state /\ m \in device[d].MapUUID
    BY <1>3, <1>7, <2>1, <2>2 DEF Written, UpdatedDoc, NullMaps
  <2>4. m \notin req[r].pulled
    BY <1>1, <2>2 DEF MapsToPull, LeavesMaps
  <2> QED
    BY <1>3, <1>4, <1>7, <2>3, <2>4, CommitDevices DEF ActiveDevicesListed
<1> QED
  BY <1>5, <1>6, <1>7

\* An active device is listed in the map documents its MapUUID names, whatever
\* the number of requests, however they overlap and fail.
THEOREM ActiveDevicesAreListed == Spec => []ActiveDevicesListed
<1>1. Init => ActiveDevicesListed
  BY DEF Init, ActiveDevicesListed, NoDoc
<1>2. TypeInv /\ ActiveDevicesListed /\ [Next]_vars => ActiveDevicesListed'
  <2> SUFFICES ASSUME TypeInv, ActiveDevicesListed, [Next]_vars
               PROVE  ActiveDevicesListed'
    OBVIOUS
  <2>1. CASE \E r \in Req : Commit(r)
    BY <2>1, CommitListed
  <2>2. CASE \A r \in Req : ~Commit(r)
    <3>1. device' = device /\ \A m \in Mapa : mapa'[m].Devices = mapa[m].Devices
      BY <2>2, OthersKeepDocuments
    <3> QED
      BY <3>1 DEF ActiveDevicesListed
  <2> QED
    BY <2>1, <2>2
<1> QED
  BY <1>1, <1>2, TypeInvariance, PTL DEF Spec

-----------------------------------------------------------------------------
(* Every way out of a handler ends its transaction.                         *)

\* What each step does to the transactions of the slots it is not about.
LEMMA NextNoLeak ==
  TypeInv /\ NoLeakedTransaction /\ [Next]_vars => NoLeakedTransaction'
<1> SUFFICES ASSUME TypeInv, NoLeakedTransaction, [Next]_vars
             PROVE  NoLeakedTransaction'
  OBVIOUS
<1> USE DEF NoLeakedTransaction, TypeInv, TypeOK
<1>1. ASSUME NEW r \in Req, ClientRequest(r) PROVE NoLeakedTransaction'
  BY <1>1 DEF ClientRequest, Begin, Idle, txnVars
<1>2. ASSUME NEW r \in Req, Find(r) PROVE NoLeakedTransaction'
  BY <1>2 DEF Find, Request, txnVars
<1>3. ASSUME NEW r \in Req, NEW m \in Mapa,
             PullFromMap(r, m) \/ LookUpMap(r, m) \/ PushToMap(r, m)
      PROVE  NoLeakedTransaction'
  BY <1>3 DEF PullFromMap, CanPull, LookUpMap, CanLook, PushToMap, CanPush, TxnWrite,
              Request, txnVars
<1>4. ASSUME NEW r \in Req, WriteDevice(r) PROVE NoLeakedTransaction'
  BY <1>4 DEF WriteDevice, CanWriteDevice, TxnWrite, Request
<1>5. ASSUME NEW r \in Req, Commit(r) PROVE NoLeakedTransaction'
  BY <1>5 DEF Commit, TxnCommit
<1>6. ASSUME NEW r \in Req, Emit(r) \/ Respond(r) \/ HandlerDone(r) PROVE NoLeakedTransaction'
  BY <1>6 DEF Emit, Respond, HandlerDone, txnVars
<1>7. ASSUME NEW r \in Req, EndWithError(r) PROVE NoLeakedTransaction'
  BY <1>7 DEF EndWithError, TxnAbort
<1>8. ASSUME NEW m \in Mapa, NEW state \in DocState, MapasWrite(m, state)
      PROVE  NoLeakedTransaction'
  BY <1>8 DEF MapasWrite, PlainWrite
<1>9. CASE Restart
  BY <1>9 DEF Restart, TxnAbortAll
<1>10. CASE UNCHANGED vars
  BY <1>10 DEF vars, txnVars
<1> QED
  BY <1>1, <1>2, <1>3, <1>4, <1>5, <1>6, <1>7, <1>8, <1>9, <1>10
     DEF Next, ServiceStep, Progress, DbError, Refuse

\* No transaction stays open once its handler is done, on any path.
THEOREM TransactionsEnd == Spec => []NoLeakedTransaction
<1>1. Init => NoLeakedTransaction
  BY DEF Init, TxnInit, NoLeakedTransaction
<1> QED
  BY <1>1, NextNoLeak, TypeInvariance, PTL DEF Spec

-----------------------------------------------------------------------------
(* With one request at a time on each device the two sides agree exactly.   *)
(* MembershipExact is not inductive: a commit applies what the handler       *)
(* decided from the document it read, so the invariant also says that this   *)
(* document is still the committed one, which rests on no other request on   *)
(* the device being in flight, that the maps named anywhere are stored, and  *)
(* that a device whose MapUUID is null stays active: nothing takes it out of *)
(* its maps any more, and remove is refused.                                 *)

Stored(m) == mapa[m].state # "absent"

OneInFlight ==
  \A r, q \in Req : InFlight(r) /\ InFlight(q) /\ r # q => req[r].dev # req[q].dev

SeenIsCurrent ==
  \A r \in Req : req[r].pc = "work" =>
    LET doc == device[req[r].dev] IN
    /\ req[r].op = "insert" /\ req[r].dev \in writes[r] => doc.state = "absent"
    /\ req[r].op = "reactivate" => doc.state = "inactive"
    /\ req[r].op \in {"update", "remove"} => req[r].seen = doc /\ doc.state = "active"
    /\ LeavesMaps(r) => doc.MapUUID # NullMaps

NullMapsActive ==
  \A d \in Device : device[d].MapUUID = NullMaps => device[d].state = "active"

MapsStored ==
  /\ \A d \in Device : \A m \in device[d].MapUUID \cap Mapa : Stored(m)
  /\ \A r \in Req : \A m \in req[r].looked \cup req[r].pushed : Stored(m)

SerialInv ==
  /\ NoLeakedTransaction
  /\ OneInFlight /\ SeenIsCurrent /\ MapsStored /\ NullMapsActive
  /\ MembershipExact

\* The slot goes on serving the same request, from the same document.
StillServing(r) ==
  \E q \in Request :
    /\ req' = [req EXCEPT ![r] = q]
    /\ q.pc = "work" /\ q.dev = req[r].dev /\ q.op = req[r].op /\ q.seen = req[r].seen
    /\ q.dto = req[r].dto
    /\ \A m \in q.looked \cup q.pushed : Stored(m)

\* A step that changes slot r alone keeps the invariant when the new content q
\* of the slot satisfies it among the other slots.
LEMMA SerialSlot ==
  ASSUME TypeInv, SerialInv, NEW r \in Req, NEW q,
         req' = [req EXCEPT ![r] = q], device' = device, mapa' = mapa,
         NoLeakedTransaction',
         \A p \in Req \ {r} : writes'[p] = writes[p],
         q.pc \in {"find", "work", "after"} =>
           \A p \in Req \ {r} : InFlight(p) => req[p].dev # q.dev,
         q.pc = "work" =>
           /\ q.op = "insert" /\ q.dev \in writes'[r] => device[q.dev].state = "absent"
           /\ q.op = "reactivate" => device[q.dev].state = "inactive"
           /\ q.op \in {"update", "remove"} =>
                q.seen = device[q.dev] /\ device[q.dev].state = "active"
           /\ q.op = "remove" \/ (q.op = "update" /\ q.dto.setsMaps) =>
                device[q.dev].MapUUID # NullMaps,
         \A m \in q.looked \cup q.pushed : Stored(m)
  PROVE  SerialInv'
<1>1. \A p \in Req : req'[p] = IF p = r THEN q ELSE req[p]
  BY DEF TypeInv, TypeOK
<1>2. OneInFlight'
  BY <1>1 DEF SerialInv, OneInFlight, InFlight
<1>3. SeenIsCurrent'
  BY <1>1 DEF SerialInv, SeenIsCurrent, LeavesMaps
<1>4. MapsStored' /\ NullMapsActive'
  BY <1>1 DEF SerialInv, MapsStored, Stored, NullMapsActive
<1>5. MembershipExact'
  BY DEF SerialInv, MembershipExact
<1> QED
  BY <1>2, <1>3, <1>4, <1>5 DEF SerialInv

LEMMA BeginSerial ==
  ASSUME TypeInv, SerialInv, NoLeakedTransaction', ~Overlap, NEW r \in Req,
         ClientRequest(r)
  PROVE  SerialInv'
<1>1. PICK d \in Device, op \in {"create", "update", "remove"}, dto \in CreateDeviceDto
             \cup UpdateDeviceDto \cup {NoDto} : Begin(r, d, op, dto)
  BY DEF ClientRequest
<1> DEFINE q == [Idle EXCEPT !.pc = "find", !.op = op, !.dev = d, !.dto = dto]
<1>2. q.pc = "find" /\ q.dev = d /\ q.looked = {} /\ q.pushed = {}
  BY DEF Idle
<1>3. req' = [req EXCEPT ![r] = q] /\ device' = device /\ mapa' = mapa /\ writes' = writes
      /\ \A p \in Req \ {r} : InFlight(p) => req[p].dev # d
  BY <1>1 DEF Begin, txnVars
<1> HIDE DEF q
<1> QED
  BY <1>2, <1>3, SerialSlot

LEMMA FindSerial ==
  ASSUME TypeInv, SerialInv, NoLeakedTransaction', NEW r \in Req, Find(r)
  PROVE  SerialInv'
<1> DEFINE doc == device[req[r].dev]
           op == FoundOp(req[r].op, doc)
           seen == IF op = "insert" THEN NoDoc ELSE doc
           q == [req[r] EXCEPT !.pc = "work", !.op = op, !.seen = seen, !.stamp = now]
<1>1. req[r] \in Request /\ req[r].pc = "find" /\ req[r].dev \in Device
      /\ doc.state \in DocState
  BY DEF Find, TypeInv, TypeOK, RequestOK, DeviceDoc
<1>2. /\ q.pc = "work" /\ q.dev = req[r].dev /\ q.op = op /\ q.seen = seen
      /\ q.looked = req[r].looked /\ q.pushed = req[r].pushed /\ q.dto = req[r].dto
  BY <1>1 DEF Request
<1>3. req' = [req EXCEPT ![r] = q] /\ device' = device /\ mapa' = mapa /\ writes' = writes
  <2>1. req' = [req EXCEPT ![r] = q]
    BY FindSlot
  <2> QED
    BY <2>1 DEF Find, txnVars
<1>4. \A p \in Req \ {r} : InFlight(p) => req[p].dev # req[r].dev
  BY <1>1 DEF SerialInv, OneInFlight, InFlight
<1>5. /\ op = "insert" => doc.state # "inactive"
      /\ op = "reactivate" => doc.state = "inactive"
      /\ op \in {"update", "remove"} => seen = doc /\ doc.state = "active"
      /\ op = "remove" \/ (op = "update" /\ req[r].dto.setsMaps) => doc.MapUUID # NullMaps
  <2>1. req[r].op \in {"create", "update", "remove"}
    BY <1>1 DEF TypeInv, RequestOK
  <2> QED
    BY <1>1, <2>1 DEF Find, FoundOp, Usable, LeavesMaps
<1>6. req[r].dev \notin writes'[r] /\ \A m \in req[r].looked \cup req[r].pushed : Stored(m)
  BY <1>1, <1>3 DEF SerialInv, NoLeakedTransaction, MapsStored
<1> HIDE DEF q, op, seen
<1> QED
  BY <1>2, <1>3, <1>4, <1>5, <1>6, SerialSlot

LEMMA WorkSerial ==
  ASSUME TypeInv, SerialInv, NoLeakedTransaction', NEW r \in Req,
         \/ \E m \in Mapa : PullFromMap(r, m) \/ LookUpMap(r, m) \/ PushToMap(r, m)
         \/ WriteDevice(r)
  PROVE  SerialInv'
<1>1. req[r] \in Request /\ req[r].pc = "work" /\ req[r].dev \in Device
  BY DEF PullFromMap, CanPull, LookUpMap, CanLook, PushToMap, CanPush, WriteDevice,
         CanWriteDevice, TypeInv, TypeOK, RequestOK
<1>2. device' = device /\ mapa' = mapa
  BY DEF PullFromMap, LookUpMap, PushToMap, WriteDevice
<1>3. \A p \in Req \ {r} : writes'[p] = writes[p] /\ (InFlight(p) => req[p].dev # req[r].dev)
  BY <1>1 DEF PullFromMap, LookUpMap, PushToMap, WriteDevice, TxnWrite, txnVars,
         SerialInv, OneInFlight, InFlight, TypeInv, TypeOK
<1>4. req[r].op = "insert" /\ req[r].dev \in writes'[r] => device[req[r].dev].state = "absent"
  <2>1. req[r].dev \in writes[r] /\ req[r].op = "insert" => device[req[r].dev].state = "absent"
    BY <1>1 DEF SerialInv, SeenIsCurrent
  <2>2. ASSUME NEW m \in Mapa, PullFromMap(r, m) \/ LookUpMap(r, m) \/ PushToMap(r, m)
        PROVE  req[r].dev \in writes'[r] => req[r].dev \in writes[r]
    BY <1>1, <2>2, DevicesAssumption
       DEF PullFromMap, LookUpMap, PushToMap, TxnWrite, txnVars, TypeInv, TypeOK
  <2>3. CASE WriteDevice(r)
    BY <2>3 DEF WriteDevice
  <2> QED
    BY <2>1, <2>2, <2>3
<1>5. PICK q \in Request :
        /\ req' = [req EXCEPT ![r] = q]
        /\ q.pc = "work" /\ q.dev = req[r].dev /\ q.op = req[r].op /\ q.seen = req[r].seen
        /\ q.dto = req[r].dto
        /\ \A m \in q.looked \cup q.pushed : Stored(m)
  <2>1. \A m \in req[r].looked \cup req[r].pushed : Stored(m)
    BY DEF SerialInv, MapsStored
  <2>2. ASSUME NEW m \in Mapa, PullFromMap(r, m) PROVE StillServing(r)
    <3> DEFINE q == [req[r] EXCEPT !.pulled = @ \cup {m}]
    <3>1. q \in Request /\ q.pc = "work" /\ q.dev = req[r].dev /\ q.op = req[r].op
          /\ q.seen = req[r].seen /\ q.dto = req[r].dto /\ q.looked = req[r].looked /\ q.pushed = req[r].pushed
      BY <1>1 DEF Request
    <3>2. req' = [req EXCEPT ![r] = q]
      BY <2>2 DEF PullFromMap, TypeInv, TypeOK, Request
    <3> QED BY <2>1, <3>1, <3>2 DEF StillServing
  <2>3. ASSUME NEW m \in Mapa, LookUpMap(r, m) PROVE StillServing(r)
    <3> DEFINE q == [req[r] EXCEPT !.looked = {m}]
    <3>1. q \in Request /\ q.pc = "work" /\ q.dev = req[r].dev /\ q.op = req[r].op
          /\ q.seen = req[r].seen /\ q.dto = req[r].dto /\ q.looked = {m} /\ q.pushed = req[r].pushed
      BY <1>1 DEF Request
    <3>2. req' = [req EXCEPT ![r] = q] /\ Stored(m)
      BY <2>3 DEF LookUpMap, TypeInv, TypeOK, Request, Stored
    <3> QED BY <2>1, <3>1, <3>2 DEF StillServing
  <2>4. ASSUME NEW m \in Mapa, PushToMap(r, m) PROVE StillServing(r)
    <3> DEFINE q == [req[r] EXCEPT !.looked = {}, !.pushed = @ \cup {m}]
    <3>1. q \in Request /\ q.pc = "work" /\ q.dev = req[r].dev /\ q.op = req[r].op
          /\ q.seen = req[r].seen /\ q.dto = req[r].dto /\ q.looked = {} /\ q.pushed = req[r].pushed \cup {m}
      BY <1>1 DEF Request
    <3>2. req' = [req EXCEPT ![r] = q] /\ m \in req[r].looked
      BY <2>4 DEF PushToMap, CanPush, TypeInv, TypeOK, Request
    <3> QED BY <2>1, <3>1, <3>2 DEF StillServing
  <2>5. ASSUME WriteDevice(r) PROVE StillServing(r)
    <3> DEFINE q == [req[r] EXCEPT !.stamp = IF req[r].op = "remove" THEN now ELSE @]
    <3>1. q \in Request /\ q.pc = "work" /\ q.dev = req[r].dev /\ q.op = req[r].op
          /\ q.seen = req[r].seen /\ q.dto = req[r].dto /\ q.looked = req[r].looked /\ q.pushed = req[r].pushed
      BY <1>1 DEF Request, TypeInv, TypeOK
    <3>2. req' = [req EXCEPT ![r] = q]
      BY <2>5 DEF WriteDevice, TypeInv, TypeOK, Request
    <3> QED BY <2>1, <3>1, <3>2 DEF StillServing
  <2> QED BY <2>2, <2>3, <2>4, <2>5 DEF StillServing
<1>6. /\ req[r].op = "reactivate" => device[req[r].dev].state = "inactive"
      /\ req[r].op \in {"update", "remove"} =>
           req[r].seen = device[req[r].dev] /\ device[req[r].dev].state = "active"
      /\ LeavesMaps(r) => device[req[r].dev].MapUUID # NullMaps
  BY <1>1 DEF SerialInv, SeenIsCurrent
<1> QED
  BY <1>2, <1>3, <1>4, <1>5, <1>6, SerialSlot DEF LeavesMaps

\* Emitting, answering, failing: the slot is no longer about the device.
LEMMA LeaveSerial ==
  ASSUME TypeInv, SerialInv, NoLeakedTransaction', NEW r \in Req,
         Emit(r) \/ Respond(r) \/ EndWithError(r) \/ HandlerDone(r)
  PROVE  SerialInv'
<1>1. PICK q : /\ req' = [req EXCEPT ![r] = q]
               /\ q.pc \in {"idle", "logging"} /\ q.looked = {} /\ q.pushed = {}
  <2>1. CASE Emit(r)
    <3>1. PICK event :
            req' = [req EXCEPT ![r] = [Idle EXCEPT !.pc = "logging", !.dev = req[r].dev,
                                                   !.event = event]]
      BY <2>1 DEF Emit
    <3> DEFINE q == [Idle EXCEPT !.pc = "logging", !.dev = req[r].dev, !.event = event]
    <3>2. q.pc = "logging" /\ q.looked = {} /\ q.pushed = {}
      BY DEF Idle
    <3> HIDE DEF q
    <3>3. req' = [req EXCEPT ![r] = q]
      BY <3>1 DEF q
    <3> QED BY <3>2, <3>3
  <2>2. CASE Respond(r) \/ EndWithError(r) \/ HandlerDone(r)
    <3>1. req' = [req EXCEPT ![r] = Idle]
      BY <2>2 DEF Respond, EndWithError, HandlerDone
    <3>2. Idle.pc = "idle" /\ Idle.looked = {} /\ Idle.pushed = {}
      BY DEF Idle
    <3> QED BY <3>1, <3>2
  <2> QED BY <2>1, <2>2
<1>2. device' = device /\ mapa' = mapa /\ \A p \in Req \ {r} : writes'[p] = writes[p]
  BY DEF Emit, Respond, EndWithError, HandlerDone, TxnAbort, txnVars, TypeInv, TypeOK
<1> QED
  BY <1>1, <1>2, SerialSlot

LEMMA MapasWriteSerial ==
  ASSUME TypeInv, SerialInv, NoLeakedTransaction', NEW n \in Mapa,
         NEW state \in DocState, MapasWrite(n, state)
  PROVE  SerialInv'
<1>1. \A m \in Mapa : mapa'[m].Devices = mapa[m].Devices /\ (Stored(m) => Stored(m)')
  BY DEF MapasWrite, Stored, TypeInv, TypeOK, MapaDoc
<1>2. device' = device /\ req' = req /\ writes' = writes
  BY DEF MapasWrite, PlainWrite
<1>3. MapsStored'
  <2>2. \A r \in Req : req[r].looked \cup req[r].pushed \subseteq Mapa
    BY DEF TypeInv, TypeOK, Request
  <2> QED
    BY <1>1, <1>2, <2>2 DEF SerialInv, MapsStored
<1>4. OneInFlight' /\ SeenIsCurrent' /\ NullMapsActive' /\ MembershipExact'
  BY <1>1, <1>2 DEF SerialInv, OneInFlight, InFlight, SeenIsCurrent, LeavesMaps,
                    NullMapsActive, MembershipExact
<1> QED
  BY <1>3, <1>4 DEF SerialInv

LEMMA RestartSerial ==
  ASSUME TypeInv, SerialInv, NoLeakedTransaction', Restart
  PROVE  SerialInv'
<1>1. \A r \in Req : req'[r].pc = "idle" /\ req'[r].looked = {} /\ req'[r].pushed = {}
  BY DEF Restart, Idle
<1>2. device' = device /\ mapa' = mapa
  BY DEF Restart
<1>3. OneInFlight' /\ SeenIsCurrent'
  BY <1>1 DEF OneInFlight, InFlight, SeenIsCurrent
<1>4. MapsStored' /\ NullMapsActive' /\ MembershipExact'
  BY <1>1, <1>2 DEF SerialInv, MapsStored, Stored, NullMapsActive, MembershipExact
<1> QED
  BY <1>3, <1>4 DEF SerialInv

\* The commit: what was pulled is every map that listed the device and what was
\* pushed every map it names from now on.
LEMMA CommitSerial ==
  ASSUME TypeInv, SerialInv, NoLeakedTransaction', NEW r \in Req, Commit(r)
  PROVE  SerialInv'
<1>1. /\ req[r] \in Request /\ req[r].op \in {"insert", "reactivate", "update", "remove"}
      /\ req[r].dev \in Device /\ device[req[r].dev] \in DeviceDoc
      /\ req[r].pulled = MapsToPull(r) /\ req[r].pushed = MapsToPush(r)
      /\ req[r].pc = "work" /\ req[r].dev \in writes[r]
  BY DEF Commit, CanCommit, TypeInv, TypeOK, RequestOK, Request
<1>2. \A d \in Device : device'[d] = IF d = req[r].dev THEN Written(r) ELSE device[d]
  BY <1>1 DEF Commit, TypeInv, TypeOK
<1>3. \A p \in Req \ {r} : req'[p] = req[p] /\ writes'[p] = writes[p]
                          /\ (InFlight(p) => req[p].dev # req[r].dev)
  <2>1. \A p \in Req \ {r} : writes'[p] = writes[p] /\ req'[p] = req[p]
    BY DEF Commit, TxnCommit, TypeInv, TypeOK
  <2> QED
    BY <1>1, <2>1 DEF SerialInv, OneInFlight, InFlight
<1>4. req'[r].pc = "after" /\ req'[r].dev = req[r].dev /\ req'[r].looked = req[r].looked
      /\ req'[r].pushed = {}
  BY <1>1 DEF Commit, TypeInv, TypeOK, Request
<1>5. \A m \in Mapa : Stored(m) => Stored(m)'
  <2>1. ASSUME NEW m \in Mapa PROVE mapa'[m].state = mapa[m].state
    BY DEF Commit, Rewritten, TypeInv, TypeOK, MapaDoc
  <2> QED
    BY <2>1 DEF Stored
<1>6. OneInFlight'
  BY <1>1, <1>3, <1>4 DEF SerialInv, OneInFlight, InFlight
<1>7. SeenIsCurrent'
  <2> SUFFICES ASSUME NEW p \in Req \ {r}, req[p].pc = "work"
               PROVE  device'[req[p].dev] = device[req[p].dev]
    BY <1>3, <1>4 DEF SerialInv, SeenIsCurrent, LeavesMaps
  <2>1. req[p].dev \in Device /\ InFlight(p)
    BY DEF TypeInv, RequestOK, InFlight
  <2> QED
    BY <1>2, <1>3, <2>1
<1>8. Written(r).MapUUID \cap Mapa \subseteq req[r].pushed \cup device[req[r].dev].MapUUID
  <2>1. BodyOK(req[r].op, req[r].dto) /\ NullMaps \cap Mapa = {}
    BY DevicesAssumption DEF TypeInv, RequestOK, NullMaps
  <2> QED
    BY <1>1, <2>1, BodyFacts
       DEF Written, InsertedDoc, ReactivatedDoc, UpdatedDoc, RemovedDoc, MapsToPush
<1>9. MapsStored'
  <2>2. \A p \in Req : req[p].looked \cup req[p].pushed \subseteq Mapa
    BY DEF TypeInv, TypeOK, Request
  <2>3. ASSUME NEW d \in Device, NEW m \in device'[d].MapUUID \cap Mapa PROVE Stored(m)'
    BY <1>1, <1>2, <1>5, <1>8, <2>2, <2>3 DEF SerialInv, MapsStored
  <2>4. ASSUME NEW p \in Req, NEW m \in req'[p].looked \cup req'[p].pushed PROVE Stored(m)'
    BY <1>3, <1>4, <1>5, <2>2, <2>4 DEF SerialInv, MapsStored
  <2> QED
    BY <2>3, <2>4 DEF MapsStored
<1>10. NullMapsActive'
  <2>1. Written(r).MapUUID = NullMaps => Written(r).state = "active"
    <3>1. BodyOK(req[r].op, req[r].dto)
      BY DEF TypeInv, RequestOK
    <3>2. CASE req[r].op \in {"insert", "reactivate"}
      BY <3>1, <3>2, BodyFacts DEF Written, InsertedDoc, ReactivatedDoc
    <3>3. CASE req[r].op = "update"
      BY <1>1, <3>3 DEF SerialInv, SeenIsCurrent, Written, UpdatedDoc
    <3>4. CASE req[r].op = "remove"
      BY <1>1, <3>4 DEF SerialInv, SeenIsCurrent, LeavesMaps, Written, RemovedDoc
    <3> QED
      BY <1>1, <3>2, <3>3, <3>4
  <2> QED
    BY <1>2, <2>1 DEF SerialInv, NullMapsActive
<1>11. MembershipExact'
  <2> DEFINE Right(n, doc, m) ==
        n \in {0, 1} /\ (doc.MapUUID # NullMaps =>
                           (n = 1 <=> doc.state = "active" /\ m \in doc.MapUUID))
  <2> SUFFICES ASSUME NEW m \in Mapa, NEW d \in Device
               PROVE  Right(mapa'[m].Devices[d], device'[d], m)
    BY DEF MembershipExact
  <2>1. Right(mapa[m].Devices[d], device[d], m)
    BY DEF SerialInv, MembershipExact
  <2>2. CASE d # req[r].dev
    BY <1>2, <2>1, <2>2, CommitDevices
  <2>3. CASE d = req[r].dev
    <3>1. device'[d] = Written(r) /\ BodyOK(req[r].op, req[r].dto)
      BY <1>2, <2>3 DEF TypeInv, RequestOK
    <3>2. mapa'[m].Devices[d] =
            (IF m \in MapsToPull(r) THEN 0 ELSE mapa[m].Devices[d])
              + (IF m \in MapsToPush(r) THEN 1 ELSE 0)
      BY <1>1, <2>3, CommitDevices
    <3>3. m \in device[d].MapUUID => Stored(m)
      BY DEF SerialInv, MapsStored
    <3>4. CASE req[r].op \in {"insert", "reactivate"}
      <4>1. device[d].state # "active" /\ m \notin MapsToPull(r)
        BY <1>1, <2>3, <3>4 DEF SerialInv, SeenIsCurrent, MapsToPull, LeavesMaps
      <4>2. device[d].MapUUID # NullMaps
        BY <4>1 DEF SerialInv, NullMapsActive
      <4>3. /\ Written(r).state = "active" /\ Written(r).MapUUID = req[r].dto.MapUUID
            /\ MapsToPush(r) = req[r].dto.MapUUID
        BY <3>1, <3>4, BodyFacts DEF Written, InsertedDoc, ReactivatedDoc, MapsToPush
      <4> QED
        BY <2>1, <3>1, <3>2, <4>1, <4>2, <4>3
    <3>5. CASE req[r].op = "update"
      <4>1. /\ device[d].state = "active" /\ req[r].seen = device[d]
            /\ req[r].dto.setsMaps => device[d].MapUUID # NullMaps
        BY <1>1, <2>3, <3>5 DEF SerialInv, SeenIsCurrent, LeavesMaps
      <4>2. Written(r).state = "active"
            /\ Written(r).MapUUID =
                 IF req[r].dto.setsMaps \/ req[r].dto.MapUUID = NullMaps
                 THEN req[r].dto.MapUUID ELSE device[d].MapUUID
        BY <2>3, <3>5, <4>1 DEF Written, UpdatedDoc
      <4>3. m \in MapsToPull(r) <=> req[r].dto.setsMaps /\ m \in device[d].MapUUID
        BY <3>3, <3>5, <4>1 DEF MapsToPull, LeavesMaps, Stored
      <4> QED
        BY <2>1, <3>1, <3>2, <4>1, <4>2, <4>3 DEF MapsToPush
    <3>6. CASE req[r].op = "remove"
      <4>1. /\ device[d].state = "active" /\ req[r].seen = device[d]
            /\ device[d].MapUUID # NullMaps /\ MapsToPush(r) = {}
        BY <1>1, <2>3, <3>1, <3>6, BodyFacts
           DEF SerialInv, SeenIsCurrent, LeavesMaps, MapsToPush
      <4>2. Written(r).state = "inactive"
        BY <3>6 DEF Written, RemovedDoc
      <4>3. m \in MapsToPull(r) <=> m \in device[d].MapUUID
        BY <3>3, <3>6, <4>1 DEF MapsToPull, LeavesMaps, Stored
      <4> QED
        BY <2>1, <3>1, <3>2, <4>1, <4>2, <4>3
    <3> QED
      BY <1>1, <3>4, <3>5, <3>6
  <2> QED
    BY <2>2, <2>3
<1> QED
  BY <1>6, <1>7, <1>9, <1>10, <1>11 DEF SerialInv

LEMMA InitSerial == Init => SerialInv
<1> SUFFICES ASSUME Init PROVE SerialInv
  OBVIOUS
<1>1. \A r \in Req : req[r].pc = "idle" /\ req[r].looked = {} /\ req[r].pushed = {}
  BY DEF Init, Idle
<1>2. \A d \in Device : device[d].state = "absent" /\ device[d].MapUUID = {}
  BY DEF Init, NoDoc
<1>3. \A m \in Mapa, d \in Device : mapa[m].Devices[d] = 0
  BY DEF Init, NoMapa
<1>4. OneInFlight /\ SeenIsCurrent /\ NoLeakedTransaction
  BY <1>1 DEF Init, TxnInit, NoLeakedTransaction, OneInFlight, InFlight, SeenIsCurrent
<1>5. MapsStored /\ NullMapsActive
  BY <1>1, <1>2 DEF MapsStored, NullMapsActive, NullMaps
<1>6. MembershipExact
  BY <1>2, <1>3 DEF MembershipExact
<1> QED
  BY <1>4, <1>5, <1>6 DEF SerialInv

LEMMA NextSerial ==
  ASSUME ~Overlap, TypeInv, SerialInv, [Next]_vars
  PROVE  SerialInv'
<1>1. NoLeakedTransaction'
  BY NextNoLeak DEF SerialInv
<1>2. ASSUME NEW r \in Req, ClientRequest(r) PROVE SerialInv'
  BY <1>1, <1>2, BeginSerial
<1>3. ASSUME NEW r \in Req, Progress(r) PROVE SerialInv'
  BY <1>1, <1>3, FindSerial, WorkSerial, CommitSerial, LeaveSerial DEF Progress, Refuse
<1>4. ASSUME NEW r \in Req, DbError(r) \/ HandlerDone(r) PROVE SerialInv'
  BY <1>1, <1>4, LeaveSerial DEF DbError
<1>5. ASSUME NEW m \in Mapa, NEW state \in DocState, MapasWrite(m, state) PROVE SerialInv'
  BY <1>1, <1>5, MapasWriteSerial
<1>6. CASE Restart
  BY <1>1, <1>6, RestartSerial
<1>7. CASE UNCHANGED vars
  BY <1>1, <1>7 DEF vars, txnVars, SerialInv, OneInFlight, InFlight, SeenIsCurrent,
                    LeavesMaps, MapsStored, Stored, NullMapsActive, MembershipExact
<1> QED
  BY <1>2, <1>3, <1>4, <1>5, <1>6, <1>7 DEF Next, ServiceStep

THEOREM SerialInvariance ==
  ASSUME ~Overlap
  PROVE  Spec => []SerialInv
<1>1. TypeInv /\ SerialInv /\ [Next]_vars => SerialInv'
  BY NextSerial
<1> QED
  BY <1>1, InitSerial, TypeInvariance, PTL DEF Spec

\* With one request at a time on each device, the Devices array of every map
\* holds exactly the active devices that name the map, each once (a device whose
\* MapUUID was set to null may be there or not).
THEOREM MembershipIsExact ==
  ASSUME ~Overlap
  PROVE  Spec => []MembershipExact
<1>1. SerialInv => MembershipExact
  BY DEF SerialInv
<1> QED
  BY <1>1, SerialInvariance, PTL

-----------------------------------------------------------------------------
(* The counter, and the roster the readers of the maps see.                 *)

ListedIn(m) == {d \in Device : mapa[m].Devices[d] > 0}

\* A commit moves the counter of a map exactly as it moves the listing: a map
\* is pulled only when it lists the device, and then loses it whole.
LEMMA CommitCounts ==
  ASSUME TypeInv, SerialInv, SerialInv', NEW r \in Req, Commit(r), NEW m \in Mapa
  PROVE  LET d == req[r].dev IN
         /\ \A e \in Device \ {d} : mapa'[m].Devices[e] = mapa[m].Devices[e]
         /\ mapa[m].Devices[d] \in {0, 1} /\ mapa'[m].Devices[d] \in {0, 1}
         /\ mapa'[m].AmountDevices - mapa[m].AmountDevices
              = mapa'[m].Devices[d] - mapa[m].Devices[d]
<1> DEFINE d == req[r].dev
<1>1. d \in Device /\ req[r].pulled = MapsToPull(r) /\ req[r].pc = "work"
  BY DEF Commit, CanCommit, TypeInv, RequestOK
<1>2. mapa[m].Devices[d] \in {0, 1} /\ mapa'[m].Devices[d] \in {0, 1}
  BY <1>1 DEF SerialInv, MembershipExact
<1>3. m \in req[r].pulled => mapa[m].Devices[d] = 1
  <2>1. m \in MapsToPull(r) => req[r].op \in {"update", "remove"} /\ m \in req[r].seen.MapUUID
    BY DEF MapsToPull, LeavesMaps
  <2>2. m \in MapsToPull(r) => LeavesMaps(r)
    BY DEF MapsToPull
  <2> QED
    BY <1>1, <2>1, <2>2 DEF SerialInv, SeenIsCurrent, MembershipExact
<1>4. mapa[m].AmountDevices \in Int
  BY DEF TypeInv, TypeOK, MapaDoc
<1>5. mapa'[m].AmountDevices - mapa[m].AmountDevices = mapa'[m].Devices[d] - mapa[m].Devices[d]
  BY <1>1, <1>2, <1>3, <1>4, CommitDevices
<1> QED
  BY <1>1, <1>2, <1>5, CommitDevices

\* The size of a finite set that gains or loses at most the element d.
LEMMA OneElement ==
  ASSUME NEW S, NEW T, NEW d, IsFiniteSet(S), S \ {d} = T \ {d}
  PROVE  Cardinality(T) - Cardinality(S) =
           (IF d \in T THEN 1 ELSE 0) - (IF d \in S THEN 1 ELSE 0)
<1>1. Cardinality(S) \in Nat
  BY FS_CardinalityType
<1>2. CASE d \in S <=> d \in T
  <2>1. S = T
    BY <1>2
  <2> QED
    BY <1>1, <2>1
<1>3. CASE d \in T /\ d \notin S
  <2>1. T = S \cup {d}
    BY <1>3
  <2>2. Cardinality(T) = Cardinality(S) + 1
    BY <1>3, <2>1, FS_AddElement
  <2> QED
    BY <1>1, <1>3, <2>2
<1>4. CASE d \in S /\ d \notin T
  <2>1. T = S \ {d}
    BY <1>4
  <2>2. Cardinality(T) = Cardinality(S) - 1
    BY <1>4, <2>1, FS_RemoveElement
  <2> QED
    BY <1>1, <1>4, <2>2
<1> QED
  BY <1>2, <1>3, <1>4

LEMMA CommitAmount ==
  ASSUME TypeInv, SerialInv, SerialInv', AmountExact, NEW r \in Req, Commit(r)
  PROVE  AmountExact'
<1> SUFFICES ASSUME NEW m \in Mapa
             PROVE  mapa'[m].AmountDevices = Cardinality(ListedIn(m)')
  BY DEF AmountExact, ListedIn
<1> DEFINE d == req[r].dev
<1>1. d \in Device
  BY DEF Commit, CanCommit, TypeInv, RequestOK
<1>2. /\ \A e \in Device \ {d} : mapa'[m].Devices[e] = mapa[m].Devices[e]
      /\ mapa[m].Devices[d] \in {0, 1} /\ mapa'[m].Devices[d] \in {0, 1}
      /\ mapa'[m].AmountDevices - mapa[m].AmountDevices
           = mapa'[m].Devices[d] - mapa[m].Devices[d]
  BY CommitCounts
<1>3. IsFiniteSet(ListedIn(m)) /\ IsFiniteSet(ListedIn(m)')
  BY DevicesAssumption, FS_Subset DEF ListedIn
<1>4. ListedIn(m) \ {d} = ListedIn(m)' \ {d}
  BY <1>2 DEF ListedIn
<1>5. Cardinality(ListedIn(m)') - Cardinality(ListedIn(m)) =
        (IF d \in ListedIn(m)' THEN 1 ELSE 0) - (IF d \in ListedIn(m) THEN 1 ELSE 0)
  BY <1>3, <1>4, OneElement
<1>6. /\ mapa'[m].Devices[d] = IF d \in ListedIn(m)' THEN 1 ELSE 0
      /\ mapa[m].Devices[d] = IF d \in ListedIn(m) THEN 1 ELSE 0
  BY <1>1, <1>2 DEF ListedIn
<1>7. mapa[m].AmountDevices = Cardinality(ListedIn(m))
  BY DEF AmountExact, ListedIn
<1>8. Cardinality(ListedIn(m)) \in Nat /\ Cardinality(ListedIn(m)') \in Nat
      /\ mapa'[m].AmountDevices \in Int
  BY <1>3, FS_CardinalityType, CommitTypeInv DEF TypeInv, TypeOK, MapaDoc
<1> QED
  BY <1>2, <1>5, <1>6, <1>7, <1>8

LEMMA NextAmount ==
  ASSUME ~Overlap, TypeInv, SerialInv, AmountExact, [Next]_vars
  PROVE  AmountExact'
<1>1. SerialInv'
  BY NextSerial
<1>2. CASE \E r \in Req : Commit(r)
  BY <1>1, <1>2, CommitAmount
<1>3. CASE \A r \in Req : ~Commit(r)
  BY <1>3, OthersKeepDocuments DEF AmountExact
<1> QED
  BY <1>2, <1>3

\* With one request at a time on each device, the counter AmountDevices of
\* every map is the number of devices its array holds.
THEOREM AmountIsExact ==
  ASSUME ~Overlap
  PROVE  Spec => []AmountExact
<1>1. Init => AmountExact
  <2> SUFFICES ASSUME Init, NEW m \in Mapa PROVE mapa[m].AmountDevices = Cardinality(ListedIn(m))
    BY DEF AmountExact, ListedIn
  <2>1. ListedIn(m) = {} /\ mapa[m].AmountDevices = 0
    BY DEF Init, NoMapa, ListedIn
  <2> QED
    BY <2>1, FS_EmptySet
<1>2. TypeInv /\ SerialInv /\ AmountExact /\ [Next]_vars => AmountExact'
  BY NextAmount
<1> QED
  BY <1>1, <1>2, TypeInvariance, SerialInvariance, PTL DEF Spec

LEMMA InitRoster == Init => Roster!RosterInit
<1> SUFFICES ASSUME Init PROVE Roster!RosterInit
  OBVIOUS
<1>1. Placed = [d \in Device |-> {}]
  BY DEF Init, NoMapa, Placed
<1>2. Counted = [m \in Mapa |-> 0]
  BY DEF Init, NoMapa, Counted
<1> QED
  BY <1>1, <1>2 DEF Roster!RosterInit

\* A commit is one placement of its device; every other step is a stutter.
LEMMA CommitPlaces ==
  ASSUME TypeInv, SerialInv, SerialInv', AmountExact', NEW r \in Req, Commit(r)
  PROVE  Roster!RosterNext
<1> DEFINE d == req[r].dev
           maps == {m \in Mapa : mapa'[m].Devices[d] > 0}
<1>1. d \in Device
  BY DEF Commit, CanCommit, TypeInv, RequestOK
<1>2. \A m \in Mapa : \A e \in Device \ {d} : mapa'[m].Devices[e] = mapa[m].Devices[e]
  BY CommitCounts
<1>3. Placed' = [Placed EXCEPT ![d] = maps]
  BY <1>1, <1>2 DEF Placed
<1>4. ASSUME NEW m \in Mapa
      PROVE  mapa'[m].AmountDevices = Cardinality({e \in Device : m \in Placed'[e]})
  <2>1. {e \in Device : m \in Placed'[e]} = {e \in Device : mapa'[m].Devices[e] > 0}
    BY DEF Placed
  <2> QED
    BY <2>1 DEF AmountExact
<1>5. Counted' = [m \in Mapa |-> Cardinality({e \in Device : m \in Placed'[e]})]
  BY <1>4 DEF Counted
<1>6. \A S : Roster!Cardinality(S) = Cardinality(S)
  BY DEF Roster!Cardinality, Cardinality
<1>7. Roster!Place(d, maps)
  BY <1>3, <1>5, <1>6 DEF Roster!Place
<1> QED
  BY <1>1, <1>7 DEF Roster!RosterNext

LEMMA NextRoster ==
  ASSUME TypeInv, SerialInv, SerialInv', AmountExact', [Next]_vars
  PROVE  [Roster!RosterNext]_(Roster!rosterVars)
<1>1. CASE \E r \in Req : Commit(r)
  BY <1>1, CommitPlaces
<1>2. CASE \A r \in Req : ~Commit(r)
  <2>1. \A m \in Mapa : /\ mapa'[m].Devices = mapa[m].Devices
                        /\ mapa'[m].AmountDevices = mapa[m].AmountDevices
    BY <1>2, OthersKeepDocuments
  <2>2. Placed' = Placed /\ Counted' = Counted
    BY <2>1 DEF Placed, Counted
  <2> QED
    BY <2>2 DEF Roster!rosterVars
<1> QED
  BY <1>1, <1>2

\* With one request at a time on each device, DevicesService implements
\* MapRoster: whoever reads the maps sees each request as a single placement.
THEOREM RosterIsImplemented ==
  ASSUME ~Overlap
  PROVE  Spec => ImplementsMapRoster
<1>1. TypeInv /\ SerialInv /\ SerialInv' /\ AmountExact' /\ [Next]_vars
        => [Roster!RosterNext]_(Roster!rosterVars)
  BY NextRoster
<1> QED
  BY <1>1, InitRoster, TypeInvariance, SerialInvariance, AmountIsExact, PTL
     DEF Spec, ImplementsMapRoster, Roster!RosterSpec

-----------------------------------------------------------------------------
(* The stamps.  What a handler stores as lastChangeStatusTime is a Date.now()*)
(* taken after it read the document, later than the time the document has:  *)
(* the clock moved when the request began.  A reactivation, which           *)
(* SeenIsCurrent says nothing of, also compares with the committed status.   *)

SlotClock(r) ==
  LET doc == device[req[r].dev] IN
  /\ req[r].pc = "find" => doc.lastChangeStatusTime < now
  /\ req[r].pc = "work" =>
       /\ doc.lastChangeStatusTime < req[r].stamp /\ req[r].stamp <= now
       /\ req[r].op = "reactivate" => req[r].seen = doc

ClockInv ==
  /\ boot <= now
  /\ \A d \in Device : device[d].lastChangeStatusTime <= now
  /\ \A r \in Req : SlotClock(r)

LEMMA InitClock == Init => ClockInv
BY DEF Init, ClockInv, SlotClock, NoDoc, Idle

\* A step that changes slot r alone, with a clock that may have moved.
LEMMA ClockSlot ==
  ASSUME TypeInv, TypeInv', ClockInv, NEW r \in Req, NEW q,
         req' = [req EXCEPT ![r] = q], device' = device, boot' = boot, now <= now',
         q.pc = "find" => device[q.dev].lastChangeStatusTime < now',
         q.pc = "work" =>
           /\ device[q.dev].lastChangeStatusTime < q.stamp /\ q.stamp <= now'
           /\ q.op = "reactivate" => q.seen = device[q.dev]
  PROVE  ClockInv'
<1>1. \A p \in Req : req'[p] = IF p = r THEN q ELSE req[p]
  BY DEF TypeInv, TypeOK
<1>2. now \in Nat /\ now' \in Nat /\ boot \in Nat
  BY DEF TypeInv, TypeOK
<1>3. \A d \in Device : device[d].lastChangeStatusTime \in Nat
  BY DEF TypeInv, TypeOK, DeviceDoc
<1>4. SlotClock(r)'
  BY <1>1 DEF SlotClock
<1>5. ASSUME NEW p \in Req \ {r} PROVE SlotClock(p)'
  <2>1. req'[p] = req[p] /\ SlotClock(p) /\ req[p].stamp \in Nat
    BY <1>1 DEF ClockInv, TypeInv, TypeOK, Request
  <2>2. req[p].pc = "find" => device[req[p].dev].lastChangeStatusTime \in Nat
    BY <1>3 DEF TypeInv, RequestOK
  <2> QED
    BY <1>2, <2>1, <2>2 DEF SlotClock
<1> QED
  BY <1>2, <1>3, <1>4, <1>5 DEF ClockInv

LEMMA BeginClock ==
  ASSUME TypeInv, TypeInv', ClockInv, ClockStep > 0, NEW r \in Req, ClientRequest(r)
  PROVE  ClockInv'
<1>1. PICK d \in Device, op \in {"create", "update", "remove"}, dto \in CreateDeviceDto
             \cup UpdateDeviceDto \cup {NoDto} : Begin(r, d, op, dto)
  BY DEF ClientRequest
<1> DEFINE q == [Idle EXCEPT !.pc = "find", !.op = op, !.dev = d, !.dto = dto]
<1>2. q.pc = "find" /\ q.dev = d
  BY DEF Idle
<1>3. req' = [req EXCEPT ![r] = q] /\ device' = device /\ boot' = boot
      /\ now' = now + ClockStep
  BY <1>1 DEF Begin
<1>4. now \in Nat /\ device[d].lastChangeStatusTime \in Nat
      /\ device[d].lastChangeStatusTime <= now
  BY DEF TypeInv, TypeOK, DeviceDoc, ClockInv
<1>5. now <= now' /\ device[d].lastChangeStatusTime < now'
  BY <1>3, <1>4, DevicesAssumption
<1> HIDE DEF q
<1> QED
  BY <1>2, <1>3, <1>5, ClockSlot

LEMMA FindClock ==
  ASSUME TypeInv, TypeInv', ClockInv, NEW r \in Req, Find(r)
  PROVE  ClockInv'
<1> DEFINE doc == device[req[r].dev]
           op == FoundOp(req[r].op, doc)
           seen == IF op = "insert" THEN NoDoc ELSE doc
           q == [req[r] EXCEPT !.pc = "work", !.op = op, !.seen = seen, !.stamp = now]
<1>1. req[r] \in Request /\ req[r].pc = "find" /\ now \in Nat
  BY DEF Find, TypeInv, TypeOK
<1>2. /\ q.pc = "work" /\ q.dev = req[r].dev /\ q.op = op /\ q.stamp = now
      /\ op = "reactivate" => q.seen = doc
  BY <1>1 DEF Request
<1>3. req' = [req EXCEPT ![r] = q] /\ device' = device /\ boot' = boot /\ now' = now
  <2>1. req' = [req EXCEPT ![r] = q]
    BY FindSlot
  <2> QED
    BY <2>1 DEF Find
<1>4. doc.lastChangeStatusTime < now
  BY <1>1 DEF ClockInv, SlotClock
<1> HIDE DEF q, op
<1>5. now <= now' /\ q.pc # "find"
  BY <1>1, <1>2, <1>3
<1>6. /\ device[q.dev].lastChangeStatusTime < q.stamp /\ q.stamp <= now'
      /\ q.op = "reactivate" => q.seen = device[q.dev]
  BY <1>1, <1>2, <1>3, <1>4
<1> QED
  BY <1>3, <1>5, <1>6, ClockSlot

LEMMA WorkClock ==
  ASSUME TypeInv, TypeInv', ClockInv, NEW r \in Req,
         \/ \E m \in Mapa : PullFromMap(r, m) \/ LookUpMap(r, m) \/ PushToMap(r, m)
         \/ WriteDevice(r)
  PROVE  ClockInv'
<1>1. req[r] \in Request /\ req[r].pc = "work" /\ now \in Nat /\ req[r].dev \in Device
  BY DEF PullFromMap, CanPull, LookUpMap, CanLook, PushToMap, CanPush, WriteDevice,
         CanWriteDevice, TypeInv, TypeOK, RequestOK
<1>2. device' = device /\ boot' = boot /\ now' = now /\ req \in [Req -> Request]
  BY DEF PullFromMap, LookUpMap, PushToMap, WriteDevice, TypeInv, TypeOK
<1>3. /\ device[req[r].dev].lastChangeStatusTime < req[r].stamp /\ req[r].stamp <= now
      /\ req[r].op = "reactivate" => req[r].seen = device[req[r].dev]
  BY <1>1 DEF ClockInv, SlotClock
<1>4. req[r].stamp \in Nat /\ device[req[r].dev].lastChangeStatusTime \in Nat
  BY <1>1 DEF Request, TypeInv, TypeOK, DeviceDoc
<1>5. PICK q : /\ req' = [req EXCEPT ![r] = q]
               /\ q.pc = "work" /\ q.dev = req[r].dev /\ q.op = req[r].op
               /\ q.seen = req[r].seen /\ q.stamp \in {req[r].stamp, now}
  <2> DEFINE Same(q) == /\ req' = [req EXCEPT ![r] = q]
                        /\ q.pc = "work" /\ q.dev = req[r].dev /\ q.op = req[r].op
                        /\ q.seen = req[r].seen /\ q.stamp \in {req[r].stamp, now}
  <2>1. ASSUME NEW m \in Mapa, PullFromMap(r, m) PROVE \E q : Same(q)
    <3>1. Same([req[r] EXCEPT !.pulled = @ \cup {m}])
      BY <1>1, <1>2, <2>1 DEF PullFromMap, Request
    <3> QED BY <3>1
  <2>2. ASSUME NEW m \in Mapa, LookUpMap(r, m) PROVE \E q : Same(q)
    <3>1. Same([req[r] EXCEPT !.looked = {m}])
      BY <1>1, <1>2, <2>2 DEF LookUpMap, Request
    <3> QED BY <3>1
  <2>3. ASSUME NEW m \in Mapa, PushToMap(r, m) PROVE \E q : Same(q)
    <3>1. Same([req[r] EXCEPT !.looked = {}, !.pushed = @ \cup {m}])
      BY <1>1, <1>2, <2>3 DEF PushToMap, Request
    <3> QED BY <3>1
  <2>4. ASSUME WriteDevice(r) PROVE \E q : Same(q)
    <3>1. Same([req[r] EXCEPT !.stamp = IF req[r].op = "remove" THEN now ELSE @])
      BY <1>1, <1>2, <2>4 DEF WriteDevice, Request
    <3> QED BY <3>1
  <2> QED
    BY <2>1, <2>2, <2>3, <2>4
<1>6. /\ device[q.dev].lastChangeStatusTime < q.stamp /\ q.stamp <= now'
      /\ q.op = "reactivate" => q.seen = device[q.dev]
  BY <1>1, <1>2, <1>3, <1>4, <1>5
<1>7. now <= now' /\ q.pc # "find"
  BY <1>1, <1>2, <1>5
<1> QED
  BY <1>2, <1>5, <1>6, <1>7, ClockSlot

\* What a commit stores: a time no later than now, moved only with the status.
LEMMA CommitStamps ==
  ASSUME TypeInv, SerialInv, ClockInv, NEW r \in Req, Commit(r)
  PROVE  LET doc == device[req[r].dev] IN
         /\ Written(r).lastChangeStatusTime <= now
         /\ doc.state # "absent" /\ Written(r).lastChangeStatusTime # doc.lastChangeStatusTime
              => /\ Written(r).StatusIcmp # doc.StatusIcmp
                 /\ Written(r).lastChangeStatusTime > doc.lastChangeStatusTime
<1> DEFINE doc == device[req[r].dev]
<1>1. /\ req[r].op \in {"insert", "reactivate", "update", "remove"}
      /\ req[r].dev \in Device /\ doc \in DeviceDoc /\ req[r].stamp \in Nat
      /\ now \in Nat /\ boot \in Nat /\ req[r].pc = "work" /\ req[r].dev \in writes[r]
  BY DEF Commit, CanCommit, TypeInv, TypeOK, RequestOK, Request
<1>2. /\ doc.lastChangeStatusTime < req[r].stamp /\ req[r].stamp <= now
      /\ doc.lastChangeStatusTime <= now /\ boot <= now
      /\ req[r].op = "reactivate" => req[r].seen = doc
  BY <1>1 DEF ClockInv, SlotClock
<1>3. /\ req[r].op = "insert" => doc.state = "absent"
      /\ req[r].op \in {"update", "remove"} => req[r].seen = doc
  BY <1>1 DEF SerialInv, SeenIsCurrent
<1>4. CASE req[r].op = "insert"
  BY <1>2, <1>3, <1>4 DEF Written, InsertedDoc
<1>5. CASE req[r].op \in {"reactivate", "update"}
  <2>1. req[r].seen = doc
    BY <1>2, <1>3, <1>5
  <2>2. Written(r).lastChangeStatusTime = Stamp(r)
    BY <1>5 DEF Written, ReactivatedDoc, UpdatedDoc
  <2>3. CASE StatusChanged(r)
    <3>1. req[r].dto.StatusIcmp # "keep" /\ req[r].dto.StatusIcmp # doc.StatusIcmp
      BY <1>5, <2>1, <2>3 DEF StatusChanged
    <3>2. Written(r).StatusIcmp = req[r].dto.StatusIcmp
      BY <1>5, <3>1 DEF Written, ReactivatedDoc, UpdatedDoc
    <3> QED
      BY <1>1, <1>2, <2>2, <2>3, <3>1, <3>2 DEF Stamp
  <2>4. CASE ~StatusChanged(r)
    BY <1>2, <2>2, <2>4 DEF Stamp
  <2> QED
    BY <2>3, <2>4
<1>6. CASE req[r].op = "remove"
  <2>1. Written(r).lastChangeStatusTime = Stamp(r) /\ Written(r).StatusIcmp = "down"
    BY <1>6 DEF Written, RemovedDoc
  <2>2. StatusChanged(r) => doc.StatusIcmp = "up"
    BY <1>3, <1>6 DEF StatusChanged
  <2> QED
    BY <1>1, <1>2, <2>1, <2>2 DEF Stamp, DeviceDoc
<1> QED
  BY <1>1, <1>4, <1>5, <1>6

LEMMA CommitClock ==
  ASSUME TypeInv, TypeInv', SerialInv, ClockInv, NEW r \in Req, Commit(r)
  PROVE  ClockInv'
<1>1. /\ req[r] \in Request /\ req[r].pc = "work" /\ req[r].dev \in Device
      /\ boot' = boot /\ now' = now
      /\ device' = [device EXCEPT ![req[r].dev] = Written(r)]
  BY DEF Commit, CanCommit, TypeInv, TypeOK, RequestOK
<1>2. \A d \in Device : device'[d] = IF d = req[r].dev THEN Written(r) ELSE device[d]
  BY <1>1 DEF TypeInv, TypeOK
<1>3. Written(r).lastChangeStatusTime <= now
  BY CommitStamps
<1>4. SlotClock(r)'
  <2>1. req'[r].pc = "after"
    BY <1>1 DEF Commit, TypeInv, TypeOK, Request
  <2> QED
    BY <2>1 DEF SlotClock
<1>5. ASSUME NEW p \in Req \ {r} PROVE SlotClock(p)'
  <2>1. req'[p] = req[p] /\ SlotClock(p)
    BY DEF Commit, TypeInv, TypeOK, ClockInv
  <2>2. req[p].pc \in {"find", "work"} => req[p].dev \in Device /\ req[p].dev # req[r].dev
    BY <1>1 DEF SerialInv, OneInFlight, InFlight, TypeInv, RequestOK
  <2>3. req[p].pc \in {"find", "work"} => device'[req[p].dev] = device[req[p].dev]
    BY <1>2, <2>2
  <2> QED
    BY <1>1, <2>1, <2>3 DEF SlotClock
<1> QED
  BY <1>1, <1>2, <1>3, <1>4, <1>5 DEF ClockInv

\* Emitting, answering, failing: the slot no longer holds a document it read.
LEMMA LeaveClock ==
  ASSUME TypeInv, TypeInv', ClockInv, NEW r \in Req,
         Emit(r) \/ Respond(r) \/ EndWithError(r) \/ HandlerDone(r)
  PROVE  ClockInv'
<1>1. device' = device /\ boot' = boot /\ now' = now /\ now \in Nat
  BY DEF Emit, Respond, EndWithError, HandlerDone, TypeInv, TypeOK
<1>2. PICK q : req' = [req EXCEPT ![r] = q] /\ q.pc \in {"idle", "logging"}
  <2>1. CASE Emit(r)
    <3>1. PICK event :
            req' = [req EXCEPT ![r] = [Idle EXCEPT !.pc = "logging", !.dev = req[r].dev,
                                                   !.event = event]]
      BY <2>1 DEF Emit
    <3>2. [Idle EXCEPT !.pc = "logging", !.dev = req[r].dev, !.event = event].pc = "logging"
      BY DEF Idle
    <3> QED BY <3>1, <3>2
  <2>2. CASE Respond(r) \/ EndWithError(r) \/ HandlerDone(r)
    <3>1. req' = [req EXCEPT ![r] = Idle] /\ Idle.pc = "idle"
      BY <2>2 DEF Respond, EndWithError, HandlerDone, Idle
    <3> QED BY <3>1
  <2> QED BY <2>1, <2>2
<1>3. now <= now' /\ q.pc # "find" /\ q.pc # "work"
  BY <1>1, <1>2
<1> QED
  BY <1>1, <1>2, <1>3, ClockSlot

LEMMA NextClock ==
  ASSUME TypeInv, TypeInv', SerialInv, ClockInv, ClockStep > 0, [Next]_vars
  PROVE  ClockInv'
<1>1. ASSUME NEW r \in Req, ClientRequest(r) PROVE ClockInv'
  BY <1>1, BeginClock
<1>2. ASSUME NEW r \in Req, Progress(r) PROVE ClockInv'
  BY <1>2, FindClock, WorkClock, CommitClock, LeaveClock DEF Progress, Refuse
<1>3. ASSUME NEW r \in Req, DbError(r) \/ HandlerDone(r) PROVE ClockInv'
  BY <1>3, LeaveClock DEF DbError
<1>4. ASSUME NEW m \in Mapa, NEW state \in DocState, MapasWrite(m, state) PROVE ClockInv'
  BY <1>4 DEF MapasWrite, ClockInv, SlotClock
<1>5. CASE Restart
  <2>1. \A r \in Req : req'[r].pc = "idle"
    BY <1>5 DEF Restart, Idle
  <2>2. device' = device /\ now' = now /\ boot' = now /\ now \in Nat
    BY <1>5 DEF Restart, TypeInv, TypeOK
  <2> QED
    BY <2>1, <2>2 DEF ClockInv, SlotClock
<1>6. CASE UNCHANGED vars
  BY <1>6 DEF vars, ClockInv, SlotClock
<1> QED
  BY <1>1, <1>2, <1>3, <1>4, <1>5, <1>6 DEF Next, ServiceStep

THEOREM ClockInvariance ==
  ASSUME ~Overlap, ClockStep > 0
  PROVE  Spec => []ClockInv
<1>1. TypeInv /\ TypeInv' /\ SerialInv /\ ClockInv /\ [Next]_vars => ClockInv'
  BY NextClock
<1> QED
  BY <1>1, InitClock, TypeInvariance, SerialInvariance, PTL DEF Spec

\* With one request at a time on each device, and two requests never in the
\* same instant, the lastChangeStatusTime of a stored device moves only with
\* its StatusIcmp, and forward, whatever fails and however often the server
\* restarts.
THEOREM StampsFollowStatus ==
  ASSUME ~Overlap, ClockStep > 0
  PROVE  Spec => StampFollowsStatus
<1>1. TypeInv /\ SerialInv /\ ClockInv /\ [Next]_vars => [StampsTheChange]_vars
  <2> SUFFICES ASSUME TypeInv, SerialInv, ClockInv, [Next]_vars PROVE StampsTheChange
    OBVIOUS
  <2>1. ASSUME NEW r \in Req, Commit(r) PROVE StampsTheChange
    <3>1. req[r].dev \in Device /\ device \in [Device -> DeviceDoc]
      BY <2>1 DEF Commit, CanCommit, TypeInv, TypeOK, RequestOK
    <3>2. \A d \in Device : device'[d] = IF d = req[r].dev THEN Written(r) ELSE device[d]
      BY <2>1, <3>1 DEF Commit
    <3> QED
      BY <2>1, <3>1, <3>2, CommitStamps DEF StampsTheChange
  <2>2. CASE \A r \in Req : ~Commit(r)
    BY <2>2, OthersKeepDocuments DEF StampsTheChange
  <2> QED
    BY <2>1, <2>2
<1> QED
  BY <1>1, TypeInvariance, SerialInvariance, ClockInvariance, PTL DEF Spec, StampFollowsStatus
=============================================================================
