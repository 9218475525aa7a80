---------------------------- MODULE EnlacesProofs ----------------------------
(***************************************************************************)
(* Theorems about Enlaces, for every set of requests, links and            *)
(* destinations.                                                           *)
(***************************************************************************)
EXTENDS Enlaces, TLAPS

-----------------------------------------------------------------------------
(* Type correctness.  What a commit stores depends on the body, and a busy  *)
(* request has a link to store it in.                                       *)

RequestOK == \A r \in Req : Busy(r) => req[r].id \in Enlace

TypeInv == EnlacesTypeOK /\ RequestOK

LEMMA StartTypes == NoEnlace \in EnlaceDoc /\ Idle \in Request
BY EnlacesAssumption
   DEF NoEnlace, EnlaceDoc, DocState, Idle, Request, NoDto, Dto, NullEnds

LEMMA InitTypeInv == Init => TypeInv
BY StartTypes DEF Init, TxnInit, TypeInv, EnlacesTypeOK, RequestOK, Busy, Idle, DocState

\* A step that changes slot r alone, into q, and leaves the documents.
LEMMA SlotTypes ==
  ASSUME TypeInv, NEW r \in Req, NEW q \in Request,
         q.pc # "idle" => q.id \in Enlace,
         req' = [req EXCEPT ![r] = q]
  PROVE  req' \in [Req -> Request] /\ RequestOK'
BY DEF TypeInv, EnlacesTypeOK, RequestOK, Busy

LEMMA TxnTypes ==
  ASSUME TypeInv, NEW r \in Req, NEW docs \in SUBSET (Enlace \cup DestinationEnlace)
  PROVE  /\ TxnWriteAll(r, docs) =>
              writes' \in [Req -> SUBSET (Enlace \cup DestinationEnlace)]
         /\ \A doc \in docs : TxnWrite(r, doc) =>
              writes' \in [Req -> SUBSET (Enlace \cup DestinationEnlace)]
         /\ TxnWriteAll(r, docs) => missed' = missed
         /\ \A doc : TxnWrite(r, doc) => missed' = missed
         /\ TxnCommit(r) \/ TxnAbort(r) =>
              /\ writes' \in [Req -> SUBSET (Enlace \cup DestinationEnlace)]
              /\ missed' \in [Req -> SUBSET (Enlace \cup DestinationEnlace)]
BY DEF TypeInv, EnlacesTypeOK, TxnWriteAll, TxnWrite, TxnCommit, TxnAbort

LEMMA BeginTypes ==
  ASSUME TypeInv, NEW r \in Req, ClientRequest(r)
  PROVE  TypeInv'
<1>1. PICK l \in Enlace, op \in {"create", "update", "remove"}, dto \in Dto : Begin(r, l, op, dto)
  <2>1. NoDto \in Dto
    BY StartTypes, EnlacesAssumption DEF NoDto, Dto
  <2> QED
    BY <2>1 DEF ClientRequest, BeginCreate, CreateEnlaceDto, UpdateEnlaceDto
<1> DEFINE q == [Idle EXCEPT !.pc = IF op = "create" THEN "insert" ELSE "find",
                             !.op = op, !.id = l, !.dto = dto]
<1>2. q \in Request /\ q.id \in Enlace
  BY StartTypes DEF Request, Idle
<1>3. req' = [req EXCEPT ![r] = q]
  BY <1>1 DEF Begin
<1>4. now' \in Nat
  BY <1>1, EnlacesAssumption DEF Begin, TypeInv, EnlacesTypeOK
<1> HIDE DEF q
<1>5. req' \in [Req -> Request] /\ RequestOK'
  BY <1>2, <1>3, SlotTypes
<1> QED
  BY <1>1, <1>4, <1>5 DEF Begin, TypeInv, EnlacesTypeOK, txnVars

\* The steps of a handler before its commit change its slot and the
\* bookkeeping of its transaction, and no document.
WorkStep(r) == Find(r) \/ Retire(r) \/ Pull(r) \/ Insert(r) \/ Hook(r) \/ Write(r)

LEMMA WorkChanges ==
  ASSUME NEW r \in Req, WorkStep(r)
  PROVE  /\ UNCHANGED <<enlace, destination, forgotten, now, boot>>
         /\ req[r].pc \notin {"idle", "commit"}
BY DEF WorkStep, Find, Retire, Pull, Insert, Hook, Write

\* What a request has read of its link, once it has taken the step.
Seen(r) ==
  IF ~Find(r) THEN req[r].old
  ELSE IF NeedsEnds(r) THEN enlace[req[r].id].ends ELSE {}

LEMMA WorkSlot ==
  ASSUME TypeInv, NEW r \in Req, WorkStep(r)
  PROVE  \E q \in Request :
           /\ req' = [req EXCEPT ![r] = q]
           /\ q.pc # "idle" /\ q.id = req[r].id /\ q.op = req[r].op /\ q.dto = req[r].dto
           /\ q.old = Seen(r)
           /\ q.new = req[r].new \/ Insert(r)
<1>1. req[r] \in Request /\ req[r].id \in Enlace /\ now \in Nat /\ enlace[req[r].id] \in EnlaceDoc
  BY WorkChanges DEF TypeInv, EnlacesTypeOK, RequestOK, Busy
<1>2. CASE Find(r)
  <2> DEFINE q == [req[r] EXCEPT
                     !.old = IF NeedsEnds(r) THEN enlace[req[r].id].ends ELSE {},
                     !.pc = IF req[r].op = "remove" THEN "pull"
                            ELSE IF ~NeedsEnds(r) THEN "hook"
                            ELSE IF enlace[req[r].id].ends = {} THEN "insert" ELSE "retire"]
  <2>1. q \in Request
    <3>1. NeedsEnds(r) => enlace[req[r].id].ends \in SUBSET DestinationEnlace
      BY <1>1, <1>2 DEF Find, Usable, EnlaceDoc
    <3> QED
      BY <1>1, <3>1 DEF Request
  <2>2. req' = [req EXCEPT ![r] = q]
    BY <1>1, <1>2 DEF Find, Request, TypeInv, EnlacesTypeOK
  <2>3. /\ q.pc # "idle" /\ q.id = req[r].id /\ q.op = req[r].op /\ q.dto = req[r].dto
        /\ q.old = Seen(r) /\ q.new = req[r].new
    BY <1>1, <1>2 DEF Request, Seen
  <2> HIDE DEF q
  <2> QED
    BY <1>2, <2>1, <2>2, <2>3
<1>3. CASE Retire(r) \/ Pull(r) \/ Write(r)
  <2> DEFINE q(pc) == [req[r] EXCEPT !.pc = pc]
  <2>1. PICK pc \in {"insert", "retire", "pull", "write", "commit"} : req' = [req EXCEPT ![r] = q(pc)]
    BY <1>1, <1>3 DEF Retire, Pull, Write, Request, TypeInv, EnlacesTypeOK
  <2>2. q(pc) \in Request /\ ~Find(r)
    BY <1>1, <1>3 DEF Request, Find, Retire, Pull, Write
  <2>3. /\ q(pc).pc # "idle" /\ q(pc).id = req[r].id /\ q(pc).op = req[r].op
        /\ q(pc).dto = req[r].dto /\ q(pc).old = Seen(r) /\ q(pc).new = req[r].new
    BY <1>1, <2>2 DEF Request, Seen
  <2> HIDE DEF q
  <2> QED
    BY <2>1, <2>2, <2>3
<1>4. CASE Hook(r)
  <2> DEFINE q == [req[r] EXCEPT !.stamp = HookStamp(r), !.pc = "write"]
  <2>1. q \in Request
    BY <1>1 DEF Request, HookStamp
  <2>2. req' = [req EXCEPT ![r] = q] /\ ~Find(r)
    BY <1>1, <1>4 DEF Hook, Find, Request, TypeInv, EnlacesTypeOK
  <2>3. /\ q.pc # "idle" /\ q.id = req[r].id /\ q.op = req[r].op /\ q.dto = req[r].dto
        /\ q.old = Seen(r) /\ q.new = req[r].new
    BY <1>1, <2>2 DEF Request, Seen
  <2> HIDE DEF q
  <2> QED
    BY <2>1, <2>2, <2>3
<1>5. CASE Insert(r)
  <2>1. PICK new \in SUBSET Unused :
          req' = [req EXCEPT ![r].new = new,
                             ![r].pc = IF req[r].op = "create" THEN "write" ELSE "hook"]
    BY <1>5 DEF Insert
  <2> DEFINE q == [req[r] EXCEPT !.new = new,
                                 !.pc = IF req[r].op = "create" THEN "write" ELSE "hook"]
  <2>2. q \in Request
    BY <1>1 DEF Request, Unused
  <2>3. req' = [req EXCEPT ![r] = q] /\ ~Find(r)
    BY <1>1, <1>5, <2>1 DEF Insert, Find, Request, TypeInv, EnlacesTypeOK
  <2>4. /\ q.pc # "idle" /\ q.id = req[r].id /\ q.op = req[r].op /\ q.dto = req[r].dto
        /\ q.old = Seen(r)
    BY <1>1, <2>3 DEF Request, Seen
  <2> HIDE DEF q
  <2> QED
    BY <1>5, <2>2, <2>3, <2>4
<1> QED
  BY <1>2, <1>3, <1>4, <1>5 DEF WorkStep

LEMMA WorkTypes ==
  ASSUME TypeInv, NEW r \in Req, WorkStep(r)
  PROVE  TypeInv'
<1>1. req[r].id \in Enlace /\ req[r] \in Request
  BY WorkChanges DEF TypeInv, EnlacesTypeOK, RequestOK, Busy
<1>2. req' \in [Req -> Request] /\ RequestOK'
  BY <1>1, WorkSlot, SlotTypes
<1>3. /\ writes' \in [Req -> SUBSET (Enlace \cup DestinationEnlace)]
      /\ missed' = missed
  <2>1. req[r].old \in SUBSET DestinationEnlace
    BY <1>1 DEF Request
  <2>2. CASE Find(r) \/ Hook(r)
    BY <2>2 DEF Find, Hook, TypeInv, EnlacesTypeOK, txnVars
  <2>3. CASE Retire(r)
    BY <2>1, <2>3, TxnTypes DEF Retire
  <2>4. CASE Pull(r) \/ Write(r)
    BY <1>1, <2>4, TxnTypes DEF Pull, Write
  <2>5. CASE Insert(r)
    BY <2>5, TxnTypes DEF Insert, Unused
  <2> QED
    BY <2>2, <2>3, <2>4, <2>5 DEF WorkStep
<1> QED
  BY <1>2, <1>3, WorkChanges DEF TypeInv, EnlacesTypeOK

LEMMA WrittenType ==
  ASSUME TypeInv, NEW r \in Req, Busy(r)
  PROVE  Written(r) \in EnlaceDoc
<1>1. req[r] \in Request /\ enlace[req[r].id] \in EnlaceDoc /\ boot \in Nat
  BY DEF TypeInv, EnlacesTypeOK, RequestOK
<1>2. EndsWritten(r) \in (SUBSET DestinationEnlace) \cup {NullEnds}
  BY <1>1, EnlacesAssumption DEF EndsWritten, Request, EnlaceDoc, NullEnds
<1>3. StatusWritten(r) \in Statuses \cup {"unknown", "null"}
  BY <1>1, EnlacesAssumption DEF StatusWritten, Request, EnlaceDoc, Dto
<1>4. (IF req[r].op = "create" THEN boot
       ELSE IF req[r].stamp = -1 THEN enlace[req[r].id].lastChangeStatusTime
       ELSE req[r].stamp) \in Nat
  BY <1>1 DEF Request, EnlaceDoc
<1>5. (CASE req[r].op = "create" -> "active"
         [] req[r].op = "update" -> enlace[req[r].id].state
         [] OTHER                -> "inactive") \in DocState
  BY <1>1 DEF Request, EnlaceDoc, DocState
<1> QED
  BY <1>2, <1>3, <1>4, <1>5 DEF Written, EnlaceDoc

LEMMA EndTypes ==
  ASSUME TypeInv, NEW r \in Req, Commit(r) \/ EndWithError(r)
  PROVE  TypeInv'
<1>1. req' \in [Req -> Request] /\ RequestOK'
  BY StartTypes, SlotTypes DEF Commit, EndWithError, Idle
<1>2. /\ writes' \in [Req -> SUBSET (Enlace \cup DestinationEnlace)]
      /\ missed' \in [Req -> SUBSET (Enlace \cup DestinationEnlace)]
  BY TxnTypes DEF Commit, EndWithError
<1>3. CASE Commit(r)
  <2>1. Written(r) \in EnlaceDoc
    BY <1>3, WrittenType DEF Commit, Busy
  <2>2. enlace' \in [Enlace -> EnlaceDoc]
    BY <1>3, <2>1 DEF Commit, TypeInv, EnlacesTypeOK
  <2>3. destination' \in [DestinationEnlace -> DocState]
    BY <1>3 DEF Commit, TypeInv, EnlacesTypeOK, DocState
  <2>4. forgotten' \subseteq DestinationEnlace
    BY <1>3 DEF Commit, TypeInv, EnlacesTypeOK, Ends
  <2> QED
    BY <1>1, <1>2, <1>3, <2>2, <2>3, <2>4 DEF Commit, TypeInv, EnlacesTypeOK
<1>4. CASE EndWithError(r)
  BY <1>1, <1>2, <1>4 DEF EndWithError, TypeInv, EnlacesTypeOK
<1> QED
  BY <1>3, <1>4

LEMMA RestartTypes == TypeInv /\ Restart => TypeInv'
BY StartTypes
   DEF Restart, TxnAbortAll, TypeInv, EnlacesTypeOK, RequestOK, Busy, Idle

LEMMA NextTypes == TypeInv /\ [Next]_vars => TypeInv'
<1> SUFFICES ASSUME TypeInv, [Next]_vars PROVE TypeInv'
  OBVIOUS
<1>1. ASSUME NEW r \in Req, ClientRequest(r) PROVE TypeInv'
  BY <1>1, BeginTypes
<1>2. ASSUME NEW r \in Req, WorkStep(r) PROVE TypeInv'
  BY <1>2, WorkTypes
<1>3. ASSUME NEW r \in Req, Commit(r) \/ EndWithError(r) PROVE TypeInv'
  BY <1>3, EndTypes
<1>4. CASE Restart
  BY <1>4, RestartTypes
<1>5. CASE UNCHANGED vars
  BY <1>5 DEF vars, txnVars, TypeInv, EnlacesTypeOK, RequestOK, Busy
<1> QED
  BY <1>1, <1>2, <1>3, <1>4, <1>5 DEF Next, Progress, Refuse, DbError, WorkStep

THEOREM TypeInvariance == Spec => []TypeInv
BY InitTypeInv, NextTypes, PTL DEF Spec

\* Every state of EnlacesService is well typed: links, destinations, requests,
\* the time stamps and the transactions' bookkeeping.
THEOREM EnlacesTypeCorrect == Spec => []EnlacesTypeOK
BY TypeInvariance, PTL DEF TypeInv

-----------------------------------------------------------------------------
(* However requests overlap, an active link refers to active destinations   *)
(* of its own.  The property is not inductive: a commit retires the          *)
(* destinations its request read, so no other link may refer to them, and    *)
(* it refers to the ones its request inserted, so nobody else may hold them. *)

\* What a request holds: new ids of its own, and old ones of its link alone.
NewIsFresh ==
  \A r \in Req : Busy(r) => \A d \in req[r].new :
    /\ destination[d] = "absent" /\ d \in writes[r]
    /\ \A q \in Req \ {r} : Busy(q) => d \notin req[q].new

OldIsOwn ==
  \A r \in Req : Busy(r) => \A d \in req[r].old :
    /\ destination[d] # "absent"
    /\ \A k \in Enlace \ {req[r].id} : d \notin enlace[k].ends

\* Only a request that works with the list of its link has read it.
OldIsNeeded == \A r \in Req : Busy(r) /\ ~NeedsEnds(r) => req[r].old = {}

EndsStored ==
  \A l \in Enlace : \A d \in Ends(l) :
    destination[d] # "absent" /\ enlace[l].state # "absent"

\* Only a create works on a link that is not stored, and it works there alone.
CreatesAlone ==
  \A r \in Req : Busy(r) =>
    IF req[r].op = "create"
    THEN /\ enlace[req[r].id].state = "absent" /\ req[r].old = {}
         /\ \A q \in Req \ {r} : Busy(q) => req[q].id # req[r].id
    ELSE enlace[req[r].id].state # "absent"

LinkInv ==
  NewIsFresh /\ OldIsOwn /\ OldIsNeeded /\ EndsStored /\ CreatesAlone /\ EndsAreActive

LEMMA InitLink == Init => LinkInv
BY DEF Init, LinkInv, NewIsFresh, OldIsOwn, OldIsNeeded, EndsStored, CreatesAlone,
       EndsAreActive, NoEnlace, Idle, Busy, Ends

LEMMA BeginLink ==
  ASSUME TypeInv, LinkInv, NEW r \in Req, ClientRequest(r)
  PROVE  LinkInv'
<1>1. PICK l \in Enlace, op \in {"create", "update", "remove"}, dto \in Dto :
        /\ Begin(r, l, op, dto)
        /\ IF op = "create" THEN enlace[l].state = "absent" /\ \A q \in Req : req[q].id # l
                            ELSE enlace[l].state # "absent"
  <2>1. NoDto \in Dto
    BY EnlacesAssumption DEF NoDto, Dto
  <2> QED
    BY <2>1 DEF ClientRequest, BeginCreate, CreateEnlaceDto, UpdateEnlaceDto
<1> DEFINE q == [Idle EXCEPT !.pc = IF op = "create" THEN "insert" ELSE "find",
                             !.op = op, !.id = l, !.dto = dto]
<1>2. q.id = l /\ q.op = op /\ q.new = {} /\ q.old = {} /\ q.pc # "idle"
  BY DEF Idle
<1>3. /\ req' = [req EXCEPT ![r] = q] /\ ~Busy(r) /\ req \in [Req -> Request]
      /\ enlace' = enlace /\ destination' = destination /\ writes' = writes
  BY <1>1 DEF Begin, Busy, txnVars, TypeInv, EnlacesTypeOK
<1> HIDE DEF q
<1>4. \A p \in Req : req'[p] = IF p = r THEN q ELSE req[p]
  BY <1>3
<1>5. NewIsFresh' /\ OldIsOwn'
  BY <1>2, <1>3, <1>4 DEF LinkInv, NewIsFresh, OldIsOwn, Busy
<1>7. OldIsNeeded'
  BY <1>2, <1>4 DEF LinkInv, OldIsNeeded, Busy, NeedsEnds
<1>6. CreatesAlone'
  <2> SUFFICES ASSUME NEW p \in Req, Busy(p)'
               PROVE  IF req'[p].op = "create"
                      THEN /\ enlace[req'[p].id].state = "absent" /\ req'[p].old = {}
                           /\ \A o \in Req \ {p} : Busy(o)' => req'[o].id # req'[p].id
                      ELSE enlace[req'[p].id].state # "absent"
    BY <1>3 DEF CreatesAlone
  <2>1. CASE p = r
    BY <1>1, <1>2, <1>4, <2>1
  <2>2. CASE p # r
    BY <1>1, <1>2, <1>4, <2>2 DEF LinkInv, CreatesAlone, Busy
  <2> QED
    BY <2>1, <2>2
<1> QED
  BY <1>3, <1>5, <1>6, <1>7 DEF LinkInv, EndsStored, EndsAreActive, Ends

LEMMA WorkLink ==
  ASSUME TypeInv, LinkInv, NEW r \in Req, WorkStep(r)
  PROVE  LinkInv'
<1>1. PICK q \in Request :
        /\ req' = [req EXCEPT ![r] = q]
        /\ q.pc # "idle" /\ q.id = req[r].id /\ q.op = req[r].op /\ q.dto = req[r].dto
        /\ q.old = Seen(r)
        /\ q.new = req[r].new \/ Insert(r)
  BY WorkSlot
<1>2. /\ req \in [Req -> Request] /\ Busy(r) /\ req[r].id \in Enlace
      /\ enlace' = enlace /\ destination' = destination
  BY WorkChanges DEF TypeInv, EnlacesTypeOK, RequestOK, Busy
<1>3. \A p \in Req : req'[p] = IF p = r THEN q ELSE req[p]
  BY <1>1, <1>2
<1>4. \A p \in Req : Busy(p)' <=> Busy(p)
  BY <1>1, <1>2, <1>3 DEF Busy
<1>5. \A p \in Req : writes[p] \subseteq writes'[p]
  <2>1. CASE Find(r) \/ Hook(r)
    BY <2>1 DEF Find, Hook, txnVars
  <2>2. CASE \E docs : writes' = [writes EXCEPT ![r] = @ \cup docs]
    BY <2>2 DEF TypeInv, EnlacesTypeOK
  <2>3. CASE Retire(r)
    BY <2>2, <2>3 DEF Retire, TxnWriteAll
  <2>4. CASE Pull(r) \/ Write(r)
    BY <2>2, <2>4 DEF Pull, Write, TxnWrite
  <2>5. CASE Insert(r)
    BY <2>2, <2>5 DEF Insert, TxnWriteAll
  <2> QED
    BY <2>1, <2>3, <2>4, <2>5 DEF WorkStep
<1>6. NewIsFresh'
  <2>1. CASE Insert(r)
    <3>1. PICK new \in SUBSET Unused : TxnWriteAll(r, new) /\ q.new = new
      <4>1. PICK new \in SUBSET Unused :
              /\ TxnWriteAll(r, new)
              /\ req' = [req EXCEPT ![r].new = new,
                                    ![r].pc = IF req[r].op = "create" THEN "write" ELSE "hook"]
        BY <2>1 DEF Insert
      <4>2. req'[r].new = new
        BY <1>2, <4>1 DEF Request
      <4> QED
        BY <1>3, <4>1, <4>2
    <3>2. new \subseteq writes'[r]
      BY <3>1 DEF TxnWriteAll, TypeInv, EnlacesTypeOK
    <3>3. \A d \in new : destination[d] = "absent" /\ \A p \in Req : d \notin writes[p]
      BY <3>1 DEF Unused
    <3> QED
      BY <1>2, <1>3, <1>4, <1>5, <3>1, <3>2, <3>3 DEF LinkInv, NewIsFresh
  <2>2. CASE q.new = req[r].new
    BY <1>2, <1>3, <1>4, <1>5, <2>2 DEF LinkInv, NewIsFresh
  <2> QED
    BY <1>1, <2>1, <2>2
<1>7. OldIsOwn'
  <2>1. \A d \in q.old : /\ destination[d] # "absent"
                         /\ \A k \in Enlace \ {req[r].id} : d \notin enlace[k].ends
    <3>1. CASE Find(r)
      <4>1. enlace[req[r].id].state = "active" /\ q.old \subseteq Ends(req[r].id)
        BY <1>1, <3>1 DEF Find, Usable, Seen, Ends, Request
      <4> QED
        BY <1>2, <4>1 DEF LinkInv, EndsStored, EndsAreActive
    <3>2. CASE ~Find(r)
      BY <1>1, <1>2, <3>2 DEF LinkInv, OldIsOwn, Seen
    <3> QED
      BY <3>1, <3>2
  <2> QED
    BY <1>1, <1>2, <1>3, <1>4, <2>1 DEF LinkInv, OldIsOwn
<1>8. CreatesAlone'
  <2>1. Find(r) => req[r].op # "create"
    BY <1>2 DEF Find, Usable, LinkInv, CreatesAlone
  <2> QED
    BY <1>1, <1>2, <1>3, <1>4, <2>1 DEF LinkInv, CreatesAlone, Seen
<1>9. OldIsNeeded'
  <2>1. ~NeedsEnds(r) => q.old = {}
    BY <1>1, <1>2 DEF LinkInv, OldIsNeeded, Seen
  <2>2. \A p \in Req : NeedsEnds(p)' <=> NeedsEnds(p)
    BY <1>1, <1>3 DEF NeedsEnds
  <2> QED
    BY <1>3, <1>4, <2>1, <2>2 DEF LinkInv, OldIsNeeded
<1> QED
  BY <1>2, <1>6, <1>7, <1>8, <1>9 DEF LinkInv, EndsStored, EndsAreActive, Ends

\* What a commit does to the documents.
LEMMA CommitDocs ==
  ASSUME TypeInv, LinkInv, NEW r \in Req, Commit(r)
  PROVE  /\ Busy(r) /\ req[r].id \in Enlace
         /\ \A l \in Enlace \ {req[r].id} : enlace'[l] = enlace[l]
         /\ enlace'[req[r].id].ends = EndsWritten(r)
         /\ enlace'[req[r].id].state # "absent"
         /\ enlace'[req[r].id].state = "active" =>
              req[r].op = "create" \/ (req[r].op = "update" /\ enlace[req[r].id].state = "active")
         /\ \A d \in DestinationEnlace :
              destination'[d] = IF d \in req[r].new THEN "active"
                                ELSE IF d \in Retires(r) THEN "inactive" ELSE destination[d]
         /\ Retires(r) \subseteq req[r].old
         /\ \A d \in DestinationEnlace :
              d \in EndsWritten(r) => d \in Ends(req[r].id) \/ d \in req[r].new
         /\ req[r].new \in SUBSET DestinationEnlace
         /\ forgotten \subseteq forgotten'
         /\ EndsWritten(r) = NullEnds => Ends(req[r].id) \subseteq forgotten'
<1>1. Busy(r) /\ req[r].id \in Enlace /\ req[r] \in Request
  BY DEF Commit, Busy, TypeInv, EnlacesTypeOK, RequestOK
<1>2. enlace' = [enlace EXCEPT ![req[r].id] = Written(r)] /\ enlace \in [Enlace -> EnlaceDoc]
  BY DEF Commit, TypeInv, EnlacesTypeOK
<1>3. enlace'[req[r].id] = Written(r)
  BY <1>1, <1>2
<1>4. Written(r).ends = EndsWritten(r)
  BY DEF Written
<1>5. Written(r).state = CASE req[r].op = "create" -> "active"
                           [] req[r].op = "update" -> enlace[req[r].id].state
                           [] OTHER                -> "inactive"
  BY DEF Written
<1>6. req[r].op \in {"create", "update", "remove"} /\ req[r].new \in SUBSET DestinationEnlace
  BY <1>1 DEF Request
<1>7. Written(r).state # "absent"
  BY <1>1, <1>5, <1>6 DEF LinkInv, CreatesAlone
<1>8. Written(r).state = "active" =>
        req[r].op = "create" \/ (req[r].op = "update" /\ enlace[req[r].id].state = "active")
  BY <1>5, <1>6
<1>9. \A d \in DestinationEnlace :
        destination'[d] = IF d \in req[r].new THEN "active"
                          ELSE IF d \in Retires(r) THEN "inactive" ELSE destination[d]
  BY DEF Commit
<1>10. Retires(r) \subseteq req[r].old
  BY DEF Retires
<1>11. \A d \in DestinationEnlace :
         d \in EndsWritten(r) => d \in Ends(req[r].id) \/ d \in req[r].new
  BY EnlacesAssumption DEF EndsWritten, NullEnds, Ends
<1>12. /\ forgotten \subseteq forgotten'
       /\ EndsWritten(r) = NullEnds => Ends(req[r].id) \subseteq forgotten'
  BY DEF Commit
<1> QED
  BY <1>1, <1>2, <1>3, <1>4, <1>6, <1>7, <1>8, <1>9, <1>10, <1>11, <1>12

\* The slot of r becomes idle: what holds of the other requests still does.
LEMMA EndSlot ==
  ASSUME TypeInv, NEW r \in Req, Commit(r) \/ EndWithError(r)
  PROVE  /\ \A p \in Req : Busy(p)' <=> Busy(p) /\ p # r
         /\ \A p \in Req \ {r} : req'[p] = req[p] /\ writes'[p] = writes[p]
BY DEF Commit, EndWithError, TxnCommit, TxnAbort, TypeInv, EnlacesTypeOK, Busy, Idle

\* Everything a request holds is a destination.
LEMMA HeldEnds ==
  ASSUME TypeInv
  PROVE  /\ \A p \in Req : req[p].new \subseteq DestinationEnlace /\ req[p].old \subseteq DestinationEnlace
         /\ \A p \in Req : Busy(p) => req[p].id \in Enlace
BY DEF TypeInv, EnlacesTypeOK, Request, RequestOK

LEMMA CommitLink ==
  ASSUME TypeInv, LinkInv, NEW r \in Req, Commit(r)
  PROVE  LinkInv'
<1> DEFINE id == req[r].id
<1>1. \A d \in req[r].new : destination[d] = "absent" /\ \A l \in Enlace : d \notin enlace[l].ends
  BY CommitDocs DEF LinkInv, NewIsFresh, EndsStored, Ends
<1>2. \A d \in Retires(r) : /\ destination[d] # "absent"
                            /\ \A l \in Enlace \ {id} : d \notin enlace[l].ends
  BY CommitDocs DEF LinkInv, OldIsOwn
<1>9. OldIsNeeded'
  BY EndSlot DEF LinkInv, OldIsNeeded, NeedsEnds
<1>3. \A d \in DestinationEnlace : destination[d] # "absent" => destination'[d] # "absent"
  BY CommitDocs
<1>4. NewIsFresh'
  <2>1. ASSUME NEW p \in Req, Busy(p), p # r, NEW d \in req[p].new
        PROVE  destination'[d] = "absent"
    BY <1>2, <2>1, CommitDocs, HeldEnds DEF LinkInv, NewIsFresh
  <2> QED
    BY <2>1, EndSlot DEF LinkInv, NewIsFresh
<1>5. OldIsOwn'
  <2> SUFFICES ASSUME NEW p \in Req, Busy(p), p # r, NEW d \in req[p].old
               PROVE  /\ destination'[d] # "absent"
                      /\ \A k \in Enlace \ {req[p].id} : d \notin enlace'[k].ends
    BY EndSlot DEF OldIsOwn
  <2>1. destination[d] # "absent" /\ d \in DestinationEnlace
    BY HeldEnds DEF LinkInv, OldIsOwn
  <2>2. ASSUME NEW k \in Enlace \ {req[p].id} PROVE d \notin enlace'[k].ends
    <3>1. d \notin enlace[k].ends /\ d \notin req[r].new
      BY <1>1, <2>1 DEF LinkInv, OldIsOwn
    <3> QED
      BY <2>1, <3>1, CommitDocs DEF Ends
  <2> QED
    BY <1>3, <2>1, <2>2
<1>6. EndsStored'
  <2> SUFFICES ASSUME NEW l \in Enlace, NEW d \in DestinationEnlace, d \in enlace'[l].ends
               PROVE  destination'[d] # "absent" /\ enlace'[l].state # "absent"
    BY DEF EndsStored, Ends
  <2>1. CASE l = id
    <3>1. enlace'[l].state # "absent" /\ (d \in Ends(l) \/ d \in req[r].new)
      BY <2>1, CommitDocs
    <3> QED
      BY <1>3, <3>1, CommitDocs DEF LinkInv, EndsStored
  <2>2. CASE l # id
    BY <1>3, <2>2, CommitDocs DEF LinkInv, EndsStored, Ends
  <2> QED
    BY <2>1, <2>2
<1>7. CreatesAlone'
  <2>1. \A l \in Enlace : enlace[l].state # "absent" => enlace'[l].state # "absent"
    BY CommitDocs
  <2> SUFFICES ASSUME NEW p \in Req, Busy(p), p # r
               PROVE  IF req[p].op = "create"
                      THEN /\ enlace'[req[p].id].state = "absent" /\ req[p].old = {}
                           /\ \A o \in Req \ {p} : Busy(o) /\ o # r => req[o].id # req[p].id
                      ELSE enlace'[req[p].id].state # "absent"
    BY EndSlot DEF CreatesAlone
  <2>2. CASE req[p].op = "create"
    BY <2>2, CommitDocs, HeldEnds DEF LinkInv, CreatesAlone
  <2>3. CASE req[p].op # "create"
    BY <2>1, <2>3, HeldEnds DEF LinkInv, CreatesAlone
  <2> QED
    BY <2>2, <2>3
<1>8. EndsAreActive'
  <2> SUFFICES ASSUME NEW l \in Enlace, enlace'[l].state = "active",
                      NEW d \in DestinationEnlace, d \in enlace'[l].ends
               PROVE  /\ destination'[d] = "active"
                      /\ \A k \in Enlace \ {l} : d \notin enlace'[k].ends
    BY DEF EndsAreActive, Ends
  <2>1. CASE l # id
    <3>1. enlace[l].state = "active" /\ d \in Ends(l) /\ d \in enlace[l].ends
      BY <2>1, CommitDocs DEF Ends
    <3>2. destination[d] = "active" /\ \A k \in Enlace \ {l} : d \notin enlace[k].ends
      BY <3>1 DEF LinkInv, EndsAreActive
    <3>3. d \notin req[r].new /\ d \notin Retires(r)
      BY <1>1, <1>2, <2>1, <3>1
    <3> QED
      BY <3>2, <3>3, CommitDocs DEF Ends
  <2>2. CASE l = id /\ d \in req[r].new
    <3>1. \A k \in Enlace \ {l} : d \notin enlace[k].ends
      BY <1>1, <2>2
    <3> QED
      BY <2>2, <3>1, CommitDocs
  <2>3. CASE l = id /\ d \notin req[r].new
    <3>1. d \in EndsWritten(r) /\ d \in Ends(l)
      BY <2>3, CommitDocs
    <3>2. req[r].op = "update" /\ enlace[l].state = "active"
      BY <2>3, <3>1, CommitDocs DEF LinkInv, EndsStored, CreatesAlone
    <3>3. d \notin Retires(r)
      <4>1. req[r].dto.ends \notin {"list", "null"}
        BY <2>3, <3>1, <3>2, EnlacesAssumption DEF EndsWritten, NullEnds
      <4> QED
        BY <3>2, <4>1, CommitDocs DEF LinkInv, OldIsNeeded, NeedsEnds, Retires
    <3>4. destination[d] = "active" /\ \A k \in Enlace \ {l} : d \notin enlace[k].ends
      BY <3>1, <3>2 DEF LinkInv, EndsAreActive
    <3> QED
      BY <2>3, <3>3, <3>4, CommitDocs, HeldEnds
  <2> QED
    BY <2>1, <2>2, <2>3
<1> QED
  BY <1>4, <1>5, <1>6, <1>7, <1>8, <1>9 DEF LinkInv

LEMMA ErrorLink ==
  ASSUME TypeInv, LinkInv, NEW r \in Req, EndWithError(r)
  PROVE  LinkInv'
<1>1. enlace' = enlace /\ destination' = destination
  BY DEF EndWithError
<1>2. NewIsFresh' /\ OldIsOwn'
  BY <1>1, EndSlot DEF LinkInv, NewIsFresh, OldIsOwn
<1>3. CreatesAlone' /\ OldIsNeeded'
  BY <1>1, EndSlot DEF LinkInv, CreatesAlone, OldIsNeeded, NeedsEnds
<1> QED
  BY <1>1, <1>2, <1>3 DEF LinkInv, EndsStored, EndsAreActive, Ends

LEMMA RestartLink == LinkInv /\ Restart => LinkInv'
BY DEF LinkInv, Restart, NewIsFresh, OldIsOwn, OldIsNeeded, EndsStored, CreatesAlone,
       EndsAreActive, Busy, Idle, Ends

LEMMA NextLink == TypeInv /\ LinkInv /\ [Next]_vars => LinkInv'
<1> SUFFICES ASSUME TypeInv, LinkInv, [Next]_vars PROVE LinkInv'
  OBVIOUS
<1>1. ASSUME NEW r \in Req, ClientRequest(r) PROVE LinkInv'
  BY <1>1, BeginLink
<1>2. ASSUME NEW r \in Req, WorkStep(r) PROVE LinkInv'
  BY <1>2, WorkLink
<1>3. ASSUME NEW r \in Req, Commit(r) PROVE LinkInv'
  BY <1>3, CommitLink
<1>4. ASSUME NEW r \in Req, EndWithError(r) PROVE LinkInv'
  BY <1>4, ErrorLink
<1>5. CASE Restart
  BY <1>5, RestartLink
<1>6. CASE UNCHANGED vars
  BY <1>6 DEF vars, txnVars, LinkInv, NewIsFresh, OldIsOwn, OldIsNeeded, EndsStored,
              CreatesAlone, EndsAreActive, Busy, NeedsEnds, Ends
<1> QED
  BY <1>1, <1>2, <1>3, <1>4, <1>5, <1>6 DEF Next, Progress, Refuse, DbError, WorkStep

THEOREM LinkInvariance == Spec => []LinkInv
BY TypeInvariance, InitLink, NextLink, PTL DEF Spec

\* However the requests of EnlacesService overlap and fail, the ends of an
\* active link are active documents that no other link refers to.
THEOREM EndsStayActive == Spec => []EndsAreActive
BY LinkInvariance, PTL DEF LinkInv

-----------------------------------------------------------------------------
(* With one request at a time on each link no destination is left behind,   *)
(* but those of a link whose list was set to null.                           *)
(* What a request read of its link is still there when it commits, so the   *)
(* ends it retires are all the ends of the link; and it inserts ends only    *)
(* when it is going to refer to them.                                       *)

OneEach ==
  \A r \in Req : \A q \in Req \ {r} : Busy(r) /\ Busy(q) => req[r].id # req[q].id

SeenCurrent ==
  \A r \in Req : Busy(r) /\ req[r].op # "create" /\ req[r].pc # "find" =>
    /\ enlace[req[r].id].state = "active"
    /\ NeedsEnds(r) => req[r].old = enlace[req[r].id].ends

InsertsToRefer ==
  \A r \in Req : Busy(r) =>
    IF req[r].dto.ends = "list" THEN req[r].op # "remove"
    ELSE /\ req[r].op # "create" /\ req[r].new = {} /\ req[r].pc # "insert"
         /\ req[r].op = "update" => req[r].pc \notin {"retire", "pull"}

SerialInv == OneEach /\ SeenCurrent /\ InsertsToRefer /\ NoOrphanEnds

LEMMA InitSerial == Init => SerialInv
BY DEF Init, SerialInv, OneEach, SeenCurrent, InsertsToRefer, NoOrphanEnds, Busy, Idle

LEMMA BeginSerial ==
  ASSUME ~Overlap, TypeInv, SerialInv, NEW r \in Req, ClientRequest(r)
  PROVE  SerialInv'
<1>1. PICK l \in Enlace, op \in {"create", "update", "remove"}, dto \in Dto :
        /\ Begin(r, l, op, dto)
        /\ IF dto.ends = "list" THEN op # "remove" ELSE op # "create"
  <2>1. NoDto \in Dto /\ NoDto.ends # "list"
    BY EnlacesAssumption DEF NoDto, Dto
  <2> QED
    BY <2>1 DEF ClientRequest, BeginCreate, CreateEnlaceDto, UpdateEnlaceDto
<1> DEFINE q == [Idle EXCEPT !.pc = IF op = "create" THEN "insert" ELSE "find",
                             !.op = op, !.id = l, !.dto = dto]
<1>2. /\ q.id = l /\ q.op = op /\ q.new = {} /\ q.dto = dto
      /\ q.pc = IF op = "create" THEN "insert" ELSE "find"
  BY DEF Idle
<1>3. /\ req' = [req EXCEPT ![r] = q] /\ req \in [Req -> Request]
      /\ enlace' = enlace /\ destination' = destination /\ forgotten' = forgotten
      /\ \A p \in Req : req[p].id # l
  BY <1>1 DEF Begin, TypeInv, EnlacesTypeOK
<1> HIDE DEF q
<1>4. \A p \in Req : req'[p] = IF p = r THEN q ELSE req[p]
  BY <1>3
<1>5. OneEach'
  BY <1>2, <1>3, <1>4 DEF SerialInv, OneEach, Busy
<1>6. SeenCurrent'
  BY <1>2, <1>3, <1>4 DEF SerialInv, SeenCurrent, Busy, NeedsEnds
<1>7. InsertsToRefer'
  BY <1>1, <1>2, <1>4 DEF SerialInv, InsertsToRefer, Busy
<1> QED
  BY <1>3, <1>5, <1>6, <1>7 DEF SerialInv, NoOrphanEnds

\* The way a handler takes through its steps.
LEMMA WorkPath ==
  ASSUME TypeInv, NEW r \in Req, WorkStep(r)
  PROVE  \/ /\ Find(r)
            /\ req'[r].new = req[r].new
            /\ req'[r].pc = IF req[r].op = "remove" THEN "pull"
                            ELSE IF ~NeedsEnds(r) THEN "hook"
                            ELSE IF enlace[req[r].id].ends = {} THEN "insert" ELSE "retire"
         \/ /\ req[r].pc \in {"retire", "pull"} /\ req'[r].new = req[r].new
            /\ req[r].op = "remove" => req'[r].pc \in {"write", "commit"}
         \/ req[r].pc = "insert" /\ req'[r].pc \in {"write", "hook"}
         \/ /\ req[r].pc \in {"hook", "write"} /\ req'[r].new = req[r].new
            /\ req'[r].pc = "retire" => req[r].op = "remove"
            /\ req'[r].pc \in {"write", "retire", "commit"}
<1>1. req \in [Req -> Request] /\ req[r] \in Request
  BY DEF TypeInv, EnlacesTypeOK
<1>2. CASE Find(r)
  BY <1>1, <1>2 DEF Find, Request
<1>3. CASE Retire(r) \/ Pull(r)
  BY <1>1, <1>3 DEF Retire, Pull, Request
<1>4. CASE Insert(r)
  BY <1>1, <1>4 DEF Insert, Request
<1>5. CASE Hook(r) \/ Write(r)
  BY <1>1, <1>5 DEF Hook, Write, Request
<1> QED
  BY <1>2, <1>3, <1>4, <1>5 DEF WorkStep

LEMMA WorkSerial ==
  ASSUME TypeInv, SerialInv, NEW r \in Req, WorkStep(r)
  PROVE  SerialInv'
<1>1. PICK q \in Request :
        /\ req' = [req EXCEPT ![r] = q]
        /\ q.pc # "idle" /\ q.id = req[r].id /\ q.op = req[r].op /\ q.dto = req[r].dto
        /\ q.old = Seen(r)
  BY WorkSlot
<1>2. /\ req \in [Req -> Request] /\ Busy(r)
      /\ enlace' = enlace /\ destination' = destination /\ forgotten' = forgotten
  BY WorkChanges DEF TypeInv, EnlacesTypeOK, Busy
<1>3. \A p \in Req : req'[p] = IF p = r THEN q ELSE req[p]
  BY <1>1, <1>2
<1>4. \A p \in Req : Busy(p)' <=> Busy(p)
  BY <1>1, <1>2, <1>3 DEF Busy
<1>5. OneEach'
  BY <1>1, <1>3, <1>4 DEF SerialInv, OneEach
<1>6. SeenCurrent'
  <2>1. Find(r) => enlace[req[r].id].state = "active"
    BY DEF Find, Usable
  <2>3. \A p \in Req : NeedsEnds(p)' <=> NeedsEnds(p)
    BY <1>1, <1>3 DEF NeedsEnds
  <2>2. req[r].pc = "find" => Find(r)
    BY DEF WorkStep, Retire, Pull, Insert, Hook, Write
  <2> QED
    BY <1>1, <1>2, <1>3, <1>4, <2>1, <2>2, <2>3 DEF SerialInv, SeenCurrent, Seen
<1>7. InsertsToRefer'
  <2>1. IF q.dto.ends = "list" THEN q.op # "remove"
        ELSE /\ q.op # "create" /\ q.new = {} /\ q.pc # "insert"
             /\ q.op = "update" => q.pc \notin {"retire", "pull"}
    <3>1. CASE req[r].dto.ends = "list"
      BY <1>1, <1>2, <3>1 DEF SerialInv, InsertsToRefer
    <3>2. CASE req[r].dto.ends # "list"
      <4>1. /\ req[r].op # "create" /\ req[r].new = {} /\ req[r].pc # "insert"
            /\ req[r].op = "update" => req[r].pc \notin {"retire", "pull"}
        BY <1>2, <3>2 DEF SerialInv, InsertsToRefer
      <4>2. req[r].op \in {"update", "remove"} /\ req'[r] = q
        BY <1>2, <1>3, <4>1 DEF Request
      <4> QED
        BY <1>1, <3>2, <4>1, <4>2, WorkPath DEF NeedsEnds
    <3> QED
      BY <3>1, <3>2
  <2> QED
    BY <1>3, <1>4, <2>1 DEF SerialInv, InsertsToRefer
<1> QED
  BY <1>2, <1>5, <1>6, <1>7 DEF SerialInv, NoOrphanEnds

LEMMA CommitSerial ==
  ASSUME TypeInv, LinkInv, SerialInv, NEW r \in Req, Commit(r)
  PROVE  SerialInv'
<1> DEFINE id == req[r].id
<1>1. OneEach' /\ InsertsToRefer'
  BY EndSlot DEF SerialInv, OneEach, InsertsToRefer
<1>2. SeenCurrent'
  BY CommitDocs, EndSlot, HeldEnds DEF SerialInv, OneEach, SeenCurrent, NeedsEnds
<1>3. NoOrphanEnds'
  <2> SUFFICES ASSUME NEW d \in DestinationEnlace, d \notin forgotten', destination'[d] = "active"
               PROVE  \E l \in Enlace : enlace'[l].state = "active" /\ d \in enlace'[l].ends
    BY DEF NoOrphanEnds
  <2>1. /\ req[r].op \in {"create", "update", "remove"} /\ req[r].pc = "commit"
        /\ enlace'[id].state = CASE req[r].op = "create" -> "active"
                                 [] req[r].op = "update" -> enlace[id].state
                                 [] OTHER                -> "inactive"
    BY CommitDocs DEF Commit, TypeInv, EnlacesTypeOK, Request, Written
  <2>2. req[r].op # "create" =>
          enlace[id].state = "active" /\ (NeedsEnds(r) => req[r].old = enlace[id].ends)
    BY <2>1, CommitDocs DEF SerialInv, SeenCurrent
  <2>3. CASE d \in req[r].new
    <3>1. req[r].dto.ends = "list" /\ req[r].op # "remove"
      BY <2>3, CommitDocs DEF SerialInv, InsertsToRefer
    <3>2. EndsWritten(r) = req[r].new
      BY <3>1 DEF EndsWritten
    <3> QED
      BY <2>1, <2>2, <2>3, <3>1, <3>2, CommitDocs
  <2>4. CASE d \notin req[r].new
    <3>1. d \notin Retires(r) /\ destination[d] = "active" /\ d \notin forgotten
      BY <2>4, CommitDocs
    <3>2. PICK l \in Enlace : enlace[l].state = "active" /\ d \in enlace[l].ends
      BY <3>1 DEF SerialInv, NoOrphanEnds
    <3>3. CASE l # id
      BY <3>2, <3>3, CommitDocs
    <3>4. CASE l = id
      <4>1. req[r].op # "create"
        BY <3>2, <3>4, CommitDocs DEF LinkInv, CreatesAlone
      <4>2. req[r].op = "update" /\ req[r].dto.ends # "list"
        BY <2>1, <2>2, <3>1, <3>2, <3>4, <4>1 DEF Retires, NeedsEnds
      <4>4. EndsWritten(r) # NullEnds
        BY <3>2, <3>4, CommitDocs DEF Ends
      <4>3. EndsWritten(r) = enlace[id].ends
        BY <4>2, <4>4 DEF EndsWritten
      <4> QED
        BY <2>1, <3>2, <3>4, <4>2, <4>3, CommitDocs
    <3> QED
      BY <3>3, <3>4
  <2> QED
    BY <2>3, <2>4
<1> QED
  BY <1>1, <1>2, <1>3 DEF SerialInv

LEMMA NextSerial ==
  ASSUME ~Overlap
  PROVE  TypeInv /\ LinkInv /\ SerialInv /\ [Next]_vars => SerialInv'
<1> SUFFICES ASSUME TypeInv, LinkInv, SerialInv, [Next]_vars PROVE SerialInv'
  OBVIOUS
<1>1. ASSUME NEW r \in Req, ClientRequest(r) PROVE SerialInv'
  BY <1>1, BeginSerial
<1>2. ASSUME NEW r \in Req, WorkStep(r) PROVE SerialInv'
  BY <1>2, WorkSerial
<1>3. ASSUME NEW r \in Req, Commit(r) PROVE SerialInv'
  BY <1>3, CommitSerial
<1>4. ASSUME NEW r \in Req, EndWithError(r) PROVE SerialInv'
  <2>1. enlace' = enlace /\ destination' = destination /\ forgotten' = forgotten
    BY <1>4 DEF EndWithError
  <2> QED
    BY <1>4, <2>1, EndSlot
       DEF SerialInv, OneEach, SeenCurrent, InsertsToRefer, NoOrphanEnds, NeedsEnds
<1>5. CASE Restart
  BY <1>5 DEF Restart, SerialInv, OneEach, SeenCurrent, InsertsToRefer, NoOrphanEnds, Busy, Idle
<1>6. CASE UNCHANGED vars
  BY <1>6 DEF vars, SerialInv, OneEach, SeenCurrent, InsertsToRefer, NoOrphanEnds, Busy,
              NeedsEnds
<1> QED
  BY <1>1, <1>2, <1>3, <1>4, <1>5, <1>6 DEF Next, Progress, Refuse, DbError, WorkStep

THEOREM SerialInvariance ==
  ASSUME ~Overlap
  PROVE  Spec => []SerialInv
<1>1. TypeInv /\ LinkInv /\ SerialInv /\ [Next]_vars => SerialInv'
  BY NextSerial
<1> QED
  BY <1>1, TypeInvariance, LinkInvariance, InitSerial, PTL DEF Spec

\* With one request at a time on each link, every active destination is an end
\* of an active link, whatever fails and whenever the server restarts, or was
\* one of a link whose list a client set to null.
THEOREM NoOrphans ==
  ASSUME ~Overlap
  PROVE  Spec => []NoOrphanEnds
<1>1. Spec => []SerialInv
  BY SerialInvariance
<1> QED
  BY <1>1, PTL DEF SerialInv

-----------------------------------------------------------------------------
(* The stamps.  The clock has moved since the link was last written, so the  *)
(* Date.now() of the hook is never the time that is stored already; and what *)
(* the hook decided from the lastStatus it read still holds at the commit,   *)
(* because no other request writes the link in between.                      *)

SlotStamp(r) ==
  LET doc == enlace[req[r].id] IN
  /\ req[r].op = "remove" => req[r].dto.lastStatus = "keep" /\ req[r].stamp = -1
  /\ req[r].op = "update" =>
       IF req[r].pc \in {"write", "commit"}
       THEN IF req[r].dto.lastStatus \in {"keep", "null", doc.lastStatus}
            THEN req[r].stamp = -1
            ELSE req[r].stamp > doc.lastChangeStatusTime /\ req[r].stamp <= now
       ELSE doc.lastChangeStatusTime < now

StampInv ==
  /\ boot <= now
  /\ \A l \in Enlace : enlace[l].lastChangeStatusTime <= now
  /\ \A r \in Req : Busy(r) => SlotStamp(r)

LEMMA InitStamp == Init => StampInv
BY DEF Init, StampInv, NoEnlace, Busy, Idle

\* The slot of another request is about another link, or nothing moved.
LEMMA OtherSlotStamp ==
  ASSUME TypeInv, TypeInv', StampInv, NEW r \in Req, Busy(r), req'[r] = req[r],
         enlace'[req[r].id] = enlace[req[r].id], now <= now'
  PROVE  SlotStamp(r)'
<1>1. /\ now \in Nat /\ now' \in Nat /\ enlace[req[r].id].lastChangeStatusTime \in Nat
      /\ req[r].stamp \in Int
  BY DEF TypeInv, EnlacesTypeOK, RequestOK, EnlaceDoc, Request
<1>2. SlotStamp(r)
  BY DEF StampInv
<1> QED
  BY <1>1, <1>2 DEF SlotStamp

LEMMA BeginStamp ==
  ASSUME ClockStep > 0, TypeInv, TypeInv', StampInv, NEW r \in Req, ClientRequest(r)
  PROVE  StampInv'
<1>1. PICK l \in Enlace, op \in {"create", "update", "remove"}, dto \in Dto :
        Begin(r, l, op, dto) /\ (op = "remove" => dto.lastStatus = "keep")
  <2>1. NoDto \in Dto /\ NoDto.lastStatus = "keep"
    BY EnlacesAssumption DEF NoDto, Dto
  <2> QED
    BY <2>1 DEF ClientRequest, BeginCreate, CreateEnlaceDto, UpdateEnlaceDto
<1>2. /\ req'[r].id = l /\ req'[r].op = op /\ req'[r].dto = dto /\ req'[r].stamp = -1
      /\ op = "update" => req'[r].pc = "find"
      /\ \A p \in Req \ {r} : req'[p] = req[p]
  BY <1>1 DEF Begin, Idle, TypeInv, EnlacesTypeOK
<1>3. enlace' = enlace /\ boot' = boot /\ now' = now + ClockStep
  BY <1>1 DEF Begin
<1>4. /\ now \in Nat /\ now' \in Nat /\ boot \in Nat /\ now < now'
      /\ \A k \in Enlace : enlace[k].lastChangeStatusTime \in Nat
  BY <1>3, EnlacesAssumption DEF TypeInv, EnlacesTypeOK, EnlaceDoc
<1>5. SlotStamp(r)'
  BY <1>1, <1>2, <1>3, <1>4 DEF SlotStamp, StampInv
<1>6. ASSUME NEW p \in Req \ {r}, Busy(p)' PROVE SlotStamp(p)'
  BY <1>2, <1>3, <1>4, <1>6, OtherSlotStamp DEF Busy
<1> QED
  BY <1>3, <1>4, <1>5, <1>6 DEF StampInv

LEMMA WorkStamp ==
  ASSUME TypeInv, TypeInv', StampInv, NEW r \in Req, WorkStep(r)
  PROVE  StampInv'
<1>1. /\ req[r] \in Request /\ req \in [Req -> Request] /\ Busy(r) /\ req[r].id \in Enlace
      /\ enlace' = enlace /\ now' = now /\ boot' = boot /\ now \in Nat /\ req[r].pc # "commit"
      /\ enlace[req[r].id].lastChangeStatusTime \in Nat
  BY WorkChanges DEF TypeInv, EnlacesTypeOK, RequestOK, Busy, EnlaceDoc
<1>2. SlotStamp(r)
  BY <1>1 DEF StampInv
<1>3. /\ req'[r].id = req[r].id /\ req'[r].op = req[r].op /\ req'[r].dto = req[r].dto
      /\ \A p \in Req \ {r} : req'[p] = req[p]
  BY <1>1, WorkSlot
<1>4. SlotStamp(r)'
  <2>1. CASE Hook(r)
    <3>1. req'[r].stamp = HookStamp(r) /\ req'[r].pc = "write" /\ req[r].pc = "hook"
      BY <1>1, <2>1 DEF Hook, Request
    <3>2. req[r].op = "update" => enlace[req[r].id].lastChangeStatusTime < now
      BY <1>2, <3>1 DEF SlotStamp
    <3> QED
      BY <1>1, <1>2, <1>3, <3>1, <3>2 DEF SlotStamp, HookStamp
  <2>2. CASE Write(r)
    <3>1. /\ req'[r].stamp = req[r].stamp /\ req[r].pc = "write"
          /\ req[r].op = "update" => req'[r].pc = "commit"
      BY <1>1, <2>2 DEF Write, Request
    <3> QED
      BY <1>1, <1>2, <1>3, <3>1 DEF SlotStamp
  <2>3. CASE Find(r) \/ Retire(r) \/ Pull(r) \/ Insert(r)
    <3>1. /\ req'[r].stamp = req[r].stamp /\ req[r].pc # "write"
          /\ req[r].op = "update" => req'[r].pc \notin {"write", "commit"}
      <4>1. CASE Find(r)
        BY <1>1, <4>1 DEF Find, Request
      <4>2. CASE Retire(r) \/ Pull(r)
        BY <1>1, <4>2 DEF Retire, Pull, Request
      <4>3. CASE Insert(r)
        BY <1>1, <4>3 DEF Insert, Request
      <4> QED
        BY <2>3, <4>1, <4>2, <4>3
    <3> QED
      BY <1>1, <1>2, <1>3, <3>1 DEF SlotStamp
  <2> QED
    BY <2>1, <2>2, <2>3 DEF WorkStep
<1>5. ASSUME NEW p \in Req \ {r}, Busy(p)' PROVE SlotStamp(p)'
  BY <1>1, <1>3, <1>5, OtherSlotStamp DEF Busy
<1> QED
  BY <1>1, <1>4, <1>5 DEF StampInv

\* What a commit does to the time and the status of a stored link.
LEMMA CommitStamps ==
  ASSUME TypeInv, LinkInv, StampInv, NEW r \in Req, Commit(r)
  PROVE  LET doc == enlace[req[r].id] IN
         /\ Written(r).lastChangeStatusTime <= now
         /\ doc.state # "absent" =>
              (Written(r).lastChangeStatusTime # doc.lastChangeStatusTime
                 <=> Written(r).lastStatus \notin {"null", doc.lastStatus})
<1> DEFINE doc == enlace[req[r].id]
<1>1. /\ Busy(r) /\ req[r].op \in {"create", "update", "remove"} /\ req[r].pc = "commit"
      /\ doc.lastChangeStatusTime \in Nat /\ doc.lastChangeStatusTime <= now
      /\ now \in Nat /\ boot \in Nat /\ boot <= now /\ req[r].stamp \in Int
  BY DEF Commit, Busy, TypeInv, EnlacesTypeOK, RequestOK, Request, EnlaceDoc, StampInv
<1>2. SlotStamp(r)
  BY <1>1 DEF StampInv
<1>3. CASE req[r].op = "create"
  BY <1>1, <1>3 DEF Written, LinkInv, CreatesAlone
<1>4. CASE req[r].op # "create" /\ req[r].stamp = -1
  <2>1. req[r].dto.lastStatus \in {"keep", "null", doc.lastStatus}
    BY <1>1, <1>2, <1>4 DEF SlotStamp
  <2>2. /\ Written(r).lastChangeStatusTime = doc.lastChangeStatusTime
        /\ Written(r).lastStatus \in {"null", doc.lastStatus}
    BY <1>4, <2>1 DEF Written, StatusWritten
  <2> QED
    BY <1>1, <2>2
<1>5. CASE req[r].op # "create" /\ req[r].stamp # -1
  <2>1. /\ req[r].dto.lastStatus \notin {"keep", "null", doc.lastStatus}
        /\ req[r].stamp > doc.lastChangeStatusTime /\ req[r].stamp <= now
    BY <1>1, <1>2, <1>5 DEF SlotStamp
  <2>2. /\ Written(r).lastChangeStatusTime = req[r].stamp
        /\ Written(r).lastStatus = req[r].dto.lastStatus
    BY <1>5, <2>1 DEF Written, StatusWritten
  <2> QED
    BY <1>1, <2>1, <2>2
<1> QED
  BY <1>3, <1>4, <1>5

LEMMA CommitStamp ==
  ASSUME TypeInv, TypeInv', LinkInv, SerialInv, StampInv, NEW r \in Req, Commit(r)
  PROVE  StampInv'
<1>1. /\ Busy(r) /\ req[r].id \in Enlace /\ now' = now /\ boot' = boot /\ now \in Nat
      /\ \A l \in Enlace : enlace'[l] = IF l = req[r].id THEN Written(r) ELSE enlace[l]
  BY CommitDocs DEF Commit, TypeInv, EnlacesTypeOK
<1>2. Written(r).lastChangeStatusTime <= now
  BY CommitStamps
<1>3. ASSUME NEW p \in Req, Busy(p)' PROVE SlotStamp(p)'
  <2>1. p # r /\ Busy(p) /\ req'[p] = req[p]
    BY <1>3, EndSlot
  <2>2. req[p].id \in Enlace /\ req[p].id # req[r].id
    BY <1>1, <2>1 DEF SerialInv, OneEach, TypeInv, RequestOK
  <2>3. enlace'[req[p].id] = enlace[req[p].id] /\ now <= now'
    BY <1>1, <2>2
  <2> QED
    BY <2>1, <2>3, OtherSlotStamp
<1> QED
  BY <1>1, <1>2, <1>3 DEF StampInv

LEMMA NextStamp ==
  ASSUME ClockStep > 0, TypeInv, TypeInv', LinkInv, SerialInv, StampInv, [Next]_vars
  PROVE  StampInv'
<1>1. ASSUME NEW r \in Req, ClientRequest(r) PROVE StampInv'
  BY <1>1, BeginStamp
<1>2. ASSUME NEW r \in Req, WorkStep(r) PROVE StampInv'
  BY <1>2, WorkStamp
<1>3. ASSUME NEW r \in Req, Commit(r) PROVE StampInv'
  BY <1>3, CommitStamp
<1>4. ASSUME NEW r \in Req, EndWithError(r) PROVE StampInv'
  <2>1. enlace' = enlace /\ now' = now /\ boot' = boot /\ now \in Nat
    BY <1>4 DEF EndWithError, TypeInv, EnlacesTypeOK
  <2>2. ASSUME NEW p \in Req, Busy(p)' PROVE SlotStamp(p)'
    BY <1>4, <2>1, <2>2, EndSlot, OtherSlotStamp
  <2> QED
    BY <2>1, <2>2 DEF StampInv
<1>5. CASE Restart
  BY <1>5 DEF Restart, StampInv, Busy, Idle, TypeInv, EnlacesTypeOK
<1>6. CASE UNCHANGED vars
  BY <1>6 DEF vars, StampInv, SlotStamp, Busy
<1> QED
  BY <1>1, <1>2, <1>3, <1>4, <1>5, <1>6 DEF Next, Progress, Refuse, DbError, WorkStep

\* With one request at a time on each link, and two requests never in the same
\* instant, the lastChangeStatusTime of a stored link moves exactly when its
\* lastStatus takes another value that is not null.
THEOREM LinkStampsFollowStatus ==
  ASSUME ~Overlap, ClockStep > 0
  PROVE  Spec => LinkStampFollowsStatus
<1>1. TypeInv /\ TypeInv' /\ LinkInv /\ SerialInv /\ StampInv /\ [Next]_vars => StampInv'
  BY NextStamp
<1>2. TypeInv /\ LinkInv /\ StampInv /\ [Next]_vars => [StampsTheLink]_vars
  <2> SUFFICES ASSUME TypeInv, LinkInv, StampInv, [Next]_vars PROVE [StampsTheLink]_vars
    OBVIOUS
  <2>1. ASSUME NEW r \in Req, Commit(r) PROVE StampsTheLink
    <3>1. \A l \in Enlace : enlace'[l] = IF l = req[r].id THEN Written(r) ELSE enlace[l]
      BY <2>1, CommitDocs DEF Commit, TypeInv, EnlacesTypeOK
    <3> QED
      BY <2>1, <3>1, CommitStamps DEF StampsTheLink
  <2>2. ASSUME NEW r \in Req, ClientRequest(r) \/ WorkStep(r) \/ EndWithError(r)
        PROVE  enlace' = enlace
    BY <2>2, WorkChanges DEF ClientRequest, BeginCreate, Begin, EndWithError
  <2>3. CASE Restart \/ UNCHANGED vars
    BY <2>3 DEF Restart, vars, StampsTheLink
  <2> QED
    BY <2>1, <2>2, <2>3 DEF Next, Progress, Refuse, DbError, WorkStep, StampsTheLink
<1> QED
  BY <1>1, <1>2, InitStamp, TypeInvariance, LinkInvariance, SerialInvariance, PTL
     DEF Spec, LinkStampFollowsStatus
=============================================================================
