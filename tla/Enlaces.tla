------------------------------- MODULE Enlaces -------------------------------
(***************************************************************************)
(* EnlacesService (src/enlaces/enlaces.service.ts): create, update and     *)
(* remove of a link between devices.  A link document refers to one        *)
(* destination document for each device at its other end; an update that   *)
(* brings destinations retires the old documents and inserts new ones.     *)
(* Each handler is a MongoDB transaction that decides on the link it read  *)
(* outside of it.                                                          *)
(*                                                                         *)
(* The pre('updateOne') hook of the link schema (enlace.entity.ts) runs    *)
(* between the call and the write: it reads the stored link, again         *)
(* outside the transaction, and stamps a change of lastStatus.             *)
(***************************************************************************)
EXTENDS MongoTxn, Integers, FiniteSets

CONSTANTS
  Enlace,              \* the ids of the links
  DestinationEnlace,   \* the ids of the destinations; bound: how many are inserted
  Statuses,            \* the lastStatus values the clients send
  Nulls,               \* the fields the clients may set to null
  MaxEnds,             \* bound: the destinations of one request
  Overlap,             \* TRUE: two requests on one link may be in flight at once
  Faults,              \* TRUE: database calls may fail and the server may restart
  ClockStep,           \* how far the clock moves between two requests
  MaxClock             \* bound: no request begins once the clock is there

ASSUME EnlacesAssumption ==
  /\ "keep" \notin Statuses /\ "null" \notin Statuses
  /\ Nulls \subseteq {"DevicesInterfacesDestination", "lastStatus"}
  /\ Overlap \in BOOLEAN /\ Faults \in BOOLEAN
  /\ MaxEnds \in Nat /\ ClockStep \in Nat /\ MaxClock \in Nat
  /\ Enlace \cap DestinationEnlace = {} /\ "null" \notin DestinationEnlace

VARIABLES
  enlace,              \* the committed link documents
  destination,         \* the committed destination documents: their isActive
  forgotten,           \* history: the destinations of a link when its list was set to null
  req,                 \* what each request slot is doing
  now,                 \* the clock, Date.now()
  boot                 \* when enlace.entity.ts was loaded: the default time stamp

vars == <<enlace, destination, forgotten, req, now, boot, txnVars>>

DocState == {"absent", "active", "inactive"}

\* A DevicesInterfacesDestination that is null instead of a list.
NullEnds == {"null"}

EnlaceDoc == [state : DocState, ends : (SUBSET DestinationEnlace) \cup {NullEnds},
              lastStatus : Statuses \cup {"unknown", "null"},
              lastChangeStatusTime : Nat]

NoEnlace == [state |-> "absent", ends |-> {}, lastStatus |-> "unknown",
             lastChangeStatusTime |-> 0]

\* A body: its destinations and how many they are, when it brings any, and its
\* lastStatus.  Every field of an update may be left out or null, and null is
\* stored as it is.
Dto == [ends : {"keep", "list", "null"}, amount : 0 .. MaxEnds,
        lastStatus : Statuses \cup {"keep", "null"}]
NoDto == [ends |-> "keep", amount |-> 0, lastStatus |-> "keep"]

NullsOnlyIn(dto) ==
  /\ dto.ends = "null" => "DevicesInterfacesDestination" \in Nulls
  /\ dto.lastStatus = "null" => "lastStatus" \in Nulls

CreateEnlaceDto == {dto \in Dto : dto.ends = "list" /\ NullsOnlyIn(dto)}
UpdateEnlaceDto == {dto \in Dto : (dto.ends = "list" \/ dto.amount = 0) /\ NullsOnlyIn(dto)}

Request ==
  [pc : {"idle", "find", "retire", "pull", "insert", "hook", "write", "commit"},
   op : {"create", "update", "remove"},
   id : Enlace \cup {"none"},
   dto : Dto,
   old : SUBSET DestinationEnlace,       \* the destinations findById returned, if it needs them
   new : SUBSET DestinationEnlace,       \* the destinations insertMany stored
   stamp : Nat \cup {-1}]                \* the Date.now() of the hook, -1: it set none

Idle == [pc |-> "idle", op |-> "remove", id |-> "none", dto |-> NoDto,
         old |-> {}, new |-> {}, stamp |-> -1]

EnlacesTypeOK ==
  /\ enlace \in [Enlace -> EnlaceDoc]
  /\ destination \in [DestinationEnlace -> DocState]
  /\ forgotten \subseteq DestinationEnlace
  /\ req \in [Req -> Request]
  /\ now \in Nat /\ boot \in Nat
  /\ writes \in [Req -> SUBSET (Enlace \cup DestinationEnlace)]
  /\ missed \in [Req -> SUBSET (Enlace \cup DestinationEnlace)]

Init ==
  /\ enlace = [l \in Enlace |-> NoEnlace]
  /\ destination = [d \in DestinationEnlace |-> "absent"]
  /\ forgotten = {}
  /\ req = [r \in Req |-> Idle]
  /\ now = 0 /\ boot = 0
  /\ TxnInit

-----------------------------------------------------------------------------
(* The steps of a handler.                                                 *)

Busy(r) == req[r].pc # "idle"

\* The ids nobody has stored or is storing: an ObjectId is new.
Unused == {d \in DestinationEnlace : destination[d] = "absent" /\ \A r \in Req : d \notin writes[r]}

\* The bounds of the model: a request begins when there is time left, and when
\* there are ids left for the destinations it brings and those in flight bring.
WithinBounds(dto) ==
  /\ now + ClockStep <= MaxClock
  /\ dto.amount > 0 =>
       Cardinality(Unused) >= MaxEnds * (1 + Cardinality({r \in Req : Busy(r) /\ req[r].new = {}}))

Begin(r, l, op, dto) ==
  /\ req[r].pc = "idle"
  /\ Overlap \/ \A q \in Req : req[q].id # l
  /\ WithinBounds(dto)
  /\ req' = [req EXCEPT ![r] = [Idle EXCEPT !.pc = IF op = "create" THEN "insert" ELSE "find",
                                            !.op = op, !.id = l, !.dto = dto]]
  /\ now' = now + ClockStep
  /\ UNCHANGED <<enlace, destination, forgotten, boot, txnVars>>

\* A new link has a new id.
BeginCreate(r, l, dto) ==
  /\ enlace[l].state = "absent" /\ \A q \in Req : req[q].id # l
  /\ Begin(r, l, "create", dto)

\* remove, and an update that brings destinations, work with the list of the link.
NeedsEnds(r) == req[r].op = "remove" \/ req[r].dto.ends = "list"

\* findById finds an active link.  A list that is null has no length for update
\* to read, and remove, which hands it to $pullAll, is refused by the database.
Usable(r) ==
  LET doc == enlace[req[r].id] IN
  doc.state = "active" /\ (NeedsEnds(r) => doc.ends # NullEnds)

\* What happens to the destinations is decided here, outside the transaction.
\* A body whose list is null takes the path of a body without one.
Find(r) ==
  LET doc == enlace[req[r].id] IN
  /\ req[r].pc = "find" /\ Usable(r)
  /\ req' = [req EXCEPT
       ![r].old = IF NeedsEnds(r) THEN doc.ends ELSE {},
       ![r].pc = IF req[r].op = "remove" THEN "pull"
                 ELSE IF ~NeedsEnds(r) THEN "hook"
                 ELSE IF doc.ends = {} THEN "insert" ELSE "retire"]
  /\ UNCHANGED <<enlace, destination, forgotten, now, boot, txnVars>>

\* updateMany isActive false: before anything else in update, last in remove.
Retire(r) ==
  /\ req[r].pc = "retire"
  /\ TxnWriteAll(r, req[r].old)
  /\ req' = [req EXCEPT ![r].pc = IF req[r].op = "remove" THEN "commit" ELSE "pull"]
  /\ UNCHANGED <<enlace, destination, forgotten, now, boot>>

\* $pull, or $pullAll, of the destinations read from the link, out of an array.
Pull(r) ==
  /\ req[r].pc = "pull" /\ enlace[req[r].id].ends # NullEnds
  /\ TxnWrite(r, req[r].id)
  /\ req' = [req EXCEPT ![r].pc = IF req[r].op = "remove" THEN "write" ELSE "insert"]
  /\ UNCHANGED <<enlace, destination, forgotten, now, boot>>

\* insertMany of the destinations of the body.
Insert(r) ==
  /\ req[r].pc = "insert"
  /\ \E new \in SUBSET Unused :
       /\ Cardinality(new) = req[r].dto.amount
       /\ TxnWriteAll(r, new)
       /\ req' = [req EXCEPT ![r].new = new,
                             ![r].pc = IF req[r].op = "create" THEN "write" ELSE "hook"]
  /\ UNCHANGED <<enlace, destination, forgotten, now, boot>>

\* Mutant: the hook stamps every lastStatus it is given.
HookStampIfGiven(r) == IF req[r].dto.lastStatus \in {"keep", "null"} THEN -1 ELSE now

\* The hook leaves without a lastStatus, or with a null one, and compares any
\* other with that of the stored link.
HookStamp(r) ==
  IF req[r].dto.lastStatus \in {"keep", "null", enlace[req[r].id].lastStatus} THEN -1 ELSE now

Hook(r) ==
  /\ req[r].pc = "hook"
  /\ req' = [req EXCEPT ![r].stamp = HookStamp(r), ![r].pc = "write"]
  /\ UNCHANGED <<enlace, destination, forgotten, now, boot, txnVars>>

\* The link itself, selected by _id alone: updateOne, or create.
Write(r) ==
  /\ req[r].pc = "write"
  /\ TxnWrite(r, req[r].id)
  /\ req' = [req EXCEPT ![r].pc = IF req[r].op = "remove" THEN "retire" ELSE "commit"]
  /\ UNCHANGED <<enlace, destination, forgotten, now, boot>>

\* Mutant: remove leaves its destinations active.
RetiresUpdateOnly(r) == IF req[r].op = "update" THEN req[r].old ELSE {}

\* The destinations the transaction of r retires.
Retires(r) == req[r].old

\* Mutant: an update without lastStatus writes the field all the same.
StatusUndefined(r) == req[r].dto.lastStatus

StatusWritten(r) ==
  IF req[r].dto.lastStatus = "keep" THEN enlace[req[r].id].lastStatus ELSE req[r].dto.lastStatus

\* Mutant: update adds the new references and leaves the old ones.
EndsWrittenKeepOld(r) ==
  LET ends == enlace[req[r].id].ends IN
  CASE req[r].op = "remove"       -> ends \ req[r].old
    [] req[r].dto.ends = "list"   -> (ends \ NullEnds) \cup req[r].new
    [] req[r].dto.ends = "null"   -> NullEnds
    [] OTHER                      -> ends

\* The references the transaction of r leaves in the link: $pullAll takes those
\* it read, $set puts the new ones, or null, whatever is there.
EndsWritten(r) ==
  LET ends == enlace[req[r].id].ends IN
  CASE req[r].op = "remove"       -> ends \ req[r].old
    [] req[r].dto.ends = "list"   -> req[r].new
    [] req[r].dto.ends = "null"   -> NullEnds
    [] OTHER                      -> ends

\* What the transaction of r leaves in the link document.
Written(r) ==
  LET doc == enlace[req[r].id] IN
  [state |-> CASE req[r].op = "create" -> "active"
               [] req[r].op = "update" -> doc.state
               [] OTHER                -> "inactive",
   ends |-> EndsWritten(r),
   lastStatus |-> StatusWritten(r),
   lastChangeStatusTime |-> IF req[r].op = "create" THEN boot
                            ELSE IF req[r].stamp = -1 THEN doc.lastChangeStatusTime
                            ELSE req[r].stamp]

\* The destinations link l refers to: none when its list is null.
Ends(l) == enlace[l].ends \cap DestinationEnlace

\* What update reads after the commit is only its answer.
Commit(r) ==
  /\ req[r].pc = "commit"
  /\ enlace' = [enlace EXCEPT ![req[r].id] = Written(r)]
  /\ destination' = [d \in DestinationEnlace |->
                       IF d \in req[r].new THEN "active"
                       ELSE IF d \in Retires(r) THEN "inactive" ELSE destination[d]]
  /\ forgotten' = IF EndsWritten(r) = NullEnds THEN forgotten \cup Ends(req[r].id) ELSE forgotten
  /\ TxnCommit(r)
  /\ req' = [req EXCEPT ![r] = Idle]
  /\ UNCHANGED <<now, boot>>

\* handleExceptions throws; endSession in finally aborts the transaction.
EndWithError(r) ==
  /\ req' = [req EXCEPT ![r] = Idle]
  /\ TxnAbort(r)
  /\ UNCHANGED <<enlace, destination, forgotten, now, boot>>

\* Mutant: a conflicting write waits for the other transaction.
RefusedUnlessConflict(r) ==
  \/ req[r].pc = "find" /\ ~Usable(r)
  \/ req[r].pc = "pull" /\ (enlace[req[r].id].ends = NullEnds \/ req[r].op = "remove")

\* The next call of r is refused: no such link, a write conflict, or a list that
\* is null.  The $pullAll of remove names MapUUID too, which may be null and is
\* not in the model: it may be refused at any time.
Refused(r) ==
  \/ req[r].pc = "find" /\ ~Usable(r)
  \/ req[r].pc = "pull" /\ (enlace[req[r].id].ends = NullEnds \/ req[r].op = "remove")
  \/ req[r].pc \in {"pull", "write"} /\ WriteConflict(r, req[r].id)
  \/ req[r].pc = "retire" /\ \E d \in req[r].old : WriteConflict(r, d)

Refuse(r) == Refused(r) /\ EndWithError(r)

DbError(r) == Faults /\ Busy(r) /\ EndWithError(r)

Restart ==
  /\ Faults
  /\ req' = [r \in Req |-> Idle]
  /\ TxnAbortAll
  /\ boot' = now
  /\ UNCHANGED <<enlace, destination, forgotten, now>>

-----------------------------------------------------------------------------

\* Update and remove come with the id of a link the client has seen.
ClientRequest(r) ==
  \E l \in Enlace :
    \/ \E dto \in CreateEnlaceDto : BeginCreate(r, l, dto)
    \/ /\ enlace[l].state # "absent"
       /\ \/ \E dto \in UpdateEnlaceDto : Begin(r, l, "update", dto)
          \/ Begin(r, l, "remove", NoDto)

Progress(r) ==
  \/ Find(r) \/ Retire(r) \/ Pull(r) \/ Insert(r) \/ Hook(r) \/ Write(r)
  \/ Commit(r) \/ Refuse(r)

Next ==
  \/ \E r \in Req : ClientRequest(r) \/ Progress(r) \/ DbError(r)
  \/ Restart

Spec == Init /\ [][Next]_vars

\* Node runs every callback, MongoDB answers every call, and a conflicting
\* write fails instead of waiting.
Fairness == \A r \in Req : WF_vars(Progress(r))

FairSpec == Spec /\ Fairness

-----------------------------------------------------------------------------
(* Properties.                                                             *)

\* However requests on a link overlap and fail, the destinations of an active
\* link are active documents of no other link: the pages that show a link
\* never show a retired end.
EndsAreActive ==
  \A l \in Enlace : enlace[l].state = "active" =>
    \A d \in Ends(l) :
      /\ destination[d] = "active"
      /\ \A k \in Enlace \ {l} : d \notin enlace[k].ends

\* With one request at a time on each link, the active destinations are those
\* the active links refer to: updates, removals and failures leave no orphan.
\* The exception are the destinations of a link whose list an update set to
\* null, which retires nothing.
NoOrphanEnds ==
  \A d \in DestinationEnlace \ forgotten : destination[d] = "active" =>
    \E l \in Enlace : enlace[l].state = "active" /\ d \in enlace[l].ends

\* A link that is stored gets another lastChangeStatusTime exactly when it gets
\* another lastStatus that is not null.
StampsTheLink ==
  \A l \in Enlace : enlace[l].state # "absent" =>
    (enlace'[l].lastChangeStatusTime # enlace[l].lastChangeStatusTime
       <=> enlace'[l].lastStatus \notin {"null", enlace[l].lastStatus})

\* With one request at a time on each link, lastChangeStatusTime of a stored
\* link moves exactly when lastStatus takes another value that is not null,
\* although the hook that sets it reads outside the transaction.
LinkStampFollowsStatus == [][StampsTheLink]_vars

\* update writes the destinations before the link and remove the link before
\* the destinations: still every request ends, or is lost in a restart.
EveryLinkRequestEnds ==
  \A r \in Req : Busy(r) ~> ~Busy(r)
=============================================================================
