-------------------------------- MODULE Mapas --------------------------------
(***************************************************************************)
(* MapasService (src/mapas/mapas.service.ts), ClasificationsService and    *)
(* LabelsService: maps, which refer to other maps (mapsInternal), count    *)
(* them (amountSubmaps), carry classifications and list the tickets opened *)
(* about them, and the labels drawn on maps.                               *)
(*                                                                         *)
(* create is a transaction, whose write holds the document until it        *)
(* commits; the other handlers write without one, by _id alone, and wait   *)
(* for it.  Nothing reads within the transaction: what a handler found or  *)
(* validated may have changed when it writes.                              *)
(*                                                                         *)
(* A map stands for its unique name; renaming, the fields no condition     *)
(* reads, and the devices of a map (module Devices) are left out.          *)
(***************************************************************************)
EXTENDS MongoTxn, Naturals, FiniteSets, Functions

CONSTANTS
  Mapa,            \* map documents, one for each name
  Clasification,   \* classification documents, one for each name
  Label,           \* the ids of the labels
  Ticket,          \* ids of Ubersmith tickets
  Body,            \* Body[x]: the bodies the clients send about map or label x
  Faults           \* TRUE: database calls may fail and the server may restart

NoTicket == ""

\* A mapsInternal or classifications that is null instead of a list.
NullList == {"null"}

\* The fields of the bodies; a request brings any of those its handler takes, and
\* null is a value of any of them but the map of a new label.
CreateMapaDto == {"mapsInternal", "classifications"}
UpdateMapaDto == CreateMapaDto \cup {"ubersmithTicketId"}
MapaDto ==
  {Restrict(dto, fields) : dto \in [mapsInternal : (SUBSET Mapa) \cup {NullList},
                                    classifications : (SUBSET Clasification) \cup {NullList},
                                    ubersmithTicketId : Ticket \cup {NoTicket}],
                           fields \in SUBSET UpdateMapaDto}
NoDto == << >>
LabelDto == {NoDto} \cup [mapa : Mapa \cup {"null"}]
Dto == LabelDto \cup MapaDto

ASSUME MapasAssumption ==
  /\ Body \in [Mapa \cup Label -> SUBSET Dto]
  /\ \A m \in Mapa : Body[m] \subseteq MapaDto
  /\ \A l \in Label : Body[l] \subseteq LabelDto
  /\ IsFiniteSet(Mapa)
  /\ Faults \in BOOLEAN
  /\ Mapa \cap Clasification = {} /\ NoTicket \notin Ticket
  /\ Label \cap Mapa = {} /\ {"absent", "gone", "null"} \cap (Mapa \cup Clasification) = {}

VARIABLES
  mapa,            \* the committed map documents
  clasification,   \* the classification documents: their isActive
  label,           \* the labels: the map each is on, null, absent or gone
  req,             \* what each request slot is doing
  seen             \* history: the documents active at some time since its request began

mapasVars == <<mapa, clasification, label, req, txnVars>>
vars == <<mapasVars, seen>>

DocState == {"absent", "active", "inactive"}

MapaDoc == [state : DocState, amountSubmaps : Nat,
            mapsInternal : (SUBSET Mapa) \cup {NullList},
            classifications : (SUBSET Clasification) \cup {NullList},
            ubersmithTicketId : Ticket \cup {NoTicket}, listTicketsUbersmith : SUBSET Ticket]

NoMapa == [state |-> "absent", mapsInternal |-> {}, amountSubmaps |-> 0, classifications |-> {},
           ubersmithTicketId |-> NoTicket, listTicketsUbersmith |-> {}]

Op == {"create", "insert", "reactivate", "update", "remove",
       "addClassifications", "removeClassifications", "createLabel", "updateLabel"}

Request == [pc : {"idle", "find", "validate", "write", "commit"}, op : Op,
            id : Mapa \cup Label \cup {"none"}, dto : Dto]

Idle == [pc |-> "idle", op |-> "remove", id |-> "none", dto |-> NoDto]

MapasTypeOK ==
  /\ mapa \in [Mapa -> MapaDoc]
  /\ clasification \in [Clasification -> DocState]
  /\ label \in [Label -> Mapa \cup {"absent", "gone", "null"}]
  /\ req \in [Req -> Request]
  /\ writes \in [Req -> SUBSET Mapa] /\ missed \in [Req -> SUBSET Mapa]
  /\ seen \in [Req -> SUBSET (Mapa \cup Clasification)]

Init ==
  /\ mapa = [m \in Mapa |-> NoMapa]
  /\ clasification = [k \in Clasification |-> "absent"]
  /\ label = [l \in Label |-> "absent"]
  /\ req = [r \in Req |-> Idle]
  /\ seen = [r \in Req |-> {}]
  /\ TxnInit

-----------------------------------------------------------------------------

Busy(r) == req[r].pc # "idle"

Doc(r) == mapa[req[r].id]

ActiveMapas == {m \in Mapa : mapa[m].state = "active"}
ActiveClasifications == {k \in Clasification : clasification[k] = "active"}

\* The last conjunct of every action: the history variable follows it.
Note ==
  seen' = [r \in Req |-> IF Busy(r)' THEN seen[r] \cup (ActiveMapas \cup ActiveClasifications)' ELSE {}]

Given(r, field) == field \in DOMAIN req[r].dto

OnLabel(r) == req[r].op \in {"createLabel", "updateLabel"}

\* The body brings inner maps: null is as good as nothing to the conditions.
BringsMaps(r) == Given(r, "mapsInternal") /\ req[r].dto.mapsInternal # NullList

\* The ids the handler of r looks up before it writes: the inner maps of a
\* create or an update, the classifications to add, the map of a label.  Those
\* that come in the body of a create or to be removed are not looked up.
Validated(r) ==
  IF req[r].op = "addClassifications" THEN req[r].dto.classifications
  ELSE IF OnLabel(r) THEN IF Given(r, "mapa") THEN {req[r].dto.mapa} \ {"null"} ELSE {}
  ELSE IF BringsMaps(r) THEN req[r].dto.mapsInternal ELSE {}

\* A create validates before it looks for the name, when there is anything to
\* validate; a new label looks for nothing.
FirstPc(op, dto) ==
  IF \/ op = "createLabel"
     \/ op = "create" /\ "mapsInternal" \in DOMAIN dto /\ dto.mapsInternal \notin {{}, NullList}
  THEN "validate" ELSE "find"

Start(r, id, op, dto) ==
  /\ ~Busy(r)
  /\ req' = [req EXCEPT ![r] = [pc |-> FirstPc(op, dto), op |-> op, id |-> id, dto |-> dto]]
  /\ UNCHANGED <<mapa, clasification, label, txnVars>> /\ Note

\* A new label has a new id and a map; maps are created by name.
ClientRequest(r) ==
  \/ \E m \in Mapa :
       \/ Start(r, m, "remove", NoDto)
       \/ \E dto \in Body[m] :
            \/ DOMAIN dto \subseteq CreateMapaDto /\ Start(r, m, "create", dto)
            \/ Start(r, m, "update", dto)
            \/ /\ DOMAIN dto = {"classifications"} /\ dto.classifications \notin {{}, NullList}
               /\ \/ Start(r, m, "addClassifications", dto)
                  \/ Start(r, m, "removeClassifications", dto)
  \/ \E l \in Label : \E dto \in Body[l] :
       IF label[l] # "absent" THEN Start(r, l, "updateLabel", dto)
       ELSE /\ dto # NoDto /\ dto.mapa \in Mapa /\ \A q \in Req : req[q].id # l
            /\ Start(r, l, "createLabel", dto)

\* findById, or the findOne of create, which decides between the inactive map
\* of that name and a new one.
Exists(r) ==
  CASE req[r].op = "create" -> TRUE
    [] OnLabel(r)           -> label[req[r].id] # "gone"
    [] OTHER                -> Doc(r).state = "active"

Find(r) ==
  /\ req[r].pc = "find" /\ Exists(r)
  /\ req' = [req EXCEPT
       ![r].op = IF @ # "create" THEN @ ELSE IF Doc(r).state = "inactive" THEN "reactivate" ELSE "insert",
       ![r].pc = IF req[r].op \in {"create", "remove", "removeClassifications"} \/ Validated(r) = {}
                 THEN "write" ELSE "validate"]
  /\ UNCHANGED <<mapa, clasification, label, txnVars>> /\ Note

\* Mutant: validateMapsInternal without isActive in its filter.
FoundStored(r) ==
  \A doc \in Validated(r) : IF doc \in Mapa THEN mapa[doc].state # "absent"
                            ELSE clasification[doc] = "active"

\* validateMapsInternal, validateClassifications, validateMapa: all, active.
Found(r) == Validated(r) \subseteq ActiveMapas \cup ActiveClasifications

Validate(r) ==
  /\ req[r].pc = "validate" /\ Found(r)
  /\ req' = [req EXCEPT ![r].pc = IF req[r].op = "create" THEN "find" ELSE "write"]
  /\ UNCHANGED <<mapa, clasification, label, txnVars>> /\ Note

InTransaction(r) == req[r].op \in {"insert", "reactivate"}

-----------------------------------------------------------------------------
(* What a handler leaves in the document it writes.                        *)

\* $set: the fields of dto over those of doc.
Merged(doc, dto) ==
  [field \in DOMAIN doc |-> IF field \in DOMAIN dto THEN dto[field] ELSE doc[field]]

\* create counts the inner maps of its body, none when it brings none.
CreatedAmount(r) == IF BringsMaps(r) THEN Cardinality(req[r].dto.mapsInternal) ELSE 0

InsertedDoc(r) ==
  [Merged(NoMapa, req[r].dto) EXCEPT !.state = "active", !.amountSubmaps = CreatedAmount(r)]

\* What the body does not bring stays as it was when the map was removed.
ReactivatedDoc(r) ==
  [Merged(Doc(r), req[r].dto) EXCEPT !.state = "active", !.amountSubmaps = CreatedAmount(r)]

\* Mutant: the new inner maps are not counted.
UpdatedDocUncounted(r) ==
  LET doc == [Merged(Doc(r), req[r].dto) EXCEPT !.classifications = Doc(r).classifications]
      ticket == IF Given(r, "ubersmithTicketId") THEN {req[r].dto.ubersmithTicketId} \ {NoTicket} ELSE {}
  IN [doc EXCEPT !.listTicketsUbersmith = @ \cup ticket]

\* Mutant: the body's classifications are not excluded.
UpdatedDocClassifies(r) ==
  LET doc == Merged(Doc(r), req[r].dto)
      ticket == IF Given(r, "ubersmithTicketId") THEN {req[r].dto.ubersmithTicketId} \ {NoTicket} ELSE {}
  IN [doc EXCEPT !.listTicketsUbersmith = @ \cup ticket,
                 !.amountSubmaps = IF BringsMaps(r) THEN Cardinality(doc.mapsInternal) ELSE @]

\* Mutant: saves the document it found, which was active.
UpdatedDocSaves(r) ==
  LET doc == [Merged(Doc(r), req[r].dto) EXCEPT !.classifications = Doc(r).classifications]
  IN [doc EXCEPT !.state = "active",
                 !.amountSubmaps = IF BringsMaps(r) THEN Cardinality(doc.mapsInternal) ELSE @]

\* Mutant: sets the list of tickets to the one that comes.
UpdatedDocOneTicket(r) ==
  LET doc == [Merged(Doc(r), req[r].dto) EXCEPT !.classifications = Doc(r).classifications]
  IN [doc EXCEPT !.listTicketsUbersmith =
                   IF Given(r, "ubersmithTicketId") THEN {req[r].dto.ubersmithTicketId} \ {NoTicket} ELSE @,
                 !.amountSubmaps = IF BringsMaps(r) THEN Cardinality(doc.mapsInternal) ELSE @]

\* Mutant: the empty ticket of a map that has none is listed as well.
UpdatedDocListsAny(r) ==
  LET doc == [Merged(Doc(r), req[r].dto) EXCEPT !.classifications = Doc(r).classifications]
  IN [doc EXCEPT !.listTicketsUbersmith = @ \cup {doc.ubersmithTicketId},
                 !.amountSubmaps = IF BringsMaps(r) THEN Cardinality(doc.mapsInternal) ELSE @]

\* update leaves the classifications out, counts the inner maps it brings, though
\* it stores a null as well, and adds the ticket to the list; isActive is not in
\* the body.
UpdatedDoc(r) ==
  LET doc == [Merged(Doc(r), req[r].dto) EXCEPT !.classifications = Doc(r).classifications]
      ticket == IF Given(r, "ubersmithTicketId") THEN {req[r].dto.ubersmithTicketId} \ {NoTicket} ELSE {}
  IN [doc EXCEPT !.listTicketsUbersmith = @ \cup ticket,
                 !.amountSubmaps = IF BringsMaps(r) THEN Cardinality(doc.mapsInternal) ELSE @]

Written(r) ==
  CASE req[r].op = "insert"             -> InsertedDoc(r)
    [] req[r].op = "reactivate"         -> ReactivatedDoc(r)
    [] req[r].op = "update"             -> UpdatedDoc(r)
    [] req[r].op = "remove"             -> [Doc(r) EXCEPT !.state = "inactive"]
    [] req[r].op = "addClassifications" ->
         [Doc(r) EXCEPT !.classifications = @ \cup req[r].dto.classifications]
    [] OTHER ->
         [Doc(r) EXCEPT !.classifications = @ \ req[r].dto.classifications]

\* $addToSet and $pull work on an array: classifications may be null.
CanClassify(r) ==
  req[r].op \in {"addClassifications", "removeClassifications"} =>
    Doc(r).classifications # NullList

\* update, remove, addClassifications, removeClassifications.
Write(r) ==
  /\ req[r].pc = "write" /\ ~InTransaction(r) /\ ~OnLabel(r) /\ CanClassify(r)
  /\ PlainWrite(req[r].id)
  /\ mapa' = [mapa EXCEPT ![req[r].id] = Written(r)]
  /\ req' = [req EXCEPT ![r] = Idle]
  /\ UNCHANGED <<clasification, label>> /\ Note

\* create of a label, or findByIdAndUpdate, which finds nothing once it is gone.
WriteLabel(r) ==
  /\ req[r].pc = "write" /\ OnLabel(r)
  /\ label' = [label EXCEPT ![req[r].id] = IF @ = "gone" \/ ~Given(r, "mapa") THEN @
                                           ELSE req[r].dto.mapa]
  /\ req' = [req EXCEPT ![r] = Idle]
  /\ UNCHANGED <<mapa, clasification, txnVars>> /\ Note

\* The updateOne of a reactivation, by _id, or the insert: the name is unique.
WriteInTransaction(r) ==
  /\ req[r].pc = "write" /\ InTransaction(r)
  /\ req[r].op = "insert" => Doc(r).state = "absent"
  /\ TxnWrite(r, req[r].id)
  /\ req' = [req EXCEPT ![r].pc = "commit"]
  /\ UNCHANGED <<mapa, clasification, label>> /\ Note

Commit(r) ==
  /\ req[r].pc = "commit"
  /\ mapa' = [mapa EXCEPT ![req[r].id] = Written(r)]
  /\ TxnCommit(r)
  /\ req' = [req EXCEPT ![r] = Idle]
  /\ UNCHANGED <<clasification, label>> /\ Note

\* Mutant: without endSession in finally the transaction stays open.
EndWithErrorLeaking(r) ==
  /\ req' = [req EXCEPT ![r] = Idle]
  /\ UNCHANGED <<mapa, clasification, label, txnVars>> /\ Note

\* handleExceptions throws; endSession in finally aborts the transaction.
EndWithError(r) ==
  /\ req' = [req EXCEPT ![r] = Idle]
  /\ TxnAbort(r)
  /\ UNCHANGED <<mapa, clasification, label>> /\ Note

\* No such map or label, no such active documents, a list that is null, a name in
\* use, a conflict.
Refuse(r) ==
  /\ \/ req[r].pc = "find" /\ ~Exists(r)
     \/ req[r].pc = "validate" /\ ~Found(r)
     \/ req[r].pc = "write" /\ ~CanClassify(r)
     \/ /\ req[r].pc = "write" /\ InTransaction(r)
        /\ \/ req[r].op = "insert" /\ Doc(r).state # "absent"
           \/ WriteConflict(r, req[r].id)
  /\ EndWithError(r)

DbError(r) == Faults /\ Busy(r) /\ EndWithError(r)

Restart ==
  /\ Faults
  /\ req' = [r \in Req |-> Idle]
  /\ TxnAbortAll
  /\ UNCHANGED <<mapa, clasification, label>> /\ Note

-----------------------------------------------------------------------------
(* ClasificationsService.  create reads first whether the name is that of   *)
(* an inactive classification; however stale that is, what its write and    *)
(* that of remove can do to isActive is this.  LabelsService.remove deletes *)
(* the label; a classification or a label is updated in fields left out.    *)

CreateClasification(k) ==
  /\ clasification[k] \in {"absent", "inactive"}
  /\ clasification' = [clasification EXCEPT ![k] = "active"]
  /\ UNCHANGED <<mapa, label, req, txnVars>> /\ Note

RemoveClasification(k) ==
  /\ clasification[k] = "active"
  /\ clasification' = [clasification EXCEPT ![k] = "inactive"]
  /\ UNCHANGED <<mapa, label, req, txnVars>> /\ Note

RemoveLabel(l) ==
  /\ label[l] \notin {"absent", "gone"}
  /\ label' = [label EXCEPT ![l] = "gone"]
  /\ UNCHANGED <<mapa, clasification, req, txnVars>> /\ Note

Progress(r) ==
  \/ Find(r) \/ Validate(r) \/ Write(r) \/ WriteLabel(r) \/ WriteInTransaction(r) \/ Commit(r) \/ Refuse(r)

Next ==
  \/ \E r \in Req : ClientRequest(r) \/ Progress(r) \/ DbError(r)
  \/ \E k \in Clasification : CreateClasification(k) \/ RemoveClasification(k)
  \/ \E l \in Label : RemoveLabel(l)
  \/ Restart

Spec == Init /\ [][Next]_vars

-----------------------------------------------------------------------------
(* Properties, however requests overlap.                                   *)

\* A list of inner maps has amountSubmaps elements, or amountSubmaps is zero: no
\* interleaving of updates and reactivations leaves the count of another
\* request's list.  Only an update that sets the list to null leaves a count of
\* nothing.
SubmapsCountedOrZero ==
  \A m \in Mapa : mapa[m].mapsInternal # NullList =>
    mapa[m].amountSubmaps \in {0, Cardinality(mapa[m].mapsInternal)}

\* amountSubmaps is the number of inner maps (the comment of create: CALCULAR
\* amountSubmaps BASADO EN mapsInternal).
SubmapsCounted ==
  \A m \in Mapa : mapa[m].amountSubmaps = Cardinality(mapa[m].mapsInternal \cap Mapa)

\* Only a create about to commit holds a map: the plain updates of the others,
\* which wait for it, never wait for a request that is over.
MapTransactionsEnd ==
  \A r \in Req : writes[r] # {} => req[r].pc = "commit"

\* The request whose step this is, on map or label x.
Acts(r, x) == req[r].id = x /\ req'[r] # req[r]

\* A step attaches only what its request has seen active.
AttachesTheActive ==
  /\ \A m \in Mapa : mapa'[m] # mapa[m] =>
       \E r \in Req :
         /\ Acts(r, m)
         /\ (mapa'[m].mapsInternal \cap Mapa) \ mapa[m].mapsInternal \subseteq seen[r]
         /\ ~InTransaction(r) =>
              mapa'[m].classifications \ mapa[m].classifications \subseteq seen[r]
  /\ \A l \in Label : label'[l] # label[l] /\ label'[l] \in Mapa =>
       \E r \in Req : Acts(r, l) /\ label'[l] \in seen[r] /\ label[l] # "gone"

\* An inner map, a classification added to a map, or the map of a label was
\* active at some time during the request that attaches it, however stale its
\* validation is; and a removed label is never attached again.  Only the
\* classifications in the body of a create are not looked up.
ReferencesWereActive == [][AttachesTheActive]_vars

\* A step changes the classifications of a map by what its request names.
ClassifiesByRequest ==
  \A m \in Mapa : mapa'[m].classifications # mapa[m].classifications =>
    \E r \in Req :
      /\ Acts(r, m) /\ Given(r, "classifications")
      /\ LET ids == req[r].dto.classifications IN
         \/ /\ req[r].op = "addClassifications"
            /\ mapa'[m].classifications = mapa[m].classifications \cup ids
         \/ /\ req[r].op = "removeClassifications"
            /\ mapa'[m].classifications = mapa[m].classifications \ ids
         \/ InTransaction(r) /\ mapa'[m].classifications = ids

\* The classifications of a map change only through their own endpoints, or a
\* create that brings others, and by what the request names: an update that
\* found the map before never brings back or loses what another one did
\* (classifications: SE MANEJA CON ENDPOINTS SEPARADOS).
ClassificationsByEndpoint == [][ClassifiesByRequest]_vars

\* A step creates, brings back or removes one map.
ChangesOneState ==
  \A m \in Mapa : mapa'[m].state # mapa[m].state =>
    /\ \A other \in Mapa \ {m} : mapa'[other] = mapa[other]
    /\ \/ /\ mapa'[m].state = "active"
          /\ \E r \in Req : Acts(r, m) /\ req[r].pc = "commit"
       \/ /\ mapa'[m].state = "inactive" /\ mapa[m].state = "active"
          /\ \E r \in Req : Acts(r, m) /\ req[r].op = "remove"

\* What DevicesService relies on: one map at a time changes its state, it is
\* never deleted, only a create brings a removed one back (an update in flight
\* does not), and only a remove takes it away.
MapLifeCycle == [][ChangesOneState]_vars

\* A step keeps the tickets listed, and lists the one a map carries.
KeepsTickets ==
  \A m \in Mapa :
    (mapa[m].listTicketsUbersmith \cup {mapa'[m].ubersmithTicketId}) \ {NoTicket}
      \subseteq mapa'[m].listTicketsUbersmith

\* No ticket ever leaves the list of a map, and the one a map carries is in it,
\* through updates, removal and reactivation (AGREGARLO AL ARREGLO
\* listTicketsUbersmith SIN DUPLICADOS).
TicketsStayListed == [][KeepsTickets]_vars
=============================================================================
