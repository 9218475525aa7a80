----------------------------- MODULE MapasProofs -----------------------------
(***************************************************************************)
(* Theorems about Mapas, for any finite set of maps, any classifications,  *)
(* labels, tickets and bodies, and however many requests overlap.          *)
(***************************************************************************)
EXTENDS Mapas, FiniteSetTheorems, TLAPS

-----------------------------------------------------------------------------
(* Bodies and documents.                                                   *)

LEMMA DtoFields ==
  ASSUME NEW dto \in MapaDto
  PROVE  /\ DOMAIN dto \subseteq UpdateMapaDto
         /\ "mapsInternal" \in DOMAIN dto => dto.mapsInternal \in (SUBSET Mapa) \cup {NullList}
         /\ "classifications" \in DOMAIN dto =>
              dto.classifications \in (SUBSET Clasification) \cup {NullList}
         /\ "ubersmithTicketId" \in DOMAIN dto =>
              dto.ubersmithTicketId \in Ticket \cup {NoTicket}
<1> DEFINE Full == [mapsInternal : (SUBSET Mapa) \cup {NullList},
                    classifications : (SUBSET Clasification) \cup {NullList},
                    ubersmithTicketId : Ticket \cup {NoTicket}]
<1>1. PICK full \in Full, fields \in SUBSET UpdateMapaDto : dto = Restrict(full, fields)
  BY DEF MapaDto
<1>2. dto = [x \in fields |-> full[x]]
  BY <1>1 DEF Restrict
<1>3. /\ full["mapsInternal"] \in (SUBSET Mapa) \cup {NullList}
      /\ full["classifications"] \in (SUBSET Clasification) \cup {NullList}
      /\ full["ubersmithTicketId"] \in Ticket \cup {NoTicket}
  BY <1>1
<1> HIDE DEF Full
<1> QED
  BY <1>1, <1>2, <1>3

LEMMA NoDtoIsADto == NoDto \in MapaDto /\ DOMAIN NoDto = {}
<1> DEFINE full == [mapsInternal |-> {}, classifications |-> {}, ubersmithTicketId |-> NoTicket]
<1>1. Restrict(full, {}) = NoDto
  BY DEF Restrict, NoDto
<1>2. full \in [mapsInternal : (SUBSET Mapa) \cup {NullList},
                classifications : (SUBSET Clasification) \cup {NullList},
                ubersmithTicketId : Ticket \cup {NoTicket}]
  OBVIOUS
<1> HIDE DEF full
<1>3. NoDto \in MapaDto
  BY <1>1, <1>2 DEF MapaDto
<1> QED
  BY <1>3 DEF NoDto

LEMMA NoMapaIsADoc == NoMapa \in MapaDoc
BY DEF NoMapa, MapaDoc, DocState

LEMMA MergedFields ==
  ASSUME NEW doc \in MapaDoc, NEW dto \in MapaDto
  PROVE  LET merged == Merged(doc, dto) IN
         /\ merged \in MapaDoc
         /\ merged.state = doc.state
         /\ merged.amountSubmaps = doc.amountSubmaps
         /\ merged.listTicketsUbersmith = doc.listTicketsUbersmith
         /\ merged.mapsInternal =
              IF "mapsInternal" \in DOMAIN dto THEN dto.mapsInternal ELSE doc.mapsInternal
         /\ merged.classifications =
              IF "classifications" \in DOMAIN dto THEN dto.classifications ELSE doc.classifications
         /\ merged.ubersmithTicketId =
              IF "ubersmithTicketId" \in DOMAIN dto THEN dto.ubersmithTicketId
              ELSE doc.ubersmithTicketId
<1>1. DOMAIN doc = {"state", "mapsInternal", "amountSubmaps", "classifications",
                    "ubersmithTicketId", "listTicketsUbersmith"}
  BY DEF MapaDoc
<1>2. DOMAIN dto \subseteq {"mapsInternal", "classifications", "ubersmithTicketId"}
  BY DtoFields DEF UpdateMapaDto, CreateMapaDto
<1> QED
  BY <1>1, <1>2, DtoFields DEF Merged, MapaDoc

-----------------------------------------------------------------------------
(* The inductive invariant.                                                *)

OnCreate(r) == req[r].op \in {"create", "insert", "reactivate"}

\* What Begin takes and the lookups of a handler establish.
BodyOK(r) ==
  /\ IF OnLabel(r) THEN req[r].id \in Label /\ req[r].dto \in LabelDto
     ELSE req[r].id \in Mapa /\ req[r].dto \in MapaDto
  /\ OnCreate(r) => DOMAIN req[r].dto \subseteq CreateMapaDto
  /\ req[r].op \in {"addClassifications", "removeClassifications"} =>
       DOMAIN req[r].dto = {"classifications"} /\ req[r].dto.classifications \in SUBSET Clasification
  /\ req[r].op = "remove" => req[r].dto = NoDto

\* create looks for the name last; only then is it an insert or a reactivation.
StageOK(r) ==
  /\ req[r].op = "create" => req[r].pc \in {"validate", "find"}
  /\ InTransaction(r) => req[r].pc \in {"write", "commit"}
  /\ req[r].pc = "commit" => InTransaction(r)

\* Past its validation, what a request validated is among what it has seen active.
ValidatedWereSeen(r) ==
  req[r].pc \in {"write", "commit"} \/ (req[r].pc = "find" /\ req[r].op = "create") =>
    Validated(r) \subseteq seen[r]

\* A map that was found is stored for good.
FoundIsStored(r) ==
  ~OnLabel(r) /\ req[r].op \notin {"create", "insert"} /\ req[r].pc # "find" =>
    Doc(r).state # "absent"

\* A transaction holds one map, between its write and its commit; a new map is
\* still absent then.
HoldsItsMap(r) ==
  /\ writes[r] = IF req[r].pc = "commit" THEN {req[r].id} ELSE {}
  /\ req[r].pc = "commit" /\ req[r].op = "insert" => Doc(r).state = "absent"

SlotOK(r) ==
  /\ Busy(r) => BodyOK(r) /\ StageOK(r) /\ ValidatedWereSeen(r) /\ FoundIsStored(r)
  /\ HoldsItsMap(r)

OneWriter == \A r, q \in Req : r # q => writes[r] \cap writes[q] = {}

\* The documents: none is half made, a ticket a map carries is in its list, and a
\* list of inner maps is counted or the count is zero.
DocOK(doc) ==
  /\ doc.state = "absent" => doc = NoMapa
  /\ doc.ubersmithTicketId \in doc.listTicketsUbersmith \cup {NoTicket}
  /\ doc.mapsInternal # NullList => doc.amountSubmaps \in {0, Cardinality(doc.mapsInternal)}

MapasInv ==
  /\ MapasTypeOK
  /\ \A r \in Req : SlotOK(r)
  /\ OneWriter
  /\ \A m \in Mapa : DocOK(mapa[m])

-----------------------------------------------------------------------------
(* What a write leaves in a map.                                           *)

\* create.
LEMMA CreatedFields ==
  ASSUME MapasInv, NEW r \in Req, Busy(r), InTransaction(r)
  PROVE  LET old == IF req[r].op = "insert" THEN NoMapa ELSE Doc(r)
             new == Written(r)
         IN /\ new \in MapaDoc
            /\ new.state = "active"
            /\ new.amountSubmaps = CreatedAmount(r)
            /\ new.mapsInternal =
                 IF Given(r, "mapsInternal") THEN req[r].dto.mapsInternal ELSE old.mapsInternal
            /\ new.classifications =
                 IF Given(r, "classifications") THEN req[r].dto.classifications
                 ELSE old.classifications
            /\ new.ubersmithTicketId = old.ubersmithTicketId
            /\ new.listTicketsUbersmith = old.listTicketsUbersmith
<1> DEFINE old == IF req[r].op = "insert" THEN NoMapa ELSE Doc(r)
           merged == Merged(old, req[r].dto)
<1>1. /\ req[r].op \in {"insert", "reactivate"} /\ ~OnLabel(r)
      /\ req[r].dto \in MapaDto /\ DOMAIN req[r].dto \subseteq CreateMapaDto
      /\ req[r].id \in Mapa
  BY DEF MapasInv, SlotOK, BodyOK, OnCreate, InTransaction, OnLabel
<1>2. Written(r) = [merged EXCEPT !.state = "active", !.amountSubmaps = CreatedAmount(r)]
  <2>1. CASE req[r].op = "insert"
    BY <2>1 DEF Written, InsertedDoc
  <2>2. CASE req[r].op = "reactivate"
    BY <2>2 DEF Written, ReactivatedDoc
  <2> QED
    BY <1>1, <2>1, <2>2
<1>3. old \in MapaDoc
  BY <1>1, NoMapaIsADoc DEF Doc, MapasInv, MapasTypeOK
<1>4. CreatedAmount(r) \in Nat
  <2>1. BringsMaps(r) => req[r].dto.mapsInternal \in SUBSET Mapa
    BY <1>1, DtoFields DEF BringsMaps, Given
  <2> QED
    BY <2>1, FS_Subset, FS_CardinalityType, MapasAssumption DEF CreatedAmount
<1>5. merged.ubersmithTicketId = old.ubersmithTicketId
  BY <1>1, <1>3, MergedFields DEF CreateMapaDto
<1> HIDE DEF old
<1>6. /\ merged \in MapaDoc
      /\ merged.listTicketsUbersmith = old.listTicketsUbersmith
      /\ merged.mapsInternal =
           IF Given(r, "mapsInternal") THEN req[r].dto.mapsInternal ELSE old.mapsInternal
      /\ merged.classifications =
           IF Given(r, "classifications") THEN req[r].dto.classifications ELSE old.classifications
  BY <1>1, <1>3, MergedFields DEF Given
<1> HIDE DEF merged
<1>7. /\ Written(r) \in MapaDoc
      /\ Written(r).state = "active" /\ Written(r).amountSubmaps = CreatedAmount(r)
      /\ Written(r).mapsInternal = merged.mapsInternal
      /\ Written(r).classifications = merged.classifications
      /\ Written(r).ubersmithTicketId = merged.ubersmithTicketId
      /\ Written(r).listTicketsUbersmith = merged.listTicketsUbersmith
  BY <1>2, <1>4, <1>6 DEF MapaDoc, DocState
<1> QED
  BY <1>5, <1>6, <1>7 DEF old

\* update.
LEMMA UpdatedFields ==
  ASSUME MapasInv, NEW r \in Req, Busy(r), req[r].op = "update"
  PROVE  LET old == Doc(r)
             new == Written(r)
             ticket == IF Given(r, "ubersmithTicketId")
                       THEN {req[r].dto.ubersmithTicketId} \ {NoTicket} ELSE {}
         IN /\ new \in MapaDoc
            /\ new.state = old.state
            /\ new.mapsInternal =
                 IF Given(r, "mapsInternal") THEN req[r].dto.mapsInternal ELSE old.mapsInternal
            /\ new.amountSubmaps =
                 IF BringsMaps(r) THEN Cardinality(new.mapsInternal) ELSE old.amountSubmaps
            /\ new.classifications = old.classifications
            /\ new.ubersmithTicketId =
                 IF Given(r, "ubersmithTicketId") THEN req[r].dto.ubersmithTicketId
                 ELSE old.ubersmithTicketId
            /\ new.listTicketsUbersmith = old.listTicketsUbersmith \cup ticket
<1> DEFINE old == Doc(r)
           merged == Merged(old, req[r].dto)
           ticket == IF Given(r, "ubersmithTicketId")
                     THEN {req[r].dto.ubersmithTicketId} \ {NoTicket} ELSE {}
<1>1. req[r].dto \in MapaDto /\ req[r].id \in Mapa /\ old \in MapaDoc
  BY DEF MapasInv, MapasTypeOK, SlotOK, BodyOK, OnLabel, Doc
<1>2. Written(r) = LET doc == [merged EXCEPT !.classifications = old.classifications]
                   IN [doc EXCEPT !.listTicketsUbersmith = @ \cup ticket,
                                  !.amountSubmaps = IF BringsMaps(r)
                                                    THEN Cardinality(doc.mapsInternal) ELSE @]
  BY DEF Written, UpdatedDoc
<1>3. ticket \in SUBSET Ticket
  BY <1>1, DtoFields DEF Given
<1> HIDE DEF ticket, old
<1>4. /\ merged \in MapaDoc
      /\ merged.state = old.state
      /\ merged.amountSubmaps = old.amountSubmaps
      /\ merged.listTicketsUbersmith = old.listTicketsUbersmith
      /\ merged.mapsInternal =
           IF Given(r, "mapsInternal") THEN req[r].dto.mapsInternal ELSE old.mapsInternal
      /\ merged.ubersmithTicketId =
           IF Given(r, "ubersmithTicketId") THEN req[r].dto.ubersmithTicketId
           ELSE old.ubersmithTicketId
  BY <1>1, MergedFields DEF Given
<1> HIDE DEF merged
<1>5. BringsMaps(r) => Cardinality(merged.mapsInternal) \in Nat
  <2>1. BringsMaps(r) => merged.mapsInternal \in SUBSET Mapa
    BY <1>1, <1>4, DtoFields DEF BringsMaps, Given
  <2> QED
    BY <2>1, FS_Subset, FS_CardinalityType, MapasAssumption
<1>6. /\ Written(r) \in MapaDoc
      /\ Written(r).state = merged.state
      /\ Written(r).mapsInternal = merged.mapsInternal
      /\ Written(r).amountSubmaps = IF BringsMaps(r) THEN Cardinality(merged.mapsInternal)
                                    ELSE merged.amountSubmaps
      /\ Written(r).classifications = old.classifications
      /\ Written(r).ubersmithTicketId = merged.ubersmithTicketId
      /\ Written(r).listTicketsUbersmith = merged.listTicketsUbersmith \cup ticket
  BY <1>1, <1>2, <1>3, <1>4, <1>5 DEF MapaDoc
<1> QED
  BY <1>4, <1>6 DEF old, ticket

\* remove, addClassifications, removeClassifications.
LEMMA OtherwiseFields ==
  ASSUME MapasInv, NEW r \in Req, Busy(r), ~OnLabel(r), CanClassify(r),
         req[r].op \notin {"create", "insert", "reactivate", "update"}
  PROVE  /\ Written(r) \in MapaDoc
         /\ req[r].op = "remove" => Written(r) = [Doc(r) EXCEPT !.state = "inactive"]
         /\ req[r].op = "addClassifications" =>
              Written(r) = [Doc(r) EXCEPT !.classifications = @ \cup req[r].dto.classifications]
         /\ req[r].op = "removeClassifications" =>
              Written(r) = [Doc(r) EXCEPT !.classifications = @ \ req[r].dto.classifications]
         /\ req[r].op \in {"remove", "addClassifications", "removeClassifications"}
<1>1. /\ req[r].op \in {"remove", "addClassifications", "removeClassifications"}
      /\ req[r].dto \in MapaDto /\ Doc(r) \in MapaDoc
      /\ req[r].op # "remove" => /\ req[r].dto.classifications \in SUBSET Clasification
                                 /\ Doc(r).classifications \in SUBSET Clasification
  BY DEF CanClassify, MapaDoc, MapasInv, MapasTypeOK, Request, Op, SlotOK, BodyOK, OnLabel, Doc
<1>2. CASE req[r].op = "remove"
  BY <1>1, <1>2 DEF Written, MapaDoc, DocState
<1>3. CASE req[r].op = "addClassifications"
  BY <1>1, <1>3 DEF Written, MapaDoc
<1>4. CASE req[r].op = "removeClassifications"
  BY <1>1, <1>4 DEF Written, MapaDoc
<1> QED
  BY <1>1, <1>2, <1>3, <1>4

\* Every document written is one a map may have.
LEMMA WrittenIsOK ==
  ASSUME MapasInv, NEW r \in Req, Busy(r), ~OnLabel(r), req[r].op # "create", CanClassify(r),
         req[r].op \notin {"insert", "reactivate"} => Doc(r).state # "absent"
  PROVE  Written(r) \in MapaDoc /\ DocOK(Written(r)) /\ Written(r).state # "absent"
<1>1. Doc(r) \in MapaDoc /\ DocOK(Doc(r)) /\ DocOK(NoMapa)
  <2>1. Cardinality({}) = 0
    BY FS_EmptySet
  <2> QED
    BY <2>1 DEF MapasInv, MapasTypeOK, SlotOK, BodyOK, Doc, DocOK, NoMapa
<1>2. CASE InTransaction(r)
  <2>1. /\ Written(r) \in MapaDoc /\ Written(r).state = "active"
        /\ Written(r).amountSubmaps = CreatedAmount(r)
        /\ BringsMaps(r) => Written(r).mapsInternal = req[r].dto.mapsInternal
    BY <1>2, CreatedFields DEF BringsMaps
  <2>2. Written(r).ubersmithTicketId \in Written(r).listTicketsUbersmith \cup {NoTicket}
    BY <1>1, <1>2, CreatedFields, Zenon DEF DocOK
  <2> QED
    BY <2>1, <2>2 DEF DocOK, CreatedAmount
<1>3. CASE req[r].op = "update"
  <2>1. Given(r, "mapsInternal") => BringsMaps(r) \/ Written(r).mapsInternal = NullList
    BY <1>3, UpdatedFields DEF BringsMaps
  <2> QED
    BY <1>1, <1>3, <2>1, UpdatedFields DEF DocOK, BringsMaps
<1>4. CASE ~InTransaction(r) /\ req[r].op # "update"
  BY <1>1, <1>4, OtherwiseFields DEF InTransaction, DocOK, MapaDoc
<1> QED
  BY <1>2, <1>3, <1>4

-----------------------------------------------------------------------------
(* Steps.  A step changes at most one slot; the history variable grows.    *)

TxnTypeOK == writes \in [Req -> SUBSET Mapa] /\ missed \in [Req -> SUBSET Mapa]

LEMMA IdleIsARequest == Idle \in Request /\ Idle.pc = "idle"
BY NoDtoIsADto DEF Idle, Request, Op, Dto

LEMMA SeenGrows ==
  ASSUME Note, NEW r \in Req, Busy(r)'
  PROVE  seen[r] \subseteq seen'[r] /\ (ActiveMapas \cup ActiveClasifications)' \subseteq seen'[r]
BY DEF Note

LEMMA SeenTypes ==
  ASSUME MapasTypeOK, Note
  PROVE  seen' \in [Req -> SUBSET (Mapa \cup Clasification)]
<1>1. (ActiveMapas \cup ActiveClasifications)' \subseteq Mapa \cup Clasification
  BY DEF ActiveMapas, ActiveClasifications
<1> QED
  BY <1>1 DEF Note, MapasTypeOK

\* A slot the step does not change stays as it should be, if no map it holds is
\* written and none is deleted.
LEMMA OtherSlotKeeps ==
  ASSUME MapasInv, Note, NEW r \in Req, req'[r] = req[r], writes'[r] = writes[r],
         \A m \in Mapa : mapa[m].state # "absent" => mapa'[m].state # "absent",
         \A m \in writes[r] : mapa'[m] = mapa[m]
  PROVE  SlotOK(r)'
<1>1. SlotOK(r)
  BY DEF MapasInv
<1>2. HoldsItsMap(r)'
  BY <1>1 DEF SlotOK, HoldsItsMap, Doc
<1>3. ASSUME Busy(r)
      PROVE  BodyOK(r)' /\ StageOK(r)' /\ ValidatedWereSeen(r)' /\ FoundIsStored(r)'
  <2>1. BodyOK(r) /\ StageOK(r) /\ ValidatedWereSeen(r) /\ FoundIsStored(r)
    BY <1>1, <1>3 DEF SlotOK
  <2>2. BodyOK(r)' /\ StageOK(r)'
    BY <2>1 DEF BodyOK, StageOK, OnLabel, OnCreate, InTransaction
  <2>3. seen[r] \subseteq seen'[r] /\ Validated(r)' = Validated(r)
    BY <1>3, SeenGrows DEF Busy, Validated, OnLabel, Given, BringsMaps
  <2>4. ValidatedWereSeen(r)'
    BY <2>1, <2>3 DEF ValidatedWereSeen
  <2>5. FoundIsStored(r)'
    BY <2>1 DEF FoundIsStored, BodyOK, OnLabel, Doc
  <2> QED
    BY <2>2, <2>4, <2>5
<1> QED
  BY <1>2, <1>3 DEF SlotOK, Busy

\* Steps of one slot that leave the maps alone.
LEMMA SlotStepKeeps ==
  ASSUME MapasInv, Note, mapa' = mapa,
         clasification' \in [Clasification -> DocState],
         label' \in [Label -> Mapa \cup {"absent", "gone", "null"}],
         NEW r \in Req, NEW q \in Request, req' = [req EXCEPT ![r] = q],
         TxnTypeOK', \A p \in Req \ {r} : writes'[p] = writes[p],
         SlotOK(r)', OneWriter'
  PROVE  MapasInv'
<1>1. MapasTypeOK'
  BY SeenTypes DEF MapasInv, MapasTypeOK, TxnTypeOK
<1>2. ASSUME NEW p \in Req PROVE SlotOK(p)'
  <2>1. CASE p = r
    BY <2>1
  <2>2. CASE p # r
    <3>1. req'[p] = req[p] /\ writes'[p] = writes[p]
      BY <2>2 DEF MapasInv, MapasTypeOK
    <3> QED
      BY <3>1, OtherSlotKeeps
  <2> QED
    BY <2>1, <2>2
<1> QED
  BY <1>1, <1>2 DEF MapasInv

LEMMA StartKeeps ==
  ASSUME MapasInv, NEW r \in Req, ClientRequest(r)
  PROVE  MapasInv'
<1>1. PICK id \in Mapa \cup Label, op \in Op, dto \in Dto :
        /\ Start(r, id, op, dto)
        /\ IF op \in {"createLabel", "updateLabel"} THEN id \in Label /\ dto \in LabelDto
           ELSE id \in Mapa /\ dto \in MapaDto
        /\ op \notin {"insert", "reactivate"}
        /\ op = "create" => DOMAIN dto \subseteq CreateMapaDto
        /\ op \in {"addClassifications", "removeClassifications"} =>
             DOMAIN dto = {"classifications"} /\ dto.classifications \in SUBSET Clasification
        /\ op = "remove" => dto = NoDto
  <2>1. CASE \E m \in Mapa : Start(r, m, "remove", NoDto)
    BY <2>1, NoDtoIsADto DEF Op, Dto
  <2>2. CASE \E m \in Mapa : \E dto \in Body[m] :
              \/ DOMAIN dto \subseteq CreateMapaDto /\ Start(r, m, "create", dto)
              \/ Start(r, m, "update", dto)
              \/ /\ DOMAIN dto = {"classifications"} /\ dto.classifications # NullList
                 /\ \/ Start(r, m, "addClassifications", dto)
                    \/ Start(r, m, "removeClassifications", dto)
    <3>1. PICK m \in Mapa : \E dto \in Body[m] :
              \/ DOMAIN dto \subseteq CreateMapaDto /\ Start(r, m, "create", dto)
              \/ Start(r, m, "update", dto)
              \/ /\ DOMAIN dto = {"classifications"} /\ dto.classifications # NullList
                 /\ \/ Start(r, m, "addClassifications", dto)
                    \/ Start(r, m, "removeClassifications", dto)
      BY <2>2
    <3>2. \A dto \in Body[m] :
            /\ dto \in MapaDto
            /\ DOMAIN dto = {"classifications"} /\ dto.classifications # NullList =>
                 dto.classifications \in SUBSET Clasification
      BY MapasAssumption, DtoFields
    <3> QED
      BY <3>1, <3>2 DEF Op, Dto
  <2>3. CASE \E l \in Label : \E dto \in Body[l] :
               Start(r, l, "updateLabel", dto) \/ Start(r, l, "createLabel", dto)
    BY <2>3, MapasAssumption DEF Op, Dto
  <2> QED
    BY <2>1, <2>2, <2>3 DEF ClientRequest
<1> DEFINE q == [pc |-> FirstPc(op, dto), op |-> op, id |-> id, dto |-> dto]
<1>2. q \in Request /\ q.pc \in {"find", "validate"}
  BY DEF Request, FirstPc
<1>3. /\ req' = [req EXCEPT ![r] = q] /\ UNCHANGED <<mapa, clasification, label, txnVars>>
      /\ Note /\ ~Busy(r)
  BY <1>1 DEF Start
<1>4. req'[r] = q /\ Busy(r)'
  BY <1>2, <1>3 DEF Busy, MapasInv, MapasTypeOK
<1>5. writes' = writes /\ missed' = missed /\ writes[r] = {}
  BY <1>3 DEF txnVars, MapasInv, SlotOK, HoldsItsMap, Busy
<1>6. SlotOK(r)'
  <2>1. BodyOK(r)' /\ StageOK(r)'
    BY <1>1, <1>2, <1>4 DEF BodyOK, StageOK, OnLabel, OnCreate, InTransaction
  <2>2. ValidatedWereSeen(r)'
    <3>1. q.pc = "find" /\ op = "create" =>
            "mapsInternal" \notin DOMAIN dto \/ dto.mapsInternal = {} \/ dto.mapsInternal = NullList
      BY DEF FirstPc
    <3>2. req'[r].pc = "find" /\ req'[r].op = "create" => Validated(r)' = {}
      BY <1>4, <3>1 DEF Validated, OnLabel, Given, BringsMaps
    <3> QED
      BY <1>2, <1>4, <3>2 DEF ValidatedWereSeen
  <2>3. FoundIsStored(r)'
    <3>1. q.pc = "find" \/ op \in {"create", "createLabel"}
      BY DEF FirstPc
    <3> QED
      BY <1>4, <3>1 DEF FoundIsStored, OnLabel
  <2>4. HoldsItsMap(r)'
    BY <1>2, <1>4, <1>5 DEF HoldsItsMap
  <2> QED
    BY <2>1, <2>2, <2>3, <2>4 DEF SlotOK
<1> HIDE DEF q
<1> QED
  BY <1>2, <1>3, <1>5, <1>6, SlotStepKeeps DEF MapasInv, MapasTypeOK, TxnTypeOK, OneWriter

\* findById, or the lookup of create, which settles what it will do.
LEMMA FindKeeps ==
  ASSUME MapasInv, NEW r \in Req, Find(r)
  PROVE  MapasInv'
<1> DEFINE op == IF req[r].op # "create" THEN req[r].op
                 ELSE IF Doc(r).state = "inactive" THEN "reactivate" ELSE "insert"
           pc == IF req[r].op \in {"create", "remove", "removeClassifications"} \/ Validated(r) = {}
                 THEN "write" ELSE "validate"
           q  == [req[r] EXCEPT !.op = op, !.pc = pc]
<1>1. req[r] \in Request /\ req[r].pc = "find" /\ Busy(r) /\ Exists(r)
  BY DEF Find, MapasInv, MapasTypeOK, Busy
<1>2. q \in Request
  BY <1>1 DEF Request, Op
<1>3. /\ req' = [req EXCEPT ![r] = q] /\ Note /\ mapa' = mapa
      /\ clasification' = clasification /\ label' = label
      /\ writes' = writes /\ missed' = missed
  BY <1>1 DEF Find, txnVars, MapasInv, MapasTypeOK
<1>4. /\ req'[r].op = op /\ req'[r].pc = pc
      /\ req'[r].id = req[r].id /\ req'[r].dto = req[r].dto
  BY <1>1, <1>3 DEF MapasInv, MapasTypeOK, Request
<1>5. BodyOK(r) /\ ValidatedWereSeen(r) /\ StageOK(r) /\ writes[r] = {}
  BY <1>1 DEF MapasInv, SlotOK, HoldsItsMap
<1>6. pc \in {"write", "validate"} /\ Busy(r)'
  BY <1>4 DEF Busy
<1>7. BodyOK(r)' /\ StageOK(r)'
  <2>1. CASE req[r].op = "create"
    BY <1>4, <1>5, <2>1 DEF BodyOK, StageOK, OnLabel, OnCreate, InTransaction
  <2>2. CASE req[r].op # "create"
    BY <1>1, <1>4, <1>5, <2>2 DEF BodyOK, StageOK, OnLabel, OnCreate, InTransaction
  <2> QED
    BY <2>1, <2>2
<1>8. ValidatedWereSeen(r)'
  <2>1. Validated(r)' = Validated(r)
    BY <1>4 DEF Validated, OnLabel, Given, BringsMaps
  <2>2. seen[r] \subseteq seen'[r]
    BY <1>3, <1>6, SeenGrows
  <2>3. req[r].op = "remove" => Validated(r) = {}
    BY <1>5, NoDtoIsADto DEF BodyOK, Validated, OnLabel, Given, BringsMaps
  <2>4. req[r].op = "removeClassifications" => Validated(r) = {}
    BY <1>5 DEF BodyOK, Validated, OnLabel, Given, BringsMaps
  <2>5. req[r].op = "create" => Validated(r) \subseteq seen[r]
    BY <1>1, <1>5 DEF ValidatedWereSeen
  <2> QED
    BY <1>4, <1>6, <2>1, <2>2, <2>3, <2>4, <2>5 DEF ValidatedWereSeen
<1>9. FoundIsStored(r)'
  <2>1. CASE req[r].op = "create"
    BY <1>3, <1>4, <2>1 DEF FoundIsStored, Doc
  <2>2. CASE req[r].op # "create" /\ ~OnLabel(r)
    <3>1. Doc(r).state = "active"
      BY <1>1, <2>2 DEF Exists
    <3> QED
      BY <1>3, <1>4, <3>1 DEF FoundIsStored, Doc
  <2>3. CASE OnLabel(r)
    BY <1>4, <2>3 DEF FoundIsStored, OnLabel
  <2> QED
    BY <2>1, <2>2, <2>3
<1>10. HoldsItsMap(r)'
  BY <1>3, <1>4, <1>5, <1>6 DEF HoldsItsMap
<1>11. SlotOK(r)'
  BY <1>7, <1>8, <1>9, <1>10 DEF SlotOK
<1> HIDE DEF q
<1> QED
  BY <1>2, <1>3, <1>11, SlotStepKeeps DEF MapasInv, MapasTypeOK, TxnTypeOK, OneWriter

\* What is found active now has been seen.
LEMMA ValidateKeeps ==
  ASSUME MapasInv, NEW r \in Req, Validate(r)
  PROVE  MapasInv'
<1> DEFINE pc == IF req[r].op = "create" THEN "find" ELSE "write"
           q  == [req[r] EXCEPT !.pc = pc]
<1>1. req[r] \in Request /\ req[r].pc = "validate" /\ Busy(r) /\ Found(r)
  BY DEF Validate, MapasInv, MapasTypeOK, Busy
<1>2. q \in Request
  BY <1>1 DEF Request
<1>3. /\ req' = [req EXCEPT ![r] = q] /\ Note /\ mapa' = mapa
      /\ clasification' = clasification /\ label' = label
      /\ writes' = writes /\ missed' = missed
  BY <1>1 DEF Validate, txnVars, MapasInv, MapasTypeOK
<1>4. /\ req'[r].op = req[r].op /\ req'[r].pc = pc
      /\ req'[r].id = req[r].id /\ req'[r].dto = req[r].dto /\ Busy(r)'
  BY <1>1, <1>3 DEF MapasInv, MapasTypeOK, Request, Busy
<1>5. BodyOK(r) /\ StageOK(r) /\ FoundIsStored(r) /\ writes[r] = {}
  BY <1>1 DEF MapasInv, SlotOK, HoldsItsMap
<1>6. BodyOK(r)' /\ StageOK(r)'
  BY <1>1, <1>4, <1>5 DEF BodyOK, StageOK, OnLabel, OnCreate, InTransaction
<1>7. ValidatedWereSeen(r)'
  <2>1. Validated(r)' = Validated(r)
    BY <1>4 DEF Validated, OnLabel, Given, BringsMaps
  <2>2. (ActiveMapas \cup ActiveClasifications)' = ActiveMapas \cup ActiveClasifications
    BY <1>3 DEF ActiveMapas, ActiveClasifications
  <2>3. ActiveMapas \cup ActiveClasifications \subseteq seen'[r]
    BY <1>3, <1>4, <2>2, SeenGrows
  <2> QED
    BY <1>1, <2>1, <2>3 DEF ValidatedWereSeen, Found
<1>8. FoundIsStored(r)' /\ HoldsItsMap(r)'
  BY <1>1, <1>3, <1>4, <1>5 DEF FoundIsStored, HoldsItsMap, OnLabel, Doc
<1>9. SlotOK(r)'
  BY <1>6, <1>7, <1>8 DEF SlotOK
<1> HIDE DEF q
<1> QED
  BY <1>2, <1>3, <1>9, SlotStepKeeps DEF MapasInv, MapasTypeOK, TxnTypeOK, OneWriter

\* A slot that is over holds nothing.
LEMMA IdleSlotIsOK ==
  ASSUME NEW r \in Req, req'[r] = Idle, writes'[r] = {}
  PROVE  SlotOK(r)'
BY DEF SlotOK, Busy, HoldsItsMap, Idle

\* A transaction takes a map nobody holds, and a new one only if it is absent.
LEMMA WriteInTransactionKeeps ==
  ASSUME MapasInv, NEW r \in Req, WriteInTransaction(r)
  PROVE  MapasInv'
<1> DEFINE q == [req[r] EXCEPT !.pc = "commit"]
<1>1. req[r] \in Request /\ req[r].pc = "write" /\ Busy(r) /\ InTransaction(r)
  BY DEF WriteInTransaction, MapasInv, MapasTypeOK, Busy
<1>2. q \in Request
  BY <1>1 DEF Request
<1>3. BodyOK(r) /\ ValidatedWereSeen(r) /\ FoundIsStored(r) /\ writes[r] = {} /\ req[r].id \in Mapa
  BY <1>1 DEF MapasInv, SlotOK, HoldsItsMap, BodyOK, InTransaction, OnLabel
<1>4. /\ req' = [req EXCEPT ![r] = q] /\ Note /\ mapa' = mapa
      /\ clasification' = clasification /\ label' = label
      /\ writes' = [writes EXCEPT ![r] = @ \cup {req[r].id}] /\ missed' = missed
      /\ \A p \in Req \ {r} : req[r].id \notin writes[p]
  BY <1>1 DEF WriteInTransaction, TxnWrite, WriteConflict, MapasInv, MapasTypeOK
<1>5. /\ req'[r].op = req[r].op /\ req'[r].pc = "commit"
      /\ req'[r].id = req[r].id /\ req'[r].dto = req[r].dto /\ Busy(r)'
  BY <1>1, <1>4 DEF MapasInv, MapasTypeOK, Request, Busy
<1>6. writes'[r] = {req[r].id} /\ \A p \in Req \ {r} : writes'[p] = writes[p]
  BY <1>3, <1>4 DEF MapasInv, MapasTypeOK
<1>7. BodyOK(r)' /\ StageOK(r)'
  BY <1>1, <1>3, <1>5 DEF BodyOK, StageOK, OnLabel, OnCreate, InTransaction
<1>8. ValidatedWereSeen(r)'
  <2>1. Validated(r)' = Validated(r) /\ seen[r] \subseteq seen'[r]
    BY <1>4, <1>5, SeenGrows DEF Validated, OnLabel, Given, BringsMaps
  <2> QED
    BY <1>1, <1>3, <2>1 DEF ValidatedWereSeen
<1>9. FoundIsStored(r)'
  BY <1>1, <1>3, <1>4, <1>5 DEF FoundIsStored, OnLabel, Doc
<1>10. HoldsItsMap(r)'
  <2>1. req[r].op = "insert" => Doc(r).state = "absent"
    BY DEF WriteInTransaction
  <2> QED
    BY <1>4, <1>5, <1>6, <2>1 DEF HoldsItsMap, Doc
<1>11. SlotOK(r)'
  BY <1>7, <1>8, <1>9, <1>10 DEF SlotOK
<1>12. OneWriter'
  BY <1>4, <1>6 DEF OneWriter, MapasInv
<1>13. TxnTypeOK'
  BY <1>3, <1>4 DEF TxnTypeOK, MapasInv, MapasTypeOK
<1> HIDE DEF q
<1> QED
  BY <1>2, <1>4, <1>6, <1>11, <1>12, <1>13, SlotStepKeeps DEF MapasInv, MapasTypeOK

\* A request that ends without a write, or after that of a label.
LEMMA EndKeeps ==
  ASSUME MapasInv, Note, mapa' = mapa, clasification' = clasification,
         label' \in [Label -> Mapa \cup {"absent", "gone", "null"}],
         NEW r \in Req, req' = [req EXCEPT ![r] = Idle], TxnTypeOK',
         writes' = [writes EXCEPT ![r] = {}]
  PROVE  MapasInv'
<1>1. writes'[r] = {} /\ \A p \in Req \ {r} : writes'[p] = writes[p]
  BY DEF MapasInv, MapasTypeOK
<1>2. req'[r] = Idle
  BY DEF MapasInv, MapasTypeOK
<1>3. SlotOK(r)'
  BY <1>1, <1>2, IdleSlotIsOK
<1>4. OneWriter'
  BY <1>1 DEF OneWriter, MapasInv
<1> QED
  BY <1>1, <1>3, <1>4, IdleIsARequest, SlotStepKeeps DEF MapasInv, MapasTypeOK

LEMMA EndWithErrorKeeps ==
  ASSUME MapasInv, NEW r \in Req, EndWithError(r)
  PROVE  MapasInv'
<1>1. TxnTypeOK'
  BY DEF EndWithError, TxnAbort, TxnTypeOK, MapasInv, MapasTypeOK
<1> QED
  BY <1>1, EndKeeps DEF EndWithError, TxnAbort, MapasInv, MapasTypeOK

LEMMA WriteLabelKeeps ==
  ASSUME MapasInv, NEW r \in Req, WriteLabel(r)
  PROVE  MapasInv'
<1>1. BodyOK(r) /\ writes[r] = {} /\ OnLabel(r)
  BY DEF WriteLabel, MapasInv, SlotOK, HoldsItsMap, Busy
<1>2. Given(r, "mapa") => req[r].dto.mapa \in Mapa \cup {"null"}
  BY <1>1 DEF BodyOK, LabelDto, NoDto, Given
<1>3. label' \in [Label -> Mapa \cup {"absent", "gone", "null"}]
  BY <1>2 DEF WriteLabel, MapasInv, MapasTypeOK
<1>4. TxnTypeOK' /\ writes' = [writes EXCEPT ![r] = {}]
  BY <1>1 DEF WriteLabel, txnVars, TxnTypeOK, MapasInv, MapasTypeOK
<1> QED
  BY <1>3, <1>4, EndKeeps DEF WriteLabel

\* The write of a map that no other request holds.
LEMMA MapWrittenKeeps ==
  ASSUME MapasInv, Note, NEW r \in Req, Busy(r), ~OnLabel(r), req[r].op # "create", CanClassify(r),
         req[r].op \notin {"insert", "reactivate"} => Doc(r).state # "absent",
         \A q \in Req \ {r} : req[r].id \notin writes[q],
         mapa' = [mapa EXCEPT ![req[r].id] = Written(r)],
         clasification' = clasification, label' = label,
         req' = [req EXCEPT ![r] = Idle], TxnTypeOK', writes' = [writes EXCEPT ![r] = {}]
  PROVE  MapasInv'
<1>1. req[r].id \in Mapa
  BY DEF MapasInv, SlotOK, BodyOK
<1>2. Written(r) \in MapaDoc /\ DocOK(Written(r)) /\ Written(r).state # "absent"
  BY WrittenIsOK
<1>3. \A m \in Mapa : mapa'[m] = IF m = req[r].id THEN Written(r) ELSE mapa[m]
  BY <1>1 DEF MapasInv, MapasTypeOK
<1>4. mapa' \in [Mapa -> MapaDoc] /\ \A m \in Mapa : DocOK(mapa[m])'
  BY <1>2, <1>3 DEF MapasInv, MapasTypeOK, DocOK
<1>5. /\ req'[r] = Idle /\ writes'[r] = {}
      /\ \A p \in Req \ {r} : req'[p] = req[p] /\ writes'[p] = writes[p]
      /\ req' \in [Req -> Request]
  BY IdleIsARequest DEF MapasInv, MapasTypeOK
<1>6. MapasTypeOK'
  BY <1>4, <1>5, SeenTypes DEF MapasInv, MapasTypeOK, TxnTypeOK
<1>7. ASSUME NEW p \in Req PROVE SlotOK(p)'
  <2>1. CASE p = r
    BY <1>5, <2>1, IdleSlotIsOK
  <2>2. CASE p # r
    <3>1. \A m \in writes[p] : mapa'[m] = mapa[m]
      BY <1>3, <2>2 DEF MapasInv, MapasTypeOK
    <3>2. \A m \in Mapa : mapa[m].state # "absent" => mapa'[m].state # "absent"
      BY <1>2, <1>3
    <3> QED
      BY <1>5, <2>2, <3>1, <3>2, OtherSlotKeeps
  <2> QED
    BY <2>1, <2>2
<1>8. OneWriter'
  BY <1>5 DEF OneWriter, MapasInv
<1> QED
  BY <1>4, <1>6, <1>7, <1>8 DEF MapasInv

LEMMA WriteKeeps ==
  ASSUME MapasInv, NEW r \in Req, Write(r)
  PROVE  MapasInv'
<1>1. Busy(r) /\ writes[r] = {} /\ BodyOK(r) /\ StageOK(r) /\ FoundIsStored(r)
  BY DEF Write, MapasInv, SlotOK, HoldsItsMap, Busy
<1>2. ~OnLabel(r) /\ req[r].op # "create" /\ Doc(r).state # "absent" /\ req[r].id \in Mapa
  BY <1>1 DEF Write, StageOK, FoundIsStored, InTransaction, BodyOK
<1>3. TxnTypeOK' /\ writes' = [writes EXCEPT ![r] = {}]
  BY <1>1, <1>2 DEF Write, PlainWrite, TxnTypeOK, MapasInv, MapasTypeOK
<1>4. \A q \in Req \ {r} : req[r].id \notin writes[q]
  BY DEF Write, PlainWrite
<1> QED
  BY <1>1, <1>2, <1>3, <1>4, MapWrittenKeeps DEF Write

LEMMA CommitKeeps ==
  ASSUME MapasInv, NEW r \in Req, Commit(r)
  PROVE  MapasInv'
<1>1. Busy(r) /\ writes[r] = {req[r].id} /\ BodyOK(r) /\ StageOK(r)
  BY DEF Commit, MapasInv, SlotOK, HoldsItsMap, Busy
<1>2. ~OnLabel(r) /\ req[r].op \in {"insert", "reactivate"} /\ CanClassify(r)
  BY <1>1 DEF Commit, StageOK, InTransaction, OnLabel, CanClassify
<1>3. TxnTypeOK' /\ writes' = [writes EXCEPT ![r] = {}]
  BY <1>1 DEF Commit, TxnCommit, HasSnapshot, TxnTypeOK, MapasInv, MapasTypeOK
<1>4. \A q \in Req \ {r} : req[r].id \notin writes[q]
  BY <1>1 DEF OneWriter, MapasInv
<1> QED
  BY <1>1, <1>2, <1>3, <1>4, MapWrittenKeeps DEF Commit

\* Steps that leave the requests and the maps alone.
LEMMA OutsideKeeps ==
  ASSUME MapasInv, Note, UNCHANGED <<mapa, req, txnVars>>,
         clasification' \in [Clasification -> DocState],
         label' \in [Label -> Mapa \cup {"absent", "gone", "null"}]
  PROVE  MapasInv'
<1>1. MapasTypeOK'
  BY SeenTypes DEF MapasInv, MapasTypeOK, txnVars
<1>2. ASSUME NEW r \in Req PROVE SlotOK(r)'
  BY OtherSlotKeeps DEF txnVars
<1> QED
  BY <1>1, <1>2 DEF MapasInv, OneWriter, txnVars

LEMMA RestartKeeps ==
  ASSUME MapasInv, Restart
  PROVE  MapasInv'
<1>1. \A r \in Req : req'[r] = Idle /\ writes'[r] = {}
  BY DEF Restart, TxnAbortAll
<1>2. MapasTypeOK'
  <2>1. /\ req' \in [Req -> Request]
        /\ writes' \in [Req -> SUBSET Mapa] /\ missed' \in [Req -> SUBSET Mapa]
    BY IdleIsARequest DEF Restart, TxnAbortAll
  <2> QED
    BY <2>1, SeenTypes DEF Restart, MapasInv, MapasTypeOK
<1>3. \A r \in Req : SlotOK(r)'
  BY <1>1, IdleSlotIsOK
<1> QED
  BY <1>1, <1>2, <1>3 DEF Restart, OneWriter, MapasInv

LEMMA InitMapasInv == Init => MapasInv
<1> SUFFICES ASSUME Init PROVE MapasInv
  OBVIOUS
<1>1. MapasTypeOK
  BY IdleIsARequest, NoMapaIsADoc DEF Init, TxnInit, MapasTypeOK, DocState
<1>2. \A r \in Req : SlotOK(r)
  BY IdleIsARequest DEF Init, TxnInit, SlotOK, Busy, HoldsItsMap
<1>3. \A m \in Mapa : DocOK(mapa[m])
  BY FS_EmptySet DEF Init, DocOK, NoMapa
<1> QED
  BY <1>1, <1>2, <1>3 DEF MapasInv, OneWriter, Init, TxnInit

LEMMA NextMapasInv == MapasInv /\ [Next]_vars => MapasInv'
<1> SUFFICES ASSUME MapasInv, [Next]_vars PROVE MapasInv'
  OBVIOUS
<1>1. ASSUME NEW r \in Req, ClientRequest(r) PROVE MapasInv'
  BY <1>1, StartKeeps
<1>2. ASSUME NEW r \in Req, Progress(r) PROVE MapasInv'
  BY <1>2, FindKeeps, ValidateKeeps, WriteKeeps, WriteLabelKeeps, WriteInTransactionKeeps,
     CommitKeeps, EndWithErrorKeeps DEF Progress, Refuse
<1>3. ASSUME NEW r \in Req, DbError(r) PROVE MapasInv'
  BY <1>3, EndWithErrorKeeps DEF DbError
<1>4. ASSUME NEW k \in Clasification, CreateClasification(k) \/ RemoveClasification(k)
      PROVE  MapasInv'
  <2>1. clasification' \in [Clasification -> DocState]
    BY <1>4 DEF CreateClasification, RemoveClasification, MapasInv, MapasTypeOK, DocState
  <2> QED
    BY <1>4, <2>1, OutsideKeeps DEF CreateClasification, RemoveClasification, MapasInv, MapasTypeOK
<1>5. ASSUME NEW l \in Label, RemoveLabel(l) PROVE MapasInv'
  BY <1>5, OutsideKeeps DEF RemoveLabel, MapasInv, MapasTypeOK
<1>6. CASE Restart
  BY <1>6, RestartKeeps
<1>7. CASE UNCHANGED vars
  BY <1>7 DEF vars, mapasVars, txnVars, MapasInv, MapasTypeOK, SlotOK, Busy, BodyOK, StageOK,
     ValidatedWereSeen, FoundIsStored, HoldsItsMap, OneWriter, DocOK, OnLabel, OnCreate,
     InTransaction, Validated, Given, BringsMaps, Doc
<1> QED
  BY <1>1, <1>2, <1>3, <1>4, <1>5, <1>6, <1>7 DEF Next

\* The inductive invariant holds in every state the services reach.
THEOREM MapasInvariance == Spec => []MapasInv
BY InitMapasInv, NextMapasInv, PTL DEF Spec

-----------------------------------------------------------------------------
(* The invariants the run checks.                                          *)

\* Every map, label and request keeps its type; in particular no ticket list
\* gets the empty ticket, whatever the bodies bring.
THEOREM MapasTypeCorrect == Spec => []MapasTypeOK
<1>1. MapasInv => MapasTypeOK
  BY DEF MapasInv
<1> QED
  BY <1>1, MapasInvariance, PTL

\* However updates and reactivations overlap, and whichever of them bring null for
\* the inner maps, a map that has a list of them counts that list, or zero.
THEOREM SubmapsAreCounted == Spec => []SubmapsCountedOrZero
<1>1. MapasInv => SubmapsCountedOrZero
  BY DEF MapasInv, DocOK, SubmapsCountedOrZero
<1> QED
  BY <1>1, MapasInvariance, PTL

\* No transaction of a create outlives it, on any path: only one about to commit
\* makes the others wait.
THEOREM TransactionsEnd == Spec => []MapTransactionsEnd
<1>1. MapasInv => MapTransactionsEnd
  BY DEF MapasInv, SlotOK, HoldsItsMap, MapTransactionsEnd
<1> QED
  BY <1>1, MapasInvariance, PTL

-----------------------------------------------------------------------------
(* What a step does to the maps, and the action properties.                *)

\* r writes the map it is about, as the last thing it does.
Writes(r) ==
  /\ Busy(r) /\ ~OnLabel(r) /\ req[r].op # "create" /\ req[r].id \in Mapa
  /\ InTransaction(r) <=> req[r].pc = "commit"
  /\ ~InTransaction(r) => Doc(r).state # "absent"
  /\ req[r].op = "insert" => Doc(r) = NoMapa
  /\ Validated(r) \subseteq seen[r] /\ CanClassify(r)
  /\ req'[r] # req[r]
  /\ mapa' = [mapa EXCEPT ![req[r].id] = Written(r)]

LEMMA StepWrites ==
  ASSUME MapasInv, [Next]_vars, mapa' # mapa
  PROVE  \E r \in Req : Writes(r)
<1>1. PICK r \in Req : Write(r) \/ Commit(r)
  BY DEF Next, ClientRequest, Start, Progress, Find, Validate, WriteLabel, WriteInTransaction,
     Refuse, DbError, EndWithError, CreateClasification, RemoveClasification, RemoveLabel,
     Restart, vars, mapasVars
<1>2. req[r].pc \in {"write", "commit"} /\ Busy(r)
  BY <1>1 DEF Write, Commit, Busy
<1>3. BodyOK(r) /\ StageOK(r) /\ ValidatedWereSeen(r) /\ FoundIsStored(r) /\ HoldsItsMap(r)
  BY <1>2 DEF MapasInv, SlotOK
<1>4. req[r].op # "create" /\ ~OnLabel(r) /\ (InTransaction(r) <=> req[r].pc = "commit")
  BY <1>1, <1>2, <1>3 DEF StageOK, Write, Commit, InTransaction, OnLabel
<1>5. req[r].id \in Mapa
  BY <1>3, <1>4 DEF BodyOK
<1>6. ~InTransaction(r) => Doc(r).state # "absent"
  BY <1>2, <1>3, <1>4 DEF FoundIsStored, InTransaction
<1>7. req[r].op = "insert" => Doc(r) = NoMapa
  BY <1>3, <1>4, <1>5 DEF HoldsItsMap, InTransaction, MapasInv, DocOK, Doc
<1>8. req'[r] # req[r]
  BY <1>1, <1>2 DEF Write, Commit, MapasInv, MapasTypeOK, Idle
<1>9. /\ mapa' = [mapa EXCEPT ![req[r].id] = Written(r)]
      /\ Validated(r) \subseteq seen[r] /\ CanClassify(r)
  BY <1>1, <1>2, <1>3, <1>4 DEF Write, Commit, ValidatedWereSeen, CanClassify, InTransaction
<1> QED
  BY <1>2, <1>4, <1>5, <1>6, <1>7, <1>8, <1>9 DEF Writes

LEMMA WritesOne ==
  ASSUME MapasInv, NEW r \in Req, Writes(r)
  PROVE  \A m \in Mapa : mapa'[m] = IF m = req[r].id THEN Written(r) ELSE mapa[m]
BY DEF Writes, MapasInv, MapasTypeOK

LEMMA StepKeepsTickets ==
  ASSUME MapasInv, MapasInv', [Next]_vars
  PROVE  KeepsTickets
<1>1. \A m \in Mapa : mapa'[m].ubersmithTicketId \in mapa'[m].listTicketsUbersmith \cup {NoTicket}
  BY DEF MapasInv, DocOK
<1>2. \A m \in Mapa : mapa[m].listTicketsUbersmith \subseteq mapa'[m].listTicketsUbersmith
  <2>1. CASE mapa' # mapa
    <3>1. PICK r \in Req : Writes(r)
      BY <2>1, StepWrites
    <3>2. Doc(r) \in MapaDoc /\ Busy(r) /\ ~OnLabel(r) /\ req[r].op # "create" /\ CanClassify(r)
      BY <3>1 DEF Writes, MapasInv, MapasTypeOK, Doc
    <3>3. Doc(r).listTicketsUbersmith \subseteq Written(r).listTicketsUbersmith
      <4>1. CASE InTransaction(r)
        BY <3>1, <3>2, <4>1, CreatedFields DEF Writes, InTransaction
      <4>2. CASE req[r].op = "update"
        BY <3>2, <4>2, UpdatedFields
      <4>3. CASE ~InTransaction(r) /\ req[r].op # "update"
        BY <3>2, <4>3, OtherwiseFields DEF InTransaction, MapaDoc
      <4> QED
        BY <4>1, <4>2, <4>3
    <3> QED
      BY <3>1, <3>3, WritesOne DEF Doc
  <2>2. CASE mapa' = mapa
    BY <2>2
  <2> QED
    BY <2>1, <2>2
<1> QED
  BY <1>1, <1>2 DEF KeepsTickets

\* The list of tickets of a map only grows, and holds the ticket the map carries.
THEOREM TicketsAreKept == Spec => TicketsStayListed
<1>1. MapasInv /\ MapasInv' /\ [Next]_vars => [KeepsTickets]_vars
  BY StepKeepsTickets
<1> QED
  BY <1>1, MapasInvariance, PTL DEF Spec, TicketsStayListed

LEMMA StepChangesOneState ==
  ASSUME MapasInv, [Next]_vars
  PROVE  ChangesOneState
<1> SUFFICES ASSUME NEW m \in Mapa, mapa'[m].state # mapa[m].state
    PROVE  /\ \A other \in Mapa \ {m} : mapa'[other] = mapa[other]
           /\ \/ /\ mapa'[m].state = "active"
                 /\ \E r \in Req : Acts(r, m) /\ req[r].pc = "commit"
              \/ /\ mapa'[m].state = "inactive" /\ mapa[m].state = "active"
                 /\ \E r \in Req : Acts(r, m) /\ req[r].op = "remove"
  BY DEF ChangesOneState
<1>1. PICK r \in Req : Writes(r)
  BY StepWrites
<1>2. req[r].id = m /\ mapa'[m] = Written(r) /\ mapa[m] = Doc(r) /\ Acts(r, m)
  BY <1>1, WritesOne DEF Writes, Acts, Doc
<1>3. \A other \in Mapa \ {m} : mapa'[other] = mapa[other]
  BY <1>1, <1>2, WritesOne
<1>4. Busy(r) /\ ~OnLabel(r) /\ req[r].op # "create" /\ Doc(r) \in MapaDoc /\ CanClassify(r)
  BY <1>1 DEF Writes, MapasInv, MapasTypeOK, Doc
<1>5. CASE InTransaction(r)
  BY <1>1, <1>2, <1>3, <1>4, <1>5, CreatedFields DEF Writes
<1>6. CASE req[r].op = "update"
  BY <1>2, <1>4, <1>6, UpdatedFields
<1>7. CASE ~InTransaction(r) /\ req[r].op # "update"
  <2>1. Written(r).state # Doc(r).state => req[r].op = "remove" /\ Written(r).state = "inactive"
    BY <1>4, <1>7, OtherwiseFields DEF InTransaction, MapaDoc
  <2>2. Doc(r).state \in {"active", "inactive"}
    BY <1>1, <1>4, <1>7 DEF Writes, MapaDoc, DocState
  <2> QED
    BY <1>2, <1>3, <2>1, <2>2
<1> QED
  BY <1>5, <1>6, <1>7

\* Only a create that commits brings a map into being or back, only a remove
\* takes it away, one map at a time.
THEOREM MapsLiveInOrder == Spec => MapLifeCycle
<1>1. MapasInv /\ [Next]_vars => [ChangesOneState]_vars
  BY StepChangesOneState
<1> QED
  BY <1>1, MapasInvariance, PTL DEF Spec, MapLifeCycle

LEMMA StepClassifiesByRequest ==
  ASSUME MapasInv, [Next]_vars
  PROVE  ClassifiesByRequest
<1> SUFFICES ASSUME NEW m \in Mapa, mapa'[m].classifications # mapa[m].classifications
    PROVE  \E r \in Req :
             /\ Acts(r, m) /\ Given(r, "classifications")
             /\ LET ids == req[r].dto.classifications IN
                \/ /\ req[r].op = "addClassifications"
                   /\ mapa'[m].classifications = mapa[m].classifications \cup ids
                \/ /\ req[r].op = "removeClassifications"
                   /\ mapa'[m].classifications = mapa[m].classifications \ ids
                \/ InTransaction(r) /\ mapa'[m].classifications = ids
  BY DEF ClassifiesByRequest
<1>1. PICK r \in Req : Writes(r)
  BY StepWrites
<1>2. req[r].id = m /\ mapa'[m] = Written(r) /\ mapa[m] = Doc(r) /\ Acts(r, m)
  BY <1>1, WritesOne DEF Writes, Acts, Doc
<1>3. /\ Busy(r) /\ ~OnLabel(r) /\ req[r].op # "create" /\ Doc(r) \in MapaDoc /\ BodyOK(r)
      /\ CanClassify(r)
  BY <1>1 DEF Writes, MapasInv, MapasTypeOK, SlotOK, Doc
<1>4. CASE InTransaction(r)
  BY <1>1, <1>2, <1>3, <1>4, CreatedFields DEF Writes, InTransaction
<1>5. CASE req[r].op = "update"
  BY <1>2, <1>3, <1>5, UpdatedFields
<1>6. CASE ~InTransaction(r) /\ req[r].op # "update"
  BY <1>2, <1>3, <1>6, OtherwiseFields DEF InTransaction, MapaDoc, BodyOK, Given
<1> QED
  BY <1>4, <1>5, <1>6

\* No update loses or brings back a classification; their own requests add and
\* take away exactly what they name.
THEOREM EndpointsClassify == Spec => ClassificationsByEndpoint
<1>1. MapasInv /\ [Next]_vars => [ClassifiesByRequest]_vars
  BY StepClassifiesByRequest
<1> QED
  BY <1>1, MapasInvariance, PTL DEF Spec, ClassificationsByEndpoint

LEMMA StepAttachesToMaps ==
  ASSUME MapasInv, [Next]_vars, NEW m \in Mapa, mapa'[m] # mapa[m]
  PROVE  \E r \in Req :
           /\ Acts(r, m)
           /\ (mapa'[m].mapsInternal \cap Mapa) \ mapa[m].mapsInternal \subseteq seen[r]
           /\ ~InTransaction(r) =>
                mapa'[m].classifications \ mapa[m].classifications \subseteq seen[r]
<1>1. PICK r \in Req : Writes(r)
  BY StepWrites
<1>2. req[r].id = m /\ mapa'[m] = Written(r) /\ mapa[m] = Doc(r) /\ Acts(r, m)
  BY <1>1, WritesOne DEF Writes, Acts, Doc
<1>3. /\ Busy(r) /\ ~OnLabel(r) /\ req[r].op # "create" /\ Doc(r) \in MapaDoc /\ BodyOK(r)
      /\ Validated(r) \subseteq seen[r] /\ CanClassify(r)
  BY <1>1 DEF Writes, MapasInv, MapasTypeOK, SlotOK, Doc
<1>4. req[r].op # "addClassifications" /\ Given(r, "mapsInternal") =>
        req[r].dto.mapsInternal \cap Mapa \subseteq seen[r]
  <2>1. NullList \cap Mapa = {}
    BY MapasAssumption DEF NullList
  <2> QED
    BY <1>3, <2>1 DEF Validated, BringsMaps
<1>5. CASE InTransaction(r)
  BY <1>1, <1>2, <1>3, <1>4, <1>5, CreatedFields DEF Writes, InTransaction
<1>6. CASE req[r].op = "update"
  BY <1>2, <1>3, <1>4, <1>6, UpdatedFields
<1>7. CASE ~InTransaction(r) /\ req[r].op # "update"
  <2>1. /\ Written(r).mapsInternal = Doc(r).mapsInternal
        /\ req[r].op = "addClassifications" =>
             Written(r).classifications = Doc(r).classifications \cup req[r].dto.classifications
        /\ req[r].op # "addClassifications" =>
             Written(r).classifications \subseteq Doc(r).classifications
    BY <1>3, <1>7, OtherwiseFields DEF InTransaction, MapaDoc
  <2>2. req[r].op = "addClassifications" => req[r].dto.classifications \subseteq seen[r]
    BY <1>3 DEF Validated
  <2> QED
    BY <1>2, <2>1, <2>2
<1> QED
  BY <1>5, <1>6, <1>7

LEMMA StepAttachesLabels ==
  ASSUME MapasInv, [Next]_vars, NEW l \in Label, label'[l] # label[l], label'[l] \in Mapa
  PROVE  \E r \in Req : Acts(r, l) /\ label'[l] \in seen[r] /\ label[l] # "gone"
<1>1. ASSUME NEW k \in Label, RemoveLabel(k) PROVE FALSE
  BY <1>1, MapasAssumption DEF RemoveLabel, MapasInv, MapasTypeOK
<1>2. PICK r \in Req : WriteLabel(r)
  BY <1>1 DEF Next, ClientRequest, Start, Progress, Find, Validate, Write, WriteInTransaction,
     Commit, Refuse, DbError, EndWithError, CreateClasification, RemoveClasification,
     Restart, vars, mapasVars
<1>3. req[r].pc = "write" /\ OnLabel(r) /\ BodyOK(r) /\ ValidatedWereSeen(r)
  BY <1>2 DEF WriteLabel, MapasInv, SlotOK, Busy
<1>4. req[r].id = l /\ label[l] # "gone" /\ Given(r, "mapa") /\ label'[l] = req[r].dto.mapa
  BY <1>2, <1>3 DEF WriteLabel, MapasInv, MapasTypeOK, BodyOK
<1>5. req'[r] # req[r]
  BY <1>2, <1>3 DEF WriteLabel, MapasInv, MapasTypeOK, Idle
<1>6. Validated(r) = {req[r].dto.mapa} /\ Validated(r) \subseteq seen[r]
  BY <1>3, <1>4, MapasAssumption DEF Validated, ValidatedWereSeen, OnLabel
<1> QED
  BY <1>4, <1>5, <1>6 DEF Acts

\* Whatever a request attaches to a map or a label was active at some time while
\* it ran, and a removed label is not attached again.
THEOREM AttachedWereActive == Spec => ReferencesWereActive
<1>1. MapasInv /\ [Next]_vars => [AttachesTheActive]_vars
  BY StepAttachesToMaps, StepAttachesLabels DEF AttachesTheActive
<1> QED
  BY <1>1, MapasInvariance, PTL DEF Spec, ReferencesWereActive
=============================================================================
