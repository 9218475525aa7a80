--------------------------- MODULE SnmpWalkProofs ---------------------------
(***************************************************************************)
(* Theorems about SnmpWalk, for any finite set of OIDs and of rows, and    *)
(* answers of any size.                                                    *)
(***************************************************************************)
EXTENDS SnmpWalk, FiniteSetTheorems, TLAPS

-----------------------------------------------------------------------------
(* The inductive invariant.                                                *)

Ended == {o \in Oid : walk[o] # "running"}

\* The counter the callbacks share is the number of walks that have ended.
CounterIsExact == completedWalks = Cardinality(Ended)

\* What has been answered and is no error is in the table, and a walk that
\* ended well has been answered all of its column.
TableHoldsAnswers ==
  \A o \in Oid :
    /\ \A i \in column[o] \ (pending[o] \cup unread[o]) : o \in interfaces[i]
    /\ walk[o] = "done" => pending[o] = {}

\* A promise is resolved by the callback that closes the session, with the
\* table as it is then.
ResolvedByTheLast ==
  promise = "resolved" =>
    session = "closed" /\ result = {i \in Row : interfaces[i] # {}}

SessionOutlivesWalks == session = "closed" => Ended = Oid

\* The type of the state but for the bound of completedWalks, which follows.
StateTypes ==
  /\ column \in [Oid -> SUBSET Row] /\ pending \in [Oid -> SUBSET Row]
  /\ walk \in [Oid -> {"running", "done", "failed"}]
  /\ interfaces \in [Row -> SUBSET Oid]
  /\ unread \in [Oid -> SUBSET Row]
  /\ session \in {"open", "closed"}
  /\ promise \in {"pending", "resolved", "rejected"}
  /\ result \subseteq Row

WalkInv ==
  /\ StateTypes
  /\ CounterIsExact /\ TableHoldsAnswers /\ ResolvedByTheLast /\ SessionOutlivesWalks

-----------------------------------------------------------------------------

LEMMA InitWalkInv == Init => WalkInv
<1> SUFFICES ASSUME Init PROVE WalkInv
  OBVIOUS
<1>1. Ended = {}
  BY DEF Init, Ended
<1>2. CounterIsExact
  BY <1>1, FS_EmptySet DEF Init, CounterIsExact
<1> QED
  BY <1>1, <1>2, SnmpAssumption
     DEF Init, WalkInv, StateTypes, TableHoldsAnswers, ResolvedByTheLast, SessionOutlivesWalks

\* One walk more has ended, and the counter has counted it.
LEMMA CountsOneMore ==
  ASSUME WalkInv, NEW o \in Oid, NEW end \in {"done", "failed"}, WalkEnds(o, end)
  PROVE  CounterIsExact' /\ Ended' = Ended \cup {o}
<1>1. o \notin Ended /\ Ended' = Ended \cup {o}
  BY DEF WalkEnds, WalkInv, StateTypes, Ended
<1>2. IsFiniteSet(Ended)
  BY FS_Subset, SnmpAssumption DEF Ended
<1>3. Cardinality(Ended \cup {o}) = Cardinality(Ended) + 1
  BY <1>1, <1>2, FS_AddElement
<1>4. completedWalks' = completedWalks + 1
  BY DEF WalkEnds, Counted
<1> QED
  BY <1>1, <1>3, <1>4 DEF WalkInv, CounterIsExact

LEMMA WalkEndsKeepsInv ==
  ASSUME WalkInv, NEW o \in Oid, NEW end \in {"done", "failed"}, WalkEnds(o, end)
  PROVE  WalkInv'
<1>1. CounterIsExact' /\ Ended' = Ended \cup {o}
  BY CountsOneMore
<1>2. walk[o] = "running" /\ Ended # Oid /\ session = "open"
  BY DEF WalkEnds, Ended, WalkInv, SessionOutlivesWalks, StateTypes
<1>3. TableHoldsAnswers'
  BY DEF WalkEnds, WalkInv, StateTypes, TableHoldsAnswers
\* The counter reaches the number of OIDs with the last walk, not before.
<1>4. CASE AllEnded(completedWalks')
  <2>1. Ended' = Oid
    <3>1. AllEnded(completedWalks)'
      BY <1>4 DEF AllEnded
    <3>2. (Ended \in SUBSET Oid)'
      BY DEF Ended
    <3> QED
      BY <1>1, <3>1, <3>2, FS_Subset, SnmpAssumption DEF CounterIsExact, AllEnded
  <2>2. ResolvedByTheLast' /\ SessionOutlivesWalks' /\ StateTypes'
    BY <1>2, <1>4, <2>1
       DEF WalkEnds, WalkInv, StateTypes, ResolvedByTheLast, SessionOutlivesWalks
  <2> QED
    BY <1>1, <1>3, <2>2 DEF WalkInv
<1>5. CASE ~AllEnded(completedWalks')
  <2>1. UNCHANGED <<session, promise, result, interfaces>>
    BY <1>5 DEF WalkEnds
  <2>2. ResolvedByTheLast' /\ SessionOutlivesWalks' /\ StateTypes'
    BY <1>2, <2>1 DEF WalkEnds, WalkInv, StateTypes, ResolvedByTheLast, SessionOutlivesWalks
  <2> QED
    BY <1>1, <1>3, <2>2 DEF WalkInv
<1> QED
  BY <1>4, <1>5

\* An answer goes to a running walk, so nothing has been resolved yet.
LEMMA FeedKeepsInv ==
  ASSUME WalkInv, NEW o \in Oid, Feed(o)
  PROVE  WalkInv'
<1>1. PICK rows \in Answers(pending[o]) : \E errors \in SUBSET rows :
        /\ interfaces' = [i \in Row |->
             IF i \in rows \ errors THEN interfaces[i] \cup {o} ELSE interfaces[i]]
        /\ unread' = [unread EXCEPT ![o] = @ \cup errors]
        /\ pending' = [pending EXCEPT ![o] = @ \ rows]
  BY DEF Feed
<1>2. rows \subseteq pending[o] /\ rows \subseteq Row
  BY DEF Answers, WalkInv, StateTypes
<1>3. Ended' = Ended /\ promise # "resolved"
  BY DEF Feed, Ended, WalkInv, ResolvedByTheLast, SessionOutlivesWalks
<1>4. StateTypes'
  BY <1>1, <1>2 DEF Feed, WalkInv, StateTypes
<1>5. TableHoldsAnswers'
  <2> SUFFICES ASSUME NEW p \in Oid
               PROVE  /\ \A i \in column[p] \ (pending'[p] \cup unread'[p]) : p \in interfaces'[i]
                      /\ walk[p] = "done" => pending'[p] = {}
    BY DEF Feed, TableHoldsAnswers
  <2>1. CASE p = o
    BY <1>1, <1>2, <2>1 DEF Feed, WalkInv, StateTypes, TableHoldsAnswers
  <2>2. CASE p # o
    BY <1>1, <1>2, <2>2 DEF Feed, WalkInv, StateTypes, TableHoldsAnswers
  <2> QED
    BY <2>1, <2>2
<1> QED
  BY <1>3, <1>4, <1>5
     DEF Feed, WalkInv, CounterIsExact, ResolvedByTheLast, SessionOutlivesWalks

LEMMA NextWalkInv == WalkInv /\ [Next]_vars => WalkInv'
<1> SUFFICES ASSUME WalkInv, [Next]_vars PROVE WalkInv'
  OBVIOUS
<1>1. ASSUME NEW o \in Oid, Feed(o) PROVE WalkInv'
  BY <1>1, FeedKeepsInv
<1>2. ASSUME NEW o \in Oid, NEW end \in {"done", "failed"}, WalkEnds(o, end) PROVE WalkInv'
  BY <1>2, WalkEndsKeepsInv
<1>3. CASE SessionError
  <2>1. session' = session /\ promise' = "rejected" /\ Ended' = Ended
    BY <1>3 DEF SessionError, AfterError, Ended
  <2> QED
    BY <1>3, <2>1 DEF SessionError, WalkInv, StateTypes, CounterIsExact, TableHoldsAnswers,
       ResolvedByTheLast, SessionOutlivesWalks
<1>4. CASE UNCHANGED vars
  <2>1. Ended' = Ended
    BY <1>4 DEF vars, Ended
  <2> QED
    BY <1>4, <2>1 DEF vars, WalkInv, StateTypes, CounterIsExact, TableHoldsAnswers,
       ResolvedByTheLast, SessionOutlivesWalks
<1> QED
  BY <1>1, <1>2, <1>3, <1>4 DEF Next

THEOREM WalkInvariance == Spec => []WalkInv
BY InitWalkInv, NextWalkInv, PTL DEF Spec

-----------------------------------------------------------------------------

\* The state of a query has its type for any number of OIDs and rows; the
\* counter never runs past the number of OIDs.
THEOREM SnmpTypeCorrect == Spec => []SnmpTypeOK
<1>1. WalkInv => SnmpTypeOK
  <2> SUFFICES ASSUME WalkInv PROVE SnmpTypeOK
    OBVIOUS
  <2>1. Ended \in SUBSET Oid
    BY DEF Ended
  <2>2. completedWalks \in 0 .. Cardinality(Oid)
    BY <2>1, FS_Subset, FS_CardinalityType, SnmpAssumption DEF WalkInv, CounterIsExact
  <2> QED
    BY <2>2 DEF WalkInv, StateTypes, SnmpTypeOK
<1> QED
  BY <1>1, WalkInvariance, PTL

\* However answers, ends and errors of the walks interleave, a resolved table
\* misses nothing but what the router failed to say.
THEOREM ResolvedIsComplete == Spec => []ResultIsComplete
<1>1. WalkInv => ResultIsComplete
  BY DEF WalkInv, StateTypes, TableHoldsAnswers, ResolvedByTheLast, ResultIsComplete
<1> QED
  BY <1>1, WalkInvariance, PTL

\* No walk runs on a closed session, or under a table that has been handed out:
\* closing it after the callback that counts to the number of OIDs is safe,
\* although that callback does not look at its error.
THEOREM WalksEndFirst == Spec => []NoWalkAfterTheEnd
<1>1. WalkInv => NoWalkAfterTheEnd
  BY DEF WalkInv, ResolvedByTheLast, SessionOutlivesWalks, NoWalkAfterTheEnd, Ended
<1> QED
  BY <1>1, WalkInvariance, PTL
=============================================================================
