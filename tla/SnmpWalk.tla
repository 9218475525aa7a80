------------------------------ MODULE SnmpWalk ------------------------------
(***************************************************************************)
(* EnlacesService.snmpQuerySubtree: the interface table of a router, read  *)
(* by one subtree walk per OID over one SNMP session.                      *)
(*                                                                         *)
(* The walks are started together and their callbacks come in any order.   *)
(* They fill the rows of one table, interfaces, and count the walks that   *)
(* have ended, well or badly; the last one closes the session and resolves *)
(* the promise.  The session's error event rejects the promise whenever it *)
(* comes, and leaves the walks to end by themselves.                       *)
(*                                                                         *)
(* Queries share nothing, so there is one.  The session (net-snmp) and the *)
(* router are external: a walk delivers the rows of its column in their    *)
(* order, some of them as varbind errors, and may end with an error at any *)
(* time (no answer within the timeout, an exception in a callback).        *)
(***************************************************************************)
EXTENDS Naturals, FiniteSets

CONSTANTS
  Oid,             \* the columns walked: the six entries of oids
  Row,             \* the interface indexes a router may have
  MaxRepetitions   \* the most rows in one answer

ASSUME SnmpAssumption ==
  /\ Oid # {} /\ IsFiniteSet(Oid)
  /\ Row \subseteq Nat /\ IsFiniteSet(Row)
  /\ MaxRepetitions \in Nat \ {0}

VARIABLES
  column,          \* column[o]: the rows the router has in o
  pending,         \* pending[o]: those it has not answered yet
  walk,            \* walk[o]: "running", "done" or "failed"
  interfaces,      \* interfaces[i]: the fields of row i, {} when there is no row
  unread,          \* unread[o]: the rows answered with a varbind error (history)
  completedWalks,
  session,         \* "open" or "closed"
  promise,         \* "pending", "resolved" or "rejected"
  result           \* the rows the promise was resolved with

vars ==
  <<column, pending, walk, interfaces, unread, completedWalks, session, promise, result>>

Init ==
  /\ column \in [Oid -> SUBSET Row]
  /\ pending = column
  /\ walk = [o \in Oid |-> "running"]
  /\ interfaces = [i \in Row |-> {}]
  /\ unread = [o \in Oid |-> {}]
  /\ completedWalks = 0
  /\ session = "open" /\ promise = "pending" /\ result = {}

\* What an answer to a walk over the rows in rest may hold: the first of them.
Answers(rest) ==
  {rows \in SUBSET rest :
     /\ rows # {} /\ Cardinality(rows) <= MaxRepetitions
     /\ \A i \in rows, j \in rest \ rows : i < j}

\* The callback of an answer: a row gets the field of the column, and is made
\* when it is the first field of its index.  Varbind errors are skipped.
Feed(o) ==
  /\ walk[o] = "running"
  /\ \E rows \in Answers(pending[o]) : \E errors \in SUBSET rows :
       /\ interfaces' = [i \in Row |->
                           IF i \in rows \ errors THEN interfaces[i] \cup {o} ELSE interfaces[i]]
       /\ unread' = [unread EXCEPT ![o] = @ \cup errors]
       /\ pending' = [pending EXCEPT ![o] = @ \ rows]
  /\ UNCHANGED <<column, walk, completedWalks, session, promise, result>>

\* Mutant: a walk that failed is not counted.
CountedIfDone(o, end) == completedWalks + (IF end = "done" THEN 1 ELSE 0)

\* Mutant: a walk that failed is counted once for its error and once for its end.
CountedTwice(o, end) == completedWalks + (IF end = "failed" THEN 2 ELSE 1)

\* The callback of the end does not look at its error.
Counted(o, end) == completedWalks + 1

\* Mutant: the last but one walk resolves.
AllButOneEnded(count) == count + 1 = Cardinality(Oid)

\* Mutant: the first walk resolves.
OneEnded(count) == count = 1

AllEnded(count) == count = Cardinality(Oid)

\* resolve() after reject() does nothing; close() comes first in both cases.
WalkEnds(o, end) ==
  /\ walk[o] = "running"
  /\ end = "done" => pending[o] = {}
  /\ walk' = [walk EXCEPT ![o] = end]
  /\ completedWalks' = Counted(o, end)
  /\ IF AllEnded(completedWalks')
     THEN /\ session' = "closed"
          /\ IF promise = "pending"
             THEN promise' = "resolved" /\ result' = {i \in Row : interfaces[i] # {}}
             ELSE UNCHANGED <<promise, result>>
     ELSE UNCHANGED <<session, promise, result>>
  /\ UNCHANGED <<column, pending, interfaces, unread>>

\* Mutant: the error closes the session as well.
ClosedByError == "closed"

AfterError == session

SessionError ==
  /\ session = "open" /\ promise = "pending"
  /\ promise' = "rejected"
  /\ session' = AfterError
  /\ UNCHANGED <<column, pending, walk, interfaces, unread, completedWalks, result>>

Next ==
  \/ \E o \in Oid : Feed(o) \/ WalkEnds(o, "done") \/ WalkEnds(o, "failed")
  \/ SessionError

\* The session resends a request and gives up after its timeout: every walk
\* goes on to its next answer or ends.
Fairness == \A o \in Oid : WF_vars(Feed(o) \/ WalkEnds(o, "done") \/ WalkEnds(o, "failed"))

Spec == Init /\ [][Next]_vars
FairSpec == Spec /\ Fairness

-----------------------------------------------------------------------------
(* Properties.                                                             *)

\* The state of a query has its type: completedWalks does not run past the
\* number of OIDs.
SnmpTypeOK ==
  /\ column \in [Oid -> SUBSET Row] /\ pending \in [Oid -> SUBSET Row]
  /\ walk \in [Oid -> {"running", "done", "failed"}]
  /\ interfaces \in [Row -> SUBSET Oid]
  /\ unread \in [Oid -> SUBSET Row]
  /\ completedWalks \in 0 .. Cardinality(Oid)
  /\ session \in {"open", "closed"}
  /\ promise \in {"pending", "resolved", "rejected"}
  /\ result \subseteq Row

\* However answers, ends and errors of the walks interleave, a resolved result
\* misses nothing but what the router failed to say: every row of a column whose
\* walk ended well is in it, with that field, unless it came as a varbind error;
\* and no row is there without a field some walk read.
ResultIsComplete ==
  promise = "resolved" =>
    /\ \A o \in Oid : walk[o] = "done" =>
         \A i \in column[o] \ unread[o] : i \in result /\ o \in interfaces[i]
    /\ \A i \in result : interfaces[i] # {}

\* The session is never closed under a running walk, whose outstanding request
\* would be cancelled, and a resolved result is final: no walk is left that
\* would still write its rows.
NoWalkAfterTheEnd ==
  session = "closed" \/ promise = "resolved" => \A o \in Oid : walk[o] # "running"

\* Every query is answered and closes its session, also when walks fail and
\* when the session reports an error: no socket and no request is left behind.
EveryQueryEnds == <>(promise # "pending" /\ session = "closed")
=============================================================================
