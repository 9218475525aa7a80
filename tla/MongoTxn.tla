------------------------------ MODULE MongoTxn ------------------------------
(***************************************************************************)
(* The part of MongoDB the services rely on, modelled from how src/ uses   *)
(* it: connection.startSession / startTransaction / commitTransaction /    *)
(* endSession and updates issued with or without a session.  The database  *)
(* itself is external code.                                                *)
(*                                                                         *)
(* Every handler that opens a transaction uses its session for writes      *)
(* only: all reads (findOne, findById) are issued without it and return    *)
(* the last committed document.  The snapshot of a transaction is taken    *)
(* by its first write.  A write of a transaction to a document that        *)
(* another open transaction has written, or that somebody committed a      *)
(* write to since the snapshot was taken, is a WriteConflict: it does not  *)
(* wait, it fails.  A write without a session waits for the transaction    *)
(* that holds the document.                                                *)
(***************************************************************************)

CONSTANT Req            \* request slots of the server, one session each

VARIABLES
  writes,               \* writes[r]: documents the open transaction of r wrote
  missed                \* missed[r]: documents committed by others since its snapshot

txnVars == <<writes, missed>>

TxnInit ==
  /\ writes = [r \in Req |-> {}]
  /\ missed = [r \in Req |-> {}]

\* Every operation a transaction of this program performs is a write, so a
\* transaction has a snapshot exactly when it has written something.
HasSnapshot(r) == writes[r] # {}

WriteConflict(r, doc) ==
  \/ doc \in missed[r]
  \/ \E q \in Req \ {r} : doc \in writes[q]

TxnWrite(r, doc) ==
  /\ ~WriteConflict(r, doc)
  /\ writes' = [writes EXCEPT ![r] = @ \cup {doc}]
  /\ UNCHANGED missed

\* insertMany or updateMany: one conflict fails the whole call.
TxnWriteAll(r, docs) ==
  /\ \A doc \in docs : ~WriteConflict(r, doc)
  /\ writes' = [writes EXCEPT ![r] = @ \cup docs]
  /\ UNCHANGED missed

\* The documents of r become visible; the other open transactions miss them.
TxnCommit(r) ==
  /\ writes' = [writes EXCEPT ![r] = {}]
  /\ missed' = [q \in Req |-> IF q # r /\ HasSnapshot(q)
                              THEN missed[q] \cup writes[r] ELSE {}]

\* endSession aborts a transaction that was not committed.
TxnAbort(r) ==
  /\ writes' = [writes EXCEPT ![r] = {}]
  /\ missed' = [missed EXCEPT ![r] = {}]

\* One update without a session: a transaction of its own.
PlainWrite(doc) ==
  /\ \A q \in Req : doc \notin writes[q]
  /\ missed' = [q \in Req |-> IF HasSnapshot(q) THEN missed[q] \cup {doc} ELSE {}]
  /\ UNCHANGED writes

\* The client of every session is gone.
TxnAbortAll ==
  /\ writes' = [r \in Req |-> {}]
  /\ missed' = [r \in Req |-> {}]
=============================================================================
