----------------------------- MODULE AuditAnchor ----------------------------
(***************************************************************************)
(* The anchor store (provable_ai/audit_anchor.py): an append-only,         *)
(* hash-chained SQLite table of hashes that were shown to the outside      *)
(* world.  The statements of anchor() for one tenant, for AuditTrail to    *)
(* compose with its callers, and the store's queries.                      *)
(*                                                                         *)
(* Every row holds a fresh anchor_id, so its row hash and its chain hash   *)
(* are unique: a chain hash is named by the position of its row, 0 is      *)
(* ANCHOR_GENESIS, and prev_anchor is the row that a row continues.        *)
(***************************************************************************)
EXTENDS Naturals, Sequences, SequencesExt, FiniteSetsExt, TLC

CONSTANTS AnchorWorkers, NoWorker

VARIABLES db, lock, txn, conn, snap,   \* the anchor database, see SqliteConnections
          draft                        \* per worker: the anchor row it is making

dbVars == <<db, lock, txn, conn, snap>>

EmptyDb == <<>>
ANCHOR_GENESIS == 0
NoDraft == [anchor_seq |-> 0]

INSTANCE SqliteConnections WITH Workers <- AnchorWorkers

AnchorSeqs(rows) == {rows[n].anchor_seq : n \in DOMAIN rows}

\* SELECT MAX(anchor_seq): (row[0] or 0) + 1
NextAnchorSeq(rows) == Max(AnchorSeqs(rows) \cup {0}) + 1

\* anchor() takes the time and the sequence number.
SelectAnchorSeq(w, chain_hash, now) ==
    /\ Read(w)
    /\ draft' = [draft EXCEPT ![w] =
          [chain_hash |-> chain_hash, anchored_at |-> now,
           anchor_seq |-> NextAnchorSeq(View(w)), prev_anchor |-> ANCHOR_GENESIS]]

\* The time-stamping authority answers or does not (nothing but the row's text
\* depends on it, the time it takes is other workers' steps), the anchor line goes
\* to stdout and perhaps to S3, whose failure is logged; then the SELECT of the
\* row to continue.
SelectPreviousAnchor(w) ==
    /\ Read(w)
    /\ draft' = [draft EXCEPT ![w].prev_anchor = Len(View(w))]

InsertAnchor(w) == Write(w, Append(Base(w), draft[w])) /\ UNCHANGED draft

InsertAnchorFails(w) == WriteFails(w) /\ draft' = [draft EXCEPT ![w] = NoDraft]

\* Mutant: the row is not committed.
CommitAnchorMissing(w) == UNCHANGED dbVars /\ draft' = [draft EXCEPT ![w] = NoDraft]

CommitAnchor(w) == Commit(w) /\ draft' = [draft EXCEPT ![w] = NoDraft]

verify_anchor_chain(rows) == \A n \in DOMAIN rows : rows[n].prev_anchor = n - 1

\* ORDER BY anchor_seq ASC LIMIT 1: any row with the lowest number.
find(rows, chain_hash) ==
    LET hits == {n \in DOMAIN rows : rows[n].chain_hash = chain_hash}
    IN  {n \in hits : \A m \in hits : rows[n].anchor_seq <= rows[m].anchor_seq}

\* before_claim: when the anchor of the hash is taken to date from.
before_claim(rows, chain_hash, expected_before) ==
    \E n \in find(rows, chain_hash) : rows[n].anchored_at <= expected_before
=============================================================================
