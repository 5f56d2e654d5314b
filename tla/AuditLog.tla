------------------------------ MODULE AuditLog ------------------------------
(***************************************************************************)
(* The verification audit log (provable_ai/audit_log.py): POST /verify     *)
(* appends one row per call to a per-tenant hash chain in a SQLite file of *)
(* its own.  Server workers share the file; each step is one statement.    *)
(*                                                                         *)
(* As in ProofFormat, a chain hash is the list of the row hashes under it, *)
(* and a row hash is the content and the sequence number it covers.        *)
(***************************************************************************)
EXTENDS Naturals, Sequences, SequencesExt, FiniteSetsExt

CONSTANTS Workers,     \* server worker processes
          NoWorker,
          Tenants,
          Contents,    \* what a verify call leaves in its row
          Unhashable,  \* the contents with a lone surrogate: not UTF-8
          Unbindable,  \* the contents with an integer that SQLite cannot hold
          MaxCalls     \* bound: verify calls answered for one tenant

ASSUME AuditAssumption ==
    /\ NoWorker \notin Workers
    /\ Unhashable \subseteq Contents
    /\ Unbindable \subseteq Contents
    /\ MaxCalls \in Nat

VARIABLES
    db, lock, txn, conn, snap,   \* the audit database, see SqliteConnections
    pc,        \* per worker: the step it is about to take
    call,      \* per worker: the tenant and the content it is recording
    prev,      \* per worker: the chain hash it continues
    entry,     \* per worker: the row it is about to insert
    answered,  \* per tenant: verify calls the server has answered
    overlaps,  \* ghost: the pairs of tenants that were recorded for at once
    poisoned,  \* ghost: the workers whose open transaction goes back to content
               \* that SQLite could not hold
    excused    \* ghost, per tenant: calls that content left without a row

ghosts == <<overlaps, poisoned, excused>>
auditVars == <<pc, call, prev, entry, answered, ghosts>>
vars == <<db, lock, txn, conn, snap, auditVars>>

RowHash == [content : Contents, sequence_num : Nat]
ChainHash == Seq(RowHash)
Row == [content : Contents, sequence_num : Nat, row_hash : RowHash,
        prev_chain_hash : ChainHash, chain_hash : ChainHash]

GENESIS_HASH == <<>>
EmptyDb == [t \in Tenants |-> <<>>]
NoCall == [tenant |-> "none"]
NoRow == [sequence_num |-> 0]

INSTANCE SqliteConnections

-----------------------------------------------------------------------------
(* Hashing and verification.                                               *)

compute_row_hash(content, sequence_num) ==
    [content |-> content, sequence_num |-> sequence_num]

compute_chain_hash(prev_chain_hash, row_hash) == Append(prev_chain_hash, row_hash)

\* Mutant: ORDER BY id ASC.
get_latest_chain_hash_asc(rows) ==
    IF rows = <<>> THEN GENESIS_HASH ELSE Head(rows).chain_hash

\* SELECT chain_hash ... ORDER BY id DESC LIMIT 1
get_latest_chain_hash(rows) ==
    IF rows = <<>> THEN GENESIS_HASH ELSE Last(rows).chain_hash

\* Whether row continues a chain that ends in prev_chain_hash.
RowVerifies(row, prev_chain_hash) ==
    LET row_hash == compute_row_hash(row.content, row.sequence_num)
    IN  /\ row.row_hash = row_hash
        /\ row.chain_hash = compute_chain_hash(prev_chain_hash, row_hash)

verify_chain(rows) ==
    \A k \in DOMAIN rows :
        RowVerifies(rows[k], IF k = 1 THEN GENESIS_HASH ELSE rows[k - 1].chain_hash)

\* Mutant: sequence_num < n leaves the block itself out.
RowsUpToExclusive(rows, n) ==
    LET block == {k \in DOMAIN rows : rows[k].sequence_num < n}
        Before(k) == {j \in block : rows[j].sequence_num < rows[k].sequence_num}
    IN  [m \in 1 .. Cardinality(block) |->
            rows[CHOOSE k \in block : Cardinality(Before(k)) = m - 1]]

\* The rows verify_chain_at_block walks: WHERE sequence_num <= n ORDER BY sequence_num,
\* the row at place m being the one with m - 1 rows before it.
RowsUpTo(rows, n) ==
    LET block == {k \in DOMAIN rows : rows[k].sequence_num <= n}
        Before(k) == {j \in block : rows[j].sequence_num < rows[k].sequence_num}
    IN  [m \in 1 .. Cardinality(block) |->
            rows[CHOOSE k \in block : Cardinality(Before(k)) = m - 1]]

\* chain_hash is None when the block does not verify.
verify_chain_at_block(rows, n) ==
    LET block == RowsUpTo(rows, n)
    IN  IF verify_chain(block)
        THEN [valid |-> TRUE, chain_hash |-> get_latest_chain_hash(block)]
        ELSE [valid |-> FALSE, chain_hash |-> "None"]

-----------------------------------------------------------------------------
(* POST /verify: VerificationAuditLog.record.                              *)

Goto(w, step) == pc' = [pc EXCEPT ![w] = step]

\* The server answers the verify call, whether or not record raised.
Answer(w) ==
    /\ Goto(w, "idle")
    /\ answered' = [answered EXCEPT ![call[w].tenant] = @ + 1]
    /\ call' = [call EXCEPT ![w] = NoCall]
    /\ prev' = [prev EXCEPT ![w] = GENESIS_HASH]
    /\ entry' = [entry EXCEPT ![w] = NoRow]
    /\ UNCHANGED overlaps

\* The call of w for tenant t is answered without a row because of some content.
Excuse(t) == excused' = [excused EXCEPT ![t] = @ + 1]

\* int() of an infinite sequence_id: OverflowError, which _safe_get_int does not
\* catch, before anything is read.
ExtractFails(w) ==
    /\ pc[w] = "idle"
    /\ \E t \in Tenants :
          /\ answered[t] < MaxCalls
          /\ answered' = [answered EXCEPT ![t] = @ + 1]
          /\ Excuse(t)
    /\ UNCHANGED <<db, lock, txn, conn, snap, pc, call, prev, entry, overlaps, poisoned>>

\* The first SELECT: the chain hash to continue.
ReadPrevious(w) ==
    /\ pc[w] = "idle"
    /\ Read(w)
    /\ \E t \in Tenants, c \in Contents :
          /\ answered[t] < MaxCalls
          /\ call' = [call EXCEPT ![w] = [tenant |-> t, content |-> c]]
          /\ prev' = [prev EXCEPT ![w] = get_latest_chain_hash(View(w)[t])]
          /\ overlaps' = overlaps \cup
                {{t, call[v].tenant} : v \in {u \in Workers : pc[u] # "idle"}}
    /\ Goto(w, "sequence")
    /\ UNCHANGED <<entry, answered, poisoned, excused>>

NewRow(content, sequence_num, prev_chain_hash) ==
    LET row_hash == compute_row_hash(content, sequence_num)
    IN  [content         |-> content,
         sequence_num    |-> sequence_num,
         row_hash        |-> row_hash,
         prev_chain_hash |-> prev_chain_hash,
         chain_hash      |-> compute_chain_hash(prev_chain_hash, row_hash)]

\* Mutant: MAX(sequence_num) is taken for the next number.
NextSequenceSame(rows) == Max({rows[k].sequence_num : k \in DOMAIN rows} \cup {0})

\* COALESCE(MAX(sequence_num), 0) + 1
NextSequence(rows) == Max({rows[k].sequence_num : k \in DOMAIN rows} \cup {0}) + 1

\* The second SELECT: the sequence number.  Another worker may have committed
\* since the first one.
ReadSequence(w) ==
    /\ pc[w] = "sequence"
    /\ call[w].content \notin Unhashable
    /\ Read(w)
    /\ entry' = [entry EXCEPT ![w] =
          NewRow(call[w].content, NextSequence(View(w)[call[w].tenant]), prev[w])]
    /\ Goto(w, "insert")
    /\ UNCHANGED <<call, prev, answered, ghosts>>

\* UnicodeEncodeError in _compute_row_hash, after both SELECTs.
HashFails(w) ==
    /\ pc[w] = "sequence"
    /\ call[w].content \in Unhashable
    /\ Read(w)
    /\ Answer(w)
    /\ Excuse(call[w].tenant)
    /\ UNCHANGED poisoned

\* UNIQUE(tenant_id, sequence_num)
SequenceTaken(rows, row) ==
    \E k \in DOMAIN rows : rows[k].sequence_num = row.sequence_num

\* The values of the row can be bound to the INSERT.
ToInsert(w) == pc[w] = "insert" /\ call[w].content \notin Unbindable

\* Mutant: INSERT OR REPLACE.
InsertRowReplacing(w) ==
    /\ ToInsert(w)
    /\ LET t == call[w].tenant
           n == entry[w].sequence_num
       IN  Write(w, [Base(w) EXCEPT ![t] = IF n \in DOMAIN @
                                           THEN [@ EXCEPT ![n] = entry[w]]
                                           ELSE Append(@, entry[w])])
    /\ Goto(w, "commit")
    /\ UNCHANGED <<call, prev, entry, answered, ghosts>>

InsertRow(w) ==
    /\ ToInsert(w)
    /\ ~SequenceTaken(Base(w)[call[w].tenant], entry[w])
    /\ Write(w, [Base(w) EXCEPT ![call[w].tenant] = Append(@, entry[w])])
    /\ Goto(w, "commit")
    /\ UNCHANGED <<call, prev, entry, answered, ghosts>>

\* IntegrityError: nothing is inserted, but nobody rolls back and the
\* transaction keeps the write lock.  The handler swallows the exception.
InsertConflict(w) ==
    /\ ToInsert(w)
    /\ SequenceTaken(Base(w)[call[w].tenant], entry[w])
    /\ Write(w, Base(w))
    /\ Answer(w)
    /\ UNCHANGED <<poisoned, excused>>

\* OperationalError, swallowed as well.
InsertFails(w) ==
    /\ ToInsert(w)
    /\ WriteFails(w)
    /\ Answer(w)
    /\ IF w \in poisoned THEN Excuse(call[w].tenant) ELSE UNCHANGED excused
    /\ UNCHANGED poisoned

\* OverflowError: "Python int too large to convert to SQLite INTEGER".  By then
\* sqlite3 has begun the transaction, which nobody rolls back: the connection's
\* next SELECT pins it, the next commit of another worker leaves it stale, and
\* from then on every INSERT of this worker fails.
BindFails(w) ==
    /\ pc[w] = "insert"
    /\ call[w].content \in Unbindable
    /\ conn' = IF conn[w] = "closed" /\ lock # w THEN [conn EXCEPT ![w] = "open"] ELSE conn
    /\ UNCHANGED <<db, lock, txn, snap>>
    /\ Answer(w)
    /\ Excuse(call[w].tenant)
    /\ poisoned' = poisoned \cup {w}

CommitRow(w) ==
    /\ pc[w] = "commit"
    /\ Commit(w)
    /\ Answer(w)
    /\ poisoned' = poisoned \ {w}
    /\ UNCHANGED excused

\* A GET of the audit endpoints: one SELECT on the worker's connection.
ReadLog(w) ==
    /\ pc[w] = "idle"
    /\ Read(w)
    /\ UNCHANGED auditVars

\* The process dies and is restarted; its call is not answered.
Crash(w) ==
    /\ Rollback(w)
    /\ Goto(w, "idle")
    /\ call' = [call EXCEPT ![w] = NoCall]
    /\ prev' = [prev EXCEPT ![w] = GENESIS_HASH]
    /\ entry' = [entry EXCEPT ![w] = NoRow]
    /\ poisoned' = poisoned \ {w}
    /\ UNCHANGED <<answered, overlaps, excused>>

Init ==
    /\ db = EmptyDb
    /\ lock = NoWorker
    /\ txn = EmptyDb
    /\ conn = [w \in Workers |-> "closed"]
    /\ snap = [w \in Workers |-> EmptyDb]
    /\ pc = [w \in Workers |-> "idle"]
    /\ call = [w \in Workers |-> NoCall]
    /\ prev = [w \in Workers |-> GENESIS_HASH]
    /\ entry = [w \in Workers |-> NoRow]
    /\ answered = [t \in Tenants |-> 0]
    /\ overlaps = {}
    /\ poisoned = {}
    /\ excused = [t \in Tenants |-> 0]

Next == \E w \in Workers :
    \/ ExtractFails(w) \/ ReadPrevious(w) \/ ReadSequence(w) \/ HashFails(w)
    \/ InsertRow(w) \/ InsertConflict(w) \/ InsertFails(w) \/ BindFails(w)
    \/ CommitRow(w) \/ ReadLog(w) \/ Crash(w)

Spec == Init /\ [][Next]_vars

-----------------------------------------------------------------------------
(* Properties.                                                             *)

Database == [Tenants -> Seq(Row)]

\* Every variable has its type.
TypeOK ==
    /\ db \in Database /\ txn \in Database
    /\ lock \in Workers \cup {NoWorker}
    /\ conn \in [Workers -> ConnStates]
    /\ snap \in [Workers -> Database]
    /\ pc \in [Workers -> {"idle", "sequence", "insert", "commit"}]
    /\ call \in [Workers -> [tenant : Tenants, content : Contents] \cup {NoCall}]
    /\ prev \in [Workers -> ChainHash]
    /\ entry \in [Workers -> Row \cup {NoRow}]
    /\ answered \in [Tenants -> Nat]
    /\ overlaps \subseteq {{t, u} : t \in Tenants, u \in Tenants}
    /\ poisoned \subseteq Workers
    /\ excused \in [Tenants -> Nat]

\* Races of record may fork the chain but never leave it: every row's hashes
\* are right for its content, its sequence number is its position, and the
\* chain hash it continues is genesis or the one of an earlier row.
RowsAreChained ==
    \A t \in Tenants : \A k \in DOMAIN db[t] :
        LET row == db[t][k]
        IN  /\ row.sequence_num = k
            /\ RowVerifies(row, row.prev_chain_hash)
            /\ row.prev_chain_hash \in
                 {GENESIS_HASH} \cup {db[t][j].chain_hash : j \in 1 .. k - 1}

\* verify_chain_at_block(n) answers for the first n rows of the log, no more and
\* no fewer, and agrees with verify_chain on the whole of it.
BlocksAgree ==
    \A t \in Tenants : \A n \in DOMAIN db[t] :
        LET block == verify_chain_at_block(db[t], n)
        IN  /\ block.valid = verify_chain(SubSeq(db[t], 1, n))
            /\ block.valid => block.chain_hash = db[t][n].chain_hash

\* What holds of the log whatever the workers do: the types, rows that record
\* chained to genesis or to an earlier row of their tenant, and the answers of
\* verify_chain_at_block.
AuditInv == TypeOK /\ RowsAreChained /\ BlocksAgree

\* The triggers' promise: rows are only ever added at the end.
LogAppendOnly == [][\A t \in Tenants : IsPrefix(db[t], db'[t])]_db

\* record promises that "All three steps happen inside a single connection - atomic",
\* which sharing a connection does not make them.  What is left of the promise: a
\* chain nobody tampered with is broken only if two calls of record for its tenant
\* were under way at once.  Crashes, timeouts, another tenant's calls and
\* connections stuck in an old transaction never break it.
ForksNeedOverlap ==
    \A t \in Tenants : {t} \notin overlaps => verify_chain(db[t])

\* server/main.py: "every verify call recorded permanently".  What is left of it
\* while no two calls, of whatever tenants, have been under way at once: a call is
\* answered without a row only if its own content cannot be hashed or stored, or
\* if its worker is still stuck in the transaction that such content left open.
\* Stale connections, crashes and the busy timeout lose no other call.
LostCallsAreExplained ==
    overlaps = {} => \A t \in Tenants : answered[t] <= Len(db[t]) + excused[t]
=============================================================================
