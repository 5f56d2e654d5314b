--------------------------- MODULE AuditLogProofs ---------------------------
(* Proofs about AuditLog, for every set of workers, tenants and contents   *)
(* and every number of calls.                                              *)
EXTENDS AuditLog, SequenceTheorems, FiniteSetTheorems, TLAPS

-----------------------------------------------------------------------------
(* The inductive invariant.                                                *)

\* A worker that is recording has a call, and a row once it is to insert one.
ShapeOK ==
    \A w \in Workers :
        /\ pc[w] # "idle" => call[w] \in [tenant : Tenants, content : Contents]
        /\ pc[w] \in {"insert", "commit"} => entry[w] \in Row

TypeInv == TypeOK /\ ShapeOK

\* The log now goes on from the log before.
Grown(rows, more) ==
    Len(rows) <= Len(more) /\ \A k \in 1 .. Len(rows) : rows[k] = more[k]

\* The chain hashes that a row after rows may continue.
Known(rows) == {GENESIS_HASH} \cup {rows[j].chain_hash : j \in 1 .. Len(rows)}

\* What RowsAreChained says of the rows of one tenant.
Chained(rows) ==
    \A k \in 1 .. Len(rows) :
        /\ rows[k].sequence_num = k
        /\ RowVerifies(rows[k], rows[k].prev_chain_hash)
        /\ rows[k].prev_chain_hash \in
             {GENESIS_HASH} \cup {rows[j].chain_hash : j \in 1 .. k - 1}

\* A connection stuck in an old transaction reads an old log.
SnapshotsAreOld ==
    \A w \in Workers : conn[w] = "stale" => \A t \in Tenants : Grown(snap[w][t], db[t])

\* Who is about to commit holds the lock, and who holds the lock has changed
\* nothing but the row it is about to commit.
LockDiscipline ==
    \A w \in Workers :
        /\ pc[w] = "commit" => lock = w
        /\ lock = w =>
              /\ conn[w] # "stale"
              /\ pc[w] = "commit" =>
                    txn = [db EXCEPT ![call[w].tenant] = Append(@, entry[w])]
              /\ pc[w] # "commit" => txn = db

\* What a worker has read is of the log: the chain hash it continues and the
\* number after some row of it; and the number after the last row once the
\* unique index has let the row through.
DraftInv(w) ==
    LET rows == db[call[w].tenant]
    IN  /\ pc[w] # "idle" => prev[w] \in Known(rows)
        /\ pc[w] \in {"insert", "commit"} =>
              /\ entry[w] = NewRow(call[w].content, entry[w].sequence_num, prev[w])
              /\ entry[w].sequence_num \in 1 .. Len(rows) + 1
        /\ pc[w] = "commit" => entry[w].sequence_num = Len(rows) + 1

\* The ghost has every two calls that are under way at once.
OverlapsAreSeen ==
    \A v, w \in Workers :
        (v # w /\ pc[v] # "idle" /\ pc[w] # "idle") =>
            {call[v].tenant, call[w].tenant} \in overlaps

\* A call that has had its tenant to itself and is not stuck in an old
\* transaction continues the end of the log.
AloneAtEnd(w) ==
    (pc[w] # "idle" /\ {call[w].tenant} \notin overlaps /\ conn[w] # "stale") =>
        prev[w] = get_latest_chain_hash(db[call[w].tenant])

\* As long as no two calls have overlapped, a connection is stuck only where
\* content left it so, the lock is only held to commit, and the numbers of who is
\* not stuck are up to date.
QuietInv ==
    overlaps = {} =>
        /\ \A w \in Workers :
              /\ conn[w] # "closed" => w \in poisoned
              /\ lock = w => pc[w] = "commit"
              /\ (pc[w] = "insert" /\ conn[w] # "stale") =>
                    entry[w].sequence_num = Len(db[call[w].tenant]) + 1
        /\ \A t \in Tenants : answered[t] <= Len(db[t]) + excused[t]

IInv ==
    /\ \A t \in Tenants : Chained(db[t])
    /\ \A t \in Tenants : {t} \notin overlaps => verify_chain(db[t])
    /\ SnapshotsAreOld
    /\ LockDiscipline
    /\ \A w \in Workers : DraftInv(w) /\ AloneAtEnd(w)
    /\ OverlapsAreSeen
    /\ QuietInv

-----------------------------------------------------------------------------
(* Types.                                                                  *)

\* The empty log is a log.
LEMMA EmptyDbType == EmptyDb \in Database
<1>1. <<>> \in Seq(Row) OBVIOUS
<1> QED BY <1>1 DEF EmptyDb, Database

\* A worker reads and starts its writes from a whole database.
LEMMA ViewType ==
    ASSUME TypeOK, NEW w \in Workers
    PROVE  View(w) \in Database /\ Base(w) \in Database
BY DEF TypeOK, View, Base

\* The hash a log ends in is a hash.
LEMMA LatestType ==
    ASSUME NEW rows \in Seq(Row)
    PROVE  get_latest_chain_hash(rows) \in ChainHash
<1>1. CASE rows = <<>>
  BY <1>1 DEF get_latest_chain_hash, GENESIS_HASH, ChainHash
<1>2. CASE rows # <<>>
  <2>1. rows[Len(rows)] \in Row BY <1>2
  <2> QED BY <1>2, <2>1 DEF get_latest_chain_hash, Last, Row
<1> QED BY <1>1, <1>2

\* A row built on a chain hash is a row.
LEMMA NewRowType ==
    ASSUME NEW c \in Contents, NEW n \in Nat, NEW h \in ChainHash
    PROVE  NewRow(c, n, h) \in Row
<1>1. compute_row_hash(c, n) \in RowHash BY DEF compute_row_hash, RowHash
<1>2. compute_chain_hash(h, compute_row_hash(c, n)) \in ChainHash
  BY <1>1 DEF compute_chain_hash, ChainHash
<1> QED BY <1>1, <1>2 DEF NewRow, Row

\* In a log whose rows are numbered by their places, MAX(sequence_num) + 1 is
\* the place after the last row.
LEMMA NextSequenceIs ==
    ASSUME NEW rows \in Seq(Row), Chained(rows)
    PROVE  NextSequence(rows) = Len(rows) + 1
<1> DEFINE nums == {rows[k].sequence_num : k \in DOMAIN rows} \cup {0}
<1>1. nums = 0 .. Len(rows)
  <2>1. \A k \in 1 .. Len(rows) : rows[k].sequence_num = k BY DEF Chained
  <2>2. DOMAIN rows = 1 .. Len(rows) OBVIOUS
  <2> QED BY <2>1, <2>2
<1> HIDE DEF nums
<1>a. Len(rows) \in Nat OBVIOUS
<1>2. Len(rows) \in nums /\ \A y \in nums : Len(rows) >= y BY <1>1, <1>a
<1>3. Max(nums) \in nums /\ \A y \in nums : Max(nums) >= y BY <1>2 DEF Max
<1>4. Max(nums) = Len(rows) BY <1>1, <1>2, <1>3, <1>a
<1> QED BY <1>4 DEF NextSequence, nums

\* An old state of a chained log is chained.
LEMMA OldChained ==
    ASSUME NEW old \in Seq(Row), NEW rows \in Seq(Row), Grown(old, rows), Chained(rows)
    PROVE  Chained(old)
<1> SUFFICES ASSUME NEW k \in 1 .. Len(old)
             PROVE  /\ old[k].sequence_num = k
                    /\ RowVerifies(old[k], old[k].prev_chain_hash)
                    /\ old[k].prev_chain_hash \in
                         {GENESIS_HASH} \cup {old[j].chain_hash : j \in 1 .. k - 1}
  BY DEF Chained
<1>1. k \in 1 .. Len(rows) /\ old[k] = rows[k] BY DEF Grown
<1>2. \A j \in 1 .. k - 1 : old[j] = rows[j] BY DEF Grown
<1>3. {old[j].chain_hash : j \in 1 .. k - 1} = {rows[j].chain_hash : j \in 1 .. k - 1}
  BY <1>2
<1> QED BY <1>1, <1>3 DEF Chained

\* Every worker reads a chained log.
LEMMA ViewChained ==
    ASSUME TypeInv, IInv, NEW w \in Workers, NEW t \in Tenants
    PROVE  View(w)[t] \in Seq(Row) /\ Chained(View(w)[t]) /\ Grown(View(w)[t], db[t])
<1>1. db[t] \in Seq(Row) /\ snap[w][t] \in Seq(Row) BY DEF TypeInv, TypeOK, Database
<1>2. Chained(db[t]) BY DEF IInv
<1>3. CASE conn[w] = "stale"
  <2>1. Grown(snap[w][t], db[t]) BY <1>3 DEF IInv, SnapshotsAreOld
  <2>2. Chained(snap[w][t]) BY <2>1, <1>1, <1>2, OldChained
  <2> QED BY <2>1, <2>2, <1>1, <1>3 DEF View
<1>4. CASE conn[w] # "stale" BY <1>4, <1>1, <1>2 DEF View, Grown
<1> QED BY <1>3, <1>4

\* What the connection steps do to the types of the database.
ConnTypes ==
    /\ db' \in Database /\ txn' \in Database
    /\ lock' \in Workers \cup {NoWorker}
    /\ conn' \in [Workers -> ConnStates]
    /\ snap' \in [Workers -> Database]

\* What a step does to the types of the ghosts that know about content.
GhostTypes == poisoned' \subseteq Workers /\ excused' \in [Tenants -> Nat]

\* SELECT, write, failed write, commit and rollback keep the types.
LEMMA ConnType ==
    ASSUME TypeOK, NEW w \in Workers,
           \/ Read(w) \/ WriteFails(w) \/ Commit(w) \/ Rollback(w) \/ BindFails(w)
           \/ \E new \in Database : Write(w, new)
    PROVE  ConnTypes
<1>1. CASE Read(w) BY <1>1 DEF Read, TypeOK, ConnTypes, ConnStates
<1>2. CASE WriteFails(w) BY <1>2 DEF WriteFails, TypeOK, ConnTypes, ConnStates
<1>3. CASE Commit(w)
  BY <1>3, EmptyDbType DEF Commit, Release, TypeOK, ConnTypes, ConnStates
<1>4. CASE Rollback(w)
  BY <1>4, EmptyDbType DEF Rollback, Release, TypeOK, ConnTypes, ConnStates
<1>5. CASE \E new \in Database : Write(w, new)
  BY <1>5 DEF Write, TypeOK, ConnTypes
<1>6. CASE BindFails(w) BY <1>6 DEF BindFails, TypeOK, ConnTypes, ConnStates
<1> QED BY <1>1, <1>2, <1>3, <1>4, <1>5, <1>6

\* Answering a verify call keeps the types.
LEMMA AnswerType ==
    ASSUME TypeInv, NEW w \in Workers, pc[w] # "idle", Answer(w), ConnTypes, GhostTypes
    PROVE  TypeInv'
<1>1. call[w].tenant \in Tenants BY DEF TypeInv, ShapeOK
<1>2. GENESIS_HASH \in ChainHash BY DEF GENESIS_HASH, ChainHash
<1>3. answered' \in [Tenants -> Nat] BY <1>1 DEF TypeInv, TypeOK, Answer
<1>4. /\ pc' \in [Workers -> {"idle", "sequence", "insert", "commit"}]
      /\ call' \in [Workers -> [tenant : Tenants, content : Contents] \cup {NoCall}]
      /\ prev' \in [Workers -> ChainHash]
      /\ entry' \in [Workers -> Row \cup {NoRow}]
      /\ overlaps' = overlaps
  BY <1>2 DEF TypeInv, TypeOK, Answer, Goto
<1>5. ShapeOK' BY DEF TypeInv, TypeOK, ShapeOK, Answer, Goto
<1> QED BY <1>3, <1>4, <1>5 DEF TypeInv, TypeOK, ConnTypes, GhostTypes

\* The initial state has the types.
LEMMA InitType == Init => TypeInv
<1>1. GENESIS_HASH \in ChainHash BY DEF GENESIS_HASH, ChainHash
<1> QED BY <1>1, EmptyDbType DEF Init, TypeInv, TypeOK, ShapeOK, ConnStates

\* Every step keeps the types.
LEMMA NextType == TypeInv /\ IInv /\ [Next]_vars => TypeInv'
<1> SUFFICES ASSUME TypeInv, IInv, [Next]_vars PROVE TypeInv' OBVIOUS
<1>0. TypeOK /\ ShapeOK BY DEF TypeInv
<1>1. CASE UNCHANGED vars 
  BY <1>1, <1>0 DEF TypeInv, TypeOK, ShapeOK, vars, auditVars, ghosts
<1>2. ASSUME NEW w \in Workers,
             \/ ExtractFails(w) \/ ReadPrevious(w) \/ ReadSequence(w) \/ HashFails(w)
             \/ InsertRow(w) \/ InsertConflict(w) \/ InsertFails(w) \/ BindFails(w)
             \/ CommitRow(w) \/ ReadLog(w) \/ Crash(w)
      PROVE  TypeInv'
  <2>0. View(w) \in Database /\ Base(w) \in Database BY <1>0, ViewType
  <2>a. \A t \in Tenants : Excuse(t) => excused' \in [Tenants -> Nat]
    BY <1>0 DEF Excuse, TypeOK
  <2>b. pc[w] # "idle" => call[w].tenant \in Tenants BY <1>0 DEF ShapeOK
  <2>1. CASE ReadPrevious(w)
    <3>1. ConnTypes BY <2>1, <1>0, ConnType DEF ReadPrevious
    <3>2. PICK t \in Tenants, c \in Contents :
            /\ call' = [call EXCEPT ![w] = [tenant |-> t, content |-> c]]
            /\ prev' = [prev EXCEPT ![w] = get_latest_chain_hash(View(w)[t])]
            /\ overlaps' = overlaps \cup
                  {{t, call[v].tenant} : v \in {u \in Workers : pc[u] # "idle"}}
      BY <2>1 DEF ReadPrevious
    <3>3. View(w)[t] \in Seq(Row) BY <2>0 DEF Database
    <3>4. prev' \in [Workers -> ChainHash] BY <3>2, <3>3, <1>0, LatestType DEF TypeOK
    <3>5. \A u \in Workers : pc[u] # "idle" => call[u].tenant \in Tenants
      BY <1>0 DEF ShapeOK
    <3>6. overlaps' \subseteq {{a, b} : a \in Tenants, b \in Tenants}
      BY <3>2, <3>5, <1>0 DEF TypeOK
    <3> QED BY <3>1, <3>2, <3>4, <3>6, <2>1, <1>0
            DEF ReadPrevious, Goto, TypeInv, TypeOK, ShapeOK, ConnTypes
  <2>2. CASE ReadSequence(w)
    <3>1. ConnTypes BY <2>2, <1>0, ConnType DEF ReadSequence
    <3>2. call[w] \in [tenant : Tenants, content : Contents] /\ prev[w] \in ChainHash
      BY <2>2, <1>0 DEF ReadSequence, ShapeOK, TypeOK
    <3>3. NextSequence(View(w)[call[w].tenant]) \in Nat
      BY <3>2, ViewChained, NextSequenceIs
    <3>4. NewRow(call[w].content, NextSequence(View(w)[call[w].tenant]), prev[w]) \in Row
      BY <3>2, <3>3, NewRowType
    <3> QED BY <3>1, <3>2, <3>4, <2>2, <1>0
            DEF ReadSequence, Goto, TypeInv, TypeOK, ShapeOK, ConnTypes, ghosts
  <2>3. CASE InsertRow(w)
    <3>1. call[w].tenant \in Tenants /\ entry[w] \in Row
      BY <2>3, <1>0 DEF InsertRow, ToInsert, ShapeOK
    <3>2. Append(Base(w)[call[w].tenant], entry[w]) \in Seq(Row)
      BY <3>1, <2>0 DEF Database
    <3>3. [Base(w) EXCEPT ![call[w].tenant] = Append(@, entry[w])] \in Database
      BY <3>1, <3>2, <2>0 DEF Database
    <3>4. ConnTypes BY <3>3, <2>3, <1>0, ConnType DEF InsertRow
    <3> QED BY <3>4, <2>3, <1>0
            DEF InsertRow, ToInsert, Goto, TypeInv, TypeOK, ShapeOK, ConnTypes, ghosts
  <2>4. CASE InsertConflict(w)
    <3>1. ConnTypes BY <2>4, <2>0, <1>0, ConnType DEF InsertConflict
    <3>2. GhostTypes BY <2>4, <1>0 DEF InsertConflict, GhostTypes, TypeOK
    <3> QED BY <3>1, <3>2, <2>4, AnswerType DEF InsertConflict, ToInsert
  <2>5. CASE InsertFails(w)
    <3>1. ConnTypes BY <2>5, <1>0, ConnType DEF InsertFails
    <3>2. pc[w] = "insert" BY <2>5 DEF InsertFails, ToInsert
    <3>3. GhostTypes BY <3>2, <2>5, <2>a, <2>b, <1>0 DEF InsertFails, GhostTypes, TypeOK
    <3> QED BY <3>1, <3>2, <3>3, <2>5, AnswerType DEF InsertFails
  <2>6. CASE CommitRow(w)
    <3>1. ConnTypes BY <2>6, <1>0, ConnType DEF CommitRow
    <3>2. GhostTypes BY <2>6, <1>0 DEF CommitRow, GhostTypes, TypeOK
    <3> QED BY <3>1, <3>2, <2>6, AnswerType DEF CommitRow
  <2>7. CASE ReadLog(w)
    <3>1. ConnTypes BY <2>7, <1>0, ConnType DEF ReadLog
    <3> QED BY <3>1, <2>7, <1>0
            DEF ReadLog, TypeInv, TypeOK, ShapeOK, ConnTypes, auditVars, ghosts
  <2>8. CASE Crash(w)
    <3>1. ConnTypes BY <2>8, <1>0, ConnType DEF Crash
    <3>2. GENESIS_HASH \in ChainHash BY DEF GENESIS_HASH, ChainHash
    <3> QED BY <3>1, <3>2, <2>8, <1>0
            DEF Crash, Goto, TypeInv, TypeOK, ShapeOK, ConnTypes
  <2>9. CASE ExtractFails(w)
    <3>1. PICK t \in Tenants : answered' = [answered EXCEPT ![t] = @ + 1] /\ Excuse(t)
      BY <2>9 DEF ExtractFails
    <3>2. answered' \in [Tenants -> Nat] /\ excused' \in [Tenants -> Nat]
      BY <3>1, <2>a, <1>0 DEF TypeOK
    <3> QED BY <3>2, <2>9, <1>0 DEF ExtractFails, TypeInv, TypeOK, ShapeOK
  <2>10. CASE HashFails(w)
    <3>1. ConnTypes BY <2>10, <1>0, ConnType DEF HashFails
    <3>2. pc[w] = "sequence" BY <2>10 DEF HashFails
    <3>3. GhostTypes BY <3>2, <2>10, <2>a, <2>b, <1>0 DEF HashFails, GhostTypes, TypeOK
    <3> QED BY <3>1, <3>2, <3>3, <2>10, AnswerType DEF HashFails
  <2>11. CASE BindFails(w)
    <3>1. ConnTypes BY <2>11, <1>0, ConnType
    <3>2. pc[w] = "insert" BY <2>11 DEF BindFails
    <3>3. GhostTypes BY <3>2, <2>11, <2>a, <2>b, <1>0 DEF BindFails, GhostTypes, TypeOK
    <3> QED BY <3>1, <3>2, <3>3, <2>11, AnswerType DEF BindFails
  <2> QED BY <1>2, <2>1, <2>2, <2>3, <2>4, <2>5, <2>6, <2>7, <2>8, <2>9, <2>10, <2>11
<1> QED BY <1>1, <1>2 DEF Next

-----------------------------------------------------------------------------
(* Rows.                                                                   *)

\* A log goes on from itself with one row more, and from itself.
LEMMA GrownAppend ==
    ASSUME NEW rows \in Seq(Row), NEW row \in Row
    PROVE  /\ Append(rows, row) \in Seq(Row)
           /\ Len(Append(rows, row)) = Len(rows) + 1
           /\ Append(rows, row)[Len(rows) + 1] = row
           /\ \A k \in 1 .. Len(rows) : Append(rows, row)[k] = rows[k]
           /\ Grown(rows, Append(rows, row))
           /\ get_latest_chain_hash(Append(rows, row)) = row.chain_hash
<1>1. /\ Append(rows, row) \in Seq(Row)
      /\ Len(Append(rows, row)) = Len(rows) + 1
      /\ Append(rows, row)[Len(rows) + 1] = row
      /\ \A k \in 1 .. Len(rows) : Append(rows, row)[k] = rows[k]
  BY AppendProperties
<1>2. Append(rows, row) # <<>> BY <1>1
<1>3. get_latest_chain_hash(Append(rows, row)) = row.chain_hash
  BY <1>1, <1>2 DEF get_latest_chain_hash, Last
<1> QED BY <1>1, <1>3 DEF Grown

\* What grows once more has grown.
LEMMA GrownTransitive ==
    ASSUME NEW a \in Seq(Row), NEW b \in Seq(Row), NEW c \in Seq(Row),
           Grown(a, b), Grown(b, c)
    PROVE  Grown(a, c)
BY DEF Grown

\* The hash a log ends in is one to continue.
LEMMA LatestKnown ==
    ASSUME NEW rows \in Seq(Row)
    PROVE  get_latest_chain_hash(rows) \in Known(rows)
<1>1. CASE rows = <<>> BY <1>1 DEF get_latest_chain_hash, Known
<1>2. CASE rows # <<>>
  <2>1. Len(rows) \in 1 .. Len(rows) BY <1>2
  <2> QED BY <1>2, <2>1 DEF get_latest_chain_hash, Last, Known
<1> QED BY <1>1, <1>2

\* What can be continued can still be continued later.
LEMMA KnownGrows ==
    ASSUME NEW a \in Seq(Row), NEW b \in Seq(Row), Grown(a, b)
    PROVE  Known(a) \subseteq Known(b)
<1>1. \A j \in 1 .. Len(a) : j \in 1 .. Len(b) /\ a[j] = b[j] BY DEF Grown
<1>2. {a[j].chain_hash : j \in 1 .. Len(a)} \subseteq {b[j].chain_hash : j \in 1 .. Len(b)}
  BY <1>1
<1> QED BY <1>2 DEF Known

\* Number n is not taken in a chained log only if it is the next one.
LEMMA FreshIsNext ==
    ASSUME NEW rows \in Seq(Row), Chained(rows), NEW row \in Row,
           row.sequence_num \in 1 .. Len(rows) + 1, ~SequenceTaken(rows, row)
    PROVE  row.sequence_num = Len(rows) + 1
<1>1. \A k \in 1 .. Len(rows) : rows[k].sequence_num = k BY DEF Chained
<1>2. DOMAIN rows = 1 .. Len(rows) OBVIOUS
<1>3. row.sequence_num \notin 1 .. Len(rows) BY <1>1, <1>2 DEF SequenceTaken
<1> QED BY <1>3

\* The next number is not taken.
LEMMA NextIsFresh ==
    ASSUME NEW rows \in Seq(Row), Chained(rows), NEW row \in Row,
           row.sequence_num = Len(rows) + 1
    PROVE  ~SequenceTaken(rows, row)
<1>1. \A k \in 1 .. Len(rows) : rows[k].sequence_num = k BY DEF Chained
<1>2. DOMAIN rows = 1 .. Len(rows) OBVIOUS
<1> QED BY <1>1, <1>2 DEF SequenceTaken

\* A row that record built on a known hash and the next number keeps the log
\* chained; built on its end, it keeps verify_chain content.
LEMMA ChainedAppend ==
    ASSUME NEW rows \in Seq(Row), Chained(rows),
           NEW c \in Contents, NEW h \in ChainHash, h \in Known(rows),
           NEW row, row = NewRow(c, Len(rows) + 1, h)
    PROVE  /\ Chained(Append(rows, row))
           /\ (verify_chain(rows) /\ h = get_latest_chain_hash(rows))
                 => verify_chain(Append(rows, row))
<1> DEFINE new == Append(rows, row)
<1>0. row \in Row BY NewRowType
<1>1. /\ new \in Seq(Row) /\ Len(new) = Len(rows) + 1 /\ new[Len(rows) + 1] = row
      /\ \A k \in 1 .. Len(rows) : new[k] = rows[k]
  BY <1>0, GrownAppend
<1>2. /\ row.sequence_num = Len(rows) + 1 /\ row.prev_chain_hash = h
      /\ RowVerifies(row, h)
  BY DEF NewRow, RowVerifies
<1> HIDE DEF new
<1>3. Chained(new)
  <2> SUFFICES ASSUME NEW k \in 1 .. Len(rows) + 1
               PROVE  /\ new[k].sequence_num = k
                      /\ RowVerifies(new[k], new[k].prev_chain_hash)
                      /\ new[k].prev_chain_hash \in
                           {GENESIS_HASH} \cup {new[j].chain_hash : j \in 1 .. k - 1}
    BY <1>1 DEF Chained
  <2>1. {new[j].chain_hash : j \in 1 .. k - 1} = {rows[j].chain_hash : j \in 1 .. k - 1}
    BY <1>1
  <2>2. CASE k = Len(rows) + 1
    <3>1. 1 .. k - 1 = 1 .. Len(rows) BY <2>2
    <3> QED BY <2>1, <2>2, <3>1, <1>1, <1>2 DEF Known
  <2>3. CASE k # Len(rows) + 1
    <3>1. k \in 1 .. Len(rows) BY <2>3
    <3> QED BY <3>1, <2>1, <1>1 DEF Chained
  <2> QED BY <2>2, <2>3
<1>4. ASSUME verify_chain(rows), h = get_latest_chain_hash(rows)
      PROVE  verify_chain(new)
  <2>0. DOMAIN rows = 1 .. Len(rows) /\ DOMAIN new = 1 .. Len(rows) + 1
    BY <1>1
  <2> SUFFICES ASSUME NEW k \in 1 .. Len(rows) + 1
               PROVE  RowVerifies(new[k], IF k = 1 THEN GENESIS_HASH
                                          ELSE new[k - 1].chain_hash)
    BY <2>0 DEF verify_chain
  <2>1. CASE k = Len(rows) + 1
    <3>1. CASE rows = <<>>
      BY <3>1, <2>1, <1>1, <1>2, <1>4 DEF get_latest_chain_hash
    <3>2. CASE rows # <<>>
      <4>1. Len(rows) \in 1 .. Len(rows) /\ k # 1 /\ k - 1 = Len(rows) BY <3>2, <2>1
      <4> QED BY <4>1, <3>2, <2>1, <1>1, <1>2, <1>4 DEF get_latest_chain_hash, Last
    <3> QED BY <3>1, <3>2
  <2>2. CASE k # Len(rows) + 1
    <3>1. k \in 1 .. Len(rows) /\ (k # 1 => k - 1 \in 1 .. Len(rows)) BY <2>2
    <3>2. RowVerifies(rows[k], IF k = 1 THEN GENESIS_HASH ELSE rows[k - 1].chain_hash)
      BY <3>1, <2>0, <1>4 DEF verify_chain
    <3> QED BY <3>1, <3>2, <1>1
  <2> QED BY <2>1, <2>2
<1> QED BY <1>3, <1>4 DEF new

-----------------------------------------------------------------------------
(* The inductive invariant holds at first and after every step.            *)

\* Nothing is recorded and nobody holds anything at first.
LEMMA InitInv == Init => IInv
<1> SUFFICES ASSUME Init PROVE IInv OBVIOUS
<1>1. \A t \in Tenants : db[t] = <<>> /\ answered[t] = 0 /\ excused[t] = 0
  BY DEF Init, EmptyDb
<1>2. \A t \in Tenants : Chained(db[t]) /\ verify_chain(db[t])
  BY <1>1 DEF Chained, verify_chain
<1>3. \A w \in Workers : pc[w] = "idle" /\ conn[w] = "closed" /\ lock # w
  BY AuditAssumption DEF Init
<1>4. QuietInv BY <1>1, <1>3 DEF QuietInv
<1>5. SnapshotsAreOld /\ LockDiscipline /\ OverlapsAreSeen
  BY <1>3 DEF SnapshotsAreOld, LockDiscipline, OverlapsAreSeen
<1>6. \A w \in Workers : DraftInv(w) /\ AloneAtEnd(w) BY <1>3 DEF DraftInv, AloneAtEnd
<1> QED BY <1>2, <1>4, <1>5, <1>6 DEF IInv

\* What a step leaves alone of the workers other than the one that takes it.
OthersKeep(w) ==
    \A v \in Workers \ {w} :
        pc'[v] = pc[v] /\ call'[v] = call[v] /\ prev'[v] = prev[v] /\ entry'[v] = entry[v]

\* A worker is idle again, with no call, once it has answered or crashed.
LEMMA AnswerSteps ==
    ASSUME TypeInv, NEW w \in Workers, Answer(w)
    PROVE  /\ pc'[w] = "idle" /\ OthersKeep(w) /\ overlaps' = overlaps
           /\ \A t \in Tenants :
                 answered'[t] = IF t = call[w].tenant THEN answered[t] + 1 ELSE answered[t]
BY DEF Answer, Goto, TypeInv, TypeOK, OthersKeep

\* One more call answered, and excused for its content, keeps the count.
LEMMA QuietCount ==
    ASSUME TypeInv, IInv, overlaps = {}, NEW u, db' = db,
           \A t \in Tenants :
              /\ answered'[t] = IF t = u THEN answered[t] + 1 ELSE answered[t]
              /\ excused'[t] = IF t = u THEN excused[t] + 1 ELSE excused[t]
    PROVE  \A t \in Tenants : answered'[t] <= Len(db'[t]) + excused'[t]
<1> SUFFICES ASSUME NEW t \in Tenants PROVE answered'[t] <= Len(db'[t]) + excused'[t]
  OBVIOUS
<1>1. /\ answered[t] <= Len(db[t]) + excused[t]
      /\ answered[t] \in Nat /\ excused[t] \in Nat /\ Len(db[t]) \in Nat
  BY DEF IInv, QuietInv, TypeInv, TypeOK, Database
<1> QED BY <1>1

\* The first SELECT of record.
LEMMA ReadPreviousInv ==
    ASSUME TypeInv, IInv, NEW w \in Workers, ReadPrevious(w)
    PROVE  IInv'
<1>0. TypeOK /\ ShapeOK BY DEF TypeInv
<1>1. PICK t \in Tenants, c \in Contents :
        /\ call' = [call EXCEPT ![w] = [tenant |-> t, content |-> c]]
        /\ prev' = [prev EXCEPT ![w] = get_latest_chain_hash(View(w)[t])]
        /\ overlaps' = overlaps \cup
              {{t, call[v].tenant} : v \in {u \in Workers : pc[u] # "idle"}}
  BY DEF ReadPrevious
<1>2. /\ pc[w] = "idle" /\ pc'[w] = "sequence"
      /\ call'[w] = [tenant |-> t, content |-> c]
      /\ prev'[w] = get_latest_chain_hash(View(w)[t])
      /\ OthersKeep(w)
  BY <1>0, <1>1 DEF ReadPrevious, Goto, TypeOK, OthersKeep
<1>3. /\ UNCHANGED <<db, lock, txn, snap, entry, answered, poisoned, excused>>
      /\ conn \in [Workers -> ConnStates]
      /\ \A v \in Workers : conn'[v] = IF v = w /\ conn[v] = "open" THEN "pinned" ELSE conn[v]
  BY <1>0 DEF ReadPrevious, Read, TypeOK
<1>4. overlaps \subseteq overlaps'
      /\ \A v \in Workers : pc[v] # "idle" => {t, call[v].tenant} \in overlaps'
  BY <1>1
<1>5. call'[w].tenant = t BY <1>2
<1>6. \A x \in Tenants : Chained(db'[x]) /\ ({x} \notin overlaps' => verify_chain(db'[x]))
  BY <1>3, <1>4 DEF IInv
<1>7. SnapshotsAreOld' BY <1>3 DEF IInv, SnapshotsAreOld
<1>8. LockDiscipline'
  BY <1>2, <1>3 DEF IInv, LockDiscipline, OthersKeep
<1>9. \A v \in Workers : DraftInv(v)' /\ AloneAtEnd(v)'
  <2>1. ASSUME NEW v \in Workers, v # w PROVE DraftInv(v)' /\ AloneAtEnd(v)'
    <3>1. DraftInv(v) /\ AloneAtEnd(v) BY DEF IInv
    <3> QED BY <3>1, <2>1, <1>2, <1>3, <1>4 DEF DraftInv, AloneAtEnd, OthersKeep
  <2>2. DraftInv(w)'
    <3>1. View(w)[t] \in Seq(Row) /\ Grown(View(w)[t], db[t]) BY ViewChained
    <3>2. db[t] \in Seq(Row) BY <1>0 DEF TypeOK, Database
    <3>3. prev'[w] \in Known(db[t]) BY <3>1, <3>2, <1>2, LatestKnown, KnownGrows
    <3> QED BY <3>3, <1>2, <1>3, <1>5 DEF DraftInv
  <2>3. AloneAtEnd(w)' BY <1>2, <1>3, <1>5 DEF AloneAtEnd, View
  <2> QED BY <2>1, <2>2, <2>3
<1>10. OverlapsAreSeen'
  <2> SUFFICES ASSUME NEW u \in Workers, NEW v \in Workers, u # v,
                      pc'[u] # "idle", pc'[v] # "idle"
               PROVE  {call'[u].tenant, call'[v].tenant} \in overlaps'
    BY DEF OverlapsAreSeen
  <2>1. CASE u = w BY <2>1, <1>2, <1>4, <1>5 DEF OthersKeep
  <2>2. CASE v = w
    <3>1. {t, call[u].tenant} \in overlaps' BY <2>2, <1>2, <1>4 DEF OthersKeep
    <3>2. {t, call[u].tenant} = {call[u].tenant, t} OBVIOUS
    <3> QED BY <3>1, <3>2, <2>2, <1>2, <1>5 DEF OthersKeep
  <2>3. CASE u # w /\ v # w
    BY <2>3, <1>2, <1>4 DEF IInv, OverlapsAreSeen, OthersKeep
  <2> QED BY <2>1, <2>2, <2>3
<1>11. QuietInv'
  <2> SUFFICES ASSUME overlaps' = {} PROVE QuietInv' BY DEF QuietInv
  <2>1. overlaps = {} BY <1>4
  <2> QED BY <2>1, <1>2, <1>3 DEF IInv, QuietInv, OthersKeep
<1> QED BY <1>6, <1>7, <1>8, <1>9, <1>10, <1>11 DEF IInv

\* The second SELECT of record.
LEMMA ReadSequenceInv ==
    ASSUME TypeInv, IInv, NEW w \in Workers, ReadSequence(w)
    PROVE  IInv'
<1>0. TypeOK /\ ShapeOK BY DEF TypeInv
<1> DEFINE t == call[w].tenant
           n == NextSequence(View(w)[t])
<1>1. /\ pc[w] = "sequence" /\ pc'[w] = "insert"
      /\ UNCHANGED <<call, prev, answered, overlaps, poisoned, excused>>
      /\ entry'[w] = NewRow(call[w].content, n, prev[w])
      /\ OthersKeep(w)
  BY <1>0 DEF ReadSequence, Goto, TypeOK, OthersKeep, ghosts
<1>2. t \in Tenants BY <1>0, <1>1 DEF ShapeOK
<1>3. /\ UNCHANGED <<db, lock, txn, snap>>
      /\ \A v \in Workers : conn'[v] = IF v = w /\ conn[v] = "open" THEN "pinned" ELSE conn[v]
  BY <1>0 DEF ReadSequence, Read, TypeOK
<1>4. /\ View(w)[t] \in Seq(Row) /\ Chained(View(w)[t]) /\ Grown(View(w)[t], db[t])
      /\ db[t] \in Seq(Row)
  BY <1>0, <1>2, ViewChained DEF TypeOK, Database
<1>5. n = Len(View(w)[t]) + 1 BY <1>4, NextSequenceIs
<1>7. entry'[w].sequence_num = n BY <1>1 DEF NewRow
<1> HIDE DEF n
<1>6. n \in 1 .. Len(db[t]) + 1 /\ (conn[w] # "stale" => n = Len(db[t]) + 1)
  <2>1. Len(View(w)[t]) \in Nat /\ Len(db[t]) \in Nat BY <1>4
  <2>2. Len(View(w)[t]) <= Len(db[t]) BY <1>4 DEF Grown
  <2>3. n \in 1 .. Len(db[t]) + 1 BY <2>1, <2>2, <1>5
  <2>4. conn[w] # "stale" => View(w) = db BY DEF View
  <2> QED BY <2>3, <2>4, <1>5
<1>8. \A x \in Tenants : Chained(db'[x]) /\ ({x} \notin overlaps' => verify_chain(db'[x]))
  BY <1>1, <1>3 DEF IInv
<1>9. SnapshotsAreOld' BY <1>3 DEF IInv, SnapshotsAreOld
<1>10. LockDiscipline' BY <1>1, <1>3 DEF IInv, LockDiscipline, OthersKeep
<1>11. \A v \in Workers : DraftInv(v)' /\ AloneAtEnd(v)'
  <2>1. ASSUME NEW v \in Workers, v # w PROVE DraftInv(v)' /\ AloneAtEnd(v)'
    <3>1. DraftInv(v) /\ AloneAtEnd(v) BY DEF IInv
    <3> QED BY <3>1, <2>1, <1>1, <1>3 DEF DraftInv, AloneAtEnd, OthersKeep
  <2>2. DraftInv(w) /\ AloneAtEnd(w) BY DEF IInv
  <2>3. DraftInv(w)' BY <2>2, <1>1, <1>3, <1>6, <1>7 DEF DraftInv
  <2>4. AloneAtEnd(w)' BY <2>2, <1>1, <1>3 DEF AloneAtEnd
  <2> QED BY <2>1, <2>3, <2>4
<1>12. OverlapsAreSeen' BY <1>1 DEF IInv, OverlapsAreSeen, OthersKeep
<1>13. QuietInv' BY <1>1, <1>3, <1>6, <1>7 DEF IInv, QuietInv, OthersKeep
<1> QED BY <1>8, <1>9, <1>10, <1>11, <1>12, <1>13 DEF IInv

\* A worker that is not to commit starts its writes from the committed log.
LEMMA BaseIsDb ==
    ASSUME IInv, NEW w \in Workers, pc[w] # "commit"
    PROVE  Base(w) = db
BY DEF IInv, LockDiscipline, Base

\* The INSERT that the unique index lets through.
LEMMA InsertRowInv ==
    ASSUME TypeInv, IInv, NEW w \in Workers, InsertRow(w)
    PROVE  IInv'
<1>0. TypeOK /\ ShapeOK BY DEF TypeInv
<1> DEFINE t == call[w].tenant
<1>1. /\ pc[w] = "insert" /\ pc'[w] = "commit"
      /\ UNCHANGED <<call, prev, entry, answered, overlaps, poisoned, excused>>
      /\ OthersKeep(w)
  BY <1>0 DEF InsertRow, ToInsert, Goto, TypeOK, OthersKeep, ghosts
<1>2. t \in Tenants /\ entry[w] \in Row BY <1>0, <1>1 DEF ShapeOK
<1>3. Base(w) = db BY <1>1, BaseIsDb
<1>4. /\ lock \in {NoWorker, w} /\ conn[w] # "stale" /\ lock' = w
      /\ txn' = [db EXCEPT ![t] = Append(@, entry[w])]
      /\ UNCHANGED <<db, conn, snap>>
      /\ ~SequenceTaken(db[t], entry[w])
  BY <1>3 DEF InsertRow, Write, CanWrite
<1>5. db[t] \in Seq(Row) /\ Chained(db[t]) BY <1>0, <1>2 DEF TypeOK, Database, IInv
<1>6. entry[w].sequence_num \in 1 .. Len(db[t]) + 1 BY <1>1 DEF IInv, DraftInv
<1>7. entry[w].sequence_num = Len(db[t]) + 1 BY <1>2, <1>4, <1>5, <1>6, FreshIsNext
<1>8. \A x \in Tenants : Chained(db'[x]) /\ ({x} \notin overlaps' => verify_chain(db'[x]))
  BY <1>1, <1>4 DEF IInv
<1>9. SnapshotsAreOld' BY <1>4 DEF IInv, SnapshotsAreOld
<1>10. LockDiscipline'
  <2>1. ASSUME NEW v \in Workers, v # w PROVE pc'[v] # "commit" /\ lock' # v
    BY <2>1, <1>1, <1>4, AuditAssumption DEF IInv, LockDiscipline, OthersKeep
  <2> QED BY <2>1, <1>1, <1>4 DEF LockDiscipline
<1>11. \A v \in Workers : DraftInv(v)' /\ AloneAtEnd(v)'
  <2>1. ASSUME NEW v \in Workers, v # w PROVE DraftInv(v)' /\ AloneAtEnd(v)'
    <3>1. DraftInv(v) /\ AloneAtEnd(v) BY DEF IInv
    <3> QED BY <3>1, <2>1, <1>1, <1>4 DEF DraftInv, AloneAtEnd, OthersKeep
  <2>2. DraftInv(w) /\ AloneAtEnd(w) BY DEF IInv
  <2>3. DraftInv(w)' BY <2>2, <1>1, <1>4, <1>7 DEF DraftInv
  <2>4. AloneAtEnd(w)' BY <2>2, <1>1, <1>4 DEF AloneAtEnd
  <2> QED BY <2>1, <2>3, <2>4
<1>12. OverlapsAreSeen' BY <1>1 DEF IInv, OverlapsAreSeen, OthersKeep
<1>13. QuietInv' BY <1>1, <1>4 DEF IInv, QuietInv, OthersKeep
<1> QED BY <1>8, <1>9, <1>10, <1>11, <1>12, <1>13 DEF IInv

\* The lock holder's transaction is the log, or the log with its row.
LEMMA InsertConflictInv ==
    ASSUME TypeInv, IInv, NEW w \in Workers, InsertConflict(w)
    PROVE  IInv'
<1>0. TypeOK /\ ShapeOK BY DEF TypeInv
<1> DEFINE t == call[w].tenant
<1>1. /\ pc[w] = "insert" /\ pc'[w] = "idle" /\ OthersKeep(w) /\ overlaps' = overlaps
  BY AnswerSteps DEF InsertConflict, ToInsert
<1>2. t \in Tenants /\ entry[w] \in Row BY <1>0, <1>1 DEF ShapeOK
<1>3. Base(w) = db BY <1>1, BaseIsDb
<1>4. /\ lock \in {NoWorker, w} /\ conn[w] # "stale" /\ lock' = w /\ txn' = db
      /\ UNCHANGED <<db, conn, snap>>
      /\ SequenceTaken(db[t], entry[w])
  BY <1>3 DEF InsertConflict, Write, CanWrite
<1>5. db[t] \in Seq(Row) /\ Chained(db[t]) BY <1>0, <1>2 DEF TypeOK, Database, IInv
<1>6. overlaps # {} BY <1>1, <1>2, <1>4, <1>5, NextIsFresh DEF IInv, QuietInv
<1>7. \A x \in Tenants : Chained(db'[x]) /\ ({x} \notin overlaps' => verify_chain(db'[x]))
  BY <1>1, <1>4 DEF IInv
<1>8. SnapshotsAreOld' BY <1>4 DEF IInv, SnapshotsAreOld
<1>9. LockDiscipline'
  <2>1. ASSUME NEW v \in Workers, v # w PROVE pc'[v] # "commit" /\ lock' # v
    BY <2>1, <1>1, <1>4, AuditAssumption DEF IInv, LockDiscipline, OthersKeep
  <2> QED BY <2>1, <1>1, <1>4 DEF LockDiscipline
<1>10. \A v \in Workers : DraftInv(v)' /\ AloneAtEnd(v)'
  <2>1. ASSUME NEW v \in Workers, v # w PROVE DraftInv(v)' /\ AloneAtEnd(v)'
    <3>1. DraftInv(v) /\ AloneAtEnd(v) BY DEF IInv
    <3> QED BY <3>1, <2>1, <1>1, <1>4 DEF DraftInv, AloneAtEnd, OthersKeep
  <2>2. DraftInv(w)' /\ AloneAtEnd(w)' BY <1>1 DEF DraftInv, AloneAtEnd
  <2> QED BY <2>1, <2>2
<1>11. OverlapsAreSeen' BY <1>1 DEF IInv, OverlapsAreSeen, OthersKeep
<1>12. QuietInv' BY <1>1, <1>6 DEF QuietInv
<1> QED BY <1>7, <1>8, <1>9, <1>10, <1>11, <1>12 DEF IInv

\* A write that fails: another worker holds the lock, or this one is stuck.
LEMMA InsertFailsInv ==
    ASSUME TypeInv, IInv, NEW w \in Workers, InsertFails(w)
    PROVE  IInv'
<1>0. TypeOK /\ ShapeOK BY DEF TypeInv
<1>1. /\ pc[w] = "insert" /\ pc'[w] = "idle" /\ OthersKeep(w) /\ overlaps' = overlaps
      /\ \A t \in Tenants :
            answered'[t] = IF t = call[w].tenant THEN answered[t] + 1 ELSE answered[t]
  BY AnswerSteps DEF InsertFails, ToInsert
<1>2. /\ lock \notin {NoWorker, w} \/ conn[w] = "stale"
      /\ UNCHANGED <<db, lock, txn, snap>>
      /\ \A v \in Workers : conn'[v] = IF v = w /\ conn[v] = "closed" THEN "open" ELSE conn[v]
  BY <1>0 DEF InsertFails, WriteFails, CanWrite, TypeOK
<1>3. ASSUME overlaps = {} PROVE conn[w] = "stale" /\ w \in poisoned
  <2>1. lock \in {NoWorker, w}
    <3> SUFFICES ASSUME lock \notin {NoWorker, w} PROVE FALSE OBVIOUS
    <3>1. lock \in Workers \ {w} BY <1>0 DEF TypeOK
    <3>2. pc[lock] = "commit" BY <3>1, <1>3 DEF IInv, QuietInv
    <3>3. {call[w].tenant, call[lock].tenant} \in overlaps
      BY <3>1, <3>2, <1>1 DEF IInv, OverlapsAreSeen
    <3> QED BY <3>3, <1>3
  <2> QED BY <2>1, <1>2, <1>3 DEF IInv, QuietInv
<1>4. \A x \in Tenants : Chained(db'[x]) /\ ({x} \notin overlaps' => verify_chain(db'[x]))
  BY <1>1, <1>2 DEF IInv
<1>5. SnapshotsAreOld' BY <1>2 DEF IInv, SnapshotsAreOld
<1>6. LockDiscipline' BY <1>1, <1>2 DEF IInv, LockDiscipline, OthersKeep
<1>7. \A v \in Workers : DraftInv(v)' /\ AloneAtEnd(v)'
  <2>1. ASSUME NEW v \in Workers, v # w PROVE DraftInv(v)' /\ AloneAtEnd(v)'
    <3>1. DraftInv(v) /\ AloneAtEnd(v) BY DEF IInv
    <3> QED BY <3>1, <2>1, <1>1, <1>2 DEF DraftInv, AloneAtEnd, OthersKeep
  <2>2. DraftInv(w)' /\ AloneAtEnd(w)' BY <1>1 DEF DraftInv, AloneAtEnd
  <2> QED BY <2>1, <2>2
<1>8. OverlapsAreSeen' BY <1>1 DEF IInv, OverlapsAreSeen, OthersKeep
<1>9. QuietInv'
  <2> SUFFICES ASSUME overlaps = {} PROVE QuietInv' BY <1>1 DEF QuietInv
  <2>1. /\ poisoned' = poisoned /\ Excuse(call[w].tenant)
        /\ \A v \in Workers : conn'[v] = conn[v]
    BY <1>2, <1>3 DEF InsertFails
  <2>2. \A t \in Tenants :
          excused'[t] = IF t = call[w].tenant THEN excused[t] + 1 ELSE excused[t]
    BY <2>1, <1>0 DEF Excuse, TypeOK
  <2>3. \A t \in Tenants : answered'[t] <= Len(db'[t]) + excused'[t]
    BY <2>2, <1>1, <1>2, QuietCount
  <2> QED BY <2>1, <2>3, <1>1, <1>2 DEF IInv, QuietInv, OthersKeep
<1> QED BY <1>4, <1>5, <1>6, <1>7, <1>8, <1>9 DEF IInv

\* An integer that cannot be bound leaves a transaction open, and no lock.
LEMMA BindFailsInv ==
    ASSUME TypeInv, IInv, NEW w \in Workers, BindFails(w)
    PROVE  IInv'
<1>0. TypeOK /\ ShapeOK BY DEF TypeInv
<1>1. /\ pc[w] = "insert" /\ pc'[w] = "idle" /\ OthersKeep(w) /\ overlaps' = overlaps
      /\ \A t \in Tenants :
            answered'[t] = IF t = call[w].tenant THEN answered[t] + 1 ELSE answered[t]
  BY AnswerSteps DEF BindFails
<1>2. /\ UNCHANGED <<db, lock, txn, snap>>
      /\ poisoned' = poisoned \cup {w} /\ Excuse(call[w].tenant)
      /\ \A v \in Workers : v # w => conn'[v] = conn[v]
      /\ conn'[w] = "stale" => conn[w] = "stale"
  BY <1>0 DEF BindFails, TypeOK
<1>3. \A t \in Tenants :
        excused'[t] = IF t = call[w].tenant THEN excused[t] + 1 ELSE excused[t]
  BY <1>0, <1>2 DEF Excuse, TypeOK
<1>4. \A x \in Tenants : Chained(db'[x]) /\ ({x} \notin overlaps' => verify_chain(db'[x]))
  BY <1>1, <1>2 DEF IInv
<1>5. SnapshotsAreOld' BY <1>2 DEF IInv, SnapshotsAreOld
<1>6. LockDiscipline' BY <1>1, <1>2 DEF IInv, LockDiscipline, OthersKeep
<1>7. \A v \in Workers : DraftInv(v)' /\ AloneAtEnd(v)'
  <2>1. ASSUME NEW v \in Workers, v # w PROVE DraftInv(v)' /\ AloneAtEnd(v)'
    <3>1. DraftInv(v) /\ AloneAtEnd(v) BY DEF IInv
    <3> QED BY <3>1, <2>1, <1>1, <1>2 DEF DraftInv, AloneAtEnd, OthersKeep
  <2>2. DraftInv(w)' /\ AloneAtEnd(w)' BY <1>1 DEF DraftInv, AloneAtEnd
  <2> QED BY <2>1, <2>2
<1>8. OverlapsAreSeen' BY <1>1 DEF IInv, OverlapsAreSeen, OthersKeep
<1>9. QuietInv'
  <2> SUFFICES ASSUME overlaps = {} PROVE QuietInv' BY <1>1 DEF QuietInv
  <2>1. \A t \in Tenants : answered'[t] <= Len(db'[t]) + excused'[t]
    BY <1>1, <1>2, <1>3, QuietCount
  <2> QED BY <2>1, <1>1, <1>2 DEF IInv, QuietInv, OthersKeep
<1> QED BY <1>4, <1>5, <1>6, <1>7, <1>8, <1>9 DEF IInv

\* Content that cannot be hashed leaves nothing behind.
LEMMA HashFailsInv ==
    ASSUME TypeInv, IInv, NEW w \in Workers, HashFails(w)
    PROVE  IInv'
<1>0. TypeOK /\ ShapeOK BY DEF TypeInv
<1>1. /\ pc[w] = "sequence" /\ pc'[w] = "idle" /\ OthersKeep(w) /\ overlaps' = overlaps
      /\ \A t \in Tenants :
            answered'[t] = IF t = call[w].tenant THEN answered[t] + 1 ELSE answered[t]
  BY AnswerSteps DEF HashFails
<1>2. /\ UNCHANGED <<db, lock, txn, snap, poisoned>> /\ Excuse(call[w].tenant)
      /\ \A v \in Workers : conn'[v] = IF v = w /\ conn[v] = "open" THEN "pinned" ELSE conn[v]
  BY <1>0 DEF HashFails, Read, TypeOK
<1>3. \A t \in Tenants :
        excused'[t] = IF t = call[w].tenant THEN excused[t] + 1 ELSE excused[t]
  BY <1>0, <1>2 DEF Excuse, TypeOK
<1>4. \A x \in Tenants : Chained(db'[x]) /\ ({x} \notin overlaps' => verify_chain(db'[x]))
  BY <1>1, <1>2 DEF IInv
<1>5. SnapshotsAreOld' BY <1>2 DEF IInv, SnapshotsAreOld
<1>6. LockDiscipline' BY <1>1, <1>2 DEF IInv, LockDiscipline, OthersKeep
<1>7. \A v \in Workers : DraftInv(v)' /\ AloneAtEnd(v)'
  <2>1. ASSUME NEW v \in Workers, v # w PROVE DraftInv(v)' /\ AloneAtEnd(v)'
    <3>1. DraftInv(v) /\ AloneAtEnd(v) BY DEF IInv
    <3> QED BY <3>1, <2>1, <1>1, <1>2 DEF DraftInv, AloneAtEnd, OthersKeep
  <2>2. DraftInv(w)' /\ AloneAtEnd(w)' BY <1>1 DEF DraftInv, AloneAtEnd
  <2> QED BY <2>1, <2>2
<1>8. OverlapsAreSeen' BY <1>1 DEF IInv, OverlapsAreSeen, OthersKeep
<1>9. QuietInv'
  <2> SUFFICES ASSUME overlaps = {} PROVE QuietInv' BY <1>1 DEF QuietInv
  <2>1. \A t \in Tenants : answered'[t] <= Len(db'[t]) + excused'[t]
    BY <1>1, <1>2, <1>3, QuietCount
  <2> QED BY <2>1, <1>1, <1>2 DEF IInv, QuietInv, OthersKeep
<1> QED BY <1>4, <1>5, <1>6, <1>7, <1>8, <1>9 DEF IInv

\* A call that fails before its first SELECT is answered, and that is all.
LEMMA ExtractFailsInv ==
    ASSUME TypeInv, IInv, NEW w \in Workers, ExtractFails(w)
    PROVE  IInv'
<1>0. TypeOK /\ ShapeOK BY DEF TypeInv
<1>1. PICK u \in Tenants : answered' = [answered EXCEPT ![u] = @ + 1] /\ Excuse(u)
  BY DEF ExtractFails
<1>2. UNCHANGED <<db, lock, txn, conn, snap, pc, call, prev, entry, overlaps, poisoned>>
  BY DEF ExtractFails
<1>3. \A t \in Tenants :
        /\ answered'[t] = IF t = u THEN answered[t] + 1 ELSE answered[t]
        /\ excused'[t] = IF t = u THEN excused[t] + 1 ELSE excused[t]
  BY <1>0, <1>1 DEF Excuse, TypeOK
<1>4. \A x \in Tenants : Chained(db'[x]) /\ ({x} \notin overlaps' => verify_chain(db'[x]))
  BY <1>2 DEF IInv
<1>5. SnapshotsAreOld' BY <1>2 DEF IInv, SnapshotsAreOld
<1>6. LockDiscipline' BY <1>2 DEF IInv, LockDiscipline
<1>7. \A v \in Workers : DraftInv(v)' BY <1>2 DEF IInv, DraftInv
<1>8. \A v \in Workers : AloneAtEnd(v)' BY <1>2 DEF IInv, AloneAtEnd
<1>9. OverlapsAreSeen' BY <1>2 DEF IInv, OverlapsAreSeen
<1>10. QuietInv'
  <2> SUFFICES ASSUME overlaps = {} PROVE QuietInv' BY <1>2 DEF QuietInv
  <2>1. \A t \in Tenants : answered'[t] <= Len(db'[t]) + excused'[t]
    BY <1>2, <1>3, QuietCount
  <2> QED BY <2>1, <1>2 DEF IInv, QuietInv
<1> QED BY <1>4, <1>5, <1>6, <1>7, <1>8, <1>9, <1>10 DEF IInv

\* A commit adds the worker's row at the end of its tenant's log and nothing else.
LEMMA CommitAdds ==
    ASSUME TypeInv, IInv, NEW w \in Workers, CommitRow(w)
    PROVE  /\ lock = w /\ pc[w] = "commit" /\ call[w].tenant \in Tenants
           /\ entry[w] \in Row
           /\ \A t \in Tenants : db'[t] = IF t = call[w].tenant
                                          THEN Append(db[t], entry[w]) ELSE db[t]
           /\ \A t \in Tenants : db'[t] \in Seq(Row) /\ Grown(db[t], db'[t])
<1>1. lock = w /\ pc[w] = "commit" /\ db' = txn BY DEF CommitRow, Commit
<1>2. call[w].tenant \in Tenants /\ entry[w] \in Row BY <1>1 DEF TypeInv, ShapeOK
<1>3. txn = [db EXCEPT ![call[w].tenant] = Append(@, entry[w])]
  BY <1>1 DEF IInv, LockDiscipline
<1>4. \A t \in Tenants : db[t] \in Seq(Row) BY DEF TypeInv, TypeOK, Database
<1>5. \A t \in Tenants : db'[t] = IF t = call[w].tenant
                                  THEN Append(db[t], entry[w]) ELSE db[t]
  BY <1>1, <1>3 DEF TypeInv, TypeOK, Database
<1>6. ASSUME NEW t \in Tenants PROVE db'[t] \in Seq(Row) /\ Grown(db[t], db'[t])
  <2>1. CASE t = call[w].tenant
    <3>1. db'[t] = Append(db[t], entry[w]) /\ db[t] \in Seq(Row) BY <2>1, <1>4, <1>5
    <3>2. /\ Append(db[t], entry[w]) \in Seq(Row)
          /\ Grown(db[t], Append(db[t], entry[w]))
      BY <3>1, <1>2, GrownAppend
    <3> QED BY <3>1, <3>2
  <2>2. CASE t # call[w].tenant BY <2>2, <1>4, <1>5 DEF Grown
  <2> QED BY <2>1, <2>2
<1> QED BY <1>1, <1>2, <1>5, <1>6

\* The commit of a recorded row.
LEMMA CommitRowInv ==
    ASSUME TypeInv, IInv, NEW w \in Workers, CommitRow(w)
    PROVE  IInv'
<1>0. TypeOK /\ ShapeOK BY DEF TypeInv
<1> DEFINE t == call[w].tenant
<1>1. /\ lock = w /\ pc[w] = "commit" /\ t \in Tenants /\ entry[w] \in Row
      /\ \A x \in Tenants : db'[x] = IF x = t THEN Append(db[x], entry[w]) ELSE db[x]
      /\ \A x \in Tenants : db'[x] \in Seq(Row) /\ Grown(db[x], db'[x])
  BY CommitAdds
<1>2. /\ pc'[w] = "idle" /\ OthersKeep(w) /\ overlaps' = overlaps
      /\ \A x \in Tenants : answered'[x] = IF x = t THEN answered[x] + 1 ELSE answered[x]
  BY AnswerSteps DEF CommitRow
<1>3. /\ lock' = NoWorker /\ excused' = excused /\ poisoned' = poisoned \ {w}
      /\ \A v \in Workers :
            /\ snap'[v] = IF v # w /\ conn[v] = "pinned" THEN db ELSE snap[v]
            /\ conn'[v] = IF v = w THEN "closed"
                          ELSE IF conn[v] = "pinned" THEN "stale" ELSE conn[v]
  BY <1>0 DEF CommitRow, Commit, Release
<1>4. \A x \in Tenants : db[x] \in Seq(Row) /\ Chained(db[x])
  BY <1>0 DEF TypeOK, Database, IInv
<1>5. /\ entry[w] = NewRow(call[w].content, Len(db[t]) + 1, prev[w])
      /\ prev[w] \in Known(db[t])
  BY <1>1 DEF IInv, DraftInv
<1>6. call[w].content \in Contents /\ prev[w] \in ChainHash
  BY <1>0, <1>1 DEF ShapeOK, TypeOK
<1>7. {t} \notin overlaps => prev[w] = get_latest_chain_hash(db[t])
  BY <1>1 DEF IInv, AloneAtEnd, LockDiscipline
<1>8. /\ Chained(Append(db[t], entry[w]))
      /\ {t} \notin overlaps => verify_chain(Append(db[t], entry[w]))
  BY <1>1, <1>4, <1>5, <1>6, <1>7, ChainedAppend DEF IInv
<1>9. \A x \in Tenants : Chained(db'[x]) /\ ({x} \notin overlaps' => verify_chain(db'[x]))
  BY <1>1, <1>2, <1>8 DEF IInv
<1>10. SnapshotsAreOld'
  <2> SUFFICES ASSUME NEW v \in Workers, conn'[v] = "stale", NEW x \in Tenants
               PROVE  Grown(snap'[v][x], db'[x])
    BY DEF SnapshotsAreOld
  <2>1. CASE conn[v] = "pinned" BY <2>1, <1>1, <1>3
  <2>2. CASE conn[v] # "pinned"
    <3>1. snap'[v] = snap[v] /\ conn[v] = "stale" BY <2>2, <1>3
    <3>2. Grown(snap[v][x], db[x]) BY <3>1 DEF IInv, SnapshotsAreOld
    <3>3. snap[v][x] \in Seq(Row) BY <1>0 DEF TypeOK, Database
    <3> QED BY <3>1, <3>2, <3>3, <1>1, <1>4, GrownTransitive
  <2> QED BY <2>1, <2>2
<1>11. ASSUME NEW v \in Workers, v # w PROVE pc'[v] = pc[v] /\ pc[v] # "commit"
  BY <1>1, <1>2, <1>11 DEF IInv, LockDiscipline, OthersKeep
<1>12. LockDiscipline' BY <1>2, <1>3, <1>11, AuditAssumption DEF LockDiscipline
<1>13. \A v \in Workers : DraftInv(v)' /\ AloneAtEnd(v)'
  <2>1. ASSUME NEW v \in Workers, v # w, pc[v] # "idle" PROVE DraftInv(v)' /\ AloneAtEnd(v)'
    <3> DEFINE x == call[v].tenant
    <3>0. x \in Tenants /\ call'[v] = call[v] /\ prev'[v] = prev[v] /\ entry'[v] = entry[v]
      BY <2>1, <1>0, <1>2 DEF ShapeOK, OthersKeep
    <3>1. DraftInv(v) /\ AloneAtEnd(v) BY DEF IInv
    <3>2. Len(db[x]) \in Nat /\ Len(db'[x]) \in Nat /\ Len(db[x]) <= Len(db'[x])
      BY <3>0, <1>1, <1>4 DEF Grown
    <3>3. Known(db[x]) \subseteq Known(db'[x]) BY <3>0, <1>1, <1>4, KnownGrows
    <3>4. DraftInv(v)'
      <4>1. prev[v] \in Known(db'[x]) BY <3>1, <3>3, <2>1 DEF DraftInv
      <4>2. pc[v] = "insert" => entry[v].sequence_num \in 1 .. Len(db'[x]) + 1
        <5>1. pc[v] = "insert" => entry[v].sequence_num \in 1 .. Len(db[x]) + 1
          BY <3>1 DEF DraftInv
        <5> HIDE DEF x
        <5> QED BY <5>1, <3>2
      <4> QED BY <4>1, <4>2, <3>0, <3>1, <2>1, <1>11 DEF DraftInv
    <3>5. AloneAtEnd(v)'
      <4>1. CASE x = t
        <5>1. {x, t} \in overlaps BY <2>1, <1>1 DEF IInv, OverlapsAreSeen
        <5>2. {x, t} = {x} BY <4>1
        <5> QED BY <5>1, <5>2, <3>0, <1>2 DEF AloneAtEnd
      <4>2. CASE x # t
        <5>1. db'[x] = db[x] BY <4>2, <3>0, <1>1
        <5>2. conn'[v] # "stale" => conn[v] # "stale" BY <2>1, <1>3
        <5> QED BY <5>1, <5>2, <3>0, <3>1, <2>1, <1>2, <1>11 DEF AloneAtEnd
      <4> QED BY <4>1, <4>2
    <3> QED BY <3>4, <3>5
  <2>2. ASSUME NEW v \in Workers, pc'[v] = "idle" PROVE DraftInv(v)' /\ AloneAtEnd(v)'
    BY <2>2 DEF DraftInv, AloneAtEnd
  <2> QED BY <2>1, <2>2, <1>2, <1>11
<1>14. OverlapsAreSeen' BY <1>2 DEF IInv, OverlapsAreSeen, OthersKeep
<1>15. QuietInv'
  <2> SUFFICES ASSUME overlaps = {} PROVE QuietInv' BY <1>2 DEF QuietInv
  <2>1. \A v \in Workers : v # w => pc[v] = "idle"
    BY <1>1 DEF IInv, OverlapsAreSeen
  <2>2. \A v \in Workers : pc'[v] = "idle" /\ (conn'[v] # "closed" => v \in poisoned')
    BY <2>1, <1>2, <1>3 DEF IInv, QuietInv, OthersKeep
  <2>3. ASSUME NEW x \in Tenants PROVE answered'[x] <= Len(db'[x]) + excused'[x]
    <3>1. /\ answered[x] <= Len(db[x]) + excused[x]
          /\ answered[x] \in Nat /\ excused[x] \in Nat
      BY <1>0 DEF IInv, QuietInv, TypeOK
    <3>2. ASSUME x = t PROVE Len(db'[x]) = Len(db[x]) + 1
      <4>1. db'[x] = Append(db[x], entry[w]) BY <3>2, <1>1
      <4>2. db[x] \in Seq(Row) /\ entry[w] \in Row BY <1>1, <1>4
      <4> QED BY <4>1, <4>2, GrownAppend
    <3>3. Len(db[x]) \in Nat BY <1>4
    <3>4. x # t => db'[x] = db[x] BY <1>1
    <3> QED BY <3>1, <3>2, <3>3, <3>4, <1>2, <1>3
  <2>4. \A v \in Workers : lock' # v BY <1>3, AuditAssumption
  <2> QED BY <2>2, <2>3, <2>4 DEF QuietInv
<1> QED BY <1>9, <1>10, <1>12, <1>13, <1>14, <1>15 DEF IInv

\* A GET of the log.
LEMMA ReadLogInv ==
    ASSUME TypeInv, IInv, NEW w \in Workers, ReadLog(w)
    PROVE  IInv'
<1>1. /\ UNCHANGED <<db, lock, txn, snap, pc, call, prev, entry, answered, overlaps,
                   poisoned, excused>>
      /\ \A v \in Workers : conn'[v] = IF v = w /\ conn[v] = "open" THEN "pinned" ELSE conn[v]
  BY DEF ReadLog, Read, auditVars, ghosts, TypeInv, TypeOK
<1>2. SnapshotsAreOld' BY <1>1 DEF IInv, SnapshotsAreOld
<1>3. LockDiscipline' BY <1>1 DEF IInv, LockDiscipline
<1>4. \A v \in Workers : DraftInv(v)' BY <1>1 DEF IInv, DraftInv
<1>5. \A v \in Workers : AloneAtEnd(v)' BY <1>1 DEF IInv, AloneAtEnd
<1>6. OverlapsAreSeen' BY <1>1 DEF IInv, OverlapsAreSeen
<1>7. QuietInv' BY <1>1 DEF IInv, QuietInv
<1> QED BY <1>1, <1>2, <1>3, <1>4, <1>5, <1>6, <1>7 DEF IInv

\* A worker that dies loses its transaction and its call, and no committed row.
LEMMA CrashInv ==
    ASSUME TypeInv, IInv, NEW w \in Workers, Crash(w)
    PROVE  IInv'
<1>0. TypeOK BY DEF TypeInv
<1>1. /\ pc'[w] = "idle" /\ OthersKeep(w) /\ UNCHANGED <<db, answered, overlaps, excused>>
      /\ poisoned' = poisoned \ {w}
  BY <1>0 DEF Crash, Goto, OthersKeep, Rollback, TypeOK
<1>2. /\ lock' = IF lock = w THEN NoWorker ELSE lock
      /\ lock # w => txn' = txn
      /\ \A v \in Workers : snap'[v] = IF v = w THEN EmptyDb ELSE snap[v]
      /\ \A v \in Workers : conn'[v] = IF v = w THEN "closed" ELSE conn[v]
  BY <1>0 DEF Crash, Rollback, Release, TypeOK
<1>3. \A x \in Tenants : Chained(db'[x]) /\ ({x} \notin overlaps' => verify_chain(db'[x]))
  BY <1>1 DEF IInv
<1>4. SnapshotsAreOld' BY <1>1, <1>2 DEF IInv, SnapshotsAreOld
<1>5. LockDiscipline'
  <2>1. ASSUME NEW v \in Workers, lock' = v PROVE v # w /\ lock = v /\ txn' = txn
    BY <2>1, <1>2, AuditAssumption
  <2>2. ASSUME NEW v \in Workers, pc'[v] = "commit" PROVE v # w /\ lock = v /\ lock' = v
    BY <2>2, <1>1, <1>2 DEF IInv, LockDiscipline, OthersKeep
  <2> QED BY <2>1, <2>2, <1>1, <1>2 DEF IInv, LockDiscipline, OthersKeep
<1>6. \A v \in Workers : DraftInv(v)' /\ AloneAtEnd(v)'
  <2>1. ASSUME NEW v \in Workers, v # w PROVE DraftInv(v)' /\ AloneAtEnd(v)'
    <3>1. DraftInv(v) /\ AloneAtEnd(v) BY DEF IInv
    <3> QED BY <3>1, <2>1, <1>1, <1>2 DEF DraftInv, AloneAtEnd, OthersKeep
  <2>2. DraftInv(w)' /\ AloneAtEnd(w)' BY <1>1 DEF DraftInv, AloneAtEnd
  <2> QED BY <2>1, <2>2
<1>7. OverlapsAreSeen' BY <1>1 DEF IInv, OverlapsAreSeen, OthersKeep
<1>8. QuietInv' BY <1>1, <1>2, AuditAssumption DEF IInv, QuietInv, OthersKeep
<1> QED BY <1>3, <1>4, <1>5, <1>6, <1>7, <1>8 DEF IInv

\* Every step keeps the inductive invariant.
LEMMA NextInv == TypeInv /\ IInv /\ [Next]_vars => IInv'
<1> SUFFICES ASSUME TypeInv, IInv, [Next]_vars PROVE IInv' OBVIOUS
<1>1. CASE UNCHANGED vars
  BY <1>1 DEF vars, auditVars, ghosts, IInv, SnapshotsAreOld, LockDiscipline, DraftInv, AloneAtEnd,
              OverlapsAreSeen, QuietInv
<1>2. CASE Next
  BY <1>2, ExtractFailsInv, ReadPreviousInv, ReadSequenceInv, HashFailsInv,
     InsertRowInv, InsertConflictInv, InsertFailsInv, BindFailsInv, CommitRowInv,
     ReadLogInv, CrashInv DEF Next
<1> QED BY <1>1, <1>2

-----------------------------------------------------------------------------
(* Blocks.                                                                 *)

\* In a chained log the rows with sequence_num <= n, in order, are the first n.
LEMMA RowsUpToIs ==
    ASSUME NEW rows \in Seq(Row), Chained(rows), NEW n \in 1 .. Len(rows)
    PROVE  RowsUpTo(rows, n) = SubSeq(rows, 1, n)
<1> DEFINE block == {k \in DOMAIN rows : rows[k].sequence_num <= n}
           Before(k) == {j \in block : rows[j].sequence_num < rows[k].sequence_num}
           Place(m) == CHOOSE k \in block : Cardinality(Before(k)) = m - 1
<1>0. Len(rows) \in Nat /\ DOMAIN rows = 1 .. Len(rows) OBVIOUS
<1>1. \A k \in 1 .. Len(rows) : rows[k].sequence_num = k BY DEF Chained
<1>2. block = 1 .. n BY <1>0, <1>1
<1>3. ASSUME NEW k \in 1 .. n PROVE Cardinality(Before(k)) = k - 1
  <2>1. Before(k) = 1 .. k - 1
    <3> HIDE DEF block
    <3> QED BY <1>0, <1>1, <1>2
  <2>2. Cardinality(1 .. k - 1) = k - 1 BY FS_Interval
  <2> QED BY <2>1, <2>2
<1>4. Cardinality(block) = n
  <2>1. Cardinality(1 .. n) = n BY FS_Interval
  <2> QED BY <2>1, <1>2
<1>5. ASSUME NEW m \in 1 .. n PROVE Place(m) = m
  <2> HIDE DEF block, Before
  <2>1. m \in block /\ Cardinality(Before(m)) = m - 1 BY <1>2, <1>3
  <2>2. Place(m) \in block /\ Cardinality(Before(Place(m))) = m - 1 BY <2>1
  <2> HIDE DEF Place
  <2>3. Cardinality(Before(Place(m))) = Place(m) - 1 BY <2>2, <1>2, <1>3
  <2> QED BY <2>2, <2>3, <1>2
<1>6. RowsUpTo(rows, n) = [m \in 1 .. Cardinality(block) |-> rows[Place(m)]]
  BY DEF RowsUpTo
<1> HIDE DEF Place, block
<1>7. RowsUpTo(rows, n) = [m \in 1 .. n |-> rows[m]] BY <1>4, <1>5, <1>6
<1>8. SubSeq(rows, 1, n) = [m \in 1 .. n |-> rows[m]] BY <1>0
<1> QED BY <1>7, <1>8

\* The invariant gives the answers of verify_chain_at_block.
LEMMA InvBlocks == TypeInv /\ IInv => BlocksAgree
<1> SUFFICES ASSUME TypeInv, IInv, NEW t \in Tenants, NEW n \in DOMAIN db[t]
             PROVE  LET block == verify_chain_at_block(db[t], n)
                    IN  /\ block.valid = verify_chain(SubSeq(db[t], 1, n))
                        /\ block.valid => block.chain_hash = db[t][n].chain_hash
  BY DEF BlocksAgree
<1> DEFINE rows == db[t]
           first == SubSeq(rows, 1, n)
<1>1. rows \in Seq(Row) /\ Chained(rows) /\ n \in 1 .. Len(rows)
  BY DEF TypeInv, TypeOK, Database, IInv
<1>2. RowsUpTo(rows, n) = first BY <1>1, RowsUpToIs
<1>3. Len(first) = n /\ first[n] = rows[n] /\ first # <<>>
  <2> HIDE DEF rows
  <2> QED BY <1>1
<1>4. get_latest_chain_hash(first) = rows[n].chain_hash
  BY <1>3 DEF get_latest_chain_hash, Last
<1>5. verify_chain(first) \in BOOLEAN BY DEF verify_chain
<1>6. verify_chain_at_block(rows, n) =
        IF verify_chain(first)
        THEN [valid |-> TRUE, chain_hash |-> get_latest_chain_hash(first)]
        ELSE [valid |-> FALSE, chain_hash |-> "None"]
  BY <1>2 DEF verify_chain_at_block
<1> HIDE DEF first
<1>7. CASE verify_chain(first)
  <2>1. verify_chain(first) = TRUE BY <1>5, <1>7
  <2>2. verify_chain_at_block(rows, n) =
          [valid |-> TRUE, chain_hash |-> get_latest_chain_hash(first)]
    BY <1>6, <1>7
  <2>3. /\ verify_chain_at_block(rows, n).valid = TRUE
        /\ verify_chain_at_block(rows, n).chain_hash = rows[n].chain_hash
    BY <2>2, <1>4
  <2> QED BY <2>1, <2>3, Zenon DEF first
<1>8. CASE ~verify_chain(first)
  <2>1. verify_chain(first) = FALSE BY <1>5, <1>8
  <2>2. verify_chain_at_block(rows, n) = [valid |-> FALSE, chain_hash |-> "None"]
    BY <1>6, <1>8
  <2>3. verify_chain_at_block(rows, n).valid = FALSE BY <2>2
  <2> QED BY <2>1, <2>3, Zenon DEF first
<1> QED BY <1>7, <1>8

\* The invariant gives the chain of rows.
LEMMA InvRows == TypeInv /\ IInv => RowsAreChained
<1> SUFFICES ASSUME TypeInv, IInv, NEW t \in Tenants, NEW k \in DOMAIN db[t]
             PROVE  /\ db[t][k].sequence_num = k
                    /\ RowVerifies(db[t][k], db[t][k].prev_chain_hash)
                    /\ db[t][k].prev_chain_hash \in
                         {GENESIS_HASH} \cup {db[t][j].chain_hash : j \in 1 .. k - 1}
  BY DEF RowsAreChained
<1>1. k \in 1 .. Len(db[t]) BY DEF TypeInv, TypeOK, Database
<1> QED BY <1>1 DEF IInv, Chained

-----------------------------------------------------------------------------
(* What holds of the log.                                                  *)

\* The inductive invariant is an invariant.
THEOREM Invariant == Spec => [](TypeInv /\ IInv)
<1>1. Init => TypeInv /\ IInv BY InitType, InitInv
<1>2. TypeInv /\ IInv /\ [Next]_vars => (TypeInv /\ IInv)' BY NextType, NextInv
<1> QED BY <1>1, <1>2, PTL DEF Spec

\* However many workers race on record, and wherever they crash: every row of
\* the log is numbered by its place, hashes its content and continues genesis or
\* an earlier row, and verify_chain_at_block(n) answers for the first n rows.
THEOREM AuditIsChained == Spec => []AuditInv
<1>1. TypeInv /\ IInv => AuditInv BY InvRows, InvBlocks DEF AuditInv, TypeInv
<1> QED BY <1>1, Invariant, PTL

\* verify_chain fails for a tenant only if two calls of record for that tenant
\* were once under way together.
THEOREM ForksAreRaces == Spec => []ForksNeedOverlap
<1>1. IInv => ForksNeedOverlap BY DEF IInv, ForksNeedOverlap
<1> QED BY <1>1, Invariant, PTL

\* A verify call is answered without its row only if two calls were once under
\* way together, or for content: its own, or that of a call whose transaction its
\* worker is still in.
THEOREM LossesAreExplained == Spec => []LostCallsAreExplained
<1>1. IInv => LostCallsAreExplained BY DEF IInv, QuietInv, LostCallsAreExplained
<1> QED BY <1>1, Invariant, PTL

\* A log that has grown has the old log as a prefix.
LEMMA GrownPrefix ==
    ASSUME NEW s \in Seq(Row), NEW t \in Seq(Row), Grown(s, t)
    PROVE  IsPrefix(s, t)
<1>1. /\ SubSeq(s, 1, Len(s)) \in Seq(Row) /\ Len(SubSeq(s, 1, Len(s))) = Len(s)
      /\ \A k \in 1 .. Len(s) : SubSeq(s, 1, Len(s))[k] = s[k]
  OBVIOUS
<1>2. /\ SubSeq(t, 1, Len(s)) \in Seq(Row) /\ Len(SubSeq(t, 1, Len(s))) = Len(s)
      /\ \A k \in 1 .. Len(s) : SubSeq(t, 1, Len(s))[k] = t[k]
  BY DEF Grown
<1>3. SubSeq(s, 1, Len(s)) = SubSeq(t, 1, Len(s)) BY <1>1, <1>2, SeqEqual DEF Grown
<1> QED BY <1>3 DEF IsPrefix, Grown

\* A step adds rows at the ends of the logs and changes none.
LEMMA StepAppends ==
    ASSUME TypeInv, IInv, [Next]_vars, NEW t \in Tenants
    PROVE  IsPrefix(db[t], db'[t])
<1>0. db[t] \in Seq(Row) BY DEF TypeInv, TypeOK, Database
<1>1. ASSUME db' = db PROVE IsPrefix(db[t], db'[t])
  <2>1. Grown(db[t], db'[t]) BY <1>1 DEF Grown
  <2> QED BY <2>1, <1>0, <1>1, GrownPrefix
<1>2. ASSUME NEW w \in Workers, CommitRow(w) PROVE IsPrefix(db[t], db'[t])
  BY <1>0, <1>2, CommitAdds, GrownPrefix
<1>3. CASE UNCHANGED vars BY <1>1, <1>3 DEF vars, auditVars
<1>4. CASE Next
  <2>1. PICK w \in Workers :
          \/ ExtractFails(w) \/ ReadPrevious(w) \/ ReadSequence(w) \/ HashFails(w)
          \/ InsertRow(w) \/ InsertConflict(w) \/ InsertFails(w) \/ BindFails(w)
          \/ CommitRow(w) \/ ReadLog(w) \/ Crash(w)
    BY <1>4 DEF Next
  <2>2. db' = db \/ CommitRow(w)
    BY <2>1 DEF ExtractFails, ReadPrevious, ReadSequence, HashFails, InsertRow,
                InsertConflict, InsertFails, BindFails, ReadLog, Crash, Read, Write, WriteFails, Rollback
  <2> QED BY <2>2, <1>1, <1>2
<1> QED BY <1>3, <1>4

\* The triggers' promise: no committed row is changed, removed or overtaken.
THEOREM LogOnlyGrows == Spec => LogAppendOnly
<1>1. TypeInv /\ IInv /\ [Next]_vars => [\A t \in Tenants : IsPrefix(db[t], db'[t])]_db
  BY StepAppends
<1> QED BY <1>1, Invariant, PTL DEF Spec, LogAppendOnly
=============================================================================
