----------------------------- MODULE KeyRegistry ----------------------------
(***************************************************************************)
(* The signing-key registry (provable_ai/audit_keyregistry.py): an         *)
(* append-only, hash-chained SQLite table of key events for one tenant.    *)
(* Registering a key and rotating to a key are sequences of SELECT, INSERT *)
(* and COMMIT statements of server workers that share the file; a rotation *)
(* commits its two rows separately.                                        *)
(*                                                                         *)
(* The clock counts the whole seconds of the timestamps.  As in            *)
(* ProofFormat, a chain hash is the list of the row hashes under it, and a *)
(* row hash is the content it covers.                                      *)
(***************************************************************************)
EXTENDS Naturals, Sequences, SequencesExt

CONSTANTS Workers,    \* server worker processes
          NoWorker,
          Keys,       \* key ids, each with its public key
          NoKey,      \* NULL in superseded_by; no active key
          MaxClock,   \* bound: the last second of a behaviour
          MaxCalls    \* bound: calls of a behaviour

ASSUME RegistryAssumption ==
    /\ NoWorker \notin Workers
    /\ NoKey \notin Keys
    /\ MaxClock \in Nat /\ MaxCalls \in Nat

VARIABLES
    db, lock, txn, conn, snap,   \* the registry database, see SqliteConnections
    pc,       \* per worker: the statement it is about to execute
    call,     \* per worker: the operation, its key and the time it started
    todo,     \* per worker: the contents of the rows it has yet to insert
    prev,     \* per worker: the chain hash its next row continues
    clock,    \* the current second
    calls,    \* calls made so far
    held,     \* ghost: per past second, the key get_active returned at its end
    calm,     \* ghost: no two calls overlapped, none crossed a second
    faults    \* ghost: a call has raised OperationalError or died

callVars == <<pc, call, todo, prev>>
ghosts == <<held, calm, faults>>
dbVars == <<db, lock, txn, conn, snap>>
vars == <<dbVars, callVars, clock, calls, ghosts>>

KEY_REGISTRY_GENESIS == <<>>
EmptyDb == <<>>
NoTime == MaxClock + 1      \* NULL in retired_at
Times == 0 .. MaxClock
NoCall == [op |-> "none"]

Operations == {"register_key", "register_or_update", "rotate_key"}
Content == [key_id : Keys, status : {"active", "retired"}, registered_at : Times,
            retired_at : Times \cup {NoTime}, superseded_by : Keys \cup {NoKey}]
Row == [content : Content, row_hash : Content, chain_hash : Seq(Content)]

INSTANCE SqliteConnections

-----------------------------------------------------------------------------
(* Queries.                                                                *)

\* The ids of the rows a WHERE clause selects.
RowsOf(rows, k, status) ==
    {n \in DOMAIN rows : rows[n].content.key_id = k /\ rows[n].content.status = status}

ActiveRows(rows) == {n \in DOMAIN rows : rows[n].content.status = "active"}

\* ORDER BY id ASC LIMIT 1, and ORDER BY id DESC LIMIT 1.
First(rows, ids) == rows[Min(ids)].content
Latest(rows, ids) == rows[Max(ids)].content

\* The most recently inserted active row, whatever was retired since.
get_active(rows) ==
    IF ActiveRows(rows) = {} THEN NoKey ELSE Latest(rows, ActiveRows(rows)).key_id

\* Mutant: the latest retirement row instead of the first.
was_active_at_last(rows, k, t) ==
    LET registered == RowsOf(rows, k, "active")
        retired    == RowsOf(rows, k, "retired")
    IN  /\ registered # {}
        /\ Latest(rows, registered).registered_at <= t
        /\ retired = {} \/ Latest(rows, retired).retired_at > t

\* The first registration of the key and its first retirement, by row id.
was_active_at(rows, k, t) ==
    LET registered == RowsOf(rows, k, "active")
        retired    == RowsOf(rows, k, "retired")
    IN  /\ registered # {}
        /\ First(rows, registered).registered_at <= t
        /\ retired = {} \/ First(rows, retired).retired_at > t

_row_hash(content) == content

_prev_chain_hash(rows) ==
    IF rows = <<>> THEN KEY_REGISTRY_GENESIS ELSE Last(rows).chain_hash

\* Whether row continues a chain that ends in prev_chain_hash.
RowVerifies(row, prev_chain_hash) ==
    /\ row.row_hash = _row_hash(row.content)
    /\ row.chain_hash = Append(prev_chain_hash, row.row_hash)

verify_chain(rows) ==
    \A n \in DOMAIN rows :
        RowVerifies(rows[n], IF n = 1 THEN KEY_REGISTRY_GENESIS
                             ELSE rows[n - 1].chain_hash)

-----------------------------------------------------------------------------
(* register_key, register_or_update and rotate_key.                        *)

Goto(w, step) == pc' = [pc EXCEPT ![w] = step]

Forget(w) ==
    /\ Goto(w, "idle")
    /\ call' = [call EXCEPT ![w] = NoCall]
    /\ todo' = [todo EXCEPT ![w] = <<>>]
    /\ prev' = [prev EXCEPT ![w] = KEY_REGISTRY_GENESIS]

Busy(w) == pc[w] # "idle"

\* A call starts by taking the time; rotate_key skips the look for its own key.
Begin(w) ==
    /\ ~Busy(w)
    /\ calls < MaxCalls
    /\ calls' = calls + 1
    /\ \E op \in Operations, k \in Keys :
          /\ call' = [call EXCEPT ![w] = [op |-> op, key |-> k, now |-> clock]]
          /\ Goto(w, IF op = "rotate_key" THEN "active" ELSE "existing")
    /\ calm' = (calm /\ \A x \in Workers : ~Busy(x))
    /\ UNCHANGED <<dbVars, todo, prev, clock, held, faults>>

\* SELECT the key's own active row; if there is one it is returned, although
\* the key may have been retired since.
SelectExisting(w) ==
    /\ pc[w] = "existing"
    /\ Read(w)
    /\ IF RowsOf(View(w), call[w].key, "active") # {}
       THEN Forget(w)
       ELSE Goto(w, "active") /\ UNCHANGED <<call, todo, prev>>
    /\ UNCHANGED <<clock, calls, ghosts>>

\* The two rows of a rotation: one retires the active row, one is active.
Retirement(active, c) ==
    [active EXCEPT !.status = "retired", !.retired_at = c.now,
                   !.superseded_by = c.key]
Activation(c) ==
    [key_id |-> c.key, status |-> "active", registered_at |-> c.now,
     retired_at |-> NoTime, superseded_by |-> NoKey]

\* Mutant: the predecessor's retirement row is not written.
RowsToInsertNoRetirement(rows, c) == <<Activation(c)>>

\* Mutant: rotate_key stops after the retirement row.
RowsToInsertRetireOnly(rows, c) ==
    LET active == ActiveRows(rows)
    IN  IF active = {} THEN <<Activation(c)>>
        ELSE <<Retirement(Latest(rows, active), c)>>

RowsToInsert(rows, c) ==
    LET active == ActiveRows(rows)
    IN  IF active = {} \/ (c.op = "register_or_update" /\ get_active(rows) = c.key)
        THEN <<Activation(c)>>
        ELSE <<Retirement(Latest(rows, active), c), Activation(c)>>

\* SELECT the tenant's active row.  register_key raises ValueError when there is
\* one; the other two retire it first.
SelectActive(w) ==
    /\ pc[w] = "active"
    /\ Read(w)
    /\ IF call[w].op = "register_key" /\ ActiveRows(View(w)) # {}
       THEN Forget(w)
       ELSE /\ todo' = [todo EXCEPT ![w] = RowsToInsert(View(w), call[w])]
            /\ Goto(w, "prev")
            /\ UNCHANGED <<call, prev>>
    /\ UNCHANGED <<clock, calls, ghosts>>

\* _insert_row: SELECT the last chain hash, INSERT, COMMIT.
SelectPrevious(w) ==
    /\ pc[w] = "prev"
    /\ Read(w)
    /\ prev' = [prev EXCEPT ![w] = _prev_chain_hash(View(w))]
    /\ Goto(w, "insert")
    /\ UNCHANGED <<call, todo, clock, calls, ghosts>>

\* Mutant: the row hash is taken before retired_at is filled in.
NewRowHashedEarly(content, prev_chain_hash) ==
    LET row_hash == _row_hash([content EXCEPT !.retired_at = NoTime])
    IN  [content    |-> content,
         row_hash   |-> row_hash,
         chain_hash |-> Append(prev_chain_hash, row_hash)]

NewRow(content, prev_chain_hash) ==
    [content    |-> content,
     row_hash   |-> _row_hash(content),
     chain_hash |-> Append(prev_chain_hash, _row_hash(content))]

InsertRow(w) ==
    /\ pc[w] = "insert"
    /\ Write(w, Append(Base(w), NewRow(Head(todo[w]), prev[w])))
    /\ Goto(w, "commit")
    /\ UNCHANGED <<call, todo, prev, clock, calls, ghosts>>

\* OperationalError: the call raises, without a rollback and without its rest.
InsertFails(w) ==
    /\ pc[w] = "insert"
    /\ WriteFails(w)
    /\ Forget(w)
    /\ faults' = TRUE
    /\ UNCHANGED <<clock, calls, held, calm>>

\* Each row is committed by itself.
CommitRow(w) ==
    /\ pc[w] = "commit"
    /\ Commit(w)
    /\ IF Len(todo[w]) > 1
       THEN /\ todo' = [todo EXCEPT ![w] = Tail(@)]
            /\ Goto(w, "prev")
            /\ UNCHANGED <<call, prev>>
       ELSE Forget(w)
    /\ UNCHANGED <<clock, calls, ghosts>>

\* A GET of the key endpoints: SELECTs on the worker's connection.
ReadRegistry(w) ==
    /\ ~Busy(w)
    /\ Read(w)
    /\ UNCHANGED <<callVars, clock, calls, ghosts>>

\* The process dies and is restarted.
Crash(w) ==
    /\ Rollback(w)
    /\ Forget(w)
    /\ faults' = (faults \/ Busy(w))
    /\ UNCHANGED <<clock, calls, held, calm>>

Tick ==
    /\ clock < MaxClock
    /\ clock' = clock + 1
    /\ held' = [held EXCEPT ![clock] = get_active(db)]
    /\ calm' = (calm /\ \A w \in Workers : ~Busy(w))
    /\ UNCHANGED <<dbVars, callVars, calls, faults>>

Init ==
    /\ db = EmptyDb
    /\ lock = NoWorker
    /\ txn = EmptyDb
    /\ conn = [w \in Workers |-> "closed"]
    /\ snap = [w \in Workers |-> EmptyDb]
    /\ pc = [w \in Workers |-> "idle"]
    /\ call = [w \in Workers |-> NoCall]
    /\ todo = [w \in Workers |-> <<>>]
    /\ prev = [w \in Workers |-> KEY_REGISTRY_GENESIS]
    /\ clock = 0
    /\ calls = 0
    /\ held = [t \in Times |-> NoKey]
    /\ calm = TRUE
    /\ faults = FALSE

Next ==
    \/ \E w \in Workers :
          \/ Begin(w) \/ SelectExisting(w) \/ SelectActive(w) \/ SelectPrevious(w)
          \/ InsertRow(w) \/ InsertFails(w) \/ CommitRow(w)
          \/ ReadRegistry(w) \/ Crash(w)
    \/ Tick

Spec == Init /\ [][Next]_vars

-----------------------------------------------------------------------------
(* Properties.                                                             *)

Call == [op : Operations, key : Keys, now : Times]

\* Every variable has its type.
TypeOK ==
    /\ db \in Seq(Row) /\ txn \in Seq(Row)
    /\ lock \in Workers \cup {NoWorker}
    /\ conn \in [Workers -> ConnStates]
    /\ snap \in [Workers -> Seq(Row)]
    /\ pc \in [Workers -> {"idle", "existing", "active", "prev", "insert", "commit"}]
    /\ call \in [Workers -> Call \cup {NoCall}]
    /\ todo \in [Workers -> Seq(Content)]
    /\ prev \in [Workers -> Seq(Content)]
    /\ clock \in Times /\ calls \in Nat
    /\ held \in [Times -> Keys \cup {NoKey}]
    /\ calm \in BOOLEAN /\ faults \in BOOLEAN

\* Races of _insert_row may fork the chain but never leave it: every row hash
\* covers the row's content, and every chain hash continues genesis or the chain
\* hash of an earlier row.
RowsAreChained ==
    \A n \in DOMAIN db :
        \E h \in {KEY_REGISTRY_GENESIS} \cup {db[j].chain_hash : j \in 1 .. n - 1} :
            RowVerifies(db[n], h)

\* What holds of the registry whatever the workers do: the types, and rows that
\* _insert_row chained to genesis or to an earlier row.
RegistryInv == TypeOK /\ RowsAreChained

\* A retirement never leaves the tenant without the successor it names, unless
\* a call failed half-way: with nobody busy, every superseded_by has an active
\* row behind the retirement, however the calls interleaved.
RotationsComplete ==
    (~faults /\ \A w \in Workers : ~Busy(w)) =>
        \A n \in DOMAIN db :
            db[n].content.status = "retired" =>
                \E m \in n + 1 .. Len(db) :
                    /\ db[m].content.status = "active"
                    /\ db[m].content.key_id = db[n].content.superseded_by
                    /\ db[m].content.registered_at = db[n].content.retired_at

RegisteredOnce ==
    \A k \in Keys : \A m, n \in RowsOf(db, k, "active") : m = n

\* "Auditor can reconstruct exact key state at any point in time": when calls did
\* not overlap, fail or cross a second, and no key came back after a rotation, the
\* chain verifies and was_active_at names, for every past second, exactly the key
\* that get_active returned when that second ended.
HistoryIsRight ==
    (calm /\ ~faults /\ RegisteredOnce) =>
        /\ verify_chain(db)
        /\ \A k \in Keys : \A t \in 0 .. clock :
              t < clock => (was_active_at(db, k, t) <=> held[t] = k)

\* An answer about the past is final: once second t is over and every call that
\* started in it or before has ended, no call, race, failure or crash changes
\* what was_active_at says about t.
PastIsSettled ==
    [][\A k \in Keys, t \in Times :
          (t < clock /\ \A w \in Workers : Busy(w) => call[w].now > t) =>
              was_active_at(db', k, t) = was_active_at(db, k, t)]_vars
=============================================================================
