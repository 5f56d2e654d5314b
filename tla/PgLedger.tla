------------------------------ MODULE PgLedger ------------------------------
(***************************************************************************)
(* The two PostgreSQL ledgers: PostgreSQLStorage (repositories.py, over    *)
(* database.py) and PostgreSQLHardenedStorage (postgres_storage.py).       *)
(* Clients in different processes append proofs to one primary; the        *)
(* hardened storage may read from a replica that replays the primary's     *)
(* commits some time later.                                                *)
(*                                                                         *)
(* PostgreSQL is external, modelled by what the code sees of it at READ    *)
(* COMMITTED: a statement reads the committed rows, the rows and locks of  *)
(* a transaction are its own until it ends, an upsert waits for the        *)
(* transaction that changed the row, and an INSERT waits for one that has  *)
(* inserted the same unique key.                                           *)
(*                                                                         *)
(* The pools' other users are not modelled: getconn may find the pool      *)
(* empty at any time, and psycopg2 raises then, it does not wait.          *)
(***************************************************************************)
EXTENDS ProofFormat, SequencesExt

CONSTANTS Clients,     \* callers, each in a process of its own
          Instances,   \* instance_ids of the one tenant
          LockKeys,    \* values of hash(tenant:instance) % 2^31
          Key,         \* the signing key
          RetryMax,    \* ZORYNEX_RETRY_MAX
          MaxCalls,    \* bound: appends begun in a behaviour
          MaxFaults,   \* bound: errors of the server and of the network
          NoDecision

ASSUME PgLedgerAssumption ==
    /\ Key \in Keys
    /\ RetryMax \in Nat \ {0}
    /\ {MaxCalls, MaxFaults} \subseteq Nat
    /\ NoDecision \notin Decisions

VARIABLES
    wal,       \* the committed states of the primary, oldest first
    replayed,  \* how many of them the replica has replayed
    storage,   \* which storage class, and whether it has a replica
    lockKey,   \* hash() of an instance in a client's process
    pc,        \* per client: the step it is about to take
    call,      \* per client: the append being made
    outcomes,  \* what each call so far was answered with
    faults

vars == <<wal, replayed, storage, lockKey, pc, call, outcomes, faults>>

\* A ledger row and the call that wrote it; current_state of the instances
\* table, the to_state of a decision being part of it.
Row == [proof : Proof, author : Nat]
Database == [ledger : [Instances -> Seq(Row)],
             state : [Instances -> Decisions \cup {NoDecision}]]

db == wal[Len(wal)]
Proofs(rows) == [n \in DOMAIN rows |-> rows[n].proof]

Hardened == storage.class = "PostgreSQLHardenedStorage"

NoProof == [sequence_id |-> 0]
Idle == [id |-> 0]
Call == [id : 1..MaxCalls, instance : Instances,
         payload : Payload, proof : Proof \cup {NoProof},
         attempt : 0..RetryMax, auto : BOOLEAN, locked : Nat]

\* A call returns, raises, or ends with its connection or its process.
Answers == {"ok", "raised", "lost"}

Init ==
    /\ wal = << [ledger |-> [i \in Instances |-> <<>>],
                 state |-> [i \in Instances |-> NoDecision]] >>
    /\ replayed = 1
    /\ storage \in {[class |-> "PostgreSQLStorage", replica |-> FALSE],
                    [class |-> "PostgreSQLHardenedStorage", replica |-> FALSE],
                    [class |-> "PostgreSQLHardenedStorage", replica |-> TRUE]}
    /\ lockKey \in [Clients -> [Instances -> LockKeys]]
    /\ pc = [c \in Clients |-> "idle"]
    /\ call = [c \in Clients |-> Idle]
    /\ outcomes = <<>>
    /\ faults = 0

-----------------------------------------------------------------------------
(* What a transaction holds                                                *)

InTransaction(c) == pc[c] \in {"select", "upsert", "insert", "commit"}

\* On a connection left in autocommit every statement is a transaction.
HoldsLocks(c) == InTransaction(c) /\ ~call[c].auto

LockOf(c) == lockKey[c][call[c].instance]

AdvisoryLockFree(c) ==
    \A d \in Clients \ {c} : HoldsLocks(d) => LockOf(d) # LockOf(c)

\* The rows of c's instance another transaction has locked FOR UPDATE.
RowsLocked(c) ==
    {call[d].locked : d \in {d \in Clients \ {c} :
        HoldsLocks(d) /\ call[d].instance = call[c].instance}}

\* The transactions that have changed the instances row of c's instance.
InstanceRowHolders(c) ==
    {d \in Clients \ {c} : /\ HoldsLocks(d)
                           /\ pc[d] \in {"insert", "commit"}
                           /\ call[d].instance = call[c].instance}

\* The open transactions that have inserted c's (instance, sequence_id).
UniqueKeyHolders(c) ==
    {d \in InstanceRowHolders(c) :
        /\ pc[d] = "commit"
        /\ call[d].proof.sequence_id = call[c].proof.sequence_id}

WaitsFor(c) ==
    CASE pc[c] = "upsert" -> InstanceRowHolders(c)
      [] pc[c] = "insert" -> UniqueKeyHolders(c)
      [] OTHER            -> {}

-----------------------------------------------------------------------------
(* Answering a call                                                        *)

Answer(c, a) ==
    /\ outcomes' = [outcomes EXCEPT ![call[c].id] = a]
    /\ pc' = [pc EXCEPT ![c] = "idle"]
    /\ call' = [call EXCEPT ![c] = Idle]

Goto(c, step) == pc' = [pc EXCEPT ![c] = step] /\ UNCHANGED outcomes

\* The exception ends the transaction: acquire() and get_conn() roll back.
\* ChainBroken, SequenceGap and DuplicateSequenceId take no instance_id, so
\* that raising them ends in a TypeError.
Raise(c) == Answer(c, "raised") /\ UNCHANGED <<wal, faults>>

Unchanged == UNCHANGED <<replayed, storage, lockKey>>

-----------------------------------------------------------------------------
(* Building the proof                                                      *)

\* Where a read goes: the replica, or the primary when its pool is empty.
ReadPositions ==
    IF storage.replica THEN {replayed, Len(wal)} ELSE {Len(wal)}

\* What a request can ask to have recorded.
Requests ==
    {[decision |-> d, governance |-> g, determinism |-> DeterminismOf(m)] :
        d \in Decisions, g \in Governance,
        m \in {m \in DeterminismInputs : ~DeterminismRefused(m)}}

Begin(c) ==
    /\ pc[c] = "idle"
    /\ Len(outcomes) < MaxCalls
    /\ \E i \in Instances, payload \in Requests :
          call' = [call EXCEPT ![c] =
                     [id |-> Len(outcomes) + 1, instance |-> i,
                      payload |-> payload, proof |-> NoProof,
                      attempt |-> 0, auto |-> FALSE, locked |-> 0]]
    /\ pc' = [pc EXCEPT ![c] = "latest"]
    /\ outcomes' = Append(outcomes, "pending")
    /\ UNCHANGED <<wal, faults>> /\ Unchanged

\* The caller continues the chain from the proof get_latest_ledger_entry
\* returns.  (GovernanceEngine does not get this far: it looks for
\* current_hash at the top of that proof, where it is under "ledger".)
get_latest_ledger_entry(c) ==
    /\ pc[c] = "latest"
    /\ \E k \in ReadPositions :
          LET chain == Proofs(wal[k].ledger[call[c].instance])
          IN  call' = [call EXCEPT ![c].proof =
                         BuildProof(call[c].payload, LastHash(chain),
                                    Len(chain) + 1, Key)]
    /\ Goto(c, "lock")
    /\ UNCHANGED <<wal, faults>> /\ Unchanged

-----------------------------------------------------------------------------
(* append_ledger_entry                                                     *)

\* Mutant: the hardened pool hands out autocommit connections too.
ConnectionModesAuto == BOOLEAN

\* The first connection of PostgreSQLStorage goes back to the pool when
\* __init__ ends, and is set to autocommit after that.
ConnectionModes == IF Hardened THEN {FALSE} ELSE BOOLEAN

try_advisory_lock(c) ==
    /\ pc[c] = "lock"
    /\ \E auto \in ConnectionModes :
          IF AdvisoryLockFree(c)
          THEN /\ Goto(c, "select")
               /\ call' = [call EXCEPT ![c].auto = auto]
               /\ UNCHANGED <<wal, faults>>
          ELSE Raise(c)
    /\ Unchanged

\* The row the chain is validated against: 0 when the SELECT finds none.
\* FOR UPDATE SKIP LOCKED passes over a last row another append has locked.
LastRow(c) ==
    LET rows == DOMAIN db.ledger[call[c].instance]
    IN  Max((IF Hardened THEN rows \ RowsLocked(c) ELSE rows) \cup {0})

Continues(proof, rows, n) ==
    /\ proof.previous_hash =
          IF n = 0 THEN genesis_hash ELSE rows[n].proof.current_hash
    /\ proof.sequence_id = n + 1

\* PostgreSQLStorage reads on a second connection, which locks nothing.
select_last(c) ==
    /\ pc[c] = "select"
    /\ LET n == LastRow(c)
       IN  IF Continues(call[c].proof, db.ledger[call[c].instance], n)
           THEN /\ Goto(c, "upsert")
                /\ call' = [call EXCEPT ![c].locked = IF Hardened THEN n ELSE 0]
                /\ UNCHANGED <<wal, faults>>
           ELSE Raise(c)
    /\ Unchanged

WithState(d, c) ==
    [ledger |-> d.ledger,
     state |-> [d.state EXCEPT ![call[c].instance] = call[c].payload.decision]]

WithRow(d, c) ==
    [ledger |-> [d.ledger EXCEPT ![call[c].instance] =
                    Append(@, [proof |-> call[c].proof, author |-> call[c].id])],
     state |-> d.state]

upsert_instance(c) ==
    /\ pc[c] = "upsert"
    /\ WaitsFor(c) = {}
    /\ wal' = IF call[c].auto THEN Append(wal, WithState(db, c)) ELSE wal
    /\ Goto(c, "insert")
    /\ UNCHANGED <<call, faults>> /\ Unchanged

\* Mutant: the table has no UNIQUE constraint.
SequenceTakenNever(c) == FALSE

\* UNIQUE(tenant_id, instance_id, sequence_id)
SequenceTaken(c) ==
    call[c].proof.sequence_id \in DOMAIN db.ledger[call[c].instance]

insert_row(c) ==
    /\ pc[c] = "insert"
    /\ WaitsFor(c) = {}
    /\ IF SequenceTaken(c) THEN Raise(c)
       ELSE /\ UNCHANGED faults
            /\ IF call[c].auto
               THEN wal' = Append(wal, WithRow(db, c)) /\ Answer(c, "ok")
               ELSE Goto(c, "commit") /\ UNCHANGED <<wal, call>>
    /\ Unchanged

commit(c) ==
    /\ pc[c] = "commit"
    /\ wal' = Append(wal, WithRow(WithState(db, c), c))
    /\ Answer(c, "ok")
    /\ UNCHANGED faults /\ Unchanged

-----------------------------------------------------------------------------
(* Faults                                                                  *)

\* getconn raises PoolError; _Pool.acquire makes it StorageUnavailable, which
\* is not retried.  A read falls back to the primary's pool first.
pool_exhausted(c) ==
    /\ \/ pc[c] \in {"latest", "lock"}
       \/ pc[c] = "select" /\ ~Hardened
    /\ Raise(c)
    /\ Unchanged

\* Mutant: an append that has been committed is tried again.
_with_retry_committed(c) ==
    IF Hardened /\ call[c].attempt + 1 < RetryMax
    THEN /\ call' = [call EXCEPT ![c].attempt = @ + 1, ![c].locked = 0]
         /\ pc' = [pc EXCEPT ![c] = "lock"]
         /\ wal' = IF pc[c] = "commit"
                   THEN Append(wal, WithRow(WithState(db, c), c)) ELSE wal
         /\ UNCHANGED outcomes
    ELSE Answer(c, "raised") /\ UNCHANGED wal

\* A serialization failure or a deadlock: the server has rolled back.  The
\* hardened storage tries again with the same proof.
_with_retry(c) ==
    IF Hardened /\ call[c].attempt + 1 < RetryMax
    THEN /\ call' = [call EXCEPT ![c].attempt = @ + 1, ![c].locked = 0]
         /\ pc' = [pc EXCEPT ![c] = "lock"]
         /\ UNCHANGED <<outcomes, wal>>
    ELSE Answer(c, "raised") /\ UNCHANGED wal

transient_error(c) ==
    /\ InTransaction(c)
    /\ faults < MaxFaults
    /\ faults' = faults + 1
    /\ _with_retry(c)
    /\ Unchanged

\* The connection is lost, or the client's process ends.  rollback() on the
\* dead connection raises an error without a code: nothing is retried.  A
\* commit under way may have happened.
connection_lost(c) ==
    /\ pc[c] # "idle"
    /\ faults < MaxFaults
    /\ faults' = faults + 1
    /\ Answer(c, "lost")
    /\ \/ UNCHANGED wal
       \/ pc[c] = "commit" /\ wal' = Append(wal, WithRow(WithState(db, c), c))
       \/ /\ pc[c] = "insert" /\ call[c].auto
          /\ WaitsFor(c) = {} /\ ~SequenceTaken(c)
          /\ wal' = Append(wal, WithRow(db, c))
    /\ Unchanged

-----------------------------------------------------------------------------
(* Replication                                                             *)

Replicate ==
    /\ storage.replica
    /\ replayed < Len(wal)
    /\ replayed' = replayed + 1
    /\ UNCHANGED <<wal, storage, lockKey, pc, call, outcomes, faults>>

-----------------------------------------------------------------------------
Next ==
    \/ \E c \in Clients :
          \/ Begin(c)
          \/ get_latest_ledger_entry(c)
          \/ try_advisory_lock(c) \/ select_last(c) \/ upsert_instance(c)
          \/ insert_row(c) \/ commit(c)
          \/ pool_exhausted(c) \/ transient_error(c) \/ connection_lost(c)
    \/ Replicate

Spec == Init /\ [][Next]_vars

-----------------------------------------------------------------------------
(* Properties                                                              *)

\* The variables keep the shape the storage classes give them, and the
\* replica is never ahead of the primary.
TypeOK ==
    /\ wal \in Seq(Database)
    /\ replayed \in 1..Len(wal)
    /\ \A c \in Clients :
          /\ pc[c] \in {"idle", "latest", "lock", "select",
                        "upsert", "insert", "commit"}
          /\ call[c] \in Call \cup {Idle}
          /\ pc[c] = "idle" <=> call[c] = Idle
    /\ \A n \in DOMAIN outcomes : outcomes[n] \in Answers \cup {"pending"}

\* Whatever hash() gives each process for a lock key, whichever row SKIP
\* LOCKED returns and however stale the replica was, the committed ledger
\* grows by one proof at a time that continues the chain as it is then: both
\* storages implement HashChain.
Chain == INSTANCE HashChain WITH
            chains <- [i \in Instances |-> Proofs(db.ledger[i])]
ImplementsHashChain == Chain!Spec

\* The rows of the ledger that call id has written.
Authored(id) ==
    UNION {{i} \X {n \in DOMAIN db.ledger[i] : db.ledger[i][n].author = id} :
              i \in Instances}

\* The answer of append_ledger_entry is the truth about the ledger: a call that
\* returned has written one row, retries included; a call that raised has
\* written none, unless the connection was lost under it, and then at most one.
AnswersAreTrue ==
    \A id \in DOMAIN outcomes :
        LET written == Cardinality(Authored(id))
        IN  CASE outcomes[id] = "ok" -> written = 1
              [] outcomes[id] = "lost" -> written <= 1
              [] OTHER -> written = 0

LastDecision(i) ==
    LET rows == db.ledger[i]
    IN  IF rows = <<>> THEN NoDecision
        ELSE rows[Len(rows)].proof.payload.decision

\* In the hardened storage the upsert of instances.current_state and the row
\* are one transaction: the state of an instance is always the to_state of its
\* last ledger entry.
StateFollowsLedger ==
    Hardened => \A i \in Instances : db.state[i] = LastDecision(i)

\* Nobody waits for somebody who waits: the appends take the row of the
\* instance before the unique key, and the row of the last entry without
\* waiting, so that no set of appends can hold each other up.
WaitsAreShort ==
    \A c, d \in Clients : d \in WaitsFor(c) => WaitsFor(d) = {}

\* What holds of the storages whatever the clients do: the types, an upsert and a
\* row that stand or fall together, and no circle of waits.
PgInv == TypeOK /\ StateFollowsLedger /\ WaitsAreShort
=============================================================================
