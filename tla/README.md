# provable-ai: TLA+ models and proofs

This directory holds TLA+ specifications of provable-ai (the Zorynex proof
engine), the TLC configurations that check them on small instances, and TLAPS
proofs of the results that matter most. `PROJECT.json` is the index: components,
runs, mutants, the map from definitions to source lines, findings, hazards and
theorems.

## 1. The system

| Component | State it keeps | Operations | Hard behaviour |
|---|---|---|---|
| Decision ledger (`provable_ai/engine.py`, `storage.py`, `server/main.py`) | SQLite tables `ledger`, `instances`, `approved_*`; one connection per worker process | record a decision, export a package (and freeze), approve, deactivate, read | several uvicorn workers over one file; reads outside the transaction that writes; busy timeouts; a process that dies |
| Protocols, instances, `Engine` facade (`engine.py`, `storage.py`) | dicts of protocols and instances in each process; table `protocols` | compile, create an instance, bootstrap the demo, transition, replay, export | memory and database drift apart; swallowed errors; a table rebuilt while others use it |
| Proof format and verifiers (`schema.py`, `canonical.py`, `verifier.py`, `verify/verify_package.py`) | none | hash, sign, verify a proof, a chain, a package | engine and verifier must agree on every rule |
| Verification audit log (`audit_log.py`) | SQLite table `verification_audit`, a hash chain per tenant | record, verify the chain, verify up to a block, query | the same races, rows that cannot be stored, with the exception swallowed by the caller |
| Failover signer (`signer_failover.py`, `signer.py`) | mode, failure counter, probe thread, public key cache | sign, name the key, probe, force failover or failback | threads; a mode that changes between the calls of one proof; a probe that must eventually restore the primary |
| Key registry (`audit_keyregistry.py`) | SQLite table, a hash chain per tenant | register, rotate, historical lookup | two commits per rotation; start-up of several workers |
| Anchors (`audit_anchor.py`) | SQLite table, its own chain | anchor, verify | external timestamping between read and write |
| Drift detector (`drift_detector.py`) | SQLite tables `snapshots`, `drift_events` | snapshot, compare | torn snapshots, reads that fail or are old; rows saved out of order |
| Batch export (`audit_batch.py`, `verify/verify_batch.py`) | none | Merkle tree, inclusion proofs, signed batch, offline verification | odd levels, one leaf, duplicates; two implementations that must agree |
| SIEM router (`siem.py`) | bounded queue, worker threads, Splunk buffer | emit, flush | full queue, failing transports, end of the process |
| Rate limiter (`server/rate_limit.py`) | a singleton with a global window, one per tenant, one per tenant for decisions | check | threads, limiter and windows made without a lock, clocks read before locks, rounding |
| Webhooks (`server/webhook.py`, `auth.py`) | nonce store with expiry | sign, verify, receive | copies, delays, several processes, restarts, expiry against the timestamp tolerance by two readings of the clock |
| PostgreSQL storage (`postgres_storage.py`, `repositories.py`, `database.py`) | pools, advisory lock, replica | append, read the last entry | retry after an ambiguous commit, replica lag, waits |
| Roles, PII scrubbing, reports, CLI, SDK, migrations, benchmarks | see `PROJECT.json` | | |

How they interact. A `POST /decision` handler calls `GovernanceEngine
.record_decision`, which reads the governance tables and the latest ledger entry
through `SQLiteStorage`, hashes and signs with the configured signer (possibly a
`FailoverSigner`), and appends through `SQLiteStorage.append_ledger_entry`.
`GET /proof/export` reads the same ledger and writes the `frozen` flag.
`POST /verify` runs the pure verifier and appends to the audit log's own
database. `POST /audit/anchor` takes the audit log's head, `POST
/system/snapshot` the heads of the ledger and of the audit log, and both append
to the anchor store. `GET /audit/export` first verifies the audit chain and
answers 500 while it is broken, then builds a Merkle tree over the ledger. The
handlers are `async` functions that do not await anything while they are in the
engine, so one worker process serves one request at a time; `docker-compose.yml`
starts two workers over one SQLite file, and these interleave. Inside one
process, threads appear in the failover signer, the SIEM router and the rate
limiter; the webhook endpoint awaits the request body, so its handlers interleave
in one process.

What makes each correct is stated as the properties of section 3; what is hard
to test is the `hazards` list of `PROJECT.json`, each at its line.

## 2. Modules

| Module | Models |
|---|---|
| `ProofFormat` | the proof artifact, hashing, signing, both verifiers; operators only |
| `SqliteConnections` | `sqlite3` connections of several processes on one file (external: modelled from how the storage classes use it) |
| `Ledger` | the workers serving decisions, exports, approvals and reads |
| `HashChain` | the abstract ledger: one atomic append per decision |
| `Lifecycle` | protocols and instances of servers and of `Engine` objects |
| `AuditLog` | `VerificationAuditLog.record` and its verification, several workers |
| `FailoverSigner` | callers, probe threads, operator and key service |
| `KeyRegistry` | registration, rotation and history of signing keys |
| `AuditAnchor`, `DriftDetector` | the statements of `anchor()`, and snapshots and their comparison |
| `AuditTrail` | composes the two with the endpoints and a system that keeps running |
| `MerkleBatch` | export, tree, inclusion proofs, online and offline verifiers, a file that gets altered |
| `PgLedger` | both PostgreSQL ledgers, clients in several processes, primary and replica |
| `RateLimiter`, `WebhookReceiver`, `SiemRouter` | the three server-side services, with their threads, processes and clocks |
| `LedgerProofs`, `LifecycleProofs`, `AuditLogProofs`, `KeyRegistryProofs`, `AuditTrailProofs`, `PgLedgerProofs` | the TLAPS proofs about the module of that name |
| `ProcessProofs` | the proofs about the threads inside one process: `FailoverSigner`, `RateLimiter`, `SiemRouter` |
| `DeliveryProofs` | the proofs about what leaves the server: `WebhookReceiver`, `MerkleBatch` |
| `MC...` | instances for TLC |

The modules proved together carry their component's name in `Init`, `Next` and
`Spec` (`SignerSpec`, `LimiterSpec`, `RouterSpec`, `ReceiverSpec`, `BatchSpec`).

`Ledger`, `Lifecycle`, `AuditLog`, `KeyRegistry` and `AuditAnchor` all
instantiate `SqliteConnections`; `Ledger` and `PgLedger` both implement
`HashChain`.

**Hashes and signatures.** SHA-256 is taken to be collision free: a hash is the
list of everything it commits to (or, where every row is unique, the position of
the row), so two hashes are equal exactly when what is under them is.
`genesis_hash` is the empty list. A signature is the pair of key and message.
What stays outside the hash in `build_hash_payload` (instance, tenant, timestamp)
stays outside here.

**SQLite.** A step of a module over SQLite is one SQL statement or one commit.
The behaviour the model gives to a connection was established by running
`sqlite3` in WAL mode as the code configures it: a write that meets a lock fails
after the busy timeout and leaves its deferred transaction open; the next SELECT
pins a snapshot; once someone else commits, the pinned connection reads old data
and each of its writes fails until the transaction is ended, which no caller
does after an `OperationalError`. An `IntegrityError` that is not rolled back
keeps the write lock.

**Ledger: state and actions.** `db` is the committed database, `lock`/`txn` the
writer and its uncommitted database, `conn`/`snap` the connections; `pc`, `req`,
`draft` and `package` are the local variables of each worker's handler; `acked`
and `packages` are what clients have been given; `inForce` remembers the
governance tables in force since a request began. One action per statement:

| Action | Code |
|---|---|
| `StartDecision`, `ValidateGovernance`, `RejectDecision` | handler, `_validate_governance`, determinism checks and every early error |
| `ReadLatest` | `get_latest_ledger_entry`, hashing, signing |
| `ValidateChain` | `_validate_chain_integrity` |
| `EnsureInstance` | `_ensure_instance` |
| `InsertEntry`, `InsertRefused`, `CommitEntry`, `DecisionWriteFails` | the INSERT, `IntegrityError` + rollback, the commit, `OperationalError` |
| `StartExport`, `ComputeRoot`, `ExportRaises`, `freeze_instance`, `CommitFreeze`, `FreezeFails` | `export_proof`, whose two SELECTs are two steps |
| `Approve`, `deactivate_policy`, `DeactivateNothing`, `CommitGovernance`, `GovernanceWriteFails` | governance endpoints and storage |
| `Query` | `get_proof`, `get_chain` and other reads (they pin connections) |
| `Crash` | a worker dies and is restarted |

Simplifications, and why they lose nothing: the three governance SELECTs are one
step, because each table is only ever checked on its own and grows except for
policies, which are read last; the handler's resolution of missing versions is
covered by letting a request carry any versions; the emptiness test of the
export handler is merged with `export_proof`'s first SELECT, since chains never
shrink; `_ensure_instance`'s SELECT and `INSERT OR IGNORE` are one step, since
the INSERT ignores what appeared in between. `get_storage` seeds the governance
tables again after a restart; such a write is one of `Approve`'s. The engine
never passes a tenant, so every row has tenant `default` and the cross-tenant
check of the storage never fires. One signing key: what happens when the key
changes in the middle of a proof is the subject of `FailoverSigner`.

**Lifecycle.** Server processes have `compile`, `create_instance`,
`demo_bootstrap`, `create_instance_endpoint`, `Decision`; library processes open
an `Engine` (`Open`, `Rebuild`) and have `transition`, `replay`, `export_proof`.
`engine[w]` is the two dicts and the active protocol of a process and dies with
it (`Crash`); a ledger row holds the states it names and the row it continues.
`Rebuild` replaces the ledger by a table without unique indexes; the next
`SQLiteStorage` creates them again, which raises if the rows do not allow it.
`create_instance`'s `INSERT OR IGNORE` omits the NOT NULL column `created_at`: it
inserts nothing but takes the write lock (`TouchInstance`). `replay` is what
`verify_chain` asks of the rows: the linkage, and the determinism rule. A decision
carries in `strict_seed` whether it was sent with a seed in strict mode, which is
the one objection the verifier has to a proof the engine recorded (`Ledger`'s
`RejectionsAreExplained`); `Engine.transition` never sends one.

**AuditLog.** `record` is two SELECTs, an INSERT and a commit, each a step;
`Answer` is the verify endpoint returning, with the exception swallowed where the
handler swallows it. The content of a row may be what makes `record` raise:
`ExtractFails` (an infinite `sequence_id`), `HashFails` (`Unhashable` text, not
UTF-8) and `BindFails` (`Unbindable`, an integer SQLite cannot hold; by then the
transaction has begun, and nobody ends it). `verify_chain` and
`verify_chain_at_block` are operators.
`overlaps` is a history variable: the sets of tenants whose calls were under way
at once; `excused` counts the calls that content left without a row, and
`poisoned` knows the workers whose open transaction goes back to such content.

**KeyRegistry.** The two rows of `rotate_key` are two rounds of `SelectPrevious`,
`InsertRow`, `CommitRow`. The clock counts seconds, as the timestamps do; `held`
remembers which key `get_active` returned at the end of each second, and `calm`
and `faults` whether calls overlapped or crossed a second, and whether one failed.

**AuditTrail.** Three endpoints of several workers: the time a snapshot takes
(`SnapshotStart`), each of its SELECTs, the slow time-stamp request, the anchor's
INSERT and commit, the save of the snapshot and the drift event after it are steps,
and the ledger and the audit log change in between. The SELECT of the ledger may
raise, and the snapshot then shows the empty ledger (`ReadLedgerFails`). A worker's
connection to the ledger or the audit log may be stuck in an earlier transaction:
`ReadLedger`, `ReadChainHash` and `AnchorRequest` may read any earlier state, and
the two reads of the audit log then agree (`stuck`).

**MerkleBatch.** `Export` builds and signs the batch of a date range; `Alter`
loses, exchanges or adds a proof of the delivered file, or overwrites its decision.
Levels, siblings and paths are computed as `audit_batch.py` does, its loops written
as recursive functions of the number of rounds (`Levels`, `InclusionPath`,
`WalkFrom`); `ReferenceNode` defines the tree from the top for comparison.

**PgLedger.** `Hardened` chooses the storage class at the start. Advisory lock,
last row, upsert, INSERT and commit are steps of a client; what waits for what is
`WaitsFor`. `_with_retry` decides after each error. The lock key of an instance
is chosen per process, because `hash()` of a string is randomised per process.

**RateLimiter.** A request gets the limiter, making it if it sees none
(`StartCheck`, `MakeLimiter`, `GetLimiter`), and then, for each layer in turn, looks
up its window (`FindWindow`), stores a new one if there was none (`StoreWindow`), reads
the clock and takes the lock (`count_and_check`). Nothing holds a lock between the look
and the assignment, so limiters and windows may be made twice and the last one stays;
they are named by the thread that made them. **WebhookReceiver.** A handler checks the
timestamp (`CheckTimestamp`), reads the clock again to look up and store the nonce
(`StoreNonce`), and then awaits the body (`VerifyBody`); other handlers of the process
run at the await only, but the clock runs everywhere. **SiemRouter.** Emitters, workers
and the main thread that calls `flush()` once and ends the process; a send succeeds or
raises.

**FailoverSigner.** A step is what happens under one acquisition of a lock, or
one call of a key service. A caller goes through `sign_hash`, `get_key_id` and
`get_public_key` as `record_decision` does. The probe thread is a small loop
whose last step before the thread is dead is separate: `is_alive()` is still
true there. `force_failover` calls `_start_health_probe` outside the lock, so
its test and the creation of the thread are two steps. Counters that only the
metrics endpoint reads are left out.

## 3. Runs

All bounds are constants of the modules, given in the `.cfg` files.

| Run | Instance | Shows |
|---|---|---|
| `ledger` | 2 workers, 2 instances, 1 decision with three determinism inputs, 2 policies of which one unapproved, 4 requests | `TypeOK`, `StoredChainsLinked`, `AckedIsDurable`, `GovernanceCurrent`, `LedgerAppendOnly`, the inductive invariant `LedgerInv`, refinement of `HashChain`; `PackagesCoverLedgerPrefix`; `RejectionsAreExplained`: the verifiers refuse what the engine wrote for two reasons and no other |
| `audit_log` | 2 workers, 2 tenants, 3 row contents (one unhashable, one unbindable), 3 calls per tenant | rows stay chained and blocks agree with the chain (`AuditInv`), nothing is rewritten (`LogAppendOnly`); a fork needs two overlapping calls of one tenant (`ForksNeedOverlap`), a lost call overlapping calls or content that cannot be recorded (`LostCallsAreExplained`) |
| `failover` | 2 callers, 2 probe threads, threshold 2, one outage | `SignerInv` (a proof made while failover was quiet names its signer), the liveness property `ProbeFailsBack` |
| `key_registry` | 2 workers, 2 keys, 3 calls, 3 seconds | rows stay chained (`RegistryInv`), `RotationsComplete`, `HistoryIsRight` (`was_active_at` against what `get_active` returned), `PastIsSettled` |
| `audit_trail` | 2 workers, 2 instances, 2 environments, 1 change, 3 seconds, 3 requests | anchors chained and snapshot roots anchored (`TrailInv`), `ClaimsAreNotEarly`, `BaselineIsNewest` |
| `drift` | 1 worker, 2 instances, 2 environments, 2 changes, 2 seconds, 3 requests | `DriftIsExact`, for torn, failed and stale snapshots too |
| `pg_ledger` | 3 clients, 1 instance, 2 lock keys, 2 attempts, 3 appends, 1 fault | refinement of `HashChain`, `AnswersAreTrue` (returned, raised, connection lost), state follows ledger and no circle of waits (`PgInv`) |
| `merkle` | 2 instances, 2 decisions, up to 5 proofs, every alteration | tree equals the reference (`BatchInv`), `DeliveredBatchesVerify`, `ValidBatchesHoldDeliveredIds`, `PathsProveOneProof` |
| `batch_offline`, `batch_modified` | up to 2 proofs | violated: see below |
| `rate_limit` | 1 tenant, 2 threads, limits 2/1/1, 3 requests | `LimiterInv` (limits per window, and replaced limiters and windows that fade), `RetryAfterSuffices` |
| `global_ceiling` | 2 tenants, 2 threads, limits 1/1/1, 3 requests | violated: see below |
| `webhook` | 1 webhook, 1 process of 2 handlers, 4 copies, 1 restart | `ReceiverInv` (accepted once, but for a copy whose two clock readings lie on both sides of the end of the tolerance), `RefusalsHaveACause` |
| `siem` | 2 emitters, 2 workers, 2 transports, queue 2, batch 2, 3 events | every event is in one place and handed over at most once (`RouterInv`), `FlushLeavesLittle`, the liveness property `EveryEventHandled` |
| `siem_missing` | 1 emitter, 1 worker, 2 transports, queue 1, 2 events | violated: see below |
| `lifecycle` | 1 server, 1 library process, 1 instance, 2 protocols, decisions without a seed, 5 requests, 3 starts | `LifecycleInv`, `PathsNeedOneEngine` |
| `replay` | the same, decisions with and without a seed, 4 requests | `ReplayRefusalsExplained` |

Why the bounds are enough. Ledger: two workers can each be in one request, a
third request makes a connection stale, a fourth meets it. Audit log: two calls
race, a third builds on what they left. Key registry: two workers that start
together and a rotation after them, with a second that ends in between. Anchors: a
change that falls between the time and the read of one snapshot while another is taken,
or between any two steps of an anchor, is what could make a baseline or a claim wrong;
stale reads multiply the states, so the two workers of `audit_trail` have one change, and
the one worker of `drift`, whose snapshots need two, has two (the proofs have any number). PostgreSQL: two clients
race under different lock keys while the third waits or retries. Merkle: five
leaves give an odd level twice. Rate limits: limit 2 with out-of-order
timestamps, two threads that come first together and a request after them; the
window is 3 ticks of half a second so that rounding shows.
Webhooks: skews on both sides of the tolerance, a clock that passes both edges and
may move between the two readings; processes share nothing, so one is enough. SIEM: three events fill the queue and leave one in hand. Lifecycle: three
starts are two processes and one restart; in `replay` two requests of each process
suffice for a fork.

Symmetry is used over workers, instances, decisions, tenants, contents,
clients, threads and handlers in runs without a liveness property, never in one
with fairness. Deadlock is not checked where a behaviour ends because a bound of
time or calls is used up or the process has ended (`pg_ledger`, `merkle`,
`rate_limit`, `webhook`, `siem`), and in `lifecycle` and `replay`, where a forked
ledger can no longer be opened by anyone.

**The findings.** Four runs check what the repository says of itself, and TLC finds a
behaviour of the code that contradicts it.

`batch_offline` shows that a batch exported by the server and
not touched by anybody fails `verify/verify_batch.py`, although it says
"Algorithm (matches audit_batch.py exactly)": the stored proofs have no
`proof_id`, `audit_batch.py` derives one, and the offline verifier and
`POST /audit/inclusion-proof` only look for the field.

`batch_modified`: `audit_batch.py` says "Any modification to any proof -> root changes
-> signature invalid", but the root covers the ids of the proofs only. A batch whose
decision was overwritten, or (another behaviour of the model) whose last proof was
repeated where a level is odd, or which lost one of two proofs with the same id, still
verifies. What does hold is `ValidBatchesHoldDeliveredIds`: the set of ids is right.

`global_ceiling`: `rate_limit.py` calls the global window a "hard ceiling regardless of
tenant", but two threads that come first together each make a limiter, and each is
counted in its own. What does hold is `LimiterInv`: each window keeps to its limit,
and a replaced limiter is left within the time of a check.

`siem_missing`: `siem.py` says "duplicate delivery is acceptable; missing delivery is
not", but a send that raised is logged and never repeated, and an event that meets a
full queue is dropped. The property asks no more than that an event some transport has
not got is delivered in the end while the process runs, under the fairness of the worker
threads. What does hold is `RouterInv` and `EveryEventHandled`: every event is accounted
for and tried once at each transport.

**Fairness.** `FailoverSigner` has weak fairness on the steps of a probe thread
and on the continuation of an operator's call, `SiemRouter` on the steps of its
worker threads: a thread the operating system can run does run. Nothing forces a
caller to start or to go on, the operator to act, an exception to be raised, or
the key service to fail or come back; `ProbeFailsBack` assumes `<>[]primary_up`
explicitly, and `EveryEventHandled` only speaks of the time the process runs.

**Mutants.** Each property of a passing run has a mutated definition next to
the one it replaces (`Mutant:` comments) that breaks it: a missing unique
index, `INSERT OR REPLACE`, a swallowed `IntegrityError`, a forgotten rollback,
cached approvals, an off-by-one in a root, a block, a window or a sequence number,
a retirement without its successor, a retry after a commit, levels
that are not padded, a nonce kept for too short a time or stored for a copy that is too
old, a drain that does not wait, a state that does not advance.

## 4. Behaviour worth knowing

What the models had to take over from the code, and a reader of its
documentation would not expect. The properties of the passing runs are worded so
that they hold with these, and so would not notice them; where the repository makes
a plain claim to the contrary, a run of section 3 shows it violated.

Decisions and packages.
- `record_decision` never looks at `frozen`: an exported instance goes on growing
  (`docs/error_codes.md` speaks of frozen instances being refused). Only
  `Engine.transition` looks.
- A decision committed between `export_proof`'s two SELECTs gives a package that
  fails `verify_package`; a strict decision with a seed is signed and stored, and
  `verify_chain` refuses it, and with it `Engine.replay` refuses the instance.
  `RejectionsAreExplained` and `ReplayRefusalsExplained` show there is nothing else.
- After one "database is locked" a worker can be unable to write until it is
  restarted.
- A policy approved under a name is stored as `name:version`, so
  `deactivate_policy` of its version updates nothing (`DeactivateNothing`);
  `GovernanceCurrent` counts the row that stays as approved.

Protocols and instances.
- "The most recently compiled protocol" is that of one worker. `POST
  /instance/create` with the hash of a protocol another worker compiled puts the
  table row, without its spec, in the cache: the request fails with a `KeyError`
  and the hash stays active.
- Two workers that register one protocol: the loser's `IntegrityError` is
  swallowed without a rollback, and the idle worker keeps the write lock.
- Opening an `Engine` on a shared file removes the unique indexes and triggers
  of the ledger. Writers that race then fork it, and a forked file cannot be
  opened by `SQLiteStorage` any more. If the file is locked at that moment the
  rebuild is skipped silently.
- After a restart `create_instance` starts an instance over in memory while its
  rows go on.

Audit, keys, anchors, exports.
- A commit between `record`'s two SELECTs leaves a chain that `verify_chain`
  reports as tampered with, and while it is, `GET /audit/export` answers 500; a
  verify call that loses the race is answered and leaves no row.
- So is a verify call of a proof whose `sequence_id` is infinite or over 2^63, or whose
  text is not UTF-8. An integer SQLite cannot hold leaves the worker's transaction open:
  its later calls may be lost as well, until it is restarted.
- A snapshot whose SELECT of the ledger failed is saved as one of an empty ledger and
  not anchored, and the next drift check reports a root mismatch. A snapshot through a
  stuck connection shows an earlier ledger under the present time.
- A batch that was altered may verify, as long as its set of ids is the delivered one.
- `auto_register_signer` is imported by the server and never called. A key that
  is registered again after its retirement is described by its first rows only,
  which `RegisteredOnce` excludes from `HistoryIsRight`; a rotation that fails
  half-way retires a key and leaves its active row the newest.
- `GET /system/drift` without `env_b` compares the last two snapshots of any
  environment, not of the one asked for.

Signer.
- A proof signed by the fallback may name the primary's key: the three calls of
  one proof are separate, and below the threshold the mode does not change.
- `force_failover` may rely on a probe thread that is already returning and then
  stay in fallback mode; the probe is answered from the public key cache, so it
  can fail back while the key service is down.

PostgreSQL.
- `ChainBroken` and `SequenceGap` are raised with arguments their constructors do
  not take, so clients see `TypeError`; either way nothing is written.
- `PostgreSQLStorage` hands connections back in autocommit mode, so an instance's
  state may be updated though its row is refused (`StateFollowsLedger` is claimed
  of the hardened storage only).
- The advisory lock does not exclude other processes, and the retries of lost
  connections meet the same dead connection. The unique key is what
  protects the chain.

Services.
- A request refused by the tenant's window has already used up the global one;
  two first requests of a tenant, or of the process, may lose a count. The limiter and
  the SIEM router are not wired to the endpoints.
- A damaged, interrupted or unauthorised first copy of a webhook uses up its nonce, so the
  good copy is refused. Another process, or the same one after a restart, accepts a
  webhook again. So does one process, if the nonce expires between the two readings of
  the clock.
- An event whose send failed is not sent again, and one that meets a full queue is dropped.
- `flush()` flushes Splunk's buffer before the queue is drained and sends no
  sentinel; without a flush, less than a batch is never sent.

## 5. Proofs

A module of proofs extends the modules it is about and proves its results for every
value of their constants, from the named assumptions of those modules only: sentinels
are not members of the sets they extend, limits are positive where the code's are,
bounds are numbers, `DeterminismInputs` are well formed, the transports of a router
are a list without repetitions, the instances that `compute_system_root` sorts and
that an export reads are finitely many, and the decisions of `MerkleBatch` are numbered
from 1. The sets of workers, callers, tenants, keys and clients
may be infinite, and the bounds on requests, clocks and faults may be any
numbers.

| Module | Theorem | Establishes |
|---|---|---|
| `LedgerProofs` | `TypeCorrect` | `TypeOK` |
| | `LedgerInvariant` | `LedgerInv`, the inductive invariant |
| | `ChainsLinked` | `StoredChainsLinked` |
| | `AckedDurable` | `AckedIsDurable` |
| | `GovernanceHolds` | `GovernanceCurrent` |
| | `PackagesSound` | `PackagesCoverLedgerPrefix` |
| | `RejectionsExplained` | `RejectionsAreExplained` |
| | `AppendOnly` | the action property `LedgerAppendOnly` |
| | `Refinement` | `Ledger` implements `HashChain` |
| `AuditLogProofs` | `AuditIsChained` | `AuditInv` |
| | `ForksAreRaces` | `ForksNeedOverlap` |
| | `LossesAreExplained` | `LostCallsAreExplained` |
| | `LogOnlyGrows` | the action property `LogAppendOnly` |
| `KeyRegistryProofs` | `RegistryIsChained` | `RegistryInv` |
| | `RotationsAreCompleted` | `RotationsComplete` |
| | `AnswersAreFinal` | the action property `PastIsSettled` |
| | `HistoryIsReconstructed` | `HistoryIsRight` |
| `AuditTrailProofs` | `TrailIsSound` | `TrailInv` |
| | `ClaimsAreSound` | `ClaimsAreNotEarly` |
| | `DriftChecksAreExact` | `DriftIsExact` |
| | `BaselinesAreNewest` | `BaselineIsNewest` |
| `PgLedgerProofs` | `StoragesAreConsistent` | `PgInv` |
| | `AnswersTellTheTruth` | `AnswersAreTrue` |
| | `Refinement` | `PgLedger` implements `HashChain` |
| `LifecycleProofs` | `LifecycleCorrect` | `LifecycleInv` |
| | `PathsAreWalked` | `PathsNeedOneEngine` |
| | `RefusedChainsExplained` | `ReplayRefusalsExplained` |
| `ProcessProofs` | `ProofsNameTheirSigner` | `SignerInv` |
| | `LimiterCorrect` | `LimiterInv` |
| | `RetrySuffices` | `RetryAfterSuffices` |
| | `NoEventVanishes` | `RouterInv` |
| | `FlushAccountsForEvents` | `FlushLeavesLittle` |
| `DeliveryProofs` | `ReceiverIsSafe` | `ReceiverInv` |
| | `RefusalsExplained` | `RefusalsHaveACause` |
| | `RootsAreReference` | `BatchInv` |
| | `DeliveredVerify` | `DeliveredBatchesVerify` |
| | `AlterationsNoticed` | `ValidBatchesHoldDeliveredIds` |
| | `PathsNotReusable` | `PathsProveOneProof` |

So every invariant and every action property that a passing run checks is also proved for
all values of the constants, and so are both refinements of `HashChain`.

None of these properties is inductive as it stands. What had to be added, and why
the code is right, module by module:

**Ledger.** That a commit keeps the chain linked depends on what the worker read
many steps earlier. `LedgerInv` says why it works out. A drafted proof continues
some prefix of the committed chain (`DraftsContinue`), because a worker reads the
committed chain or an old one (`SnapshotsAreOld`) and chains only grow. The
INSERT's unique index then forces the draft to be the very next one, and
`LockDiscipline` carries that fact to the commit: whoever is about to commit holds
the lock, is not stale, and differs from the committed database by exactly its own
row. `ApprovalsRemembered` does the same for governance: a check made on a stale
connection may pass wrongly, but a stale connection cannot write. Most actions are
instances of four lemmas: a quiet step, a write, a rollback and a commit. The
refinement maps `chains` to `db.ledger`: a commit of a decision is one `Record`,
everything else stutters.

Packages need an invariant of their own on top (`PackagesInv`): the chain an
export has read is still a prefix of what its connection reads, however stale
that is (`ViewGrows`), so that the root of the second SELECT covers the list of
the first. What the verifiers refuse needs `RecordedInv`: a request past the
governance step is not one that `DeterminismRefused` refuses, so a drafted and
then a stored proof has a determinism block with one possible objection.

**AuditLog.** `DraftInv`: the row of a call under way continues a row of the
committed log. `AloneAtEnd`: a call that has had its tenant to itself, on a
connection that is not stale, continues the last one, so that a fork needs an
overlap. `QuietInv`: as long as no calls have overlapped, no connection is stuck,
but by content that could not be bound (`poisoned`), the lock is only held to commit
and every answered call has its row or the excuse of such content. `OverlapsAreSeen` ties the history variable to the calls under way.

**KeyRegistry.** `SafeInv` is the argument of `Ledger` for a chain whose rows come
in pairs, with `RotationInv`: a retirement without its successor belongs to a call
that is between its two commits, or failed there. `HistoryIsRight` adds `CalmInv`,
which describes the table of a calm registry: registrations and retirements
alternate, a successor starts in the second its predecessor ends, rows are in the
order of their times, and the key held at the end of a second is that of the last
row up to then. First and last rows are found with
the library's well-founded induction theorem for sets (`WFMin`).

**AuditTrail.** Anchors are numbered without gaps in the store and in every old
version of it that a stale connection reads, which is what excludes repeated
numbers without a fork. Hashes carry the time they came to exist (`Born`). For
`DriftIsExact` the invariant says that a history of the ledger exists that
explains every root there has been and, for each snapshot, the version it shows, which
need not be the one of its time; two different moments of a ledger that only grows have different sorted lists of
hashes, because they differ at the highest count that changed (`RootsDiffer`).

**PgLedger.** The advisory lock plays no part in the argument, since it does not
exclude other processes. A call may have read the primary or a replica that lags, but what
it read is a prefix of the ledger (`WalGrows`), so its proof continues one
(`CallsInv`), and the unique key and the check before it leave only the proof that
comes next. `AuthorInv` says that a row belongs to a call that was answered with
success or lost its connection, and no two rows to one call, whatever it retried;
`RowLocks` that a transaction which has changed an instance's row is alone in it.

**Lifecycle.** `IInv` knows the table and the memory of every process. A process has
a number that no other ever has (`LivesOK`), so the rows of one `Engine` object can be
told from those of the others. A row about to be recorded continues the rows of the
committed ledger unless its connection is stale, and then it will never be written
(`EntryOK`, `LockOK`); that is what makes a `frozen` flag that was looked at hold until
the commit. `RowsOK` holds with and without unique indexes: a process never uses a
`sequence_id` twice, and rows whose ids all differ are one chain, which `replay` accepts
if no row was a strict decision with a seed; `IndexOK` says that duplicates need a
rebuild. `MemoryOK` ties the dict of an `Engine` to the rows it
recorded: as long as it alone has recorded an instance, they are a path of its protocol
that ends in the state in memory.

**FailoverSigner.** `CallerInv` says, for each step of a caller, which signer its
signature has come from, as long as nothing happened that would excuse a mismatch.
**RateLimiter.** `WindowOK` is the point: a timestamp is read before the lock is taken,
so timestamps are appended out of order and windows are trimmed as of a time that is
past; yet in each window every request that still counts has a timestamp of its own, at
most `MaxDelay` earlier (`RememberedBy`). The list a request is measured against is
therefore at least as long as what counts, and the timestamp a refused client was told
about is gone when it comes back. That no window is emptied once requests have passed it
is because a thread makes at most one limiter and one window of an entry
(`NewLimiterOK`, `NewWindowOK`). `HeldOK` and `Fading` say who may still pass a limiter
or window that was replaced: a check that has held it since before the one that stays
let anything pass, and so ends within `MaxDelay`.
**SiemRouter.** `PlacesInv` puts every event in exactly one place, and
`BufferInv` says what Splunk's buffer holds; a flush is accounted for by
remembering which events were queued before it (`BeforeInv`).
**WebhookReceiver.** For each webhook accepted or being verified, the process
remembers the nonce for twice the tolerance after its look-up (`Remembered`), and by
then the timestamp keeps copies out, unless it was checked before and the nonce looked up
after: the exception in the property (`Apart`). A refusal needs no more than that the
store knows the nonce because some copy got as far as the body.

**MerkleBatch.** Most of the argument is about the tree, not about the steps. Every
round makes a level shorter until one hash is left (`LevelsShrink`), and a round of
`compute_inclusion_proof` keeps its path leading from the leaf to the hash at its index
(`ClimbOnce`), also at an odd end, so that paths end in the root (`PathVerifies`). A walk
is injective (`WalkInjective`): a path fits one leaf. Each hash of a tree is the leaf of
one of its ids or joins two hashes of the tree (`TreeHashes`), so a walk that ends in the
root began at a leaf of that tree (`WalkBeginsInTree`), and equal roots mean equal sets
of ids (`RootHoldsIds`). Widths and nodes of the reference tree are read off the levels
(`WidthsAre`, `NodesJoin`). For the order of the ids, `LeavesArranged` shows that sorting
gives any arrangement of the same ids the same leaves, provided that the hash in an id
tells which id it is; that is the one fact that comes from the ledger (`ChainOK`,
`HashNumbersDecisions`: equal hashes are over equally many decisions). `BatchIInv`
carries it, and that the file still has the root and signature it was delivered with.

**Induction.** The library's induction theorems take an operator as a parameter, which
these provers cannot instantiate. Where a proof needs induction over a number, it is
stated of the set of the numbers for which the claim holds (`AllNumbers`, from the
well-founded theorem `WFMin` for sets), and a recursive function is shown to exist before
its equations are used (`LevelsRaise`, `PathClimbs`, `WalkJoins`).

**Only model-checked.** Liveness under fairness is out of the prover's reach:
`ProbeFailsBack` and `EveryEventHandled` rest on their runs.

## 6. Not modelled

`PROJECT.json` lists every component with its status. Outside on purpose: HTTP
routing, HTML and metrics; report formatting and compliance packs (read-only);
PII hashing (stateless); the wire formats of the SIEM transports, RFC 3161 tokens
and S3 calls; field formats of the schema; command line tools and the SDK; schema
migrations; benchmarks; the deprecated `record_transition`; the async PostgreSQL
repositories, which nothing calls.

## 7. Plan

The modules of the plan are written, and all safety properties are proved. What a
next step would take up:

1. The wiring of the services: the limiter and the SIEM router are modelled as they are,
   but no endpoint calls them yet. Once one does, `Ledger`'s handlers should emit to
   `SiemRouter` and be admitted by `RateLimiter`.
2. The async PostgreSQL repositories, when something calls them.
3. `deactivate_policy` and `freeze`, if the code is changed to do what the
   documentation says of them: the properties `GovernanceCurrent` and
   `LifecycleInv` then have stronger forms.
