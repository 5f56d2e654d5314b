------------------------------- MODULE Ledger -------------------------------
(***************************************************************************)
(* The decision ledger: uvicorn worker processes, each with its own        *)
(* GovernanceEngine and its own sqlite3 connection, over one SQLite file.  *)
(* A worker serves one request at a time; the steps of different workers   *)
(* interleave.  A step is one SQL statement, or one commit, together with  *)
(* the local computation after it.                                         *)
(*                                                                         *)
(* The connections themselves are in SqliteConnections.                    *)
(***************************************************************************)
EXTENDS ProofFormat, SequencesExt

CONSTANTS Workers,       \* server worker processes
          Instances,     \* instance_ids
          Names,         \* policy names
          NoName,        \* a policy approved without a name
          SeedRows,      \* governance rows seeded from the environment
          Key,           \* the signing key every worker is configured with
          NoWorker,
          MaxRequests    \* bound: requests served in a behaviour

PolicyRows == [version : Policies, name : Names \cup {NoName}]

\* The governance tables: approved model and agent versions, and for every
\* possible policy row whether it is there and active.
GovernanceTables == [models : SUBSET Models, agents : SUBSET Agents,
                     policies : [PolicyRows -> {"none", "active", "inactive"}]]

ASSUME LedgerAssumption ==
    /\ NoWorker \notin Workers
    /\ NoName \notin Names
    /\ Key \in Keys
    /\ SeedRows \in GovernanceTables
    /\ MaxRequests \in Nat

VARIABLES
    db,        \* committed database: ledger, instances and governance tables
    lock,      \* the worker holding SQLite's write lock
    txn,       \* the uncommitted database of the lock holder
    conn,      \* per worker: state of its connection's transaction
    snap,      \* per worker: the database a stale connection still reads
    pc,        \* per worker: the step it is about to take
    req,       \* per worker: the decision request being served
    draft,     \* per worker: the proof being recorded
    package,   \* per worker: the package being exported
    requests,  \* number of requests served so far
    acked,     \* proofs returned to clients
    packages,  \* packages returned to clients
    inForce    \* per worker: governance tables in force since its request began

vars == <<db, lock, txn, conn, snap, pc, req, draft, package, requests,
          acked, packages, inForce>>

InstanceStates == {"absent", "live", "frozen"}
Database == [ledger : [Instances -> Seq(Proof)],
             instances : [Instances -> InstanceStates],
             governance : GovernanceTables]

\* A package before and after its root is computed.
PartialPackage == [instance : Instances, ledger : Seq(Proof)]
Package == [instance : Instances, ledger : Seq(Proof), instance_root : Seq(Hash),
            public_key : Keys, signature : [by : Keys, over : Seq(Hash)]]

EmptyDb == [ledger |-> [i \in Instances |-> <<>>],
            instances |-> [i \in Instances |-> "absent"],
            governance |-> SeedRows]

NoRequest == [instance |-> "none"]
NoProof   == [sequence_id |-> 0]
NoPackage == [instance |-> "none"]

DecisionRequest == [instance : Instances, decision : Decisions,
                    governance : Governance, determinism : DeterminismInputs]

Steps == {"idle", "governance", "latest", "validate", "ensure", "insert",
          "commit", "root", "freeze", "freezing", "approving"}

-----------------------------------------------------------------------------
INSTANCE SqliteConnections

Goto(w, step) == pc' = [pc EXCEPT ![w] = step]

\* The request of w is over, with or without an answer.
Finish(w) ==
    /\ Goto(w, "idle")
    /\ req' = [req EXCEPT ![w] = NoRequest]
    /\ draft' = [draft EXCEPT ![w] = NoProof]
    /\ package' = [package EXCEPT ![w] = NoPackage]
    /\ inForce' = [inForce EXCEPT ![w] = {}]

-----------------------------------------------------------------------------
(* Governance tables.                                                      *)

\* The model, agent and policy checks, in the order the engine makes them.
GovernanceApproved(tables, g) ==
    /\ g.model \in tables.models
    /\ g.agent \in tables.agents
    /\ \E r \in PolicyRows : r.version = g.policy /\ tables.policies[r] = "active"

\* The row deactivate_policy updates: the one whose key is the version itself.
\* A policy approved under a name is stored as "name:version".
UnnamedRow(v) == [version |-> v, name |-> NoName]

\* add_approved_policy stores the row under its version, or under
\* "name:version" when the name says something else.
PolicyRow(v, name) ==
    [version |-> v, name |-> IF name = v THEN NoName ELSE name]

\* The governance tables after one of the storage's three add_approved_*.
Approvals(tables) ==
    {[tables EXCEPT !.models = @ \cup {m}] : m \in Models}
    \cup {[tables EXCEPT !.agents = @ \cup {a}] : a \in Agents}
    \cup {[tables EXCEPT !.policies[PolicyRow(v, name)] = "active"] :
             v \in Policies, name \in Names \cup {NoName}}

StartRequest(w) ==
    /\ pc[w] = "idle"
    /\ requests < MaxRequests
    /\ requests' = requests + 1

Approve(w) ==
    /\ StartRequest(w)
    /\ \E tables \in Approvals(db.governance) :
          Write(w, [Base(w) EXCEPT !.governance = tables])
    /\ Goto(w, "approving")
    /\ UNCHANGED <<req, draft, package, acked, packages, inForce>>

deactivate_policy(w, v) ==
    /\ StartRequest(w)
    /\ db.governance.policies[UnnamedRow(v)] # "none"
    /\ Write(w, [Base(w) EXCEPT
                   !.governance.policies[UnnamedRow(v)] = "inactive"])
    /\ Goto(w, "approving")
    /\ UNCHANGED <<req, draft, package, acked, packages, inForce>>

\* The UPDATE matches no row; the commit has nothing to write.
DeactivateNothing(w, v) ==
    /\ StartRequest(w)
    /\ db.governance.policies[UnnamedRow(v)] = "none"
    /\ CanWrite(w)
    /\ Rollback(w)
    /\ UNCHANGED <<pc, req, draft, package, acked, packages, inForce>>

CommitGovernance(w) ==
    /\ pc[w] = "approving"
    /\ Commit(w)
    /\ Goto(w, "idle")
    /\ inForce' = [x \in Workers |-> IF inForce[x] = {} THEN {}
                                     ELSE inForce[x] \cup {txn.governance}]
    /\ UNCHANGED <<req, draft, package, requests, acked, packages>>

GovernanceWriteFails(w) ==
    /\ StartRequest(w)
    /\ WriteFails(w)
    /\ UNCHANGED <<pc, req, draft, package, acked, packages, inForce>>

-----------------------------------------------------------------------------
(* POST /decision: GovernanceEngine.record_decision and                    *)
(* SQLiteStorage.append_ledger_entry.                                      *)

\* The handler fills versions the request leaves out from the approved lists,
\* so the engine may be handed any versions; the lists are SELECTed first.
StartDecision(w) ==
    /\ StartRequest(w)
    /\ Read(w)
    /\ \E r \in DecisionRequest : req' = [req EXCEPT ![w] = r]
    /\ Goto(w, "governance")
    /\ inForce' = [inForce EXCEPT ![w] = {db.governance}]
    /\ UNCHANGED <<draft, package, acked, packages>>

\* Mutant: the approved lists are cached when the process starts.
ValidateGovernanceCached(w) ==
    /\ pc[w] = "governance"
    /\ GovernanceApproved(SeedRows, req[w].governance)
    /\ ~DeterminismRefused(req[w].determinism)
    /\ Read(w)
    /\ Goto(w, "latest")
    /\ UNCHANGED <<req, draft, package, requests, acked, packages, inForce>>

ValidateGovernance(w) ==
    /\ pc[w] = "governance"
    /\ GovernanceApproved(View(w).governance, req[w].governance)
    /\ ~DeterminismRefused(req[w].determinism)
    /\ Read(w)
    /\ Goto(w, "latest")
    /\ UNCHANGED <<req, draft, package, requests, acked, packages, inForce>>

\* GovernanceError, a determinism error, CanonicalJsonError on the metadata,
\* a schema error or, with the proof assembled, SigningFailed.
RejectDecision(w) ==
    /\ pc[w] \in {"governance", "validate"}
    /\ Read(w)
    /\ Finish(w)
    /\ UNCHANGED <<requests, acked, packages>>

DraftOf(r, chain) ==
    BuildProof([decision    |-> r.decision,
                governance  |-> r.governance,
                determinism |-> DeterminismOf(r.determinism)],
               LastHash(chain), Len(chain) + 1, Key)

\* get_latest_ledger_entry, then hashing and signing.
ReadLatest(w) ==
    /\ pc[w] = "latest"
    /\ Read(w)
    /\ draft' = [draft EXCEPT
                   ![w] = DraftOf(req[w], View(w).ledger[req[w].instance])]
    /\ Goto(w, "validate")
    /\ UNCHANGED <<req, package, requests, acked, packages, inForce>>

ChainAccepts(chain, p) ==
    /\ p.sequence_id = Len(chain) + 1
    /\ p.previous_hash = LastHash(chain)

\* _validate_chain_integrity: a SELECT of its own, before the transaction.
ValidateChain(w) ==
    /\ pc[w] = "validate"
    /\ Read(w)
    /\ IF ChainAccepts(View(w).ledger[req[w].instance], draft[w])
       THEN Goto(w, "ensure") /\ UNCHANGED <<req, draft, package, inForce>>
       ELSE Finish(w)   \* DuplicateSequenceId, SequenceGap or ChainBroken
    /\ UNCHANGED <<requests, acked, packages>>

InstanceMissing(w) == View(w).instances[req[w].instance] = "absent"

\* _ensure_instance: INSERT OR IGNORE when the SELECT finds no row.
EnsureInstance(w) ==
    /\ pc[w] = "ensure"
    /\ IF InstanceMissing(w)
       THEN Write(w, [Base(w) EXCEPT !.instances[req[w].instance] =
                                        IF @ = "absent" THEN "live" ELSE @])
       ELSE Read(w)
    /\ Goto(w, "insert")
    /\ UNCHANGED <<req, draft, package, requests, acked, packages, inForce>>

\* Mutant: a database without the index on (instance, sequence_id).
UniqueViolationHashOnly(chain, p) ==
    \E n \in DOMAIN chain : chain[n].current_hash = p.current_hash

\* The unique indexes on (instance, sequence_id) and (instance, current_hash).
UniqueViolation(chain, p) ==
    \E n \in DOMAIN chain : \/ chain[n].sequence_id = p.sequence_id
                            \/ chain[n].current_hash = p.current_hash

\* Mutant: INSERT OR REPLACE.
InsertEntryReplacing(w) ==
    /\ pc[w] = "insert"
    /\ LET i == req[w].instance
           n == draft[w].sequence_id
       IN  Write(w, [Base(w) EXCEPT !.ledger[i] =
                        IF n \in DOMAIN @ THEN [@ EXCEPT ![n] = draft[w]]
                        ELSE Append(@, draft[w])])
    /\ Goto(w, "commit")
    /\ UNCHANGED <<req, draft, package, requests, acked, packages, inForce>>

InsertEntry(w) ==
    /\ pc[w] = "insert"
    /\ ~UniqueViolation(Base(w).ledger[req[w].instance], draft[w])
    /\ Write(w, [Base(w) EXCEPT !.ledger[req[w].instance] = Append(@, draft[w])])
    /\ Goto(w, "commit")
    /\ UNCHANGED <<req, draft, package, requests, acked, packages, inForce>>

\* Mutant: the IntegrityError is taken for a repeated request and swallowed.
InsertRefusedSwallowed(w) ==
    /\ pc[w] = "insert"
    /\ CanWrite(w)
    /\ UniqueViolation(Base(w).ledger[req[w].instance], draft[w])
    /\ Rollback(w)
    /\ acked' = acked \cup {[instance |-> req[w].instance, proof |-> draft[w]]}
    /\ Finish(w)
    /\ UNCHANGED <<requests, packages>>

\* Mutant: the exception handler forgets the rollback.
InsertRefusedNoRollback(w) ==
    /\ pc[w] = "insert"
    /\ UniqueViolation(Base(w).ledger[req[w].instance], draft[w])
    /\ Write(w, Base(w))
    /\ Finish(w)
    /\ UNCHANGED <<requests, acked, packages>>

\* sqlite3.IntegrityError: rolled back and raised.
InsertRefused(w) ==
    /\ pc[w] = "insert"
    /\ CanWrite(w)
    /\ UniqueViolation(Base(w).ledger[req[w].instance], draft[w])
    /\ Rollback(w)
    /\ Finish(w)
    /\ UNCHANGED <<requests, acked, packages>>

\* Mutant: the answer is built after the request's locals are cleared.
CommitEntryCleared(w) ==
    /\ pc[w] = "commit"
    /\ Commit(w)
    /\ Finish(w)
    /\ acked' = acked \cup {[instance |-> req[w].instance, proof |-> draft'[w]]}
    /\ UNCHANGED <<requests, packages>>

CommitEntry(w) ==
    /\ pc[w] = "commit"
    /\ Commit(w)
    /\ acked' = acked \cup {[instance |-> req[w].instance, proof |-> draft[w]]}
    /\ Finish(w)
    /\ UNCHANGED <<requests, packages>>

\* OperationalError out of _ensure_instance or of the ledger INSERT.
DecisionWriteFails(w) ==
    /\ \/ pc[w] = "ensure" /\ InstanceMissing(w)
       \/ pc[w] = "insert"
    /\ WriteFails(w)
    /\ Finish(w)
    /\ UNCHANGED <<requests, acked, packages>>

-----------------------------------------------------------------------------
(* GET /proof/export: GovernanceEngine.export_proof.                       *)

\* The handler's emptiness test and the first SELECT of the chain.
StartExport(w) ==
    /\ StartRequest(w)
    /\ Read(w)
    /\ \E i \in Instances :
          /\ View(w).ledger[i] # <<>>
          /\ package' = [package EXCEPT ![w] =
                [instance |-> i, ledger |-> View(w).ledger[i]]]
    /\ Goto(w, "root")
    /\ UNCHANGED <<req, draft, acked, packages, inForce>>

\* Mutant: the root leaves out the latest entry.
ComputeRootShort(w) ==
    /\ pc[w] = "root"
    /\ Read(w)
    /\ LET i    == package[w].instance
           root == Front(instance_root(View(w).ledger[i]))
       IN  package' = [package EXCEPT ![w] =
             [instance      |-> i,
              ledger        |-> package[w].ledger,
              instance_root |-> root,
              public_key    |-> Key,
              signature     |-> sign_hash(Key, root)]]
    /\ Goto(w, "freeze")
    /\ UNCHANGED <<req, draft, requests, acked, packages, inForce>>

\* _compute_instance_root SELECTs the chain again; the root is then signed.
ComputeRoot(w) ==
    /\ pc[w] = "root"
    /\ Read(w)
    /\ LET i    == package[w].instance
           root == instance_root(View(w).ledger[i])
       IN  package' = [package EXCEPT ![w] =
             [instance      |-> i,
              ledger        |-> package[w].ledger,
              instance_root |-> root,
              public_key    |-> Key,
              signature     |-> sign_hash(Key, root)]]
    /\ Goto(w, "freeze")
    /\ UNCHANGED <<req, draft, requests, acked, packages, inForce>>

\* SigningFailed or KMSUnavailable while the root is signed: nothing is frozen.
ExportRaises(w) ==
    /\ pc[w] = "root"
    /\ Read(w)
    /\ Finish(w)
    /\ UNCHANGED <<requests, acked, packages>>

freeze_instance(w) ==
    /\ pc[w] = "freeze"
    /\ Write(w, [Base(w) EXCEPT !.instances[package[w].instance] =
                                   IF @ = "absent" THEN @ ELSE "frozen"])
    /\ Goto(w, "freezing")
    /\ UNCHANGED <<req, draft, package, requests, acked, packages, inForce>>

ReturnPackage(w) ==
    /\ packages' = packages \cup {package[w]}
    /\ Finish(w)
    /\ UNCHANGED <<requests, acked>>

CommitFreeze(w) == pc[w] = "freezing" /\ Commit(w) /\ ReturnPackage(w)

\* export_proof swallows the exception: the package is returned all the same.
FreezeFails(w) == pc[w] = "freeze" /\ WriteFails(w) /\ ReturnPackage(w)

-----------------------------------------------------------------------------
\* get_proof, get_chain and the other read-only requests: one SELECT on the
\* worker's connection.
Query(w) ==
    /\ pc[w] = "idle"
    /\ Read(w)
    /\ UNCHANGED <<pc, req, draft, package, requests, acked, packages, inForce>>

\* The process dies and is restarted: SQLite drops what was not committed.
Crash(w) ==
    /\ Rollback(w)
    /\ Finish(w)
    /\ UNCHANGED <<requests, acked, packages>>

Init ==
    /\ db = EmptyDb
    /\ lock = NoWorker
    /\ txn = EmptyDb
    /\ conn = [w \in Workers |-> "closed"]
    /\ snap = [w \in Workers |-> EmptyDb]
    /\ pc = [w \in Workers |-> "idle"]
    /\ req = [w \in Workers |-> NoRequest]
    /\ draft = [w \in Workers |-> NoProof]
    /\ package = [w \in Workers |-> NoPackage]
    /\ requests = 0
    /\ acked = {}
    /\ packages = {}
    /\ inForce = [w \in Workers |-> {}]

Decide(w) ==
    \/ StartDecision(w) \/ ValidateGovernance(w) \/ RejectDecision(w)
    \/ ReadLatest(w) \/ ValidateChain(w) \/ EnsureInstance(w)
    \/ InsertEntry(w) \/ InsertRefused(w) \/ CommitEntry(w)
    \/ DecisionWriteFails(w)

Export(w) ==
    \/ StartExport(w) \/ ComputeRoot(w) \/ freeze_instance(w)
    \/ CommitFreeze(w) \/ FreezeFails(w) \/ ExportRaises(w)

Govern(w) ==
    \/ Approve(w) \/ CommitGovernance(w) \/ GovernanceWriteFails(w)
    \/ \E v \in Policies : deactivate_policy(w, v) \/ DeactivateNothing(w, v)

Next == \E w \in Workers :
    Decide(w) \/ Export(w) \/ Govern(w) \/ Query(w) \/ Crash(w)

Spec == Init /\ [][Next]_vars

-----------------------------------------------------------------------------
(* Properties.                                                             *)

\* Every variable has its type: the lock is a worker's or nobody's, a stale
\* connection keeps a whole database, and handlers hold what their steps left them.
TypeOK ==
    /\ db \in Database /\ txn \in Database
    /\ lock \in Workers \cup {NoWorker}
    /\ conn \in [Workers -> ConnStates]
    /\ snap \in [Workers -> Database]
    /\ pc \in [Workers -> Steps]
    /\ req \in [Workers -> DecisionRequest \cup {NoRequest}]
    /\ draft \in [Workers -> Proof \cup {NoProof}]
    /\ package \in [Workers -> Package \cup PartialPackage \cup {NoPackage}]
    /\ requests \in Nat
    /\ packages \subseteq Package
    /\ acked \subseteq [instance : Instances, proof : Proof]
    /\ inForce \in [Workers -> SUBSET GovernanceTables]

\* The local variables a worker has set by the time it is at a step.
ShapeOK ==
    \A w \in Workers :
        /\ pc[w] \in {"governance", "latest", "validate", "ensure", "insert", "commit"}
              => req[w] \in DecisionRequest
        /\ pc[w] \in {"validate", "ensure", "insert", "commit"} => draft[w] \in Proof
        /\ pc[w] = "root" => package[w] \in PartialPackage
        /\ pc[w] \in {"freeze", "freezing"} => package[w] \in Package

\* The committed chain of every instance, as get_ledger_chain returns it, passes
\* the hash, signature, linkage and sequence steps of verifier.verify_chain,
\* whatever workers read, raced, timed out or died in between.
StoredChainsLinked == \A i \in Instances : ChainLinked(db.ledger[i])

\* A proof that record_decision returned is in the ledger, at its sequence
\* number, from then on: no race, rollback or crash takes it back.
AckedIsDurable ==
    \A a \in acked :
        /\ a.proof.sequence_id \in DOMAIN db.ledger[a.instance]
        /\ db.ledger[a.instance][a.proof.sequence_id] = a.proof

\* A decision reaches its commit only under versions that were all approved at
\* one moment after its request began: record_decision may check a stale
\* connection's tables, but then append_ledger_entry cannot write.
GovernanceCurrent ==
    \A w \in Workers :
        pc[w] = "commit" =>
            \E tables \in inForce[w] : GovernanceApproved(tables, req[w].governance)

\* What export_proof hands out: the listed proofs are a linked chain and a
\* prefix of the ones under the signed root, and those a prefix of the ledger.
PackagesCoverLedgerPrefix ==
    \A p \in packages :
        /\ ChainLinked(p.ledger)
        /\ IsPrefix(instance_root(p.ledger), p.instance_root)
        /\ IsPrefix(p.instance_root, instance_root(db.ledger[p.instance]))

\* The ledger only grows: no step of any worker changes or removes a row.
LedgerAppendOnly ==
    [][\A i \in Instances : IsPrefix(db.ledger[i], db'.ledger[i])]_db

\* The workers, their races and failures included, implement one atomic append
\* per recorded decision: every commit of append_ledger_entry extends the chain
\* by a proof built from the chain as it is at the commit.
Chain == INSTANCE HashChain WITH chains <- db.ledger
ImplementsHashChain == Chain!Spec

-----------------------------------------------------------------------------
(* The inductive invariant behind the safety properties.                   *)

Deciding == {"governance", "latest", "validate", "ensure", "insert", "commit"}
Drafted == {"validate", "ensure", "insert", "commit"}
Committing == {"commit", "freezing", "approving"}

\* p continues the first proofs of the chain, possibly all of them.
Continues(p, chain) ==
    LET n == p.sequence_id
    IN  /\ n \in 1 .. Len(chain) + 1
        /\ p = BuildProof(p.payload, HashBefore(chain, n), n, Key)

\* A drafted proof continues a prefix of the committed chain.
DraftsContinue ==
    \A w \in Workers :
        pc[w] \in Drafted => Continues(draft[w], db.ledger[req[w].instance])

\* A stale connection sees an old ledger, never a different one.
SnapshotsAreOld ==
    \A w \in Workers : conn[w] = "stale" =>
        \A i \in Instances : IsPrefix(snap[w].ledger[i], db.ledger[i])

\* The write lock belongs to a worker between its first write and its commit,
\* which does not read a stale snapshot, and its uncommitted database differs
\* from the committed one by what that worker wrote.
LockDiscipline ==
    /\ \A w \in Workers : pc[w] \in Committing => lock = w
    /\ \A w \in Workers : lock = w =>
         /\ pc[w] \in Committing \cup {"insert"}
         /\ conn[w] # "stale"
         /\ pc[w] # "approving" => txn.governance = db.governance
         /\ pc[w] # "commit" => txn.ledger = db.ledger
         /\ pc[w] = "commit" =>
              LET i == req[w].instance
              IN  /\ draft[w].sequence_id = Len(db.ledger[i]) + 1
                  /\ txn.ledger = [db.ledger EXCEPT ![i] = Append(@, draft[w])]

\* The tables a deciding worker may rely on are remembered, and unless its
\* connection is stale some of them approved its versions.
ApprovalsRemembered ==
    \A w \in Workers :
        /\ pc[w] \in Deciding => db.governance \in inForce[w]
        /\ pc[w] \in Deciding \ {"governance"} /\ conn[w] # "stale" =>
             \E tables \in inForce[w] : GovernanceApproved(tables, req[w].governance)

\* The chains of record_decision and append_ledger_entry are safe because of
\* all of these together: no part of it is kept by the steps on its own.
LedgerInv ==
    /\ StoredChainsLinked
    /\ AckedIsDurable
    /\ DraftsContinue
    /\ SnapshotsAreOld
    /\ LockDiscipline
    /\ ApprovalsRemembered

-----------------------------------------------------------------------------
(* What the verifiers say of what the engine wrote.                        *)

\* record_decision stores a random seed whatever the mode, verify_proof refuses it
\* in this one.
StrictWithSeed(p) ==
    p.payload.determinism.mode = STRICT /\ p.payload.determinism.seed

\* The engine's own proofs are rejected for two reasons and for no other, whatever
\* the workers do: verify_chain refuses a stored chain exactly when a decision came
\* strict_deterministic with a random_seed, and verify_package a package exactly
\* when a decision was committed between the two SELECTs of its export_proof.
RejectionsAreExplained ==
    /\ \A i \in Instances :
          db.ledger[i] # <<>> =>
              (verify_chain(db.ledger[i])
                  <=> \A n \in DOMAIN db.ledger[i] : ~StrictWithSeed(db.ledger[i][n]))
    /\ \A p \in packages :
          verify_package(p) <=> Len(p.instance_root) = Len(p.ledger)
=============================================================================
