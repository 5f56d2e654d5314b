----------------------------- MODULE AuditTrail -----------------------------
(***************************************************************************)
(* Anchors, snapshots and drift checks over a system that keeps running:   *)
(* POST /audit/anchor, POST /system/snapshot and GET /system/drift of      *)
(* server/main.py for one tenant, composed with AuditAnchor and            *)
(* DriftDetector, while decisions and verify calls of other workers go on. *)
(* Every SELECT, every reading of the clock and every commit is a step, so *)
(* a snapshot may be torn by what happens between its reads.               *)
(*                                                                         *)
(* External: the decision ledger grows as in Ledger, the audit log by one  *)
(* row at a time with a hash of its own as in AuditLog.  A worker's        *)
(* connection to either may be stuck in a transaction that an earlier      *)
(* request left open, as those modules show: it then reads an earlier      *)
(* state, the same one throughout a request.  The drift database takes one *)
(* row per statement or fails; a connection of it that is stuck cannot     *)
(* write and so leaves no row.                                             *)
(***************************************************************************)
EXTENDS AuditAnchor, DriftDetector

CONSTANTS Instances, Environments, NoEnv,
          MaxClock,       \* bound: the last second
          MaxRequests,    \* bound: requests to the three endpoints
          MaxInputs       \* bound: those, and the decisions and verify calls of others

ASSUME TrailAssumption ==
    /\ NoWorker \notin AnchorWorkers
    /\ NoEnv \notin Environments
    /\ IsFiniteSet(Instances)
    /\ {MaxClock, MaxRequests, MaxInputs} \subseteq Nat

VARIABLES
    clock,       \* the current second
    heads,       \* per instance: the number of decisions, which names its hash
    roots,       \* the states of the ledger: system root, instances, time of commit
    audit,       \* the audit log: the time of each row
    pc,          \* per worker: the step it is about to take
    part,        \* per worker: the request and the snapshot it is collecting
    requests,    \* requests made so far
    snapshots,   \* the snapshots table
    events       \* the drift_events table

trailVars == <<clock, heads, roots, audit>>
vars == <<dbVars, draft, trailVars, pc, part, requests, snapshots, events>>

Times == 0 .. MaxClock
NoPart == [op |-> "none"]
ZERO_ROOT == compute_system_root([i \in Instances |-> 0])

\* A row of the audit log and a system root, as anchored hashes.
AuditHash(n) == [kind |-> "audit", hash |-> n]
RootHash(root) == [kind |-> "root", hash |-> root]

Goto(w, step) == pc' = [pc EXCEPT ![w] = step]
Finish(w) == Goto(w, "idle") /\ part' = [part EXCEPT ![w] = NoPart]
Inputs == requests + (Len(roots) - 1) + Len(audit)
Arrives(w) ==
    /\ pc[w] = "idle"
    /\ requests < MaxRequests
    /\ Inputs < MaxInputs
    /\ requests' = requests + 1

-----------------------------------------------------------------------------
(* The rest of the system.                                                 *)

\* External: a decision of some instance is committed.
Decide(i) ==
    /\ Inputs < MaxInputs
    /\ heads' = [heads EXCEPT ![i] = @ + 1]
    /\ roots' = Append(roots, [root  |-> compute_system_root(heads'),
                               count |-> InstanceCount(heads'),
                               time  |-> clock])
    /\ UNCHANGED <<dbVars, draft, clock, audit, pc, part, requests, snapshots, events>>

\* External: a verify call is recorded.
Verify ==
    /\ Inputs < MaxInputs
    /\ audit' = Append(audit, clock)
    /\ UNCHANGED <<dbVars, draft, clock, heads, roots, pc, part, requests, snapshots, events>>

Tick ==
    /\ clock < MaxClock
    /\ clock' = clock + 1
    /\ UNCHANGED <<dbVars, draft, heads, roots, audit, pc, part, requests, snapshots, events>>

-----------------------------------------------------------------------------
(* take_snapshot, and the anchor() call in it and in POST /audit/anchor.   *)

\* What a SELECT may return: the last of n states or, on a connection that is
\* stuck, one before it.
Stuck(version, n) == IF version < n THEN {TRUE} ELSE BOOLEAN

\* POST /audit/anchor reads the latest chain hash.
AnchorRequest(w) ==
    /\ Arrives(w)
    /\ \E version \in 0 .. Len(audit) :
          part' = [part EXCEPT ![w] = [op |-> "anchor", anchors |-> AuditHash(version)]]
    /\ Goto(w, "seq")
    /\ UNCHANGED <<dbVars, draft, trailVars, snapshots, events>>

\* take_snapshot takes the time; the other fields are filled in by the steps that
\* follow.  base is the snapshot a drift check compares the new one with, version
\* the state of the ledger that the snapshot shows, and fresh (a ghost) whether
\* that was the ledger's state when it was read.
SnapshotStart(op, env, base) ==
    [op               |-> op,
     base             |-> base,
     environment      |-> env,
     recorded_at      |-> clock,
     system_root      |-> ZERO_ROOT,
     instance_count   |-> 0,
     version          |-> 1,
     fresh            |-> FALSE,
     stuck            |-> FALSE,
     audit_chain_hash |-> 0,
     audit_row_count  |-> 0,
     anchors          |-> RootHash(ZERO_ROOT),
     anchored         |-> FALSE]

SnapshotRequest(w, env) ==
    /\ Arrives(w)
    /\ part' = [part EXCEPT ![w] = SnapshotStart("snapshot", env, 0)]
    /\ Goto(w, "ledger")
    /\ UNCHANGED <<dbVars, draft, trailVars, snapshots, events>>

\* The SELECT of the latest hash of every instance.
ReadLedger(w) ==
    /\ pc[w] = "ledger"
    /\ \E version \in DOMAIN roots :
          part' = [part EXCEPT ![w] = [@ EXCEPT
              !.system_root    = roots[version].root,
              !.instance_count = roots[version].count,
              !.version        = version,
              !.fresh          = version = Len(roots),
              !.anchors        = RootHash(roots[version].root)]]
    /\ Goto(w, "chain")
    /\ UNCHANGED <<dbVars, draft, trailVars, requests, snapshots, events>>

\* "except Exception": the snapshot shows the empty ledger.
ReadLedgerFails(w) ==
    /\ pc[w] = "ledger"
    /\ Goto(w, "chain")
    /\ UNCHANGED <<dbVars, draft, trailVars, part, requests, snapshots, events>>

ReadChainHash(w) ==
    /\ pc[w] = "chain"
    /\ \E version \in 0 .. Len(audit) : \E stuck \in Stuck(version, Len(audit)) :
          part' = [part EXCEPT ![w].audit_chain_hash = version, ![w].stuck = stuck]
    /\ Goto(w, "count")
    /\ UNCHANGED <<dbVars, draft, trailVars, requests, snapshots, events>>

\* The row count, on the same connection; then a root that is not zero is anchored.
ReadRowCount(w) ==
    /\ pc[w] = "count"
    /\ part' = [part EXCEPT ![w] = [@ EXCEPT
          !.audit_row_count = IF part[w].stuck THEN part[w].audit_chain_hash ELSE Len(audit),
          !.stuck = FALSE]]
    /\ Goto(w, IF part[w].system_root = ZERO_ROOT THEN "save" ELSE "seq")
    /\ UNCHANGED <<dbVars, draft, trailVars, requests, snapshots, events>>

AnchorSeq(w) ==
    /\ pc[w] = "seq"
    /\ SelectAnchorSeq(w, part[w].anchors, clock)
    /\ Goto(w, "prev")
    /\ UNCHANGED <<trailVars, part, requests, snapshots, events>>

\* Mutant: the hash to anchor is read again once the authority has answered.
AnchorPrevRereads(w) ==
    /\ pc[w] = "prev"
    /\ Read(w)
    /\ draft' = [draft EXCEPT
          ![w].chain_hash = IF @.kind = "audit" THEN AuditHash(Len(audit)) ELSE @,
          ![w].prev_anchor = Len(View(w))]
    /\ Goto(w, "insert")
    /\ UNCHANGED <<trailVars, part, requests, snapshots, events>>

AnchorPrev(w) ==
    /\ pc[w] = "prev"
    /\ SelectPreviousAnchor(w)
    /\ Goto(w, "insert")
    /\ UNCHANGED <<trailVars, part, requests, snapshots, events>>

AnchorInsert(w) ==
    /\ pc[w] = "insert"
    /\ InsertAnchor(w)
    /\ Goto(w, "commit")
    /\ UNCHANGED <<trailVars, part, requests, snapshots, events>>

\* anchor() raised: the endpoint answers 500, take_snapshot goes on without.
AnchorFails(w) ==
    /\ pc[w] = "insert"
    /\ InsertAnchorFails(w)
    /\ IF part[w].op = "anchor" THEN Finish(w) ELSE Goto(w, "save") /\ UNCHANGED part
    /\ UNCHANGED <<trailVars, requests, snapshots, events>>

AnchorCommit(w) ==
    /\ pc[w] = "commit"
    /\ CommitAnchor(w)
    /\ IF part[w].op = "anchor" THEN Finish(w)
       ELSE Goto(w, "save") /\ part' = [part EXCEPT ![w].anchored = TRUE]
    /\ UNCHANGED <<trailVars, requests, snapshots, events>>

\* The row of the snapshots table.
SnapshotRow(p) ==
    [environment |-> p.environment, recorded_at |-> p.recorded_at,
     system_root |-> p.system_root, instance_count |-> p.instance_count,
     version |-> p.version, fresh |-> p.fresh, anchored |-> p.anchored,
     audit_chain_hash |-> p.audit_chain_hash, audit_row_count |-> p.audit_row_count]

\* The comparison of snapshots a and b is about to be recorded.
Compare(w, a, b) ==
    /\ Goto(w, "record")
    /\ part' = [part EXCEPT ![w] = [op |-> "record", a |-> a, b |-> b]]

\* save_snapshot; a drift check goes on to compare.
SaveSnapshot(w) ==
    /\ pc[w] = "save"
    /\ snapshots' = Append(snapshots, SnapshotRow(part[w]))
    /\ IF part[w].op = "drift" THEN Compare(w, part[w].base, Len(snapshots')) ELSE Finish(w)
    /\ UNCHANGED <<dbVars, draft, trailVars, requests, events>>

\* record_drift_event of compare(a, b): a commit of its own.
RecordDriftEvent(w) ==
    /\ pc[w] = "record"
    /\ events' = events \cup
          {[a |-> part[w].a, b |-> part[w].b,
            result |-> compare(snapshots[part[w].a], snapshots[part[w].b])]}
    /\ Finish(w)
    /\ UNCHANGED <<dbVars, draft, trailVars, requests, snapshots>>

\* An exception outside the two try blocks: the answer is 500, the snapshot or the
\* event is lost, and what was committed before stays.
RequestFails(w) ==
    /\ pc[w] \in {"chain", "count", "save", "record"}
    /\ Finish(w)
    /\ UNCHANGED <<dbVars, draft, trailVars, requests, snapshots, events>>

-----------------------------------------------------------------------------
(* GET /system/drift.                                                      *)

\* The first query; without a snapshot of env_a the answer is 404.
DriftRequest(w, env_a, env_b) ==
    /\ Arrives(w)
    /\ \E a \in get_latest(snapshots, env_a) :
          part' = [part EXCEPT ![w] = [op |-> "drift", base |-> a, env_a |-> env_a,
                                       env_b |-> env_b]]
    /\ Goto(w, "second")
    /\ UNCHANGED <<dbVars, draft, trailVars, snapshots, events>>

\* The latest snapshot of env_b, or 404.
DriftBetween(w) ==
    /\ pc[w] = "second"
    /\ part[w].env_b # NoEnv
    /\ LET latest == get_latest(snapshots, part[w].env_b)
       IN  IF latest = {} THEN Finish(w)
           ELSE \E b \in latest : Compare(w, part[w].base, b)
    /\ UNCHANGED <<dbVars, draft, trailVars, requests, snapshots, events>>

\* Without env_b: the last two snapshots of any environment ...
DriftLastTwo(w) ==
    /\ pc[w] = "second"
    /\ part[w].env_b = NoEnv
    /\ \E p \in list_two_snapshots(snapshots) : Compare(w, p[2], p[1])
    /\ UNCHANGED <<dbVars, draft, trailVars, requests, snapshots, events>>

\* ... or, if there is only one, a new one.
DriftSnapshot(w) ==
    /\ pc[w] = "second"
    /\ part[w].env_b = NoEnv
    /\ Len(snapshots) < 2
    /\ part' = [part EXCEPT ![w] = SnapshotStart("drift", @.env_a, @.base)]
    /\ Goto(w, "ledger")
    /\ UNCHANGED <<dbVars, draft, trailVars, requests, snapshots, events>>

\* The process dies and is restarted.
Crash(w) ==
    /\ Rollback(w)
    /\ draft' = [draft EXCEPT ![w] = NoDraft]
    /\ Finish(w)
    /\ UNCHANGED <<trailVars, requests, snapshots, events>>

Init ==
    /\ db = EmptyDb
    /\ lock = NoWorker
    /\ txn = EmptyDb
    /\ conn = [w \in AnchorWorkers |-> "closed"]
    /\ snap = [w \in AnchorWorkers |-> EmptyDb]
    /\ draft = [w \in AnchorWorkers |-> NoDraft]
    /\ clock = 0
    /\ heads = [i \in Instances |-> 0]
    /\ roots = <<[root |-> ZERO_ROOT, count |-> 0, time |-> 0]>>
    /\ audit = <<>>
    /\ pc = [w \in AnchorWorkers |-> "idle"]
    /\ part = [w \in AnchorWorkers |-> NoPart]
    /\ requests = 0
    /\ snapshots = <<>>
    /\ events = {}

Next ==
    \/ \E i \in Instances : Decide(i)
    \/ Verify \/ Tick
    \/ \E w \in AnchorWorkers :
          \/ AnchorRequest(w)
          \/ \E env \in Environments : SnapshotRequest(w, env)
          \/ ReadLedger(w) \/ ReadLedgerFails(w) \/ ReadChainHash(w) \/ ReadRowCount(w)
          \/ AnchorSeq(w) \/ AnchorPrev(w) \/ AnchorInsert(w) \/ AnchorFails(w)
          \/ AnchorCommit(w) \/ SaveSnapshot(w) \/ RecordDriftEvent(w)
          \/ RequestFails(w)
          \/ \E a \in Environments, b \in Environments \cup {NoEnv} : DriftRequest(w, a, b)
          \/ DriftBetween(w) \/ DriftLastTwo(w) \/ DriftSnapshot(w)
          \/ Crash(w)

Spec == Init /\ [][Next]_vars

-----------------------------------------------------------------------------
(* Properties.                                                             *)

Anchored == {AuditHash(n) : n \in 0 .. Len(audit)}
            \cup {RootHash(roots[n].root) : n \in DOMAIN roots}

\* Every variable has its type, and no anchor names a hash that never was.
TypeOK ==
    /\ \A n \in DOMAIN db :
          /\ db[n].chain_hash \in Anchored
          /\ db[n].anchored_at \in Times
          /\ db[n].anchor_seq \in Nat /\ db[n].prev_anchor \in Nat
    /\ lock \in AnchorWorkers \cup {NoWorker}
    /\ conn \in [AnchorWorkers -> ConnStates]
    /\ clock \in Times /\ heads \in [Instances -> Nat] /\ audit \in Seq(Times)
    /\ pc \in [AnchorWorkers -> {"idle", "ledger", "chain", "count", "seq", "prev",
                                 "insert", "commit", "save", "second", "record"}]
    /\ requests \in 0 .. MaxRequests
    /\ \A n \in DOMAIN snapshots : snapshots[n].environment \in Environments
    /\ \A e \in events : {e.a, e.b} \subseteq DOMAIN snapshots

\* Races of anchor() may give two anchors one number or let both continue the same
\* row, but never skip a number and never continue a row that is not there; and
\* verify_anchor_chain reports a break exactly when two anchors continue one row.
AnchorsAreChained ==
    /\ AnchorSeqs(db) = 1 .. Max(AnchorSeqs(db) \cup {0})
    /\ \A n \in DOMAIN db : db[n].prev_anchor < n /\ db[n].anchor_seq <= n
    /\ verify_anchor_chain(db) <=>
          \A m, n \in DOMAIN db : db[m].prev_anchor = db[n].prev_anchor => m = n

Birth(hash) ==
    IF hash.kind = "audit" THEN (IF hash.hash = 0 THEN 0 ELSE audit[hash.hash])
    ELSE Min({roots[n].time : n \in {m \in DOMAIN roots : roots[m].root = hash.hash}})

\* verify_against_anchor: a hash said to be anchored before t existed at t,
\* however long the time-stamping authority took to answer.
ClaimsAreNotEarly ==
    \A hash \in {db[n].chain_hash : n \in DOMAIN db}, t \in Times :
        before_claim(db, hash, t) => Birth(hash) <= t

\* "system_root is written to the anchor store": once a snapshot is saved, its root
\* is anchored for good, no earlier than the snapshot, unless anchor() raised, which
\* the snapshot does not tell, or there was nothing to anchor.
SavedRootsAreAnchored ==
    \A n \in DOMAIN snapshots :
        LET s == snapshots[n]
        IN  s.anchored =>
              \E k \in DOMAIN db : /\ db[k].chain_hash = RootHash(s.system_root)
                                   /\ db[k].anchored_at >= s.recorded_at

\* What holds of the trail whatever the workers do: the types, anchors that name
\* hashes there have been, anchor() rows that continue rows of the store, and
\* snapshots whose roots are anchored.
TrailInv == TypeOK /\ AnchorsAreChained /\ SavedRootsAreAnchored

\* A drift check reports a root mismatch exactly when its snapshots show different
\* states of the ledger (a failed read shows the empty one, a stuck connection an
\* earlier one), although the root forgets which instance a hash belongs to; it
\* reports nothing only if they show the same audit log as well, and something
\* only if what they show differs, torn snapshots included.
DriftIsExact ==
    \A e \in events :
        LET a == snapshots[e.a]
            b == snapshots[e.b]
        IN  /\ (a.version # b.version) => e.result.severity = "CRITICAL"
            /\ (a.system_root = b.system_root) <=> (a.version = b.version)
            /\ ~e.result.drifted <=> /\ a.version = b.version
                                     /\ a.audit_chain_hash = b.audit_chain_hash
                                     /\ a.audit_row_count = b.audit_row_count

\* A snapshot that is saved late, because its anchor took long, does not become the
\* baseline of its environment in place of a newer one.  The baseline shows less of
\* the ledger than another snapshot of its environment only where its own read
\* failed or was of a stuck connection, or where the two were taken at once: the
\* other was begun no later, and what the baseline misses was recorded no earlier
\* than in its own second.
BaselineIsNewest ==
    \A env \in Environments : \A n \in get_latest(snapshots, env) :
        \A m \in DOMAIN snapshots :
            /\ snapshots[m].environment = env
            /\ snapshots[m].version > snapshots[n].version
            /\ snapshots[n].fresh
            => /\ snapshots[m].recorded_at <= snapshots[n].recorded_at
               /\ \A k \in snapshots[n].version + 1 .. Len(roots) :
                     snapshots[n].recorded_at <= roots[k].time
=============================================================================
