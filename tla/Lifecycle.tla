------------------------------ MODULE Lifecycle -----------------------------
(***************************************************************************)
(* Protocols and instances: what provable_ai/engine.py keeps in memory and *)
(* what it keeps in the database.  GovernanceEngine.compile and            *)
(* create_instance behind POST /protocol/compile, POST /instance/create    *)
(* and POST /demo/bootstrap in server processes, and the Engine facade     *)
(* with its transition, replay and export_proof in processes that use      *)
(* provable_ai as a library.  Both open the same kind of SQLite file, and  *)
(* both keep their protocols and instances in dicts that a restart empties.*)
(*                                                                         *)
(* Opening an Engine rebuilds the ledger table without its unique indexes. *)
(* Opening an SQLiteStorage creates them again, and raises if rows of the  *)
(* table stand in the way.                                                 *)
(*                                                                         *)
(* Ledger models record_decision in full; here a ledger row holds the      *)
(* states it names, the position of the row it continues, 0 for the        *)
(* genesis hash, and whether it is a strict_deterministic decision with a  *)
(* random_seed, the one decision that verify_proof refuses by itself.      *)
(***************************************************************************)
EXTENDS Naturals, Sequences

CONSTANTS Servers,      \* API server workers
          Libraries,    \* processes that use the Engine facade
          NoWorker,
          Instances,    \* instance_ids
          States,       \* workflow states
          Protocols,    \* protocol specs, each its own hash
          NoProtocol,
          DecisionStates, \* the state pairs that clients of POST /decision send
          DecisionSeeds,  \* whether they send a seed with a strict decision
          MaxRequests,  \* bound: calls made in a behaviour, create_instance aside
          MaxLives      \* bound: processes started in a behaviour

Workers == Servers \cup Libraries

ASSUME LifecycleAssumption ==
    /\ NoWorker \notin Workers
    /\ Servers \cap Libraries = {}
    /\ Protocols \subseteq [initial_state : States, transitions : SUBSET (States \X States)]
    /\ NoProtocol \notin Protocols
    /\ DecisionStates \subseteq States \X States
    /\ DecisionSeeds \subseteq BOOLEAN
    /\ {MaxRequests, MaxLives} \subseteq Nat

VARIABLES
    db, lock, txn, conn, snap,   \* the database, see SqliteConnections
    engine,     \* per worker: the dicts of its engine object
    pc,         \* per worker: the step it is about to take
    req,        \* per worker: the arguments of the call
    requests,   \* calls made so far
    lives,      \* processes started so far
    rebuilt     \* ghost: an Engine has rebuilt the ledger table

dbVars == <<db, lock, txn, conn, snap>>
vars == <<dbVars, engine, pc, req, requests, lives, rebuilt>>

EmptyDb == [protocols |-> {},                           \* registered hashes
            rows      |-> {},                           \* the instances table
            frozen    |-> {},                           \* its frozen column
            ledger    |-> [i \in Instances |-> <<>>],   \* in order of insertion
            unique    |-> TRUE]                         \* the indexes are there

INSTANCE SqliteConnections

\* The dicts of a fresh engine, and of none.
NoInstance == [state |-> "none"]
FreshEngine(life) ==
    [life      |-> life,
     protocols |-> [p \in Protocols |-> "absent"],   \* or "spec", or a table "row"
     active    |-> NoProtocol,
     instances |-> [i \in Instances |-> NoInstance]]
NoRequest == [op |-> "none"]
NoRow == [sequence_id |-> 0]   \* record_decision has not read the ledger yet

Goto(w, step) == pc' = [pc EXCEPT ![w] = step]
Finish(w) == Goto(w, "idle") /\ req' = [req EXCEPT ![w] = NoRequest]
Arrives(w) ==
    /\ pc[w] = "idle"
    /\ requests < MaxRequests
    /\ requests' = requests + 1

-----------------------------------------------------------------------------
(* Starting and stopping processes.                                        *)

Duplicated(rows) ==
    \E m, n \in DOMAIN rows : m # n /\ rows[m].sequence_id = rows[n].sequence_id

\* Mutant: the migration leaves the indexes to the operator.
OpenWithoutIndexes(w) ==
    /\ pc[w] = "down"
    /\ lives < MaxLives
    /\ lives' = lives + 1
    /\ engine' = [engine EXCEPT ![w] = FreshEngine(lives')]
    /\ Write(w, [Base(w) EXCEPT !.unique = FALSE])
    /\ Goto(w, "opening")
    /\ UNCHANGED <<req, requests, rebuilt>>

\* SQLiteStorage.__init__: CREATE UNIQUE INDEX IF NOT EXISTS writes nothing when the
\* index is there, and raises IntegrityError on rows with the same sequence_id.
Open(w) ==
    /\ pc[w] = "down"
    /\ lives < MaxLives
    /\ \A i \in Instances : ~Duplicated(db.ledger[i])
    /\ lives' = lives + 1
    /\ engine' = [engine EXCEPT ![w] = FreshEngine(lives')]
    /\ IF db.unique
       THEN Goto(w, IF w \in Libraries THEN "rebuild" ELSE "idle") /\ UNCHANGED dbVars
       ELSE Goto(w, "opening") /\ Write(w, [Base(w) EXCEPT !.unique = TRUE])
    /\ UNCHANGED <<req, requests, rebuilt>>

\* Engine.__init__ copies the ledger into a table without the indexes.
Rebuild(w) ==
    /\ pc[w] = "rebuild"
    /\ Write(w, [Base(w) EXCEPT !.unique = FALSE])
    /\ rebuilt' = TRUE
    /\ Goto(w, "rebuilding")
    /\ UNCHANGED <<engine, req, requests, lives>>

\* The CREATE TABLE meets a lock; the exception is dropped.
RebuildFails(w) ==
    /\ pc[w] = "rebuild"
    /\ ~CanWrite(w)
    /\ Goto(w, "idle")
    /\ UNCHANGED <<dbVars, engine, req, requests, lives, rebuilt>>

\* The process dies; its dicts are gone.
Crash(w) ==
    /\ pc[w] # "down"
    /\ Rollback(w)
    /\ Goto(w, "down")
    /\ req' = [req EXCEPT ![w] = NoRequest]
    /\ engine' = [engine EXCEPT ![w] = FreshEngine(0)]
    /\ UNCHANGED <<requests, lives, rebuilt>>

-----------------------------------------------------------------------------
(* compile and create_instance.                                            *)

\* The spec goes into the dict and becomes the active one; then
\* register_protocol looks for its row.  then is the instance that
\* POST /demo/bootstrap goes on to create, if any.
Compile(w, p, then) ==
    /\ Arrives(w)
    /\ engine' = [engine EXCEPT ![w].protocols[p] = "spec", ![w].active = p]
    /\ Read(w)
    /\ req' = [req EXCEPT ![w] = [op |-> "compile", protocol |-> p, then |-> then]]
    /\ Goto(w, IF p \in View(w).protocols THEN "compiled" ELSE "register")
    /\ UNCHANGED <<lives, rebuilt>>

compile(w, p) == Compile(w, p, {})

\* The approvals that come first are Ledger's Approve.
demo_bootstrap(w, p, i) == w \in Servers /\ Compile(w, p, {i})

register_protocol(w) ==
    /\ pc[w] = "register"
    /\ req[w].protocol \notin Base(w).protocols
    /\ Write(w, [Base(w) EXCEPT !.protocols = @ \cup {req[w].protocol}])
    /\ Goto(w, "registering")
    /\ UNCHANGED <<engine, req, requests, lives, rebuilt>>

\* Another process has registered the hash since the SELECT.  The IntegrityError is
\* dropped without a rollback: the transaction that failed keeps the write lock.
RegisterConflict(w) ==
    /\ pc[w] = "register"
    /\ req[w].protocol \in Base(w).protocols
    /\ Write(w, Base(w))
    /\ Goto(w, "compiled")
    /\ UNCHANGED <<engine, req, requests, lives, rebuilt>>

\* "database is locked", dropped as well.
RegisterFails(w) ==
    /\ pc[w] = "register"
    /\ WriteFails(w)
    /\ Goto(w, "compiled")
    /\ UNCHANGED <<engine, req, requests, lives, rebuilt>>

\* What create_instance makes of the dicts e; without a usable active protocol, or
\* when the instance is in the dict, it raises and leaves them alone.
Creatable(e, i) ==
    /\ e.active # NoProtocol
    /\ e.protocols[e.active] = "spec"   \* a table row has no "initial_state"
    /\ e.instances[i] = NoInstance
Created(e, i) ==
    [e EXCEPT !.instances[i] = [state |-> e.active.initial_state, protocol |-> e.active]]

CreateIn(w, e, i) ==
    IF Creatable(e, i)
    THEN /\ engine' = [engine EXCEPT ![w] = Created(e, i)]
         /\ Goto(w, "touch")
         /\ UNCHANGED req
    ELSE engine' = [engine EXCEPT ![w] = e] /\ Finish(w)

\* The call returns, or bootstrap goes on.
Compiled(w) ==
    /\ pc[w] = "compiled"
    /\ IF req[w].then = {} THEN Finish(w) /\ UNCHANGED engine
       ELSE \E i \in req[w].then : CreateIn(w, engine[w], i)
    /\ UNCHANGED <<dbVars, requests, lives, rebuilt>>

\* Not counted as a call: a dict takes an instance once.
create_instance(w, i) ==
    /\ pc[w] = "idle"
    /\ CreateIn(w, engine[w], i)
    /\ UNCHANGED <<dbVars, requests, lives, rebuilt>>

\* POST /instance/create with a protocol_hash: 404 without a row of it; otherwise it
\* becomes the active one, and the dict gets the row if it has no entry.
create_instance_endpoint(w, i, p) ==
    /\ w \in Servers
    /\ Arrives(w)
    /\ Read(w)
    /\ IF p \in View(w).protocols
       THEN CreateIn(w, [engine[w] EXCEPT
                           !.active = p,
                           !.protocols[p] = IF @ = "absent" THEN "row" ELSE @], i)
       ELSE UNCHANGED <<engine, pc, req>>
    /\ UNCHANGED <<lives, rebuilt>>

\* INSERT OR IGNORE leaves created_at NULL, which the table does not allow: the row
\* is ignored, and the commit commits nothing new.
TouchInstance(w) ==
    /\ pc[w] = "touch"
    /\ Write(w, Base(w))
    /\ Goto(w, "touching")
    /\ UNCHANGED <<engine, req, requests, lives, rebuilt>>

TouchFails(w) ==
    /\ pc[w] = "touch"
    /\ WriteFails(w)
    /\ Finish(w)
    /\ UNCHANGED <<engine, requests, lives, rebuilt>>

-----------------------------------------------------------------------------
(* transition, decisions and export_proof.                                 *)

\* Mutant: the check of the frozen column is left to the caller.
TransitionUnchecked(w, i, to) ==
    /\ w \in Libraries
    /\ Arrives(w)
    /\ engine[w].instances[i] # NoInstance
    /\ LET inst == engine[w].instances[i]
       IN  /\ <<inst.state, to>> \in inst.protocol.transitions
           /\ req' = [req EXCEPT ![w] =
                 [op |-> "transition", instance |-> i, frozen |-> i \in db.frozen,
                  from_state |-> inst.state, to_state |-> to, strict_seed |-> FALSE, row |-> NoRow]]
    /\ Read(w)
    /\ Goto(w, "latest")
    /\ UNCHANGED <<engine, lives, rebuilt>>

\* Engine.transition up to record_decision; it raises if a guard fails.  req.frozen
\* is a ghost: the committed flag when the code looked.
transition(w, i, to) ==
    /\ w \in Libraries
    /\ Arrives(w)
    /\ engine[w].instances[i] # NoInstance
    /\ LET inst == engine[w].instances[i]
       IN  /\ <<inst.state, to>> \in inst.protocol.transitions
           /\ req' = [req EXCEPT ![w] =
                 [op |-> "transition", instance |-> i, frozen |-> i \in db.frozen,
                  from_state |-> inst.state, to_state |-> to, strict_seed |-> FALSE, row |-> NoRow]]
    /\ i \notin View(w).frozen
    /\ Read(w)
    /\ Goto(w, "latest")
    /\ UNCHANGED <<engine, lives, rebuilt>>

\* POST /decision: any states, no protocol, no frozen check, any determinism mode and
\* seed.
Decision(w, i, from, to, strict_seed) ==
    /\ w \in Servers
    /\ Arrives(w)
    /\ Read(w)
    /\ req' = [req EXCEPT ![w] = [op |-> "decision", instance |-> i, frozen |-> FALSE,
                                  from_state |-> from, to_state |-> to,
                                  strict_seed |-> strict_seed, row |-> NoRow]]
    /\ Goto(w, "latest")
    /\ UNCHANGED <<engine, lives, rebuilt>>

\* ORDER BY sequence_id DESC LIMIT 1: the position of such a row, 0 if there is none.
Latest(rows) ==
    IF rows = <<>> THEN {0}
    ELSE {n \in DOMAIN rows : \A m \in DOMAIN rows : rows[m].sequence_id <= rows[n].sequence_id}

SequenceAt(rows, n) == IF n = 0 THEN 0 ELSE rows[n].sequence_id

ReadLatest(w) ==
    /\ pc[w] = "latest"
    /\ LET rows == View(w).ledger[req[w].instance]
       IN  \E last \in Latest(rows) :
              req' = [req EXCEPT ![w].row =
                        [sequence_id |-> SequenceAt(rows, last) + 1, previous |-> last,
                         from_state |-> req[w].from_state, to_state |-> req[w].to_state,
                         strict_seed |-> req[w].strict_seed,
                         life |-> engine[w].life, by |-> w, frozen |-> req[w].frozen]]
    /\ Read(w)
    /\ Goto(w, "validate")
    /\ UNCHANGED <<engine, requests, lives, rebuilt>>

\* _validate_chain_integrity and, in the same step, the SELECT of _ensure_instance.
ValidateChain(w) ==
    /\ pc[w] = "validate"
    /\ Read(w)
    /\ LET rows == View(w).ledger[req[w].instance]
       IN  \E last \in Latest(rows) :
              IF /\ req[w].row.sequence_id = SequenceAt(rows, last) + 1
                 /\ req[w].row.previous = last
              THEN Goto(w, IF req[w].instance \in View(w).rows THEN "insert" ELSE "ensure")
                   /\ UNCHANGED req
              ELSE Finish(w)
    /\ UNCHANGED <<engine, requests, lives, rebuilt>>

EnsureInstance(w) ==
    /\ pc[w] = "ensure"
    /\ Write(w, [Base(w) EXCEPT !.rows = @ \cup {req[w].instance}])
    /\ Goto(w, "insert")
    /\ UNCHANGED <<engine, req, requests, lives, rebuilt>>

UniqueViolation(data, i, row) ==
    data.unique /\ \E n \in DOMAIN data.ledger[i] :
                      data.ledger[i][n].sequence_id = row.sequence_id

InsertEntry(w) ==
    /\ pc[w] = "insert"
    /\ ~UniqueViolation(Base(w), req[w].instance, req[w].row)
    /\ Write(w, [Base(w) EXCEPT !.ledger[req[w].instance] = Append(@, req[w].row)])
    /\ Goto(w, "commit")
    /\ UNCHANGED <<engine, req, requests, lives, rebuilt>>

InsertRefused(w) ==
    /\ pc[w] = "insert"
    /\ CanWrite(w)
    /\ UniqueViolation(Base(w), req[w].instance, req[w].row)
    /\ Rollback(w)
    /\ Finish(w)
    /\ UNCHANGED <<engine, requests, lives, rebuilt>>

EntryFails(w) ==
    /\ pc[w] \in {"ensure", "insert"}
    /\ WriteFails(w)
    /\ Finish(w)
    /\ UNCHANGED <<engine, requests, lives, rebuilt>>

\* Mutant: the instance in memory is left where it was.
AdvancedNot(w) == engine

\* The new state of the instance, once record_decision has returned.
Advanced(w) ==
    IF req[w].op = "transition"
    THEN [engine EXCEPT ![w].instances[req[w].instance].state = req[w].to_state]
    ELSE engine

CommitEntry(w) ==
    /\ pc[w] = "commit"
    /\ Commit(w)
    /\ engine' = Advanced(w)
    /\ Finish(w)
    /\ UNCHANGED <<requests, lives, rebuilt>>

\* export_proof: a chain that is empty raises; the package itself is Ledger's.
export_proof(w, i) ==
    /\ Arrives(w)
    /\ View(w).ledger[i] # <<>>
    /\ Read(w)
    /\ req' = [req EXCEPT ![w] = [op |-> "export", instance |-> i]]
    /\ Goto(w, "freeze")
    /\ UNCHANGED <<engine, lives, rebuilt>>

freeze_instance(w) ==
    /\ pc[w] = "freeze"
    /\ Write(w, [Base(w) EXCEPT !.frozen = @ \cup ({req[w].instance} \cap Base(w).rows)])
    /\ Goto(w, "freezing")
    /\ UNCHANGED <<engine, req, requests, lives, rebuilt>>

\* A server drops the exception, a library raises it.
FreezeFails(w) ==
    /\ pc[w] = "freeze"
    /\ WriteFails(w)
    /\ Finish(w)
    /\ UNCHANGED <<engine, requests, lives, rebuilt>>

\* The commits of everything but ledger rows, and the step after them.
AfterCommit(w) ==
    CASE pc[w] = "opening" /\ w \in Libraries -> "rebuild"
      [] pc[w] = "registering" -> "compiled"
      [] OTHER -> "idle"

CommitOther(w) ==
    /\ pc[w] \in {"opening", "rebuilding", "registering", "touching", "freezing"}
    /\ Commit(w)
    /\ Goto(w, AfterCommit(w))
    /\ req' = [req EXCEPT ![w] = IF pc[w] = "registering" THEN @ ELSE NoRequest]
    /\ UNCHANGED <<engine, requests, lives, rebuilt>>

-----------------------------------------------------------------------------
Init ==
    /\ db = EmptyDb
    /\ lock = NoWorker
    /\ txn = EmptyDb
    /\ conn = [w \in Workers |-> "closed"]
    /\ snap = [w \in Workers |-> EmptyDb]
    /\ engine = [w \in Workers |-> FreshEngine(0)]
    /\ pc = [w \in Workers |-> "down"]
    /\ req = [w \in Workers |-> NoRequest]
    /\ requests = 0
    /\ lives = 0
    /\ rebuilt = FALSE

Step(w) ==
    \/ Open(w) \/ Rebuild(w) \/ RebuildFails(w) \/ Crash(w)
    \/ \E p \in Protocols : compile(w, p)
    \/ register_protocol(w) \/ RegisterConflict(w) \/ RegisterFails(w) \/ Compiled(w)
    \/ TouchInstance(w) \/ TouchFails(w)
    \/ \E i \in Instances :
          \/ create_instance(w, i) \/ export_proof(w, i)
          \/ \E p \in Protocols : demo_bootstrap(w, p, i) \/ create_instance_endpoint(w, i, p)
          \/ \E to \in States : transition(w, i, to)
          \/ \E d \in DecisionStates, strict_seed \in DecisionSeeds :
                Decision(w, i, d[1], d[2], strict_seed)
    \/ ReadLatest(w) \/ ValidateChain(w) \/ EnsureInstance(w) \/ InsertEntry(w)
    \/ InsertRefused(w) \/ EntryFails(w) \/ CommitEntry(w)
    \/ freeze_instance(w) \/ FreezeFails(w) \/ CommitOther(w)

Next == \E w \in Workers : Step(w)

Spec == Init /\ [][Next]_vars

-----------------------------------------------------------------------------
(* Properties.                                                             *)

\* Engine.replay: verify_chain of the rows in the order of their sequence_ids.  Of
\* verify_proof's own checks only the determinism rule can fail for a row that
\* record_decision made (Ledger's RejectionsAreExplained).
replay(rows) ==
    \A n \in DOMAIN rows :
        /\ ~rows[n].strict_seed
        /\ \E m \in DOMAIN rows : /\ rows[m].sequence_id = n
                                  /\ SequenceAt(rows, rows[m].previous) = n - 1

TypeOK ==
    /\ db.protocols \subseteq Protocols /\ db.rows \subseteq Instances
    /\ db.frozen \subseteq db.rows
    /\ lock \in Workers \cup {NoWorker}
    /\ conn \in [Workers -> ConnStates]
    /\ \A w \in Workers, i \in Instances :
          LET inst == engine[w].instances[i]
          IN  inst # NoInstance => inst.state \in States /\ inst.protocol \in Protocols
    /\ requests \in 0 .. MaxRequests /\ lives \in 0 .. MaxLives

\* compile drops the error of a lost race with the write lock in hand.  A worker that
\* is idle with the lock holds nothing back under it: what the database says and what
\* other workers still wait to write is all there is.
IdleLockIsEmpty ==
    \A w \in Workers : lock = w /\ pc[w] = "idle" => txn = db

\* Engine.transition looks at the frozen column long before it writes, through a
\* connection that may be stale: no row it records was already frozen when it looked.
FreezeIsRespected ==
    \A i \in Instances : \A n \in DOMAIN db.ledger[i] : ~db.ledger[i][n].frozen

\* What holds of the lifecycle whatever the processes do.
LifecycleInv == TypeOK /\ IdleLockIsEmpty /\ FreezeIsRespected

\* A history recorded by one Engine object is a path of the protocol the instance
\* was created under, from its initial state, and memory is where the path ends,
\* failed transitions, lost locks and swallowed errors included.  (A restart or a
\* second process breaks this: create_instance starts over in memory.)
PathsNeedOneEngine ==
    \A i \in Instances, w \in Libraries :
        LET rows == db.ledger[i]
            inst == engine[w].instances[i]
        IN  /\ rows # <<>>
            /\ \A n \in DOMAIN rows : rows[n].life = engine[w].life
            => /\ rows[1].from_state = inst.protocol.initial_state
               /\ \A n \in DOMAIN rows :
                     /\ <<rows[n].from_state, rows[n].to_state>> \in inst.protocol.transitions
                     /\ n > 1 => rows[n].from_state = rows[n - 1].to_state
               /\ inst.state = rows[Len(rows)].to_state

\* replay refuses a stored chain for two reasons: a client of POST /decision sent a
\* seed with a strict_deterministic decision, or rows of different processes share a
\* sequence_id.  The second takes an Engine that has rebuilt the table without its
\* unique indexes, and no process can open the database again.
ReplayRefusalsExplained ==
    \A i \in Instances :
        ~replay(db.ledger[i]) =>
            \/ \E n \in DOMAIN db.ledger[i] : db.ledger[i][n].strict_seed
            \/ /\ rebuilt /\ ~db.unique
               /\ \E m, n \in DOMAIN db.ledger[i] :
                     /\ db.ledger[i][m].sequence_id = db.ledger[i][n].sequence_id
                     /\ db.ledger[i][m].life # db.ledger[i][n].life
=============================================================================
