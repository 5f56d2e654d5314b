---------------------------- MODULE LifecycleProofs -------------------------
(* Proofs about Lifecycle, for every set of processes, instances, protocols *)
(* and calls.                                                              *)
EXTENDS Lifecycle, SequenceTheorems, TLAPS

(***************************************************************************)
(* The inductive invariant.                                                *)
(***************************************************************************)

Steps == {"down", "opening", "rebuild", "rebuilding", "idle", "register", "registering",
          "compiled", "touch", "touching", "latest", "validate", "ensure", "insert",
          "commit", "freeze", "freezing"}

Row == [sequence_id : Nat, previous : Nat, from_state : States, to_state : States,
        strict_seed : BOOLEAN, life : Nat, by : Workers, frozen : BOOLEAN]

Database == [protocols : SUBSET Protocols, rows : SUBSET Instances,
             frozen : SUBSET Instances, ledger : [Instances -> Seq(Row)],
             unique : BOOLEAN]

Instance == [state : States, protocol : Protocols]

EngineObject == [life : Nat, protocols : [Protocols -> {"absent", "spec", "row"}],
                 active : Protocols \cup {NoProtocol},
                 instances : [Instances -> Instance \cup {NoInstance}]]

CompileRequest == [op : {"compile"}, protocol : Protocols, then : SUBSET Instances]
EntryRequest == [op : {"transition", "decision"}, instance : Instances, frozen : BOOLEAN,
                 from_state : States, to_state : States, strict_seed : BOOLEAN,
                 row : Row \cup {NoRow}]
ExportRequest == [op : {"export"}, instance : Instances]
Request == CompileRequest \cup EntryRequest \cup ExportRequest \cup {NoRequest}

\* The steps of record_decision, and those of them that have drawn up a row.
EntrySteps == {"latest", "validate", "ensure", "insert", "commit"}
RowSteps == {"validate", "ensure", "insert", "commit"}

\* The steps between a write and its commit.
WroteSteps == {"opening", "rebuilding", "registering", "touching", "freezing", "commit"}

\* The database and its connections.
ConnType ==
    /\ db \in Database /\ txn \in Database
    /\ db.frozen \subseteq db.rows /\ txn.frozen \subseteq txn.rows
    /\ lock \in Workers \cup {NoWorker}
    /\ conn \in [Workers -> ConnStates]
    /\ snap \in [Workers -> Database]

\* What a worker is about to do has the arguments it needs.
CallOK(w) ==
    /\ pc[w] \in {"register", "registering", "compiled"} => req[w] \in CompileRequest
    /\ pc[w] \in EntrySteps => req[w] \in EntryRequest
    /\ pc[w] \in RowSteps => req[w].row \in Row
    /\ pc[w] \in {"freeze", "freezing"} => req[w] \in ExportRequest

Shape ==
    /\ ConnType
    /\ engine \in [Workers -> EngineObject]
    /\ pc \in [Workers -> Steps]
    /\ req \in [Workers -> Request]
    /\ \A w \in Workers : CallOK(w)
    /\ requests \in 0 .. MaxRequests /\ lives \in 0 .. MaxLives

\* What a worker has under the write lock: nothing new but what its step wrote.
LockOK(w) ==
    /\ pc[w] \in WroteSteps => lock = w
    /\ lock = w =>
          /\ conn[w] # "stale" /\ pc[w] \notin {"down", "rebuild"}
          /\ pc[w] \notin WroteSteps \cup {"insert"} => txn = db
          /\ pc[w] # "commit" => txn.ledger = db.ledger
          /\ pc[w] \notin {"opening", "rebuilding"} => txn.unique = db.unique
          /\ pc[w] = "commit" =>
                txn.ledger = [db.ledger EXCEPT ![req[w].instance] = Append(@, req[w].row)]

\* Lives: a process has a number that no other process ever has.
LivesOK ==
    /\ \A w \in Workers : /\ engine[w].life \in 0 .. lives
                          /\ engine[w].life = 0 <=> pc[w] = "down"
    /\ \A v, w \in Workers : v # w /\ pc[w] # "down" => engine[v].life # engine[w].life
    /\ \A i \in Instances : \A n \in DOMAIN db.ledger[i] : db.ledger[i][n].life \in 1 .. lives

\* A row that continues rows.
Continues(rows, row) ==
    /\ row.previous \in 0 .. Len(rows)
    /\ row.sequence_id = SequenceAt(rows, row.previous) + 1
    /\ \A n \in DOMAIN rows : rows[n].life = row.life => rows[n].sequence_id < row.sequence_id

\* The row a worker is about to record.  A stale connection never gets to write it.
EntryOK(w) ==
    /\ pc[w] \in EntrySteps =>
          /\ req[w].op = "decision" => w \in Servers
          /\ conn[w] # "stale" => ~req[w].frozen
    /\ pc[w] \in EntrySteps /\ req[w].op = "transition" =>
          LET inst == engine[w].instances[req[w].instance]
          IN  /\ w \in Libraries
              /\ inst # NoInstance
              /\ req[w].from_state = inst.state
              /\ <<req[w].from_state, req[w].to_state>> \in inst.protocol.transitions
    /\ pc[w] \in RowSteps =>
          /\ req[w].row.life = engine[w].life
          /\ req[w].row.from_state = req[w].from_state
          /\ req[w].row.to_state = req[w].to_state
          /\ req[w].row.frozen = req[w].frozen
          /\ conn[w] # "stale" => Continues(db.ledger[req[w].instance], req[w].row)

\* One Engine object has recorded all of the rows.
OneEngine(w, rows) == rows # <<>> /\ \A n \in DOMAIN rows : rows[n].life = engine[w].life

Recorded(w, i) == \E n \in DOMAIN db.ledger[i] : db.ledger[i][n].life = engine[w].life

\* rows is a path of the protocol of inst and ends in its state.
PathOf(rows, inst) ==
    /\ rows[1].from_state = inst.protocol.initial_state
    /\ \A n \in DOMAIN rows :
          /\ <<rows[n].from_state, rows[n].to_state>> \in inst.protocol.transitions
          /\ n > 1 => rows[n].from_state = rows[n - 1].to_state
    /\ inst.state = rows[Len(rows)].to_state

\* What an Engine object has in memory of an instance.
MemoryOK(w, i) ==
    LET inst == engine[w].instances[i]
    IN  /\ Recorded(w, i) => inst # NoInstance
        /\ inst # NoInstance /\ ~Recorded(w, i) => inst.state = inst.protocol.initial_state
        /\ OneEngine(w, db.ledger[i]) => PathOf(db.ledger[i], inst)

\* The rows of an instance: a process never uses a sequence_id twice, and rows
\* that all have their own sequence_id are one chain.
RowsOK(rows) ==
    /\ \A m, n \in DOMAIN rows :
          m # n /\ rows[m].life = rows[n].life => rows[m].sequence_id # rows[n].sequence_id
    /\ ~Duplicated(rows) =>
          \A n \in DOMAIN rows : rows[n].sequence_id = n /\ rows[n].previous = n - 1

\* The unique indexes.
IndexOK ==
    /\ ~db.unique => rebuilt
    /\ \A i \in Instances : db.unique => ~Duplicated(db.ledger[i])
    /\ \A w \in Workers :
          /\ pc[w] = "opening" => txn.unique /\ \A i \in Instances : ~Duplicated(db.ledger[i])
          /\ pc[w] = "rebuilding" => rebuilt /\ ~txn.unique
          /\ pc[w] = "commit" => ~UniqueViolation(db, req[w].instance, req[w].row)

IInv ==
    /\ Shape
    /\ \A w \in Workers : LockOK(w) /\ EntryOK(w)
    /\ LivesOK
    /\ FreezeIsRespected
    /\ \A w \in Libraries, i \in Instances : MemoryOK(w, i)
    /\ \A i \in Instances : RowsOK(db.ledger[i])
    /\ IndexOK

-----------------------------------------------------------------------------
(* Types.                                                                  *)

\* The empty database is a database.
LEMMA EmptyDbType == EmptyDb \in Database /\ EmptyDb.frozen \subseteq EmptyDb.rows
<1>1. [i \in Instances |-> <<>>] \in [Instances -> Seq(Row)] OBVIOUS
<1> QED BY <1>1 DEF EmptyDb, Database

\* The dicts of a fresh engine have their types.
LEMMA FreshEngineType ==
    ASSUME NEW life \in Nat
    PROVE  FreshEngine(life) \in EngineObject
<1>1. [p \in Protocols |-> "absent"] \in [Protocols -> {"absent", "spec", "row"}] OBVIOUS
<1>2. [i \in Instances |-> NoInstance] \in [Instances -> Instance \cup {NoInstance}] OBVIOUS
<1> QED BY <1>1, <1>2 DEF FreshEngine, EngineObject

\* The initial state has the types.
LEMMA InitShape == Init => Shape
<1> SUFFICES ASSUME Init PROVE Shape OBVIOUS
<1>1. ConnType BY EmptyDbType DEF Init, ConnType, ConnStates
<1>2. engine \in [Workers -> EngineObject] BY FreshEngineType DEF Init
<1>3. \A w \in Workers : CallOK(w) BY DEF Init, CallOK, EntrySteps, RowSteps
<1> QED BY <1>1, <1>2, <1>3, LifecycleAssumption DEF Init, Shape, Request, Steps

\* A worker reads and starts its writes from a whole database.
LEMMA ViewType ==
    ASSUME ConnType, NEW w \in Workers
    PROVE  /\ View(w) \in Database /\ Base(w) \in Database
           /\ Base(w).frozen \subseteq Base(w).rows
BY DEF ConnType, View, Base

\* A SELECT keeps the types of the connections.
LEMMA ReadType == ASSUME ConnType, NEW w \in Workers, Read(w) PROVE ConnType'
BY DEF ConnType, Read, ConnStates

\* A write statement keeps them.
LEMMA WriteType ==
    ASSUME ConnType, NEW w \in Workers, NEW new \in Database,
           new.frozen \subseteq new.rows, Write(w, new)
    PROVE  ConnType'
BY DEF ConnType, Write

\* A write that fails keeps them.
LEMMA WriteFailsType == ASSUME ConnType, NEW w \in Workers, WriteFails(w) PROVE ConnType'
BY DEF ConnType, WriteFails, ConnStates

\* commit() keeps them.
LEMMA CommitType == ASSUME ConnType, NEW w \in Workers, Commit(w) PROVE ConnType'
BY EmptyDbType DEF ConnType, Commit, Release, ConnStates

\* rollback() keeps them.
LEMMA RollbackType == ASSUME ConnType, NEW w \in Workers, Rollback(w) PROVE ConnType'
BY EmptyDbType DEF ConnType, Rollback, Release, ConnStates

\* So does a step that does not touch the database.
LEMMA StillType == ASSUME ConnType, UNCHANGED dbVars PROVE ConnType'
BY DEF ConnType, dbVars

-----------------------------------------------------------------------------
(* What a step of one worker leaves alone.                                 *)

\* What a step of w does to the database, seen from another worker: it neither takes
\* the lock away nor changes anything under it, and no stale connection recovers.
OthersConnected(w) ==
    \A x \in Workers \ {w} :
        /\ lock' = x <=> lock = x
        /\ lock = x => db' = db /\ txn' = txn
        /\ conn'[x] # "stale" => conn'[x] = conn[x]
        /\ lock = x => conn'[x] = conn[x]

OthersWait(w) ==
    \A x \in Workers \ {w} : pc'[x] = pc[x] /\ req'[x] = req[x] /\ engine'[x] = engine[x]

LEMMA ReadOthers == ASSUME ConnType, NEW w \in Workers, Read(w) PROVE OthersConnected(w)
BY DEF ConnType, Read, OthersConnected

LEMMA WriteOthers ==
    ASSUME ConnType, NEW w \in Workers, NEW new, Write(w, new)
    PROVE  OthersConnected(w)
BY LifecycleAssumption DEF ConnType, Write, CanWrite, OthersConnected

LEMMA WriteFailsOthers ==
    ASSUME ConnType, NEW w \in Workers, WriteFails(w)
    PROVE  OthersConnected(w)
BY DEF ConnType, WriteFails, OthersConnected

LEMMA CommitOthers ==
    ASSUME ConnType, NEW w \in Workers, Commit(w)
    PROVE  OthersConnected(w)
BY LifecycleAssumption DEF ConnType, Commit, Release, OthersConnected

LEMMA RollbackOthers ==
    ASSUME ConnType, NEW w \in Workers, Rollback(w)
    PROVE  OthersConnected(w)
BY LifecycleAssumption DEF ConnType, Rollback, Release, OthersConnected

LEMMA StillOthers ==
    ASSUME NEW w \in Workers, UNCHANGED dbVars
    PROVE  OthersConnected(w)
BY DEF dbVars, OthersConnected

\* The kinds of database steps.
LEMMA DbStepOthers ==
    ASSUME ConnType, NEW w \in Workers,
           \/ Read(w) \/ WriteFails(w) \/ Commit(w) \/ Rollback(w) \/ UNCHANGED dbVars
           \/ \E new \in Database : Write(w, new)
    PROVE  OthersConnected(w)
BY ReadOthers, WriteOthers, WriteFailsOthers, CommitOthers, RollbackOthers, StillOthers

\* The statements that the write steps run.
LEMMA NewDatabases ==
    ASSUME Shape, NEW w \in Workers
    PROVE  /\ \A u \in BOOLEAN : [Base(w) EXCEPT !.unique = u] \in Database
           /\ pc[w] = "register" =>
                 [Base(w) EXCEPT !.protocols = @ \cup {req[w].protocol}] \in Database
           /\ pc[w] = "ensure" =>
                 [Base(w) EXCEPT !.rows = @ \cup {req[w].instance}] \in Database
           /\ pc[w] = "insert" =>
                 [Base(w) EXCEPT !.ledger[req[w].instance] = Append(@, req[w].row)] \in Database
           /\ pc[w] = "freeze" =>
                 [Base(w) EXCEPT !.frozen = @ \cup ({req[w].instance} \cap Base(w).rows)]
                    \in Database
<1>0. ConnType /\ CallOK(w) BY DEF Shape
<1>1. Base(w) \in Database /\ Base(w).frozen \subseteq Base(w).rows BY <1>0, ViewType
<1>2. \A u \in BOOLEAN : [Base(w) EXCEPT !.unique = u] \in Database
  BY <1>1 DEF Database
<1>3. ASSUME pc[w] = "register"
      PROVE  [Base(w) EXCEPT !.protocols = @ \cup {req[w].protocol}] \in Database
  <2>1. req[w].protocol \in Protocols BY <1>3, <1>0 DEF CallOK, CompileRequest
  <2> QED BY <2>1, <1>1 DEF Database
<1>4. ASSUME pc[w] = "ensure"
      PROVE  [Base(w) EXCEPT !.rows = @ \cup {req[w].instance}] \in Database
  <2>1. req[w].instance \in Instances BY <1>4, <1>0 DEF CallOK, EntryRequest, EntrySteps
  <2> QED BY <2>1, <1>1 DEF Database
<1>5. ASSUME pc[w] = "insert"
      PROVE  [Base(w) EXCEPT !.ledger[req[w].instance] = Append(@, req[w].row)] \in Database
  <2>1. req[w].instance \in Instances /\ req[w].row \in Row
    BY <1>5, <1>0 DEF CallOK, EntryRequest, EntrySteps, RowSteps
  <2>2. Base(w).ledger[req[w].instance] \in Seq(Row) BY <2>1, <1>1 DEF Database
  <2>3. Append(Base(w).ledger[req[w].instance], req[w].row) \in Seq(Row)
    BY <2>1, <2>2, AppendProperties
  <2> QED BY <2>1, <2>3, <1>1 DEF Database
<1>6. ASSUME pc[w] = "freeze"
      PROVE  [Base(w) EXCEPT !.frozen = @ \cup ({req[w].instance} \cap Base(w).rows)]
                \in Database
  BY <1>1 DEF Database
<1> QED BY <1>2, <1>3, <1>4, <1>5, <1>6

\* The steps of a worker, compile and bootstrap as one.
LEMMA Cases ==
    ASSUME NEW w \in Workers, Step(w)
    PROVE  \/ Open(w) \/ Rebuild(w) \/ RebuildFails(w) \/ Crash(w)
           \/ \E p \in Protocols, then \in SUBSET Instances : Compile(w, p, then)
           \/ register_protocol(w) \/ RegisterConflict(w) \/ RegisterFails(w) \/ Compiled(w)
           \/ TouchInstance(w) \/ TouchFails(w)
           \/ \E i \in Instances : create_instance(w, i)
           \/ \E i \in Instances : export_proof(w, i)
           \/ \E i \in Instances, p \in Protocols : create_instance_endpoint(w, i, p)
           \/ \E i \in Instances, to \in States : transition(w, i, to)
           \/ \E i \in Instances, from, to \in States, seed \in BOOLEAN :
                Decision(w, i, from, to, seed)
           \/ ReadLatest(w) \/ ValidateChain(w) \/ EnsureInstance(w) \/ InsertEntry(w)
           \/ InsertRefused(w) \/ EntryFails(w) \/ CommitEntry(w)
           \/ freeze_instance(w) \/ FreezeFails(w) \/ CommitOther(w)
<1>1. \A p \in Protocols : compile(w, p) =>
         \E then \in SUBSET Instances : Compile(w, p, then)
  BY DEF compile
<1>2. \A p \in Protocols, i \in Instances : demo_bootstrap(w, p, i) =>
         \E then \in SUBSET Instances : Compile(w, p, then)
  BY DEF demo_bootstrap
<1>3. /\ \A d \in DecisionStates : d[1] \in States /\ d[2] \in States
      /\ DecisionSeeds \subseteq BOOLEAN
  BY LifecycleAssumption
<1> QED BY <1>1, <1>2, <1>3 DEF Step

\* No step of a worker touches another worker.
LEMMA Others ==
    ASSUME Shape, NEW w \in Workers, Step(w)
    PROVE  OthersWait(w) /\ OthersConnected(w)
<1>0. /\ ConnType /\ pc \in [Workers -> Steps] /\ engine \in [Workers -> EngineObject]
      /\ req \in [Workers -> Request]
  BY DEF Shape
<1>f. Finish(w) => \A x \in Workers \ {w} : pc'[x] = pc[x] /\ req'[x] = req[x]
  BY <1>0 DEF Finish, Goto
<1>b. Base(w) \in Database BY <1>0, ViewType
<1>1. CASE Open(w)
  <2>1. OthersWait(w) BY <1>1, <1>0 DEF Open, OthersWait, Goto
  <2>2. UNCHANGED dbVars \/ Write(w, [Base(w) EXCEPT !.unique = TRUE]) BY <1>1 DEF Open
  <2> QED BY <2>1, <2>2, <1>0, DbStepOthers, NewDatabases
<1>2. CASE Rebuild(w)
  <2>1. OthersWait(w) BY <1>2, <1>0 DEF Rebuild, OthersWait, Goto
  <2>2. Write(w, [Base(w) EXCEPT !.unique = FALSE]) BY <1>2 DEF Rebuild
  <2> QED BY <2>1, <2>2, <1>0, DbStepOthers, NewDatabases
<1>3. CASE RebuildFails(w)
  <2>1. OthersWait(w) BY <1>3, <1>0 DEF RebuildFails, OthersWait, Goto
  <2> QED BY <2>1, <1>3, <1>0, DbStepOthers DEF RebuildFails
<1>4. CASE Crash(w)
  <2>1. OthersWait(w) BY <1>4, <1>0 DEF Crash, OthersWait, Goto
  <2> QED BY <2>1, <1>4, <1>0, DbStepOthers DEF Crash
<1>5. ASSUME NEW p \in Protocols, NEW then \in SUBSET Instances, Compile(w, p, then)
      PROVE  OthersWait(w) /\ OthersConnected(w)
  <2>1. OthersWait(w) BY <1>5, <1>0 DEF Compile, OthersWait, Goto
  <2> QED BY <2>1, <1>5, <1>0, DbStepOthers DEF Compile
<1>6. CASE register_protocol(w)
  <2>1. OthersWait(w) BY <1>6, <1>0 DEF register_protocol, OthersWait, Goto
  <2>2. /\ pc[w] = "register"
        /\ Write(w, [Base(w) EXCEPT !.protocols = @ \cup {req[w].protocol}])
    BY <1>6 DEF register_protocol
  <2> QED BY <2>1, <2>2, <1>0, DbStepOthers, NewDatabases
<1>7. CASE RegisterConflict(w)
  <2>1. OthersWait(w) BY <1>7, <1>0 DEF RegisterConflict, OthersWait, Goto
  <2> QED BY <2>1, <1>7, <1>0, <1>b, DbStepOthers DEF RegisterConflict
<1>8. CASE RegisterFails(w)
  <2>1. OthersWait(w) BY <1>8, <1>0 DEF RegisterFails, OthersWait, Goto
  <2> QED BY <2>1, <1>8, <1>0, DbStepOthers DEF RegisterFails
<1>9. CASE Compiled(w)
  <2>1. OthersWait(w)
    BY <1>9, <1>0, <1>f DEF Compiled, CreateIn, OthersWait, Goto
  <2> QED BY <2>1, <1>9, <1>0, DbStepOthers DEF Compiled
<1>10. CASE TouchInstance(w)
  <2>1. OthersWait(w) BY <1>10, <1>0 DEF TouchInstance, OthersWait, Goto
  <2> QED BY <2>1, <1>10, <1>0, <1>b, DbStepOthers DEF TouchInstance
<1>11. CASE TouchFails(w)
  <2>1. OthersWait(w) BY <1>11, <1>f DEF TouchFails, OthersWait
  <2> QED BY <2>1, <1>11, <1>0, DbStepOthers DEF TouchFails
<1>12. ASSUME NEW i \in Instances, create_instance(w, i)
       PROVE  OthersWait(w) /\ OthersConnected(w)
  <2>1. OthersWait(w)
    BY <1>12, <1>0, <1>f DEF create_instance, CreateIn, OthersWait, Goto
  <2> QED BY <2>1, <1>12, <1>0, DbStepOthers DEF create_instance
<1>13. ASSUME NEW i \in Instances, export_proof(w, i)
       PROVE  OthersWait(w) /\ OthersConnected(w)
  <2>1. OthersWait(w) BY <1>13, <1>0 DEF export_proof, OthersWait, Goto
  <2> QED BY <2>1, <1>13, <1>0, DbStepOthers DEF export_proof
<1>14. ASSUME NEW i \in Instances, NEW p \in Protocols, create_instance_endpoint(w, i, p)
       PROVE  OthersWait(w) /\ OthersConnected(w)
  <2>1. OthersWait(w)
    <3> DEFINE e == [engine[w] EXCEPT !.active = p,
                       !.protocols[p] = IF @ = "absent" THEN "row" ELSE @]
    <3>1. CreateIn(w, e, i) \/ UNCHANGED <<engine, pc, req>>
      BY <1>14 DEF create_instance_endpoint
    <3> HIDE DEF e
    <3> QED BY <3>1, <1>0, <1>f DEF CreateIn, OthersWait, Goto
  <2> QED BY <2>1, <1>14, <1>0, DbStepOthers DEF create_instance_endpoint
<1>15. ASSUME NEW i \in Instances, NEW to \in States, transition(w, i, to)
       PROVE  OthersWait(w) /\ OthersConnected(w)
  <2>1. OthersWait(w) BY <1>15, <1>0 DEF transition, OthersWait, Goto
  <2> QED BY <2>1, <1>15, <1>0, DbStepOthers DEF transition
<1>16. ASSUME NEW i \in Instances, NEW from \in States, NEW to \in States,
              NEW seed \in BOOLEAN, Decision(w, i, from, to, seed)
       PROVE  OthersWait(w) /\ OthersConnected(w)
  <2>1. OthersWait(w) BY <1>16, <1>0 DEF Decision, OthersWait, Goto
  <2> QED BY <2>1, <1>16, <1>0, DbStepOthers DEF Decision
<1>17. CASE ReadLatest(w)
  <2>1. OthersWait(w) BY <1>17, <1>0 DEF ReadLatest, OthersWait, Goto
  <2> QED BY <2>1, <1>17, <1>0, DbStepOthers DEF ReadLatest
<1>18. CASE ValidateChain(w)
  <2>1. OthersWait(w) BY <1>18, <1>0, <1>f DEF ValidateChain, OthersWait, Goto
  <2> QED BY <2>1, <1>18, <1>0, DbStepOthers DEF ValidateChain
<1>19. CASE EnsureInstance(w)
  <2>1. OthersWait(w) BY <1>19, <1>0 DEF EnsureInstance, OthersWait, Goto
  <2>2. pc[w] = "ensure" /\ Write(w, [Base(w) EXCEPT !.rows = @ \cup {req[w].instance}])
    BY <1>19 DEF EnsureInstance
  <2> QED BY <2>1, <2>2, <1>0, DbStepOthers, NewDatabases
<1>20. CASE InsertEntry(w)
  <2>1. OthersWait(w) BY <1>20, <1>0 DEF InsertEntry, OthersWait, Goto
  <2>2. /\ pc[w] = "insert"
        /\ Write(w, [Base(w) EXCEPT !.ledger[req[w].instance] = Append(@, req[w].row)])
    BY <1>20 DEF InsertEntry
  <2> QED BY <2>1, <2>2, <1>0, DbStepOthers, NewDatabases
<1>21. CASE InsertRefused(w)
  <2>1. OthersWait(w) BY <1>21, <1>f DEF InsertRefused, OthersWait
  <2> QED BY <2>1, <1>21, <1>0, DbStepOthers DEF InsertRefused
<1>22. CASE EntryFails(w)
  <2>1. OthersWait(w) BY <1>22, <1>f DEF EntryFails, OthersWait
  <2> QED BY <2>1, <1>22, <1>0, DbStepOthers DEF EntryFails
<1>23. CASE CommitEntry(w)
  <2>1. OthersWait(w) BY <1>23, <1>0, <1>f DEF CommitEntry, Advanced, OthersWait
  <2> QED BY <2>1, <1>23, <1>0, DbStepOthers DEF CommitEntry
<1>24. CASE freeze_instance(w)
  <2>1. OthersWait(w) BY <1>24, <1>0 DEF freeze_instance, OthersWait, Goto
  <2>2. /\ pc[w] = "freeze"
        /\ Write(w, [Base(w) EXCEPT !.frozen = @ \cup ({req[w].instance} \cap Base(w).rows)])
    BY <1>24 DEF freeze_instance
  <2> QED BY <2>1, <2>2, <1>0, DbStepOthers, NewDatabases
<1>25. CASE FreezeFails(w)
  <2>1. OthersWait(w) BY <1>25, <1>f DEF FreezeFails, OthersWait
  <2> QED BY <2>1, <1>25, <1>0, DbStepOthers DEF FreezeFails
<1>26. CASE CommitOther(w)
  <2>1. OthersWait(w) BY <1>26, <1>0 DEF CommitOther, OthersWait, Goto
  <2> QED BY <2>1, <1>26, <1>0, DbStepOthers DEF CommitOther
<1> QED BY Cases, <1>1, <1>2, <1>3, <1>4, <1>5, <1>6, <1>7, <1>8, <1>9, <1>10, <1>11, <1>12,
           <1>13, <1>14, <1>15, <1>16, <1>17, <1>18, <1>19, <1>20, <1>21, <1>22, <1>23,
           <1>24, <1>25, <1>26

\* A worker's step keeps the types if it keeps the database's and its own.
LEMMA ShapeFrom ==
    ASSUME Shape, NEW w \in Workers, OthersWait(w), ConnType',
           pc' \in [Workers -> Steps], engine' \in [Workers -> EngineObject],
           req' \in [Workers -> Request],
           CallOK(w)', requests' \in 0 .. MaxRequests, lives' \in 0 .. MaxLives
    PROVE  Shape'
<1>1. ASSUME NEW x \in Workers, x # w PROVE CallOK(x)'
  <2>1. CallOK(x) /\ pc'[x] = pc[x] /\ req'[x] = req[x] BY <1>1 DEF Shape, OthersWait
  <2> QED BY <2>1 DEF CallOK
<1> QED BY <1>1 DEF Shape

\* A worker that has ended its call needs no arguments.
LEMMA FinishShape ==
    ASSUME Shape, NEW w \in Workers, Finish(w)
    PROVE  /\ pc' \in [Workers -> Steps] /\ CallOK(w)'
           /\ req' \in [Workers -> Request]
           /\ pc'[w] = "idle" /\ req'[w] = NoRequest
<1>1. pc'[w] = "idle" /\ req'[w] = NoRequest BY DEF Finish, Goto, Shape
<1> QED BY <1>1 DEF Finish, Goto, Shape, Request, Steps, CallOK, EntrySteps, RowSteps

\* create_instance puts a typed instance into the dict.
LEMMA CreateInShape ==
    ASSUME Shape, NEW w \in Workers, NEW e \in EngineObject, NEW i \in Instances,
           CreateIn(w, e, i)
    PROVE  /\ pc' \in [Workers -> Steps] /\ CallOK(w)'
           /\ req' \in [Workers -> Request]
           /\ engine' \in [Workers -> EngineObject]
<1>1. CASE Creatable(e, i)
  <2>1. e.active \in Protocols BY <1>1 DEF Creatable, EngineObject
  <2>2. [state |-> e.active.initial_state, protocol |-> e.active] \in Instance
    BY <2>1, LifecycleAssumption DEF Instance
  <2>3. Created(e, i) \in EngineObject BY <2>2 DEF Created, EngineObject
  <2>4. /\ engine' = [engine EXCEPT ![w] = Created(e, i)]
        /\ pc' = [pc EXCEPT ![w] = "touch"] /\ req' = req
    BY <1>1 DEF CreateIn, Goto
  <2>5. pc'[w] = "touch" BY <2>4 DEF Shape
  <2> QED BY <2>3, <2>4, <2>5 DEF Shape, CallOK, Steps, EntrySteps, RowSteps
<1>2. CASE ~Creatable(e, i)
  <2>1. engine' = [engine EXCEPT ![w] = e] /\ Finish(w) BY <1>2 DEF CreateIn
  <2> QED BY <2>1, FinishShape DEF Shape
<1> QED BY <1>1, <1>2

\* The latest row of a ledger.
LEMMA LatestOf ==
    ASSUME NEW rows \in Seq(Row), NEW last \in Latest(rows)
    PROVE  /\ last \in 0 .. Len(rows)
           /\ SequenceAt(rows, last) \in Nat
           /\ \A n \in DOMAIN rows : rows[n].sequence_id <= SequenceAt(rows, last)
<1>1. CASE rows = <<>> BY <1>1 DEF Latest, SequenceAt
<1>2. CASE rows # <<>>
  <2>1. /\ last \in 1 .. Len(rows)
        /\ \A m \in DOMAIN rows : rows[m].sequence_id <= rows[last].sequence_id
    BY <1>2 DEF Latest
  <2>2. rows[last] \in Row /\ last # 0 BY <2>1
  <2> QED BY <2>1, <2>2 DEF SequenceAt, Row
<1> QED BY <1>1, <1>2

\* Every step of a worker keeps the types.
LEMMA StepShape ==
    ASSUME Shape, NEW w \in Workers, EntryOK(w), Step(w)
    PROVE  Shape'
<1>0. /\ ConnType /\ pc \in [Workers -> Steps] /\ engine \in [Workers -> EngineObject]
      /\ req \in [Workers -> Request] /\ CallOK(w)
      /\ requests \in 0 .. MaxRequests /\ lives \in 0 .. MaxLives
      /\ MaxRequests \in Nat /\ MaxLives \in Nat
  BY LifecycleAssumption DEF Shape
<1>o. OthersWait(w) BY Others
<1>b. /\ View(w) \in Database /\ Base(w) \in Database /\ Base(w).frozen \subseteq Base(w).rows
      /\ engine[w] \in EngineObject /\ NoRequest \in Request
  BY <1>0, ViewType DEF Request
<1>n. FreshEngine(0) \in EngineObject BY FreshEngineType
<1>c. ASSUME NEW s \in Steps, s \notin EntrySteps, s # "freeze", s # "freezing",
             s \notin {"register", "registering", "compiled"}, Goto(w, s)
      PROVE  pc' \in [Workers -> Steps] /\ CallOK(w)'
  <2>1. pc' \in [Workers -> Steps] /\ pc'[w] = s BY <1>c, <1>0 DEF Goto
  <2> QED BY <2>1, <1>c DEF CallOK, EntrySteps, RowSteps
<1>1. CASE Open(w)
  <2>1. /\ lives' = lives + 1 /\ lives < MaxLives /\ req' = req /\ requests' = requests
        /\ engine' = [engine EXCEPT ![w] = FreshEngine(lives')]
    BY <1>1 DEF Open
  <2>2. lives' \in 0 .. MaxLives /\ engine' \in [Workers -> EngineObject]
    BY <2>1, <1>0, FreshEngineType
  <2>3. /\ Goto(w, "rebuild") \/ Goto(w, "idle") \/ Goto(w, "opening")
        /\ UNCHANGED dbVars \/ Write(w, [Base(w) EXCEPT !.unique = TRUE])
    BY <1>1 DEF Open
  <2>4. ConnType'
    <3>1. [Base(w) EXCEPT !.unique = TRUE].frozen \subseteq [Base(w) EXCEPT !.unique = TRUE].rows
      BY <1>b DEF Database
    <3> QED BY <3>1, <2>3, <1>0, StillType, WriteType, NewDatabases
  <2>5. pc' \in [Workers -> Steps] /\ CallOK(w)'
    BY <2>3, <1>c DEF Steps, EntrySteps
  <2> QED BY <2>1, <2>2, <2>4, <2>5, <1>0, <1>o, ShapeFrom
<1>2. CASE Rebuild(w)
  <2>1. /\ req' = req /\ requests' = requests /\ lives' = lives /\ engine' = engine
        /\ Goto(w, "rebuilding") /\ Write(w, [Base(w) EXCEPT !.unique = FALSE])
    BY <1>2 DEF Rebuild
  <2>2. [Base(w) EXCEPT !.unique = FALSE].frozen \subseteq [Base(w) EXCEPT !.unique = FALSE].rows
    BY <1>b DEF Database
  <2>3. ConnType' BY <2>1, <2>2, <1>0, WriteType, NewDatabases
  <2>4. pc' \in [Workers -> Steps] /\ CallOK(w)' BY <2>1, <1>c DEF Steps, EntrySteps
  <2> QED BY <2>1, <2>3, <2>4, <1>0, <1>o, ShapeFrom
<1>3. CASE RebuildFails(w)
  <2>1. /\ req' = req /\ requests' = requests /\ lives' = lives /\ engine' = engine
        /\ Goto(w, "idle") /\ UNCHANGED dbVars
    BY <1>3 DEF RebuildFails
  <2>4. pc' \in [Workers -> Steps] /\ CallOK(w)' BY <2>1, <1>c DEF Steps, EntrySteps
  <2> QED BY <2>1, <2>4, <1>0, <1>o, StillType, ShapeFrom
<1>4. CASE Crash(w)
  <2>1. /\ requests' = requests /\ lives' = lives
        /\ req' = [req EXCEPT ![w] = NoRequest]
        /\ engine' = [engine EXCEPT ![w] = FreshEngine(0)]
        /\ Goto(w, "down") /\ Rollback(w)
    BY <1>4 DEF Crash
  <2>2. engine' \in [Workers -> EngineObject] /\ req' \in [Workers -> Request]
    BY <2>1, <1>0, <1>b, <1>n
  <2>4. pc' \in [Workers -> Steps] /\ CallOK(w)' BY <2>1, <1>c DEF Steps, EntrySteps
  <2> QED BY <2>1, <2>2, <2>4, <1>0, <1>o, RollbackType, ShapeFrom
<1>5. ASSUME NEW p \in Protocols, NEW then \in SUBSET Instances, Compile(w, p, then) PROVE Shape'
  <2> DEFINE r == [op |-> "compile", protocol |-> p, then |-> then]
  <2>1. /\ requests' = requests + 1 /\ requests < MaxRequests /\ lives' = lives
        /\ engine' = [engine EXCEPT ![w].protocols[p] = "spec", ![w].active = p]
        /\ req' = [req EXCEPT ![w] = r] /\ Read(w)
        /\ pc' = [pc EXCEPT ![w] = "compiled"] \/ pc' = [pc EXCEPT ![w] = "register"]
    BY <1>5 DEF Compile, Arrives, Goto
  <2>2. r \in CompileRequest BY DEF CompileRequest
  <2>3. engine' \in [Workers -> EngineObject] BY <2>1, <1>0, <1>b DEF EngineObject
  <2> HIDE DEF r
  <2>4. req' \in [Workers -> Request] /\ req'[w] = r BY <2>1, <2>2, <1>0 DEF Request
  <2>5. pc' \in [Workers -> Steps] /\ pc'[w] \in {"compiled", "register"}
    BY <2>1, <1>0 DEF Steps
  <2>6. CallOK(w)' BY <2>2, <2>4, <2>5 DEF CallOK, EntrySteps, RowSteps
  <2>7. requests' \in 0 .. MaxRequests BY <2>1, <1>0
  <2> QED BY <2>1, <2>3, <2>4, <2>5, <2>6, <2>7, <1>0, <1>o, ReadType, ShapeFrom
<1>6. CASE register_protocol(w)
  <2>1. /\ pc[w] = "register" /\ requests' = requests /\ lives' = lives
        /\ engine' = engine /\ req' = req
        /\ pc' = [pc EXCEPT ![w] = "registering"]
        /\ Write(w, [Base(w) EXCEPT !.protocols = @ \cup {req[w].protocol}])
    BY <1>6 DEF register_protocol, Goto
  <2>2. pc' \in [Workers -> Steps] /\ pc'[w] \in {"compiled", "registering"}
    BY <2>1, <1>0 DEF Steps
  <2>3. CallOK(w)' BY <2>1, <2>2, <1>0 DEF CallOK, EntrySteps, RowSteps
  <2>4. ConnType'
    <3> DEFINE new == [Base(w) EXCEPT !.protocols = @ \cup {req[w].protocol}]
    <3>1. new \in Database BY <2>1, NewDatabases
    <3>2. new.frozen \subseteq new.rows BY <1>b DEF Database
    <3>3. Write(w, new) BY <2>1
    <3> HIDE DEF new
    <3> QED BY <3>1, <3>2, <3>3, <1>0, WriteType
  <2> QED BY <2>1, <2>2, <2>3, <2>4, <1>0, <1>o, ShapeFrom
<1>7. CASE RegisterConflict(w)
  <2>1. /\ pc[w] = "register" /\ requests' = requests /\ lives' = lives
        /\ engine' = engine /\ req' = req
        /\ pc' = [pc EXCEPT ![w] = "compiled"]
        /\ Write(w, Base(w))
    BY <1>7 DEF RegisterConflict, Goto
  <2>2. pc' \in [Workers -> Steps] /\ pc'[w] \in {"compiled", "registering"}
    BY <2>1, <1>0 DEF Steps
  <2>3. CallOK(w)' BY <2>1, <2>2, <1>0 DEF CallOK, EntrySteps, RowSteps
  <2>4. ConnType' BY <2>1, <1>0, <1>b, WriteType
  <2> QED BY <2>1, <2>2, <2>3, <2>4, <1>0, <1>o, ShapeFrom
<1>8. CASE RegisterFails(w)
  <2>1. /\ pc[w] = "register" /\ requests' = requests /\ lives' = lives
        /\ engine' = engine /\ req' = req
        /\ pc' = [pc EXCEPT ![w] = "compiled"]
        /\ WriteFails(w)
    BY <1>8 DEF RegisterFails, Goto
  <2>2. pc' \in [Workers -> Steps] /\ pc'[w] \in {"compiled", "registering"}
    BY <2>1, <1>0 DEF Steps
  <2>3. CallOK(w)' BY <2>1, <2>2, <1>0 DEF CallOK, EntrySteps, RowSteps
  <2>4. ConnType' BY <2>1, <1>0, WriteFailsType
  <2> QED BY <2>1, <2>2, <2>3, <2>4, <1>0, <1>o, ShapeFrom
<1>9. CASE Compiled(w)
  <2>1. /\ pc[w] = "compiled" /\ UNCHANGED dbVars /\ requests' = requests /\ lives' = lives
    BY <1>9 DEF Compiled
  <2>2. ConnType' BY <2>1, <1>0, StillType
  <2>3. req[w].then \subseteq Instances BY <2>1, <1>0 DEF CallOK, CompileRequest
  <2>4. CASE req[w].then = {}
    <3>1. Finish(w) /\ engine' = engine BY <2>4, <1>9 DEF Compiled
    <3> QED BY <3>1, <2>1, <2>2, <1>0, <1>o, FinishShape, ShapeFrom
  <2>5. CASE req[w].then # {}
    <3>1. PICK i \in Instances : CreateIn(w, engine[w], i)
      BY <2>3, <2>5, <1>9 DEF Compiled
    <3> QED BY <3>1, <2>1, <2>2, <1>0, <1>b, <1>o, CreateInShape, ShapeFrom
  <2> QED BY <2>4, <2>5
<1>10. CASE TouchInstance(w)
  <2>1. /\ req' = req /\ requests' = requests /\ lives' = lives /\ engine' = engine
        /\ Goto(w, "touching") /\ Write(w, Base(w))
    BY <1>10 DEF TouchInstance
  <2>3. ConnType' BY <2>1, <1>0, <1>b, WriteType
  <2>4. pc' \in [Workers -> Steps] /\ CallOK(w)' BY <2>1, <1>c DEF Steps, EntrySteps
  <2> QED BY <2>1, <2>3, <2>4, <1>0, <1>o, ShapeFrom
<1>11. CASE TouchFails(w)
  BY <1>11, <1>0, <1>o, WriteFailsType, FinishShape, ShapeFrom DEF TouchFails
<1>12. ASSUME NEW i \in Instances, create_instance(w, i) PROVE Shape'
  <2>1. /\ UNCHANGED dbVars /\ requests' = requests
        /\ lives' = lives /\ CreateIn(w, engine[w], i)
    BY <1>12 DEF create_instance
  <2>2. requests' \in 0 .. MaxRequests BY <2>1, <1>0
  <2> QED BY <2>1, <2>2, <1>0, <1>b, <1>o, StillType, CreateInShape, ShapeFrom
<1>13. ASSUME NEW i \in Instances, export_proof(w, i) PROVE Shape'
  <2>1. /\ Read(w) /\ requests < MaxRequests /\ requests' = requests + 1
        /\ lives' = lives /\ engine' = engine /\ pc' = [pc EXCEPT ![w] = "freeze"]
        /\ req' = [req EXCEPT ![w] = [op |-> "export", instance |-> i]]
    BY <1>13 DEF export_proof, Arrives, Goto
  <2>2. requests' \in 0 .. MaxRequests BY <2>1, <1>0
  <2>3. [op |-> "export", instance |-> i] \in ExportRequest BY DEF ExportRequest
  <2>4. /\ req' \in [Workers -> Request] /\ req'[w] \in ExportRequest
        /\ pc' \in [Workers -> Steps] /\ pc'[w] = "freeze"
    BY <2>1, <2>3, <1>0 DEF Request, Steps
  <2>5. CallOK(w)' BY <2>4 DEF CallOK, EntrySteps, RowSteps
  <2> QED BY <2>1, <2>2, <2>4, <2>5, <1>0, <1>o, ReadType, ShapeFrom
<1>14. ASSUME NEW i \in Instances, NEW p \in Protocols,
              create_instance_endpoint(w, i, p)
       PROVE  Shape'
  <2> DEFINE e == [engine[w] EXCEPT !.active = p,
                     !.protocols[p] = IF @ = "absent" THEN "row" ELSE @]
  <2>1. /\ Read(w) /\ requests < MaxRequests /\ requests' = requests + 1
        /\ lives' = lives /\ pc[w] = "idle"
        /\ CreateIn(w, e, i) \/ UNCHANGED <<engine, pc, req>>
    BY <1>14 DEF create_instance_endpoint, Arrives
  <2>2. requests' \in 0 .. MaxRequests BY <2>1, <1>0
  <2>3. e \in EngineObject BY <1>b DEF EngineObject
  <2> HIDE DEF e
  <2>4. ConnType' BY <2>1, <1>0, ReadType
  <2>5. CASE CreateIn(w, e, i)
    BY <2>5, <2>1, <2>2, <2>3, <2>4, <1>0, <1>o, CreateInShape, ShapeFrom
  <2>6. CASE UNCHANGED <<engine, pc, req>>
    <3>1. CallOK(w)' BY <2>6, <1>0 DEF CallOK
    <3> QED BY <3>1, <2>6, <2>1, <2>2, <2>4, <1>0, <1>o, ShapeFrom
  <2> QED BY <2>1, <2>5, <2>6
<1>15. ASSUME NEW i \in Instances, NEW to \in States, transition(w, i, to) PROVE Shape'
  <2> DEFINE inst == engine[w].instances[i]
             r == [op |-> "transition", instance |-> i, frozen |-> i \in db.frozen,
                   from_state |-> inst.state, to_state |-> to, strict_seed |-> FALSE, row |-> NoRow]
  <2>1. /\ Read(w) /\ requests < MaxRequests /\ requests' = requests + 1
        /\ lives' = lives /\ engine' = engine /\ pc' = [pc EXCEPT ![w] = "latest"]
        /\ req' = [req EXCEPT ![w] = r] /\ inst # NoInstance
    BY <1>15 DEF transition, Arrives, Goto
  <2>3. r \in EntryRequest
    <3>1. inst \in Instance BY <2>1, <1>b DEF EngineObject
    <3>2. inst.state \in States BY <3>1 DEF Instance
    <3>3. (i \in db.frozen) \in BOOLEAN OBVIOUS
    <3> QED BY <3>2, <3>3 DEF EntryRequest
  <2>2. requests' \in 0 .. MaxRequests BY <2>1, <1>0
  <2> HIDE DEF r
  <2>4. /\ req' \in [Workers -> Request] /\ req'[w] \in EntryRequest
        /\ pc' \in [Workers -> Steps] /\ pc'[w] = "latest"
    BY <2>1, <2>3, <1>0 DEF Request, Steps
  <2>5. CallOK(w)' BY <2>4 DEF CallOK, EntrySteps, RowSteps
  <2> QED BY <2>1, <2>2, <2>4, <2>5, <1>0, <1>o, ReadType, ShapeFrom
<1>16. ASSUME NEW i \in Instances, NEW from \in States, NEW to \in States,
              NEW seed \in BOOLEAN, Decision(w, i, from, to, seed)
       PROVE  Shape'
  <2> DEFINE r == [op |-> "decision", instance |-> i, frozen |-> FALSE,
                   from_state |-> from, to_state |-> to, strict_seed |-> seed, row |-> NoRow]
  <2>1. /\ Read(w) /\ requests < MaxRequests /\ requests' = requests + 1
        /\ lives' = lives /\ engine' = engine /\ pc' = [pc EXCEPT ![w] = "latest"]
        /\ req' = [req EXCEPT ![w] = r]
    BY <1>16 DEF Decision, Arrives, Goto
  <2>3. r \in EntryRequest BY DEF EntryRequest
  <2>2. requests' \in 0 .. MaxRequests BY <2>1, <1>0
  <2> HIDE DEF r
  <2>4. /\ req' \in [Workers -> Request] /\ req'[w] \in EntryRequest
        /\ pc' \in [Workers -> Steps] /\ pc'[w] = "latest"
    BY <2>1, <2>3, <1>0 DEF Request, Steps
  <2>5. CallOK(w)' BY <2>4 DEF CallOK, EntrySteps, RowSteps
  <2> QED BY <2>1, <2>2, <2>4, <2>5, <1>0, <1>o, ReadType, ShapeFrom
<1>17. CASE ReadLatest(w)
  <2>1. req[w] \in EntryRequest BY <1>17, <1>0 DEF ReadLatest, CallOK, EntrySteps
  <2> DEFINE rows == View(w).ledger[req[w].instance]
             row(last) == [sequence_id |-> SequenceAt(rows, last) + 1, previous |-> last,
                           from_state |-> req[w].from_state, to_state |-> req[w].to_state,
                           strict_seed |-> req[w].strict_seed, life |-> engine[w].life, by |-> w, frozen |-> req[w].frozen]
  <2>2. rows \in Seq(Row) BY <2>1, <1>b DEF EntryRequest, Database
  <2>3. PICK last \in Latest(rows) : req' = [req EXCEPT ![w].row = row(last)]
    BY <1>17 DEF ReadLatest
  <2>4. row(last) \in Row
    <3> HIDE DEF rows
    <3>1. last \in Nat /\ SequenceAt(rows, last) + 1 \in Nat BY <2>2, LatestOf
    <3>2. engine[w].life \in Nat BY <1>b DEF EngineObject
    <3> QED BY <3>1, <3>2, <2>1 DEF Row, EntryRequest
  <2> HIDE DEF row
  <2>5. [req[w] EXCEPT !.row = row(last)] \in EntryRequest
        /\ [req[w] EXCEPT !.row = row(last)].row = row(last)
    BY <2>1, <2>4 DEF EntryRequest
  <2>6. req' = [req EXCEPT ![w] = [req[w] EXCEPT !.row = row(last)]] BY <2>3
  <2>7. /\ req' \in [Workers -> Request]
        /\ req'[w] \in EntryRequest /\ req'[w].row \in Row
    BY <2>4, <2>5, <2>6, <1>0 DEF Request
  <2>8. /\ Read(w) /\ requests' = requests /\ lives' = lives /\ engine' = engine
        /\ pc' = [pc EXCEPT ![w] = "validate"]
    BY <1>17 DEF ReadLatest, Goto
  <2>9. pc' \in [Workers -> Steps] /\ pc'[w] = "validate" BY <2>8, <1>0 DEF Steps
  <2>10. CallOK(w)' BY <2>7, <2>9 DEF CallOK, EntrySteps, RowSteps
  <2> QED BY <2>7, <2>8, <2>9, <2>10, <1>0, <1>o, ReadType, ShapeFrom
<1>18. CASE ValidateChain(w)
  <2>1. /\ pc[w] = "validate" /\ Read(w) /\ requests' = requests /\ lives' = lives
        /\ engine' = engine
        /\ \/ Finish(w)
           \/ pc' = [pc EXCEPT ![w] = "insert"] /\ req' = req
           \/ pc' = [pc EXCEPT ![w] = "ensure"] /\ req' = req
    BY <1>18 DEF ValidateChain, Goto
  <2>2. ConnType' BY <2>1, <1>0, ReadType
  <2>3. CASE Finish(w) BY <2>3, <2>1, <2>2, <1>0, <1>o, FinishShape, ShapeFrom
  <2>4. CASE ~Finish(w)
    <3>1. pc' \in [Workers -> Steps] /\ pc'[w] \in {"insert", "ensure"} /\ req' = req
      BY <2>4, <2>1, <1>0 DEF Steps
    <3>2. CallOK(w)' BY <3>1, <2>1, <1>0 DEF CallOK, EntrySteps, RowSteps
    <3> QED BY <3>1, <3>2, <2>1, <2>2, <1>0, <1>o, ShapeFrom
  <2> QED BY <2>3, <2>4
<1>19. CASE EnsureInstance(w)
  <2> DEFINE new == [Base(w) EXCEPT !.rows = @ \cup {req[w].instance}]
  <2>1. /\ pc[w] = "ensure" /\ requests' = requests /\ lives' = lives
        /\ engine' = engine /\ req' = req
        /\ pc' = [pc EXCEPT ![w] = "insert"] /\ Write(w, new)
    BY <1>19 DEF EnsureInstance, Goto
  <2>2. pc' \in [Workers -> Steps] /\ pc'[w] = "insert" BY <2>1, <1>0 DEF Steps
  <2>3. CallOK(w)' BY <2>1, <2>2, <1>0 DEF CallOK, EntrySteps, RowSteps
  <2>4. new \in Database BY <2>1, NewDatabases
  <2>5. new.frozen \subseteq new.rows BY <1>b DEF Database
  <2> HIDE DEF new
  <2> QED BY <2>1, <2>2, <2>3, <2>4, <2>5, <1>0, <1>o, WriteType, ShapeFrom
<1>20. CASE InsertEntry(w)
  <2> DEFINE new == [Base(w) EXCEPT !.ledger[req[w].instance] = Append(@, req[w].row)]
  <2>1. /\ pc[w] = "insert" /\ requests' = requests /\ lives' = lives
        /\ engine' = engine /\ req' = req
        /\ pc' = [pc EXCEPT ![w] = "commit"] /\ Write(w, new)
    BY <1>20 DEF InsertEntry, Goto
  <2>2. pc' \in [Workers -> Steps] /\ pc'[w] = "commit" BY <2>1, <1>0 DEF Steps
  <2>3. CallOK(w)' BY <2>1, <2>2, <1>0 DEF CallOK, EntrySteps, RowSteps
  <2>4. new \in Database BY <2>1, NewDatabases
  <2>5. new.frozen \subseteq new.rows BY <1>b DEF Database
  <2> HIDE DEF new
  <2> QED BY <2>1, <2>2, <2>3, <2>4, <2>5, <1>0, <1>o, WriteType, ShapeFrom
<1>21. CASE InsertRefused(w)
  BY <1>21, <1>0, <1>o, RollbackType, FinishShape, ShapeFrom DEF InsertRefused
<1>22. CASE EntryFails(w)
  BY <1>22, <1>0, <1>o, WriteFailsType, FinishShape, ShapeFrom DEF EntryFails
<1>23. CASE CommitEntry(w)
  <2>1. /\ pc[w] = "commit" /\ Commit(w) /\ Finish(w) /\ engine' = Advanced(w)
        /\ requests' = requests /\ lives' = lives
    BY <1>23 DEF CommitEntry
  <2>2. req[w] \in EntryRequest BY <2>1, <1>0 DEF CallOK, EntrySteps
  <2>3. engine' \in [Workers -> EngineObject]
    <3>1. CASE req[w].op = "transition"
      <4> DEFINE i == req[w].instance
                 inst == engine[w].instances[i]
                 e == [engine[w] EXCEPT !.instances[i].state = req[w].to_state]
      <4>1. engine' = [engine EXCEPT ![w] = e] BY <3>1, <2>1, <1>0 DEF Advanced
      <4>2. inst # NoInstance BY <3>1, <2>1 DEF EntryOK, EntrySteps
      <4>3. i \in Instances /\ req[w].to_state \in States BY <2>2 DEF EntryRequest
      <4>4. inst \in Instance BY <4>2, <4>3, <1>b DEF EngineObject
      <4>5. [inst EXCEPT !.state = req[w].to_state] \in Instance BY <4>3, <4>4 DEF Instance
      <4>6. e = [engine[w] EXCEPT !.instances =
                   [engine[w].instances EXCEPT ![i] = [inst EXCEPT !.state = req[w].to_state]]]
        OBVIOUS
      <4>7. [engine[w].instances EXCEPT ![i] = [inst EXCEPT !.state = req[w].to_state]]
               \in [Instances -> Instance \cup {NoInstance}]
        BY <4>3, <4>5, <1>b DEF EngineObject
      <4>8. e \in EngineObject BY <4>6, <4>7, <1>b DEF EngineObject
      <4> HIDE DEF e
      <4> QED BY <4>1, <4>8, <1>0
    <3>2. CASE req[w].op # "transition" BY <3>2, <2>1, <1>0 DEF Advanced
    <3> QED BY <3>1, <3>2
  <2> QED BY <2>1, <2>3, <1>0, <1>o, CommitType, FinishShape, ShapeFrom
<1>24. CASE freeze_instance(w)
  <2> DEFINE new == [Base(w) EXCEPT !.frozen = @ \cup ({req[w].instance} \cap Base(w).rows)]
  <2>1. /\ pc[w] = "freeze" /\ requests' = requests /\ lives' = lives
        /\ engine' = engine /\ req' = req
        /\ pc' = [pc EXCEPT ![w] = "freezing"] /\ Write(w, new)
    BY <1>24 DEF freeze_instance, Goto
  <2>2. pc' \in [Workers -> Steps] /\ pc'[w] = "freezing" BY <2>1, <1>0 DEF Steps
  <2>3. CallOK(w)' BY <2>1, <2>2, <1>0 DEF CallOK, EntrySteps, RowSteps
  <2>4. new \in Database BY <2>1, NewDatabases
  <2>5. new.frozen \subseteq new.rows BY <1>b DEF Database
  <2> HIDE DEF new
  <2> QED BY <2>1, <2>2, <2>3, <2>4, <2>5, <1>0, <1>o, WriteType, ShapeFrom
<1>25. CASE FreezeFails(w)
  BY <1>25, <1>0, <1>o, WriteFailsType, FinishShape, ShapeFrom DEF FreezeFails
<1>26. CASE CommitOther(w)
  <2>1. /\ Commit(w) /\ requests' = requests /\ lives' = lives /\ engine' = engine
        /\ pc' = [pc EXCEPT ![w] = AfterCommit(w)]
        /\ req' = [req EXCEPT ![w] = IF pc[w] = "registering" THEN @ ELSE NoRequest]
        /\ pc[w] \in {"opening", "rebuilding", "registering", "touching", "freezing"}
    BY <1>26 DEF CommitOther, Goto
  <2>2. /\ AfterCommit(w) \in {"rebuild", "compiled", "idle"}
        /\ AfterCommit(w) = "compiled" <=> pc[w] = "registering"
    BY <2>1 DEF AfterCommit
  <2>3. /\ pc' \in [Workers -> Steps] /\ pc'[w] = AfterCommit(w)
        /\ req' \in [Workers -> Request]
        /\ pc[w] = "registering" => req'[w] = req[w]
    BY <2>1, <2>2, <1>0, <1>b DEF Steps
  <2>4. CallOK(w)' BY <2>2, <2>3, <1>0 DEF CallOK, EntrySteps, RowSteps
  <2> QED BY <2>1, <2>3, <2>4, <1>0, <1>o, CommitType, ShapeFrom
<1> QED BY Cases, <1>1, <1>2, <1>3, <1>4, <1>5, <1>6, <1>7, <1>8, <1>9, <1>10, <1>11,
           <1>12, <1>13, <1>14, <1>15, <1>16, <1>17, <1>18, <1>19, <1>20, <1>21, <1>22,
           <1>23, <1>24, <1>25, <1>26

-----------------------------------------------------------------------------
(* The write lock.                                                         *)

\* The lock of another worker, and what is under it, stays.
LEMMA OtherLock ==
    ASSUME Shape, NEW w \in Workers, OthersWait(w), OthersConnected(w),
           NEW x \in Workers, x # w, LockOK(x)
    PROVE  LockOK(x)'
<1>1. /\ pc'[x] = pc[x] /\ req'[x] = req[x] /\ (lock' = x <=> lock = x)
      /\ lock = x => db' = db /\ txn' = txn /\ conn'[x] = conn[x]
  BY DEF OthersWait, OthersConnected
<1>2. CASE lock = x BY <1>1, <1>2 DEF LockOK
<1>3. CASE lock # x BY <1>1, <1>3 DEF LockOK
<1> QED BY <1>2, <1>3

\* A worker that writes starts from the committed ledger and its indexes.
LEMMA BaseLedger ==
    ASSUME NEW w \in Workers, LockOK(w), pc[w] \notin WroteSteps
    PROVE  /\ Base(w).ledger = db.ledger /\ Base(w).unique = db.unique
           /\ pc[w] # "insert" => Base(w) = db
BY DEF LockOK, Base, WroteSteps

\* A worker without the lock, before it writes.
LEMMA LockFree ==
    ASSUME NEW w \in Workers, lock' # w, pc'[w] \notin WroteSteps
    PROVE  LockOK(w)'
BY DEF LockOK

\* A step that reads, or leaves the database alone.
LEMMA LockKept ==
    ASSUME ConnType, NEW w \in Workers, LockOK(w), Read(w) \/ UNCHANGED dbVars,
           pc[w] \notin WroteSteps, pc'[w] \notin WroteSteps, pc[w] # "insert",
           lock = w => pc'[w] \notin {"down", "rebuild"}
    PROVE  LockOK(w)'
<1>1. /\ lock' = lock /\ db' = db /\ txn' = txn
      /\ conn'[w] = "stale" => conn[w] = "stale"
  BY DEF Read, dbVars, ConnType
<1>2. CASE lock = w
  <2>1. conn[w] # "stale" /\ txn = db BY <1>2 DEF LockOK, WroteSteps
  <2> QED BY <2>1, <1>1, <1>2 DEF LockOK, WroteSteps
<1>3. CASE lock # w BY <1>3, <1>1, LockFree
<1> QED BY <1>2, <1>3

\* No write of the lock's holder fails.
LEMMA FailsWithoutLock ==
    ASSUME NEW w \in Workers, LockOK(w), WriteFails(w)
    PROVE  lock # w /\ lock' # w /\ db' = db
BY DEF WriteFails, CanWrite, LockOK

\* commit() and rollback() give the lock back.
LEMMA Released ==
    ASSUME NEW w \in Workers, Commit(w) \/ Rollback(w)
    PROVE  lock' # w
BY LifecycleAssumption DEF Commit, Rollback, Release

\* Every step of a worker keeps to the lock.
LEMMA StepLock ==
    ASSUME Shape, NEW w \in Workers, LockOK(w), Step(w)
    PROVE  LockOK(w)'
<1>0. ConnType /\ CallOK(w) /\ pc \in [Workers -> Steps] /\ req \in [Workers -> Request]
  BY DEF Shape
<1>f. Finish(w) => pc'[w] = "idle" BY FinishShape
<1>b. Base(w) \in Database /\ db \in Database BY <1>0, ViewType DEF ConnType
<1>1. CASE Open(w)
  <2>1. pc[w] = "down" /\ lock # w BY <1>1 DEF Open, LockOK
  <2>2. CASE db.unique
    <3>1. pc'[w] \in {"rebuild", "idle"} /\ UNCHANGED dbVars
      BY <2>2, <1>1, <1>0 DEF Open, Goto
    <3> QED BY <3>1, <2>1, <1>0, LockKept DEF WroteSteps
  <2>3. CASE ~db.unique
    <3>1. pc'[w] = "opening" /\ Write(w, [Base(w) EXCEPT !.unique = TRUE])
      BY <2>3, <1>1, <1>0 DEF Open, Goto
    <3>2. Base(w) = db BY <2>1 DEF Base
    <3>3. [db EXCEPT !.unique = TRUE].ledger = db.ledger BY <1>b DEF Database
    <3> QED BY <3>1, <3>2, <3>3 DEF Write, CanWrite, LockOK, WroteSteps
  <2> QED BY <2>2, <2>3
<1>2. CASE Rebuild(w)
  <2>1. pc[w] = "rebuild" /\ lock # w BY <1>2 DEF Rebuild, LockOK
  <2>2. pc'[w] = "rebuilding" /\ Write(w, [Base(w) EXCEPT !.unique = FALSE])
    BY <1>2, <1>0 DEF Rebuild, Goto
  <2>3. Base(w) = db BY <2>1 DEF Base
  <2>4. [db EXCEPT !.unique = FALSE].ledger = db.ledger BY <1>b DEF Database
  <2> QED BY <2>2, <2>3, <2>4 DEF Write, CanWrite, LockOK, WroteSteps
<1>3. CASE RebuildFails(w)
  <2>1. pc[w] = "rebuild" /\ lock # w BY <1>3 DEF RebuildFails, LockOK
  <2>2. pc'[w] = "idle" /\ UNCHANGED dbVars BY <1>3, <1>0 DEF RebuildFails, Goto
  <2> QED BY <2>1, <2>2, <1>0, LockKept DEF WroteSteps
<1>4. CASE Crash(w)
  <2>1. pc'[w] = "down" /\ Rollback(w) BY <1>4, <1>0 DEF Crash, Goto
  <2> QED BY <2>1, Released, LockFree DEF WroteSteps
<1>5. ASSUME NEW p \in Protocols, NEW then \in SUBSET Instances,
              Compile(w, p, then)
       PROVE  LockOK(w)'
  <2>1. pc[w] = "idle" /\ pc'[w] \in {"compiled", "register"} /\ Read(w)
    BY <1>5, <1>0 DEF Compile, Arrives, Goto
  <2> QED BY <2>1, <1>0, LockKept DEF WroteSteps
<1>6. CASE register_protocol(w)
  <2> DEFINE new == [Base(w) EXCEPT !.protocols = @ \cup {req[w].protocol}]
  <2>1. pc[w] = "register" /\ pc'[w] = "registering" /\ Write(w, new)
    BY <1>6, <1>0 DEF register_protocol, Goto
  <2>2. Base(w) = db BY <2>1, BaseLedger DEF WroteSteps
  <2>3. new.ledger = db.ledger /\ new.unique = db.unique BY <2>2, <1>b DEF Database
  <2> HIDE DEF new
  <2> QED BY <2>1, <2>3 DEF Write, CanWrite, LockOK, WroteSteps
<1>7. CASE RegisterConflict(w)
  <2>1. pc[w] = "register" /\ pc'[w] = "compiled" /\ Write(w, Base(w))
    BY <1>7, <1>0 DEF RegisterConflict, Goto
  <2>2. Base(w) = db BY <2>1, BaseLedger DEF WroteSteps
  <2> QED BY <2>1, <2>2 DEF Write, CanWrite, LockOK, WroteSteps
<1>8. CASE RegisterFails(w)
  <2>1. pc'[w] = "compiled" /\ WriteFails(w) BY <1>8, <1>0, <1>f DEF RegisterFails, Goto
  <2> QED BY <2>1, FailsWithoutLock, LockFree DEF WroteSteps
<1>9. CASE Compiled(w)
  <2>1. pc[w] = "compiled" /\ UNCHANGED dbVars BY <1>9 DEF Compiled
  <2>2. pc'[w] \in {"idle", "touch"} BY <1>9, <1>0, <1>f DEF Compiled, CreateIn, Goto
  <2> QED BY <2>1, <2>2, <1>0, LockKept DEF WroteSteps
<1>10. CASE TouchInstance(w)
  <2>1. pc[w] = "touch" /\ pc'[w] = "touching" /\ Write(w, Base(w))
    BY <1>10, <1>0 DEF TouchInstance, Goto
  <2>2. Base(w) = db BY <2>1, BaseLedger DEF WroteSteps
  <2> QED BY <2>1, <2>2 DEF Write, CanWrite, LockOK, WroteSteps
<1>11. CASE TouchFails(w)
  <2>1. pc'[w] = "idle" /\ WriteFails(w) BY <1>11, <1>0, <1>f DEF TouchFails, Goto
  <2> QED BY <2>1, FailsWithoutLock, LockFree DEF WroteSteps
<1>12. ASSUME NEW i \in Instances, create_instance(w, i) PROVE LockOK(w)'
  <2>1. pc[w] = "idle" /\ UNCHANGED dbVars BY <1>12 DEF create_instance
  <2>2. pc'[w] \in {"idle", "touch"} BY <1>12, <1>0, <1>f DEF create_instance, CreateIn, Goto
  <2> QED BY <2>1, <2>2, <1>0, LockKept DEF WroteSteps
<1>13. ASSUME NEW i \in Instances, export_proof(w, i) PROVE LockOK(w)'
  <2>1. pc[w] = "idle" /\ pc'[w] = "freeze" /\ Read(w)
    BY <1>13, <1>0 DEF export_proof, Arrives, Goto
  <2> QED BY <2>1, <1>0, LockKept DEF WroteSteps
<1>14. ASSUME NEW i \in Instances, NEW p \in Protocols,
              create_instance_endpoint(w, i, p)
       PROVE  LockOK(w)'
  <2> DEFINE e == [engine[w] EXCEPT !.active = p,
                     !.protocols[p] = IF @ = "absent" THEN "row" ELSE @]
  <2>1. /\ pc[w] = "idle" /\ Read(w)
        /\ CreateIn(w, e, i) \/ UNCHANGED <<engine, pc, req>>
    BY <1>14 DEF create_instance_endpoint, Arrives
  <2> HIDE DEF e
  <2>2. pc'[w] \in {"idle", "touch"} BY <2>1, <1>0, <1>f DEF CreateIn, Goto
  <2> QED BY <2>1, <2>2, <1>0, LockKept DEF WroteSteps
<1>15. ASSUME NEW i \in Instances, NEW to \in States, transition(w, i, to) PROVE LockOK(w)'
  <2>1. pc[w] = "idle" /\ pc'[w] = "latest" /\ Read(w)
    BY <1>15, <1>0 DEF transition, Arrives, Goto
  <2> QED BY <2>1, <1>0, LockKept DEF WroteSteps
<1>16. ASSUME NEW i \in Instances, NEW from \in States, NEW to \in States,
              NEW seed \in BOOLEAN, Decision(w, i, from, to, seed)
       PROVE  LockOK(w)'
  <2>1. pc[w] = "idle" /\ pc'[w] = "latest" /\ Read(w)
    BY <1>16, <1>0 DEF Decision, Arrives, Goto
  <2> QED BY <2>1, <1>0, LockKept DEF WroteSteps
<1>17. CASE ReadLatest(w)
  <2>1. pc[w] = "latest" /\ pc'[w] = "validate" /\ Read(w)
    BY <1>17, <1>0 DEF ReadLatest, Goto
  <2> QED BY <2>1, <1>0, LockKept DEF WroteSteps
<1>18. CASE ValidateChain(w)
  <2>1. pc[w] = "validate" /\ pc'[w] \in {"insert", "ensure", "idle"} /\ Read(w)
    BY <1>18, <1>0, <1>f DEF ValidateChain, Goto
  <2> QED BY <2>1, <1>0, LockKept DEF WroteSteps
<1>19. CASE EnsureInstance(w)
  <2> DEFINE new == [Base(w) EXCEPT !.rows = @ \cup {req[w].instance}]
  <2>1. pc[w] = "ensure" /\ pc'[w] = "insert" /\ Write(w, new)
    BY <1>19, <1>0 DEF EnsureInstance, Goto
  <2>2. Base(w) = db BY <2>1, BaseLedger DEF WroteSteps
  <2>3. new.ledger = db.ledger /\ new.unique = db.unique BY <2>2, <1>b DEF Database
  <2> HIDE DEF new
  <2> QED BY <2>1, <2>3 DEF Write, CanWrite, LockOK, WroteSteps
<1>20. CASE InsertEntry(w)
  <2> DEFINE new == [Base(w) EXCEPT !.ledger[req[w].instance] = Append(@, req[w].row)]
  <2>1. pc[w] = "insert" /\ pc'[w] = "commit" /\ Write(w, new) /\ req' = req
    BY <1>20, <1>0 DEF InsertEntry, Goto
  <2>2. Base(w).ledger = db.ledger /\ Base(w).unique = db.unique
    BY <2>1, BaseLedger DEF WroteSteps
  <2>3. /\ new.ledger = [Base(w).ledger EXCEPT ![req[w].instance] = Append(@, req[w].row)]
        /\ new.unique = Base(w).unique
    BY <1>b DEF Database
  <2> HIDE DEF new
  <2> QED BY <2>1, <2>2, <2>3 DEF Write, CanWrite, LockOK, WroteSteps
<1>21. CASE InsertRefused(w)
  <2>1. pc'[w] = "idle" /\ Rollback(w) BY <1>21, <1>f DEF InsertRefused
  <2> QED BY <2>1, Released, LockFree DEF WroteSteps
<1>22. CASE EntryFails(w)
  <2>1. pc'[w] = "idle" /\ WriteFails(w) BY <1>22, <1>0, <1>f DEF EntryFails, Goto
  <2> QED BY <2>1, FailsWithoutLock, LockFree DEF WroteSteps
<1>23. CASE CommitEntry(w)
  <2>1. pc'[w] = "idle" /\ Commit(w) BY <1>23, <1>f DEF CommitEntry
  <2> QED BY <2>1, Released, LockFree DEF WroteSteps
<1>24. CASE freeze_instance(w)
  <2> DEFINE new == [Base(w) EXCEPT !.frozen = @ \cup ({req[w].instance} \cap Base(w).rows)]
  <2>1. pc[w] = "freeze" /\ pc'[w] = "freezing" /\ Write(w, new)
    BY <1>24, <1>0 DEF freeze_instance, Goto
  <2>2. Base(w) = db BY <2>1, BaseLedger DEF WroteSteps
  <2>3. new.ledger = db.ledger /\ new.unique = db.unique BY <2>2, <1>b DEF Database
  <2> HIDE DEF new
  <2> QED BY <2>1, <2>3 DEF Write, CanWrite, LockOK, WroteSteps
<1>25. CASE FreezeFails(w)
  <2>1. pc'[w] = "idle" /\ WriteFails(w) BY <1>25, <1>0, <1>f DEF FreezeFails, Goto
  <2> QED BY <2>1, FailsWithoutLock, LockFree DEF WroteSteps
<1>26. CASE CommitOther(w)
  <2>1. pc'[w] \in {"rebuild", "compiled", "idle"} /\ Commit(w)
    BY <1>26, <1>0 DEF CommitOther, AfterCommit, Goto
  <2> QED BY <2>1, Released, LockFree DEF WroteSteps
<1> QED BY Cases, <1>1, <1>2, <1>3, <1>4, <1>5, <1>6, <1>7, <1>8, <1>9, <1>10, <1>11,
           <1>12, <1>13, <1>14, <1>15, <1>16, <1>17, <1>18, <1>19, <1>20, <1>21, <1>22,
           <1>23, <1>24, <1>25, <1>26

-----------------------------------------------------------------------------
(* What a step of a worker changes.                                        *)

\* The dict of instances is left alone, or gets one that starts where its protocol does.
DictStep(w) ==
    \/ engine'[w].instances = engine[w].instances
    \/ \E j \in Instances, p \in Protocols :
          /\ engine[w].instances[j] = NoInstance
          /\ engine'[w].instances = [engine[w].instances EXCEPT ![j] =
                                       [state |-> p.initial_state, protocol |-> p]]

\* A step between the start and the end of a process that records no row.
Runs(w) ==
    /\ engine'[w].life = engine[w].life /\ lives' = lives
    /\ pc[w] # "down" /\ pc'[w] # "down"
    /\ DictStep(w)

\* Which steps lead where, and what they may change.
Changes(w) ==
    /\ Open(w) \/ Crash(w) \/ CommitEntry(w) \/ Runs(w)
    /\ pc'[w] = "opening" => Open(w)
    /\ pc'[w] = "rebuilding" => Rebuild(w)
    /\ pc'[w] = "commit" => InsertEntry(w)
    /\ pc'[w] \in EntrySteps =>
          \/ \E i \in Instances, to \in States : transition(w, i, to)
          \/ \E i \in Instances, from, to \in States, seed \in BOOLEAN :
                Decision(w, i, from, to, seed)
          \/ ReadLatest(w) \/ ValidateChain(w) \/ EnsureInstance(w) \/ InsertEntry(w)
    /\ rebuilt' = rebuilt \/ Rebuild(w)
    /\ db' = db \/ CommitEntry(w) \/ CommitOther(w)

\* create_instance in a worker's dicts.
LEMMA CreateInDict ==
    ASSUME Shape, NEW w \in Workers, NEW e \in EngineObject, NEW i \in Instances,
           e.instances = engine[w].instances, e.life = engine[w].life, CreateIn(w, e, i)
    PROVE  engine'[w].life = engine[w].life /\ DictStep(w) /\ pc'[w] \in {"touch", "idle"}
<1>0. engine \in [Workers -> EngineObject] /\ pc \in [Workers -> Steps] BY DEF Shape
<1>1. CASE Creatable(e, i)
  <2>1. e.active \in Protocols BY <1>1 DEF Creatable, EngineObject
  <2>2. engine'[w] = Created(e, i) /\ pc'[w] = "touch"
    BY <1>0, <1>1 DEF CreateIn, Goto
  <2>3. /\ Created(e, i).life = e.life
        /\ Created(e, i).instances = [e.instances EXCEPT ![i] =
              [state |-> e.active.initial_state, protocol |-> e.active]]
    BY DEF Created, EngineObject
  <2>4. e.instances[i] = NoInstance BY <1>1 DEF Creatable
  <2> QED BY <2>1, <2>2, <2>3, <2>4 DEF DictStep
<1>2. CASE ~Creatable(e, i)
  <2>1. engine'[w] = e /\ Finish(w) BY <1>0, <1>2 DEF CreateIn
  <2> QED BY <2>1, FinishShape DEF DictStep
<1> QED BY <1>1, <1>2

LEMMA StepChanges ==
    ASSUME Shape, NEW w \in Workers, Step(w)
    PROVE  Changes(w)
<1>0. /\ ConnType /\ CallOK(w) /\ pc \in [Workers -> Steps] /\ req \in [Workers -> Request]
      /\ engine \in [Workers -> EngineObject] /\ engine[w] \in EngineObject
  BY DEF Shape
<1>f. Finish(w) => pc'[w] = "idle" BY FinishShape
<1>q. ASSUME engine' = engine, lives' = lives, pc[w] # "down", pc'[w] # "down" PROVE Runs(w)
  BY <1>q DEF Runs, DictStep
<1>r. Read(w) => db' = db BY DEF Read
<1>x. \A new : Write(w, new) => db' = db BY DEF Write
<1>y. WriteFails(w) => db' = db BY DEF WriteFails
<1>1. CASE Open(w)
  <2>1. pc'[w] \in {"rebuild", "idle", "opening"} /\ rebuilt' = rebuilt /\ db' = db
    BY <1>1, <1>0 DEF Open, Goto, Write, dbVars
  <2> QED BY <2>1, <1>1 DEF Changes, EntrySteps
<1>2. CASE Rebuild(w)
  <2>1. /\ engine' = engine /\ lives' = lives /\ pc[w] \in {"rebuild"} /\ pc'[w] \in {"rebuilding"}
        /\ db' = db /\ Rebuild(w)
    BY <1>2, <1>0, <1>f, <1>x DEF Rebuild, Arrives, Goto, dbVars
  <2> QED BY <2>1, <1>2, <1>q DEF Changes, EntrySteps
<1>3. CASE RebuildFails(w)
  <2>1. /\ engine' = engine /\ lives' = lives /\ pc[w] \in {"rebuild"} /\ pc'[w] \in {"idle"}
        /\ db' = db /\ rebuilt' = rebuilt
    BY <1>3, <1>0, <1>f, <1>x DEF RebuildFails, Arrives, Goto, dbVars
  <2> QED BY <2>1, <1>3, <1>q DEF Changes, EntrySteps
<1>4. CASE Crash(w)
  <2>1. pc'[w] = "down" /\ rebuilt' = rebuilt /\ db' = db
    BY <1>4, <1>0 DEF Crash, Goto, Rollback
  <2> QED BY <2>1, <1>4 DEF Changes, EntrySteps
<1>5. ASSUME NEW p \in Protocols, NEW then \in SUBSET Instances,
              Compile(w, p, then)
       PROVE  Changes(w)
  <2>1. /\ lives' = lives /\ pc[w] = "idle" /\ pc'[w] \in {"compiled", "register"}
        /\ db' = db /\ rebuilt' = rebuilt
        /\ engine' = [engine EXCEPT ![w].protocols[p] = "spec", ![w].active = p]
    BY <1>5, <1>0, <1>r DEF Compile, Arrives, Goto
  <2>2. engine'[w].life = engine[w].life /\ engine'[w].instances = engine[w].instances
    BY <2>1, <1>0 DEF EngineObject
  <2>3. Runs(w) BY <2>1, <2>2 DEF Runs, DictStep
  <2> QED BY <2>1, <2>3 DEF Changes, EntrySteps
<1>6. CASE register_protocol(w)
  <2>1. /\ engine' = engine /\ lives' = lives /\ pc[w] \in {"register"} /\ pc'[w] \in {"registering"}
        /\ db' = db /\ rebuilt' = rebuilt
    BY <1>6, <1>0, <1>f, <1>x DEF register_protocol, Arrives, Goto, dbVars
  <2> QED BY <2>1, <1>6, <1>q DEF Changes, EntrySteps
<1>7. CASE RegisterConflict(w)
  <2>1. /\ engine' = engine /\ lives' = lives /\ pc[w] \in {"register"} /\ pc'[w] \in {"compiled"}
        /\ db' = db /\ rebuilt' = rebuilt
    BY <1>7, <1>0, <1>f, <1>x DEF RegisterConflict, Arrives, Goto, dbVars
  <2> QED BY <2>1, <1>7, <1>q DEF Changes, EntrySteps
<1>8. CASE RegisterFails(w)
  <2>1. /\ engine' = engine /\ lives' = lives /\ pc[w] \in {"register"} /\ pc'[w] \in {"compiled"}
        /\ db' = db /\ rebuilt' = rebuilt
    BY <1>8, <1>0, <1>f, <1>y DEF RegisterFails, Arrives, Goto, dbVars
  <2> QED BY <2>1, <1>8, <1>q DEF Changes, EntrySteps
<1>9. CASE Compiled(w)
  <2>1. pc[w] = "compiled" /\ db' = db /\ lives' = lives /\ rebuilt' = rebuilt
    BY <1>9 DEF Compiled, dbVars
  <2>2. /\ engine'[w].life = engine[w].life /\ DictStep(w) /\ pc'[w] \in {"touch", "idle"}
    <3>1. CASE req[w].then = {}
      BY <3>1, <1>9, <1>f DEF Compiled, DictStep
    <3>2. CASE req[w].then # {}
      <4>1. req[w].then \subseteq Instances BY <2>1, <1>0 DEF CallOK, CompileRequest
      <4>2. PICK i \in Instances : CreateIn(w, engine[w], i)
        BY <4>1, <3>2, <1>9 DEF Compiled
      <4> QED BY <4>2, <1>0, CreateInDict
    <3> QED BY <3>1, <3>2
  <2>3. Runs(w) BY <2>1, <2>2 DEF Runs
  <2> QED BY <2>1, <2>2, <2>3 DEF Changes, EntrySteps
<1>10. CASE TouchInstance(w)
  <2>1. /\ engine' = engine /\ lives' = lives /\ pc[w] \in {"touch"} /\ pc'[w] \in {"touching"}
        /\ db' = db /\ rebuilt' = rebuilt
    BY <1>10, <1>0, <1>f, <1>x DEF TouchInstance, Arrives, Goto, dbVars
  <2> QED BY <2>1, <1>10, <1>q DEF Changes, EntrySteps
<1>11. CASE TouchFails(w)
  <2>1. /\ engine' = engine /\ lives' = lives /\ pc[w] \in {"touch"} /\ pc'[w] \in {"idle"}
        /\ db' = db /\ rebuilt' = rebuilt
    BY <1>11, <1>0, <1>f, <1>y DEF TouchFails, Arrives, Goto, dbVars
  <2> QED BY <2>1, <1>11, <1>q DEF Changes, EntrySteps
<1>12. ASSUME NEW i \in Instances, create_instance(w, i) PROVE Changes(w)
  <2>1. /\ pc[w] = "idle" /\ db' = db /\ lives' = lives /\ rebuilt' = rebuilt
        /\ CreateIn(w, engine[w], i)
    BY <1>12 DEF create_instance, dbVars
  <2>2. /\ engine'[w].life = engine[w].life /\ DictStep(w) /\ pc'[w] \in {"touch", "idle"}
    BY <2>1, <1>0, CreateInDict
  <2>3. Runs(w) BY <2>1, <2>2 DEF Runs
  <2> QED BY <2>1, <2>2, <2>3 DEF Changes, EntrySteps
<1>13. ASSUME NEW i \in Instances, export_proof(w, i) PROVE Changes(w)
  <2>1. /\ engine' = engine /\ lives' = lives /\ pc[w] \in {"idle"} /\ pc'[w] \in {"freeze"}
        /\ db' = db /\ rebuilt' = rebuilt
    BY <1>13, <1>0, <1>f, <1>r DEF export_proof, Arrives, Goto, dbVars
  <2> QED BY <2>1, <1>13, <1>q DEF Changes, EntrySteps
<1>14. ASSUME NEW i \in Instances, NEW p \in Protocols,
              create_instance_endpoint(w, i, p)
       PROVE  Changes(w)
  <2> DEFINE e == [engine[w] EXCEPT !.active = p,
                     !.protocols[p] = IF @ = "absent" THEN "row" ELSE @]
  <2>1. /\ pc[w] = "idle" /\ db' = db /\ lives' = lives /\ rebuilt' = rebuilt
        /\ CreateIn(w, e, i) \/ UNCHANGED <<engine, pc, req>>
    BY <1>14, <1>r DEF create_instance_endpoint, Arrives
  <2>2. e \in EngineObject /\ e.instances = engine[w].instances /\ e.life = engine[w].life
    BY <1>0 DEF EngineObject
  <2> HIDE DEF e
  <2>3. /\ engine'[w].life = engine[w].life /\ DictStep(w) /\ pc'[w] \in {"touch", "idle"}
    <3>1. CASE CreateIn(w, e, i) BY <3>1, <2>2, CreateInDict
    <3>2. CASE UNCHANGED <<engine, pc, req>> BY <3>2, <2>1 DEF DictStep
    <3> QED BY <2>1, <3>1, <3>2
  <2>4. Runs(w) BY <2>1, <2>3 DEF Runs
  <2> QED BY <2>1, <2>3, <2>4 DEF Changes, EntrySteps
<1>15. ASSUME NEW i \in Instances, NEW to \in States, transition(w, i, to) PROVE Changes(w)
  <2>1. /\ engine' = engine /\ lives' = lives /\ pc[w] \in {"idle"} /\ pc'[w] \in {"latest"}
        /\ db' = db /\ rebuilt' = rebuilt
    BY <1>15, <1>0, <1>f, <1>r DEF transition, Arrives, Goto
  <2>2. Runs(w) BY <2>1, <1>q
  <2> QED BY <2>1, <2>2, <1>15 DEF Changes
<1>16. ASSUME NEW i \in Instances, NEW from \in States, NEW to \in States,
              NEW seed \in BOOLEAN, Decision(w, i, from, to, seed)
       PROVE  Changes(w)
  <2>1. /\ engine' = engine /\ lives' = lives /\ pc[w] \in {"idle"} /\ pc'[w] \in {"latest"}
        /\ db' = db /\ rebuilt' = rebuilt
    BY <1>16, <1>0, <1>f, <1>r DEF Decision, Arrives, Goto
  <2>2. Runs(w) BY <2>1, <1>q
  <2> QED BY <2>1, <2>2, <1>16 DEF Changes
<1>17. CASE ReadLatest(w)
  <2>1. /\ engine' = engine /\ lives' = lives /\ pc[w] \in {"latest"} /\ pc'[w] \in {"validate"}
        /\ db' = db /\ rebuilt' = rebuilt
    BY <1>17, <1>0, <1>f, <1>r DEF ReadLatest, Arrives, Goto
  <2>2. Runs(w) BY <2>1, <1>q
  <2> QED BY <2>1, <2>2, <1>17 DEF Changes
<1>18. CASE ValidateChain(w)
  <2>1. /\ engine' = engine /\ lives' = lives /\ pc[w] \in {"validate"} /\ pc'[w] \in {"insert", "ensure", "idle"}
        /\ db' = db /\ rebuilt' = rebuilt
    BY <1>18, <1>0, <1>f, <1>r DEF ValidateChain, Arrives, Goto
  <2>2. Runs(w) BY <2>1, <1>q
  <2> QED BY <2>1, <2>2, <1>18 DEF Changes
<1>19. CASE EnsureInstance(w)
  <2>1. /\ engine' = engine /\ lives' = lives /\ pc[w] \in {"ensure"} /\ pc'[w] \in {"insert"}
        /\ db' = db /\ rebuilt' = rebuilt
    BY <1>19, <1>0, <1>f, <1>x DEF EnsureInstance, Arrives, Goto
  <2>2. Runs(w) BY <2>1, <1>q
  <2> QED BY <2>1, <2>2, <1>19 DEF Changes
<1>20. CASE InsertEntry(w)
  <2>1. /\ engine' = engine /\ lives' = lives /\ pc[w] \in {"insert"} /\ pc'[w] \in {"commit"}
        /\ db' = db /\ rebuilt' = rebuilt
    BY <1>20, <1>0, <1>f, <1>x DEF InsertEntry, Arrives, Goto
  <2>2. Runs(w) BY <2>1, <1>q
  <2> QED BY <2>1, <2>2, <1>20 DEF Changes
<1>21. CASE InsertRefused(w)
  <2>1. /\ engine' = engine /\ lives' = lives /\ pc[w] = "insert" /\ pc'[w] = "idle"
        /\ db' = db /\ rebuilt' = rebuilt
    BY <1>21, <1>f DEF InsertRefused, Rollback
  <2> QED BY <2>1, <1>q DEF Changes, EntrySteps
<1>22. CASE EntryFails(w)
  <2>1. /\ engine' = engine /\ lives' = lives /\ pc[w] \in {"ensure", "insert"} /\ pc'[w] \in {"idle"}
        /\ db' = db /\ rebuilt' = rebuilt
    BY <1>22, <1>0, <1>f, <1>y DEF EntryFails, Arrives, Goto, dbVars
  <2> QED BY <2>1, <1>22, <1>q DEF Changes, EntrySteps
<1>23. CASE CommitEntry(w)
  <2>1. pc'[w] = "idle" /\ rebuilt' = rebuilt BY <1>23, <1>f DEF CommitEntry
  <2> QED BY <2>1, <1>23 DEF Changes, EntrySteps
<1>24. CASE freeze_instance(w)
  <2>1. /\ engine' = engine /\ lives' = lives /\ pc[w] \in {"freeze"} /\ pc'[w] \in {"freezing"}
        /\ db' = db /\ rebuilt' = rebuilt
    BY <1>24, <1>0, <1>f, <1>x DEF freeze_instance, Arrives, Goto, dbVars
  <2> QED BY <2>1, <1>24, <1>q DEF Changes, EntrySteps
<1>25. CASE FreezeFails(w)
  <2>1. /\ engine' = engine /\ lives' = lives /\ pc[w] \in {"freeze"} /\ pc'[w] \in {"idle"}
        /\ db' = db /\ rebuilt' = rebuilt
    BY <1>25, <1>0, <1>f, <1>y DEF FreezeFails, Arrives, Goto, dbVars
  <2> QED BY <2>1, <1>25, <1>q DEF Changes, EntrySteps
<1>26. CASE CommitOther(w)
  <2>1. /\ engine' = engine /\ lives' = lives /\ pc'[w] \in {"rebuild", "compiled", "idle"}
        /\ pc[w] \in {"opening", "rebuilding", "registering", "touching", "freezing"}
        /\ rebuilt' = rebuilt
    BY <1>26, <1>0 DEF CommitOther, AfterCommit, Goto
  <2>2. Runs(w) BY <2>1, <1>q
  <2> QED BY <2>1, <2>2, <1>26 DEF Changes, EntrySteps
<1> QED BY Cases, <1>1, <1>2, <1>3, <1>4, <1>5, <1>6, <1>7, <1>8, <1>9, <1>10, <1>11,
           <1>12, <1>13, <1>14, <1>15, <1>16, <1>17, <1>18, <1>19, <1>20, <1>21, <1>22,
           <1>23, <1>24, <1>25, <1>26

\* Only the commit of a ledger row changes the committed ledgers.
LEMMA LedgersStay ==
    ASSUME Shape, NEW w \in Workers, LockOK(w), Step(w), ~CommitEntry(w)
    PROVE  db'.ledger = db.ledger
<1>1. db' = db \/ CommitOther(w) BY StepChanges DEF Changes
<1>2. ASSUME CommitOther(w) PROVE db'.ledger = db.ledger
  <2>1. db' = txn /\ lock = w /\ pc[w] # "commit" BY <1>2 DEF CommitOther, Commit
  <2> QED BY <2>1 DEF LockOK
<1> QED BY <1>1, <1>2

\* That commit appends the row, and leaves the indexes as they are.
LEMMA LedgerGrows ==
    ASSUME NEW w \in Workers, LockOK(w), CommitEntry(w)
    PROVE  /\ db'.ledger = [db.ledger EXCEPT ![req[w].instance] = Append(@, req[w].row)]
           /\ db'.unique = db.unique /\ conn[w] # "stale" /\ pc[w] = "commit"
           /\ lock = w
<1>1. db' = txn /\ lock = w /\ pc[w] = "commit" BY DEF CommitEntry, Commit
<1> QED BY <1>1 DEF LockOK

-----------------------------------------------------------------------------
(* Rows on their way into the ledger.                                      *)

\* Appending a row of another process does not come between a row and its chain.
LEMMA ContinuesAppend ==
    ASSUME NEW rows \in Seq(Row), NEW new \in Row, NEW row \in Row,
           Continues(rows, row), new.life # row.life
    PROVE  Continues(Append(rows, new), row)
<1> DEFINE more == Append(rows, new)
<1>1. /\ more \in Seq(Row) /\ Len(more) = Len(rows) + 1 /\ Len(rows) \in Nat
      /\ DOMAIN rows = 1 .. Len(rows) /\ DOMAIN more = 1 .. Len(rows) + 1
      /\ \A n \in 1 .. Len(rows) : more[n] = rows[n]
      /\ more[Len(rows) + 1] = new
  OBVIOUS
<1> HIDE DEF more
<1>2. SequenceAt(more, row.previous) = SequenceAt(rows, row.previous)
  BY <1>1 DEF Continues, SequenceAt
<1>3. ASSUME NEW n \in DOMAIN more, more[n].life = row.life
      PROVE  more[n].sequence_id < row.sequence_id
  <2>1. n # Len(rows) + 1 BY <1>3, <1>1
  <2>2. n \in DOMAIN rows /\ more[n] = rows[n] BY <2>1, <1>1
  <2> QED BY <2>2, <1>3 DEF Continues
<1>4. row.previous \in 0 .. Len(more) BY <1>1 DEF Continues
<1>5. row.sequence_id = SequenceAt(more, row.previous) + 1 BY <1>2 DEF Continues
<1>6. Continues(more, row) BY <1>3, <1>4, <1>5 DEF Continues
<1> QED BY <1>6 DEF more

\* A step of w leaves the row that another worker is about to record alone.
LEMMA OtherEntry ==
    ASSUME Shape, LivesOK, NEW w \in Workers, LockOK(w), EntryOK(w), Step(w),
           NEW x \in Workers, x # w, EntryOK(x)
    PROVE  EntryOK(x)'
<1>1. /\ pc'[x] = pc[x] /\ req'[x] = req[x] /\ engine'[x] = engine[x]
      /\ conn'[x] # "stale" => conn[x] # "stale"
  BY Others DEF OthersWait, OthersConnected
<1>2. ASSUME pc[x] \in RowSteps, conn[x] # "stale"
      PROVE  Continues(db'.ledger[req[x].instance], req[x].row)
  <2>1. Continues(db.ledger[req[x].instance], req[x].row) /\ req[x].row.life = engine[x].life
    BY <1>2 DEF EntryOK
  <2>2. CASE ~CommitEntry(w) BY <2>1, <2>2, LedgersStay
  <2>3. CASE CommitEntry(w)
    <3>1. db'.ledger = [db.ledger EXCEPT ![req[w].instance] = Append(@, req[w].row)]
          /\ pc[w] = "commit"
      BY <2>3, LedgerGrows
    <3>2. req[w].row \in Row /\ req[x].row \in Row /\ req[x].instance \in Instances
      BY <3>1, <1>2 DEF Shape, CallOK, EntrySteps, RowSteps, EntryRequest
    <3>3. db.ledger \in [Instances -> Seq(Row)] BY DEF Shape, ConnType, Database
    <3>4. req[w].row.life # req[x].row.life
      BY <2>1, <3>1 DEF EntryOK, RowSteps, LivesOK
    <3>5. CASE req[x].instance = req[w].instance
      <4>1. db'.ledger[req[x].instance] = Append(db.ledger[req[x].instance], req[w].row)
        BY <3>1, <3>2, <3>3, <3>5
      <4>2. db.ledger[req[x].instance] \in Seq(Row) BY <3>2, <3>3
      <4> QED BY <4>1, <4>2, <3>2, <3>4, <2>1, ContinuesAppend
    <3>6. CASE req[x].instance # req[w].instance
      <4>1. db'.ledger[req[x].instance] = db.ledger[req[x].instance]
        BY <3>1, <3>2, <3>3, <3>6
      <4> QED BY <4>1, <2>1
    <3> QED BY <3>5, <3>6
  <2> QED BY <2>2, <2>3
<1> QED BY <1>1, <1>2 DEF EntryOK

\* A worker's own row.
LEMMA OwnEntry ==
    ASSUME Shape, NEW w \in Workers, LockOK(w), EntryOK(w), Step(w)
    PROVE  EntryOK(w)'
<1>0. /\ ConnType /\ CallOK(w) /\ pc \in [Workers -> Steps] /\ req \in [Workers -> Request]
      /\ engine[w] \in EngineObject
  BY DEF Shape
<1>r. Read(w) => db' = db /\ (conn'[w] # "stale" => conn[w] # "stale")
  BY <1>0 DEF Read, ConnType
<1>1. CASE pc'[w] \notin EntrySteps
  BY <1>1 DEF EntryOK, EntrySteps, RowSteps
<1>2. ASSUME NEW i \in Instances, NEW to \in States, transition(w, i, to) PROVE EntryOK(w)'
  <2> DEFINE inst == engine[w].instances[i]
             r == [op |-> "transition", instance |-> i, frozen |-> i \in db.frozen,
                   from_state |-> inst.state, to_state |-> to, strict_seed |-> FALSE, row |-> NoRow]
  <2>1. /\ Read(w) /\ engine' = engine /\ pc' = [pc EXCEPT ![w] = "latest"]
        /\ req' = [req EXCEPT ![w] = r] /\ inst # NoInstance /\ w \in Libraries
        /\ <<inst.state, to>> \in inst.protocol.transitions /\ i \notin View(w).frozen
    BY <1>2 DEF transition, Goto
  <2>2. pc'[w] = "latest" /\ req'[w] = r BY <2>1, <1>0
  <2>3. conn'[w] # "stale" => i \notin db.frozen BY <2>1, <1>r DEF View
  <2>4. r.op = "transition" /\ r.instance = i /\ r.frozen = (i \in db.frozen)
        /\ r.from_state = inst.state /\ r.to_state = to
    OBVIOUS
  <2> HIDE DEF r
  <2> QED BY <2>1, <2>2, <2>3, <2>4 DEF EntryOK, EntrySteps, RowSteps
<1>3. ASSUME NEW i \in Instances, NEW from \in States, NEW to \in States,
             NEW seed \in BOOLEAN, Decision(w, i, from, to, seed)
      PROVE  EntryOK(w)'
  <2> DEFINE r == [op |-> "decision", instance |-> i, frozen |-> FALSE,
                   from_state |-> from, to_state |-> to, strict_seed |-> seed, row |-> NoRow]
  <2>1. pc' = [pc EXCEPT ![w] = "latest"] /\ req' = [req EXCEPT ![w] = r] /\ w \in Servers
    BY <1>3 DEF Decision, Goto
  <2>2. pc'[w] = "latest" /\ req'[w] = r BY <2>1, <1>0
  <2>3. r.op = "decision" /\ r.frozen = FALSE OBVIOUS
  <2> HIDE DEF r
  <2> QED BY <2>1, <2>2, <2>3 DEF EntryOK, EntrySteps, RowSteps
<1>4. CASE ReadLatest(w)
  <2>1. pc[w] = "latest" /\ req[w] \in EntryRequest
    BY <1>4, <1>0 DEF ReadLatest, CallOK, EntrySteps
  <2> DEFINE rows == View(w).ledger[req[w].instance]
             row(last) == [sequence_id |-> SequenceAt(rows, last) + 1, previous |-> last,
                           from_state |-> req[w].from_state, to_state |-> req[w].to_state,
                           strict_seed |-> req[w].strict_seed, life |-> engine[w].life, by |-> w, frozen |-> req[w].frozen]
  <2>2. rows \in Seq(Row)
    <3>1. View(w) \in Database BY <1>0, ViewType
    <3> QED BY <3>1, <2>1 DEF EntryRequest, Database
  <2>3. PICK last \in Latest(rows) : req' = [req EXCEPT ![w].row = row(last)]
    BY <1>4 DEF ReadLatest
  <2>4. Continues(rows, row(last))
    <3> HIDE DEF rows
    <3>1. /\ last \in 0 .. Len(rows) /\ SequenceAt(rows, last) \in Nat
          /\ \A n \in DOMAIN rows : rows[n].sequence_id <= SequenceAt(rows, last)
      BY <2>2, LatestOf
    <3>2. \A n \in DOMAIN rows : rows[n].sequence_id \in Nat
      <4>1. \A n \in DOMAIN rows : rows[n] \in Row BY <2>2
      <4> QED BY <4>1 DEF Row
    <3>3. \A n \in DOMAIN rows : rows[n].sequence_id < SequenceAt(rows, last) + 1
      BY <3>1, <3>2
    <3> QED BY <3>1, <3>3 DEF Continues
  <2>5. /\ row(last).life = engine[w].life /\ row(last).frozen = req[w].frozen
        /\ row(last).from_state = req[w].from_state /\ row(last).to_state = req[w].to_state
    OBVIOUS
  <2> HIDE DEF row
  <2>6. req' = [req EXCEPT ![w] = [req[w] EXCEPT !.row = row(last)]] BY <2>3
  <2>7. req'[w] = [req[w] EXCEPT !.row = row(last)] BY <2>6, <1>0
  <2>8. /\ req'[w].row = row(last) /\ req'[w].op = req[w].op
        /\ req'[w].instance = req[w].instance /\ req'[w].frozen = req[w].frozen
        /\ req'[w].from_state = req[w].from_state /\ req'[w].to_state = req[w].to_state
    BY <2>7, <2>1 DEF EntryRequest
  <2>9. Read(w) /\ engine' = engine /\ pc'[w] = "validate"
    BY <1>4, <1>0 DEF ReadLatest, Goto
  <2>10. conn'[w] # "stale" => Continues(db'.ledger[req'[w].instance], row(last))
    BY <2>4, <2>8, <2>9, <1>r DEF View
  <2> HIDE DEF rows
  <2> QED BY <2>1, <2>5, <2>8, <2>9, <2>10, <1>r DEF EntryOK, EntrySteps, RowSteps
<1>5. CASE (ValidateChain(w) \/ EnsureInstance(w) \/ InsertEntry(w)) /\ pc'[w] \in EntrySteps
  <2>1. /\ engine' = engine /\ req' = req
        /\ pc[w] \in {"validate", "ensure", "insert"}
    BY <1>5, FinishShape DEF ValidateChain, EnsureInstance, InsertEntry, EntrySteps
  <2>2. db' = db /\ (conn'[w] # "stale" => conn[w] # "stale")
    BY <1>5, <1>r DEF ValidateChain, EnsureInstance, InsertEntry, Write
  <2> QED BY <2>1, <2>2 DEF EntryOK, EntrySteps, RowSteps
<1> QED BY <1>1, <1>2, <1>3, <1>4, <1>5, StepChanges DEF Changes

-----------------------------------------------------------------------------
(* The committed ledgers.                                                  *)

\* The elements of a ledger that a row is appended to.
LEMMA AppendRows ==
    ASSUME NEW rows \in Seq(Row), NEW new \in Row
    PROVE  /\ Append(rows, new) \in Seq(Row)
           /\ Len(rows) \in Nat /\ Len(Append(rows, new)) = Len(rows) + 1
           /\ DOMAIN rows = 1 .. Len(rows)
           /\ DOMAIN Append(rows, new) = 1 .. Len(rows) + 1
           /\ \A n \in 1 .. Len(rows) : Append(rows, new)[n] = rows[n]
           /\ Append(rows, new)[Len(rows) + 1] = new
           /\ Append(rows, new) # <<>>
OBVIOUS

\* The ledger of an instance before and after a step of w: as it was, or one row longer.
LEMMA LedgerSteps ==
    ASSUME Shape, NEW w \in Workers, LockOK(w), EntryOK(w), Step(w), NEW i \in Instances
    PROVE  /\ db.ledger[i] \in Seq(Row)
           /\ \/ db'.ledger[i] = db.ledger[i]
              \/ /\ CommitEntry(w) /\ pc[w] = "commit" /\ req[w].instance = i
                 /\ db'.ledger[i] = Append(db.ledger[i], req[w].row) /\ req[w].row \in Row
                 /\ ~req[w].row.frozen /\ req[w].row.life = engine[w].life
                 /\ Continues(db.ledger[i], req[w].row)
<1>0. db.ledger \in [Instances -> Seq(Row)] BY DEF Shape, ConnType, Database
<1>1. CASE ~CommitEntry(w) BY <1>0, <1>1, LedgersStay
<1>2. CASE CommitEntry(w)
  <2>1. /\ db'.ledger = [db.ledger EXCEPT ![req[w].instance] = Append(@, req[w].row)]
        /\ conn[w] # "stale" /\ pc[w] = "commit"
    BY <1>2, LedgerGrows
  <2>2. req[w].row \in Row /\ req[w].instance \in Instances
    BY <2>1 DEF Shape, CallOK, EntrySteps, RowSteps, EntryRequest
  <2>3. /\ ~req[w].row.frozen /\ req[w].row.life = engine[w].life
        /\ Continues(db.ledger[req[w].instance], req[w].row)
    <3>1. ~req[w].frozen BY <2>1 DEF EntryOK, EntrySteps
    <3> QED BY <3>1, <2>1 DEF EntryOK, RowSteps
  <2>4. CASE req[w].instance = i BY <2>1, <2>2, <2>3, <2>4, <1>0, <1>2
  <2>5. CASE req[w].instance # i BY <2>1, <2>2, <2>5, <1>0
  <2> QED BY <2>4, <2>5
<1> QED BY <1>1, <1>2

\* No frozen instance gets a row.
LEMMA StepFreeze ==
    ASSUME Shape, FreezeIsRespected, NEW w \in Workers, LockOK(w), EntryOK(w), Step(w)
    PROVE  FreezeIsRespected'
<1> SUFFICES ASSUME NEW i \in Instances, NEW n \in DOMAIN db'.ledger[i]
             PROVE  ~db'.ledger[i][n].frozen
  BY DEF FreezeIsRespected
<1>1. CASE db'.ledger[i] = db.ledger[i] BY <1>1 DEF FreezeIsRespected
<1>2. CASE db'.ledger[i] # db.ledger[i]
  <2> DEFINE rows == db.ledger[i]
  <2>1. /\ rows \in Seq(Row) /\ db'.ledger[i] = Append(rows, req[w].row)
        /\ req[w].row \in Row /\ ~req[w].row.frozen
    BY <1>2, LedgerSteps
  <2>2. \A m \in DOMAIN rows : ~rows[m].frozen BY DEF FreezeIsRespected
  <2> HIDE DEF rows
  <2>3. n \in 1 .. Len(rows) + 1 /\ Len(rows) \in Nat BY <2>1, AppendRows
  <2>4. CASE n = Len(rows) + 1 BY <2>4, <2>1, AppendRows
  <2>5. CASE n # Len(rows) + 1
    <3>1. n \in 1 .. Len(rows) BY <2>3, <2>5
    <3> QED BY <3>1, <2>1, <2>2, AppendRows
  <2> QED BY <2>4, <2>5
<1> QED BY <1>1, <1>2

\* Processes have numbers of their own.
LEMMA StepLives ==
    ASSUME Shape, LivesOK, NEW w \in Workers, LockOK(w), EntryOK(w), Step(w)
    PROVE  LivesOK'
<1>0. /\ lives \in Nat /\ engine[w] \in EngineObject /\ engine \in [Workers -> EngineObject]
      /\ pc \in [Workers -> Steps]
  BY LifecycleAssumption DEF Shape
<1>1. \A x \in Workers \ {w} : pc'[x] = pc[x] /\ engine'[x] = engine[x]
  BY Others DEF OthersWait
<1>2. \/ /\ lives' = lives + 1 /\ pc'[w] # "down" /\ engine'[w].life = lives + 1
         /\ ~CommitEntry(w)
      \/ /\ lives' = lives /\ pc'[w] = "down" /\ engine'[w].life = 0 /\ ~CommitEntry(w)
      \/ /\ lives' = lives /\ pc[w] # "down" /\ pc'[w] # "down"
         /\ engine'[w].life = engine[w].life
  <2>1. CASE Open(w)
    <3>1. engine'[w] = FreshEngine(lives') /\ lives' = lives + 1 /\ pc'[w] # "down"
          /\ pc[w] = "down"
      BY <2>1, <1>0 DEF Open, Goto
    <3> QED BY <3>1 DEF FreshEngine, CommitEntry
  <2>2. CASE Crash(w)
    <3>1. engine'[w] = FreshEngine(0) /\ lives' = lives /\ pc'[w] = "down"
      BY <2>2, <1>0 DEF Crash, Goto
    <3>2. CommitEntry(w) => pc'[w] = "idle" BY FinishShape DEF CommitEntry
    <3> QED BY <3>1, <3>2 DEF FreshEngine
  <2>3. CASE CommitEntry(w)
    <3>1. lives' = lives /\ pc[w] = "commit" /\ pc'[w] = "idle" /\ engine' = Advanced(w)
      BY <2>3, FinishShape DEF CommitEntry
    <3>2. engine'[w].life = engine[w].life BY <3>1, <1>0 DEF Advanced, EngineObject
    <3> QED BY <3>1, <3>2
  <2>4. CASE Runs(w) BY <2>4 DEF Runs
  <2> QED BY <2>1, <2>2, <2>3, <2>4, StepChanges DEF Changes
<1>3. \A x \in Workers : /\ engine'[x].life \in 0 .. lives'
                         /\ engine'[x].life = 0 <=> pc'[x] = "down"
  <2>1. \A x \in Workers : engine[x].life \in 0 .. lives /\ (engine[x].life = 0 <=> pc[x] = "down")
    BY DEF LivesOK
  <2> QED BY <2>1, <1>0, <1>1, <1>2
<1>4. \A v, x \in Workers : v # x /\ pc'[x] # "down" => engine'[v].life # engine'[x].life
  <2>1. /\ \A x \in Workers : engine[x].life \in 0 .. lives
        /\ \A x \in Workers : engine[x].life = 0 <=> pc[x] = "down"
        /\ \A v, x \in Workers : v # x /\ pc[x] # "down" => engine[v].life # engine[x].life
    BY DEF LivesOK
  <2> QED BY <2>1, <1>0, <1>1, <1>2
<1>5. ASSUME NEW i \in Instances, NEW n \in DOMAIN db'.ledger[i]
      PROVE  db'.ledger[i][n].life \in 1 .. lives'
  <2> DEFINE rows == db.ledger[i]
  <2>1. \A m \in DOMAIN rows : rows[m].life \in 1 .. lives BY DEF LivesOK
  <2>2. lives' \in Nat /\ lives <= lives' BY <1>0, <1>2
  <2>3. CASE db'.ledger[i] = db.ledger[i] BY <2>1, <2>2, <2>3, <1>0
  <2>4. CASE db'.ledger[i] # db.ledger[i]
    <3>1. /\ rows \in Seq(Row) /\ db'.ledger[i] = Append(rows, req[w].row)
          /\ req[w].row \in Row /\ req[w].row.life = engine[w].life /\ CommitEntry(w)
      BY <2>4, LedgerSteps
    <3>2. engine[w].life \in 1 .. lives
      <4>1. engine[w].life \in 0 .. lives /\ engine[w].life # 0
        BY <3>1 DEF LivesOK, CommitEntry
      <4> QED BY <4>1, <1>0
    <3> HIDE DEF rows
    <3>3. n \in 1 .. Len(rows) + 1 /\ Len(rows) \in Nat BY <3>1, AppendRows
    <3>4. CASE n = Len(rows) + 1 BY <3>4, <3>1, <3>2, <2>2, <1>0, AppendRows
    <3>5. CASE n # Len(rows) + 1
      <4>1. n \in 1 .. Len(rows) BY <3>3, <3>5
      <4> QED BY <4>1, <3>1, <2>1, <2>2, <1>0, AppendRows
    <3> QED BY <3>4, <3>5
  <2> QED BY <2>3, <2>4
<1> QED BY <1>3, <1>4, <1>5 DEF LivesOK

\* Appending a row that continues a ledger: a process never takes a sequence_id of its
\* own again, and a row that takes nobody's is the next of the chain.
LEMMA RowsAppend ==
    ASSUME NEW rows \in Seq(Row), NEW new \in Row, RowsOK(rows), Continues(rows, new)
    PROVE  RowsOK(Append(rows, new))
<1> DEFINE more == Append(rows, new)
           len == Len(rows)
<1>1. /\ more \in Seq(Row) /\ len \in Nat /\ DOMAIN rows = 1 .. len
      /\ DOMAIN more = 1 .. len + 1 /\ more[len + 1] = new
      /\ \A n \in 1 .. len : more[n] = rows[n]
  BY AppendRows
<1>2. \A n \in 1 .. len : rows[n].sequence_id \in Nat /\ rows[n].previous \in Nat
  <2>1. \A n \in 1 .. len : rows[n] \in Row BY <1>1
  <2> QED BY <2>1 DEF Row
<1>3. new.sequence_id \in Nat /\ new.previous \in Nat BY DEF Row
<1> HIDE DEF more
<1>4. ASSUME NEW m \in DOMAIN more, NEW n \in DOMAIN more, m # n, more[m].life = more[n].life
      PROVE  more[m].sequence_id # more[n].sequence_id
  <2>1. CASE m \in 1 .. len /\ n \in 1 .. len BY <2>1, <1>1, <1>4 DEF RowsOK
  <2>2. CASE m = len + 1
    <3>1. n \in 1 .. len BY <2>2, <1>4, <1>1
    <3>2. rows[n].sequence_id < new.sequence_id BY <3>1, <2>2, <1>4, <1>1 DEF Continues
    <3> QED BY <3>1, <3>2, <2>2, <1>1, <1>2, <1>3
  <2>3. CASE n = len + 1
    <3>1. m \in 1 .. len BY <2>3, <1>4, <1>1
    <3>2. rows[m].sequence_id < new.sequence_id BY <3>1, <2>3, <1>4, <1>1 DEF Continues
    <3> QED BY <3>1, <3>2, <2>3, <1>1, <1>2, <1>3
  <2> QED BY <2>1, <2>2, <2>3, <1>1
<1>5. ASSUME ~Duplicated(more)
      PROVE  \A n \in DOMAIN more : more[n].sequence_id = n /\ more[n].previous = n - 1
  <2>1. \A m, n \in 1 .. len + 1 : m # n => more[m].sequence_id # more[n].sequence_id
    BY <1>5, <1>1 DEF Duplicated
  <2>2. ~Duplicated(rows)
    <3>1. \A m \in 1 .. len : m \in 1 .. len + 1 BY <1>1
    <3> QED BY <3>1, <2>1, <1>1 DEF Duplicated
  <2>3. \A n \in 1 .. len : rows[n].sequence_id = n /\ rows[n].previous = n - 1
    BY <2>2, <1>1 DEF RowsOK
  <2>4. new.previous \in 0 .. len /\ new.sequence_id = new.previous + 1
    <3>1. new.previous \in 0 .. len /\ new.sequence_id = SequenceAt(rows, new.previous) + 1
      BY DEF Continues
    <3>2. CASE new.previous = 0 BY <3>1, <3>2 DEF SequenceAt
    <3>3. CASE new.previous # 0
      <4>1. new.previous \in 1 .. len BY <3>1, <3>3, <1>1
      <4> QED BY <4>1, <3>1, <3>3, <2>3 DEF SequenceAt
    <3> QED BY <3>2, <3>3
  <2>5. new.previous = len
    <3>1. SUFFICES ASSUME new.previous # len PROVE FALSE OBVIOUS
    <3>2. new.previous + 1 \in 1 .. len BY <3>1, <2>4, <1>1
    <3>3. more[new.previous + 1].sequence_id = new.previous + 1 BY <3>2, <2>3, <1>1
    <3>4. /\ len + 1 \in 1 .. len + 1 /\ new.previous + 1 \in 1 .. len + 1
          /\ new.previous + 1 # len + 1
      BY <3>1, <3>2, <1>1, <2>4
    <3> QED BY <3>3, <3>4, <2>1, <2>4, <1>1
  <2>6. new.sequence_id = len + 1 /\ new.previous = (len + 1) - 1 BY <2>4, <2>5, <1>1
  <2> TAKE n \in DOMAIN more
  <2>7. CASE n = len + 1 BY <2>6, <2>7, <1>1
  <2>8. CASE n # len + 1
    <3>1. n \in 1 .. len BY <2>8, <1>1
    <3> QED BY <3>1, <2>3, <1>1
  <2> QED BY <2>7, <2>8
<1>6. RowsOK(more) BY <1>4, <1>5 DEF RowsOK
<1> QED BY <1>6 DEF more

LEMMA StepRows ==
    ASSUME Shape, NEW w \in Workers, LockOK(w), EntryOK(w), Step(w), NEW i \in Instances,
           RowsOK(db.ledger[i])
    PROVE  RowsOK(db'.ledger[i])
<1>1. CASE db'.ledger[i] = db.ledger[i] BY <1>1
<1>2. CASE db'.ledger[i] # db.ledger[i]
  <2>1. /\ db.ledger[i] \in Seq(Row) /\ req[w].row \in Row
        /\ db'.ledger[i] = Append(db.ledger[i], req[w].row)
        /\ Continues(db.ledger[i], req[w].row)
    BY <1>2, LedgerSteps
  <2> QED BY <2>1, RowsAppend
<1> QED BY <1>1, <1>2

\* The unique indexes: what they promise holds as long as they are there, and they
\* are gone only after a rebuild.
LEMMA StepIndex ==
    ASSUME Shape, \A x \in Workers : LockOK(x), IndexOK, NEW w \in Workers, EntryOK(w), Step(w)
    PROVE  IndexOK'
<1>0. /\ pc \in [Workers -> Steps] /\ db \in Database /\ Base(w) \in Database /\ CallOK(w)
      /\ req \in [Workers -> Request]
  BY ViewType DEF Shape, ConnType
<1>l. LockOK(w) OBVIOUS
<1>c. Changes(w) BY StepChanges
<1>1. rebuilt => rebuilt' BY <1>c DEF Changes, Rebuild
<1>2. ASSUME NEW x \in Workers, x # w
      PROVE  /\ pc'[x] = "opening" => txn'.unique /\ \A i \in Instances : ~Duplicated(db'.ledger[i])
             /\ pc'[x] = "rebuilding" => rebuilt' /\ ~txn'.unique
             /\ pc'[x] = "commit" => ~UniqueViolation(db', req'[x].instance, req'[x].row)
  <2>1. /\ pc'[x] = pc[x] /\ req'[x] = req[x]
        /\ lock = x => db' = db /\ txn' = txn
    BY <1>2, Others DEF OthersWait, OthersConnected
  <2>2. pc[x] \in {"opening", "rebuilding", "commit"} => lock = x
    BY DEF LockOK, WroteSteps
  <2> QED BY <2>1, <2>2, <1>1 DEF IndexOK
<1>3. pc'[w] = "opening" => txn'.unique /\ \A i \in Instances : ~Duplicated(db'.ledger[i])
  <2>1. ASSUME Open(w), pc'[w] = "opening"
        PROVE  txn'.unique /\ \A i \in Instances : ~Duplicated(db'.ledger[i])
    <3>1. /\ \A i \in Instances : ~Duplicated(db.ledger[i])
          /\ Write(w, [Base(w) EXCEPT !.unique = TRUE])
      BY <2>1, <1>0 DEF Open, Goto
    <3>2. db' = db /\ txn' = [Base(w) EXCEPT !.unique = TRUE] BY <3>1 DEF Write
    <3>3. txn'.unique BY <3>2, <1>0 DEF Database
    <3> QED BY <3>1, <3>2, <3>3
  <2> QED BY <2>1, <1>c DEF Changes
<1>4. pc'[w] = "rebuilding" => rebuilt' /\ ~txn'.unique
  <2>1. ASSUME Rebuild(w) PROVE rebuilt' /\ ~txn'.unique
    <3>1. rebuilt' = TRUE /\ txn' = [Base(w) EXCEPT !.unique = FALSE]
      BY <2>1 DEF Rebuild, Write
    <3> QED BY <3>1, <1>0 DEF Database
  <2> QED BY <2>1, <1>c DEF Changes
<1>5. pc'[w] = "commit" => ~UniqueViolation(db', req'[w].instance, req'[w].row)
  <2>1. ASSUME InsertEntry(w) PROVE ~UniqueViolation(db', req'[w].instance, req'[w].row)
    <3>1. /\ ~UniqueViolation(Base(w), req[w].instance, req[w].row) /\ pc[w] = "insert"
          /\ db' = db /\ req' = req
      BY <2>1 DEF InsertEntry, Write
    <3>2. Base(w).ledger = db.ledger /\ Base(w).unique = db.unique
      BY <3>1, <1>l, BaseLedger DEF WroteSteps
    <3> QED BY <3>1, <3>2 DEF UniqueViolation
  <2> QED BY <2>1, <1>c DEF Changes
<1>6. /\ ~db'.unique => rebuilt'
      /\ \A i \in Instances : db'.unique => ~Duplicated(db'.ledger[i])
  <2>1. CASE db' = db BY <2>1, <1>1 DEF IndexOK
  <2>2. CASE CommitOther(w)
    <3>1. db' = txn /\ lock = w /\ pc[w] # "commit" BY <2>2 DEF CommitOther, Commit
    <3>2. db'.ledger = db.ledger BY <3>1, <1>l DEF LockOK
    <3>3. CASE pc[w] = "opening"
      <4>1. \A i \in Instances : ~Duplicated(db'.ledger[i]) BY <3>2, <3>3 DEF IndexOK
      <4>2. txn.unique
        BY <3>3 DEF IndexOK
      <4> QED BY <4>1, <4>2, <3>1
    <3>4. CASE pc[w] = "rebuilding" BY <3>1, <3>4, <1>1 DEF IndexOK
    <3>5. CASE pc[w] \notin {"opening", "rebuilding"}
      <4>1. db'.unique = db.unique BY <3>1, <3>5, <1>l DEF LockOK
      <4> QED BY <4>1, <3>2, <1>1 DEF IndexOK
    <3> QED BY <3>3, <3>4, <3>5
  <2>3. CASE CommitEntry(w)
    <3>1. db'.unique = db.unique /\ pc[w] = "commit" BY <2>3, <1>l, LedgerGrows
    <3>2. ASSUME NEW i \in Instances, db.unique, db'.ledger[i] # db.ledger[i]
          PROVE  ~Duplicated(db'.ledger[i])
      <4> DEFINE rows == db.ledger[i]
      <4>1. /\ rows \in Seq(Row) /\ db'.ledger[i] = Append(rows, req[w].row)
            /\ req[w].row \in Row /\ req[w].instance = i
        BY <3>2, <1>l, LedgerSteps
      <4>2. ~Duplicated(rows) BY <3>2 DEF IndexOK
      <4>3. \A n \in DOMAIN rows : rows[n].sequence_id # req[w].row.sequence_id
        BY <4>1, <3>1, <3>2 DEF IndexOK, UniqueViolation
      <4> HIDE DEF rows
      <4>4. SUFFICES ASSUME NEW m \in 1 .. Len(rows) + 1, NEW n \in 1 .. Len(rows) + 1, m # n
                     PROVE  Append(rows, req[w].row)[m].sequence_id
                               # Append(rows, req[w].row)[n].sequence_id
        BY <4>1, AppendRows DEF Duplicated
      <4>5. Len(rows) \in Nat /\ DOMAIN rows = 1 .. Len(rows) BY <4>1
      <4>6. CASE m = Len(rows) + 1
        <5>1. n \in 1 .. Len(rows) BY <4>4, <4>5, <4>6
        <5> QED BY <5>1, <4>1, <4>3, <4>5, <4>6, AppendRows
      <4>7. CASE n = Len(rows) + 1
        <5>1. m \in 1 .. Len(rows) BY <4>4, <4>5, <4>7
        <5> QED BY <5>1, <4>1, <4>3, <4>5, <4>7, AppendRows
      <4>8. CASE m # Len(rows) + 1 /\ n # Len(rows) + 1
        <5>1. m \in 1 .. Len(rows) /\ n \in 1 .. Len(rows) BY <4>5, <4>8
        <5> QED BY <5>1, <4>1, <4>2, <4>4, <4>5, AppendRows DEF Duplicated
      <4> QED BY <4>6, <4>7, <4>8
    <3> QED BY <3>1, <3>2, <1>1 DEF IndexOK
  <2> QED BY <2>1, <2>2, <2>3, <1>c DEF Changes
<1>7. \A x \in Workers :
          /\ pc'[x] = "opening" => txn'.unique /\ \A i \in Instances : ~Duplicated(db'.ledger[i])
          /\ pc'[x] = "rebuilding" => rebuilt' /\ ~txn'.unique
          /\ pc'[x] = "commit" => ~UniqueViolation(db', req'[x].instance, req'[x].row)
  BY <1>2, <1>3, <1>4, <1>5
<1> QED BY <1>6, <1>7 DEF IndexOK

-----------------------------------------------------------------------------
(* What an Engine object has in memory.                                    *)

\* A path that is taken one transition further.
LEMMA PathAppend ==
    ASSUME NEW rows \in Seq(Row), NEW new \in Row, NEW inst \in Instance, NEW next \in Instance,
           next.protocol = inst.protocol, next.state = new.to_state,
           new.from_state = inst.state,
           <<new.from_state, new.to_state>> \in inst.protocol.transitions,
           rows = <<>> => inst.state = inst.protocol.initial_state,
           rows # <<>> => PathOf(rows, inst)
    PROVE  PathOf(Append(rows, new), next)
<1> DEFINE more == Append(rows, new)
           len == Len(rows)
<1>1. /\ more \in Seq(Row) /\ len \in Nat /\ DOMAIN rows = 1 .. len /\ Len(more) = len + 1
      /\ DOMAIN more = 1 .. len + 1 /\ more[len + 1] = new
      /\ \A n \in 1 .. len : more[n] = rows[n]
  BY AppendRows
<1> SUFFICES PathOf(more, next) OBVIOUS
<1> HIDE DEF more
<1>2. CASE rows = <<>>
  <2>1. len = 0 BY <1>2
  <2> QED BY <2>1, <1>1, <1>2 DEF PathOf
<1>3. CASE rows # <<>>
  <2>1. len # 0 /\ 1 \in 1 .. len /\ len \in 1 .. len BY <1>3, <1>1, EmptySeq
  <2>2. PathOf(rows, inst) BY <1>3
  <2>3. more[1].from_state = next.protocol.initial_state BY <2>1, <2>2, <1>1 DEF PathOf
  <2>4. ASSUME NEW n \in DOMAIN more
        PROVE  /\ <<more[n].from_state, more[n].to_state>> \in next.protocol.transitions
               /\ n > 1 => more[n].from_state = more[n - 1].to_state
    <3>1. CASE n = len + 1
      <4>1. more[n - 1] = rows[len] /\ more[n] = new BY <3>1, <2>1, <1>1
      <4>2. inst.state = rows[len].to_state BY <2>2 DEF PathOf
      <4> QED BY <4>1, <4>2
    <3>2. CASE n # len + 1
      <4>1. n \in 1 .. len /\ (n > 1 => n - 1 \in 1 .. len) BY <3>2, <2>4, <1>1
      <4>2. more[n] = rows[n] /\ (n > 1 => more[n - 1] = rows[n - 1]) BY <4>1, <1>1
      <4> QED BY <4>1, <4>2, <2>2, <1>1 DEF PathOf
    <3> QED BY <3>1, <3>2
  <2>5. next.state = more[Len(more)].to_state BY <1>1
  <2> QED BY <2>3, <2>4, <2>5 DEF PathOf
<1> QED BY <1>2, <1>3

\* A process whose number no row has recorded nothing.
LEMMA MemoryFresh ==
    ASSUME NEW w \in Workers, NEW i \in Instances, db'.ledger[i] \in Seq(Row),
           \A n \in DOMAIN db'.ledger[i] : db'.ledger[i][n].life # engine'[w].life,
           engine'[w].instances[i] = NoInstance
    PROVE  MemoryOK(w, i)'
<1>1. db'.ledger[i] # <<>> => 1 \in DOMAIN db'.ledger[i] BY EmptySeq
<1> QED BY <1>1 DEF MemoryOK, Recorded, OneEngine

\* The memory of a process while another one takes a step.
LEMMA OtherMemory ==
    ASSUME Shape, LivesOK, NEW w \in Workers, LockOK(w), EntryOK(w), Step(w),
           NEW x \in Workers, x # w, NEW i \in Instances, MemoryOK(x, i)
    PROVE  MemoryOK(x, i)'
<1>1. engine'[x] = engine[x] BY Others DEF OthersWait
<1>2. CASE db'.ledger[i] = db.ledger[i]
  BY <1>1, <1>2 DEF MemoryOK, Recorded, OneEngine, PathOf
<1>3. CASE db'.ledger[i] # db.ledger[i]
  <2> DEFINE rows == db.ledger[i]
             more == db'.ledger[i]
  <2>1. /\ rows \in Seq(Row) /\ more = Append(rows, req[w].row) /\ req[w].row \in Row
        /\ req[w].row.life = engine[w].life /\ pc[w] = "commit"
    BY <1>3, LedgerSteps
  <2>2. req[w].row.life # engine[x].life BY <2>1 DEF LivesOK
  <2>3. Recorded(x, i)' => Recorded(x, i)
    <3> SUFFICES ASSUME NEW n \in DOMAIN more, more[n].life = engine[x].life
                 PROVE  \E m \in DOMAIN rows : rows[m].life = engine[x].life
      BY <1>1 DEF Recorded
    <3> HIDE DEF rows, more
    <3>1. n \in 1 .. Len(rows) + 1 /\ n # Len(rows) + 1 /\ Len(rows) \in Nat
      BY <2>1, <2>2, AppendRows
    <3>2. n \in 1 .. Len(rows) BY <3>1
    <3> QED BY <3>2, <2>1, AppendRows
  <2>4. Recorded(x, i) => Recorded(x, i)'
    <3> SUFFICES ASSUME NEW n \in DOMAIN rows, rows[n].life = engine[x].life
                 PROVE  \E m \in DOMAIN more : more[m].life = engine[x].life
      BY <1>1 DEF Recorded
    <3> HIDE DEF rows, more
    <3>1. n \in 1 .. Len(rows) /\ Len(rows) \in Nat BY <2>1
    <3>2. n \in DOMAIN more /\ more[n] = rows[n] BY <3>1, <2>1, AppendRows
    <3> QED BY <3>2
  <2>5. ~OneEngine(x, db.ledger[i])'
    <3>1. Len(rows) + 1 \in DOMAIN more /\ more[Len(rows) + 1] = req[w].row
      <4> HIDE DEF rows, more
      <4>1. Len(rows) \in Nat BY <2>1
      <4> QED BY <4>1, <2>1, AppendRows
    <3> QED BY <3>1, <2>2, <1>1 DEF OneEngine
  <2> QED BY <2>3, <2>4, <2>5, <1>1 DEF MemoryOK
<1> QED BY <1>2, <1>3

\* The memory of the process that takes the step.
LEMMA OwnMemory ==
    ASSUME Shape, LivesOK, NEW w \in Libraries, LockOK(w), EntryOK(w), Step(w),
           NEW i \in Instances, MemoryOK(w, i)
    PROVE  MemoryOK(w, i)'
<1>0. /\ w \in Workers /\ lives \in Nat /\ engine \in [Workers -> EngineObject]
      /\ engine[w] \in EngineObject /\ db.ledger[i] \in Seq(Row)
  BY LifecycleAssumption, LedgerSteps DEF Shape, Workers, ConnType, Database
<1>l. \A n \in DOMAIN db.ledger[i] : db.ledger[i][n].life \in 1 .. lives BY DEF LivesOK
<1>1. CASE Open(w)
  <2>1. engine'[w] = FreshEngine(lives + 1) /\ pc[w] = "down" BY <1>0, <1>1 DEF Open
  <2>2. db'.ledger = db.ledger BY <2>1, <1>0, LedgersStay DEF CommitEntry
  <2>3. engine'[w].life = lives + 1 /\ engine'[w].instances[i] = NoInstance
    BY <2>1 DEF FreshEngine
  <2> QED BY <2>2, <2>3, <1>0, <1>l, MemoryFresh
<1>2. CASE Crash(w)
  <2>1. engine'[w] = FreshEngine(0) /\ db' = db BY <1>0, <1>2 DEF Crash, Rollback
  <2>3. engine'[w].life = 0 /\ engine'[w].instances[i] = NoInstance BY <2>1 DEF FreshEngine
  <2> QED BY <2>1, <2>3, <1>0, <1>l, MemoryFresh
<1>3. CASE Runs(w) /\ ~CommitEntry(w)
  <2>1. engine'[w].life = engine[w].life /\ DictStep(w) BY <1>3 DEF Runs
  <2>2. db'.ledger[i] = db.ledger[i] BY <1>0, <1>3, LedgersStay
  <2>3. CASE engine'[w].instances[i] = engine[w].instances[i]
    BY <2>1, <2>2, <2>3 DEF MemoryOK, Recorded, OneEngine, PathOf
  <2>4. CASE engine'[w].instances[i] # engine[w].instances[i]
    <3>1. PICK p \in Protocols :
             /\ engine[w].instances[i] = NoInstance
             /\ engine'[w].instances[i] = [state |-> p.initial_state, protocol |-> p]
      BY <2>1, <2>4, <1>0 DEF DictStep, EngineObject
    <3>2. ~Recorded(w, i)' BY <3>1, <2>1, <2>2 DEF MemoryOK, Recorded
    <3>3. ~OneEngine(w, db.ledger[i])'
      <4>1. db'.ledger[i] # <<>> => 1 \in DOMAIN db'.ledger[i] BY <2>2, <1>0, EmptySeq
      <4> QED BY <4>1, <3>2 DEF OneEngine, Recorded
    <3>4. engine'[w].instances[i].state = engine'[w].instances[i].protocol.initial_state
      BY <3>1
    <3> QED BY <3>2, <3>3, <3>4 DEF MemoryOK
  <2> QED BY <2>3, <2>4
<1>4. CASE CommitEntry(w)
  <2>1. pc[w] = "commit" /\ engine' = Advanced(w) BY <1>4 DEF CommitEntry
  <2>2. req[w] \in EntryRequest /\ req[w].row \in Row
    BY <2>1, <1>0 DEF Shape, CallOK, EntrySteps, RowSteps
  <2> DEFINE j == req[w].instance
             inst == engine[w].instances[j]
             next == [inst EXCEPT !.state = req[w].to_state]
  <2>3. req[w].op = "transition"
    BY <2>1, <2>2, <1>0, LifecycleAssumption DEF EntryOK, EntrySteps, EntryRequest
  <2>4. j \in Instances /\ inst # NoInstance /\ req[w].to_state \in States
    BY <2>1, <2>2, <2>3 DEF EntryOK, EntrySteps, EntryRequest
  <2>5. inst \in Instance BY <2>4, <1>0 DEF EngineObject
  <2>6. /\ next \in Instance /\ next.protocol = inst.protocol
        /\ next.state = req[w].to_state
    BY <2>4, <2>5 DEF Instance
  <2>7. engine'[w] = [engine[w] EXCEPT !.instances[j].state = req[w].to_state]
    BY <2>1, <2>3, <1>0 DEF Advanced
  <2>8. /\ engine'[w].life = engine[w].life
        /\ engine'[w].instances = [engine[w].instances EXCEPT ![j] = next]
    BY <2>7, <1>0 DEF EngineObject
  <2>9. CASE i # j
    <3>1. engine'[w].instances[i] = engine[w].instances[i]
      BY <2>8, <2>9, <1>0 DEF EngineObject
    <3>2. db'.ledger[i] = db.ledger[i] BY <2>9, <1>0, LedgerSteps
    <3> QED BY <3>1, <3>2, <2>8 DEF MemoryOK, Recorded, OneEngine, PathOf
  <2>10. CASE i = j
    <3> DEFINE rows == db.ledger[i]
               more == db'.ledger[i]
    <3>1. more = Append(rows, req[w].row)
      <4>1. db'.ledger = [db.ledger EXCEPT ![j] = Append(@, req[w].row)]
        BY <1>0, <1>4, LedgerGrows
      <4>2. db.ledger \in [Instances -> Seq(Row)] BY DEF Shape, ConnType, Database
      <4> QED BY <4>1, <4>2, <2>4, <2>10
    <3>2. engine'[w].instances[i] = next BY <2>4, <2>8, <2>10, <1>0 DEF EngineObject
    <3>3. NoInstance \notin Instance BY DEF NoInstance, Instance
    <3>4. engine'[w].instances[i] # NoInstance BY <3>2, <3>3, <2>6
    <3>5. /\ req[w].row.life = engine[w].life
          /\ req[w].row.from_state = inst.state /\ req[w].row.to_state = req[w].to_state
          /\ <<req[w].row.from_state, req[w].row.to_state>> \in inst.protocol.transitions
      BY <2>1, <2>3 DEF EntryOK, EntrySteps, RowSteps
    <3>6. /\ Len(rows) \in Nat /\ DOMAIN more = 1 .. Len(rows) + 1 /\ DOMAIN rows = 1 .. Len(rows)
          /\ more[Len(rows) + 1] = req[w].row /\ Len(rows) + 1 \in DOMAIN more
          /\ \A n \in 1 .. Len(rows) : n \in DOMAIN more /\ more[n] = rows[n]
      BY <3>1, <2>2, <1>0, AppendRows
    <3>7. Recorded(w, i)' BY <3>5, <3>6, <2>8 DEF Recorded
    <3>8. ASSUME OneEngine(w, db.ledger[i])' PROVE PathOf(more, next)
      <4>1. \A n \in DOMAIN rows : rows[n].life = engine[w].life
        BY <3>8, <3>6, <2>8 DEF OneEngine
      <4>2. rows = <<>> => inst.state = inst.protocol.initial_state
        <5>1. rows = <<>> => ~Recorded(w, i) BY DEF Recorded
        <5> QED BY <5>1, <2>4, <2>10 DEF MemoryOK
      <4>3. rows # <<>> => PathOf(rows, inst) BY <4>1, <2>10 DEF MemoryOK, OneEngine
      <4> HIDE DEF rows, more, next, inst
      <4> QED BY <4>2, <4>3, <3>1, <3>5, <2>2, <2>5, <2>6, <1>0, PathAppend DEF rows
    <3> QED BY <3>2, <3>4, <3>7, <3>8 DEF MemoryOK
  <2> QED BY <2>9, <2>10
<1> QED BY <1>0, <1>1, <1>2, <1>3, <1>4, StepChanges DEF Changes

-----------------------------------------------------------------------------
(* The invariant.                                                          *)

LEMMA InitIInv == Init => IInv
<1> SUFFICES ASSUME Init PROVE IInv OBVIOUS
<1>1. Shape BY InitShape
<1>2. /\ \A w \in Workers : pc[w] = "down" /\ engine[w] = FreshEngine(0)
      /\ lock = NoWorker /\ lives = 0 /\ rebuilt = FALSE /\ db = EmptyDb
      /\ \A i \in Instances : db.ledger[i] = <<>>
      /\ db.unique = TRUE
  BY DEF Init, EmptyDb
<1>3. \A w \in Workers : engine[w].life = 0 /\ \A i \in Instances : engine[w].instances[i] = NoInstance
  BY <1>2 DEF FreshEngine
<1>4. \A w \in Workers : LockOK(w) /\ EntryOK(w)
  BY <1>2, LifecycleAssumption DEF LockOK, EntryOK, WroteSteps, EntrySteps, RowSteps
<1>5. LivesOK BY <1>2, <1>3 DEF LivesOK
<1>6. FreezeIsRespected BY <1>2 DEF FreezeIsRespected
<1>7. \A w \in Libraries, i \in Instances : MemoryOK(w, i)
  BY <1>2, <1>3 DEF MemoryOK, Recorded, OneEngine, Workers
<1>8. \A i \in Instances : RowsOK(db.ledger[i]) BY <1>2 DEF RowsOK
<1>9. IndexOK BY <1>2 DEF IndexOK, Duplicated
<1> QED BY <1>1, <1>4, <1>5, <1>6, <1>7, <1>8, <1>9 DEF IInv

LEMMA NextIInv == IInv /\ [Next]_vars => IInv'
<1> SUFFICES ASSUME IInv, [Next]_vars PROVE IInv' OBVIOUS
<1>0. /\ Shape /\ LivesOK /\ FreezeIsRespected /\ IndexOK
      /\ \A w \in Workers : LockOK(w) /\ EntryOK(w)
      /\ \A w \in Libraries, i \in Instances : MemoryOK(w, i)
      /\ \A i \in Instances : RowsOK(db.ledger[i])
  BY DEF IInv
<1>1. CASE UNCHANGED vars
  <2>1. Shape' BY <1>0, <1>1 DEF Shape, ConnType, CallOK, vars, dbVars
  <2>2. \A w \in Workers : LockOK(w)' /\ EntryOK(w)'
    BY <1>0, <1>1 DEF LockOK, EntryOK, vars, dbVars
  <2>3. LivesOK' /\ FreezeIsRespected' /\ IndexOK'
    BY <1>0, <1>1 DEF LivesOK, FreezeIsRespected, IndexOK, vars, dbVars
  <2>4. \A w \in Libraries, i \in Instances : MemoryOK(w, i)'
    BY <1>0, <1>1 DEF MemoryOK, Recorded, OneEngine, vars, dbVars
  <2>5. \A i \in Instances : RowsOK(db'.ledger[i]) BY <1>0, <1>1 DEF vars, dbVars
  <2> QED BY <2>1, <2>2, <2>3, <2>4, <2>5 DEF IInv
<1>2. CASE Next
  <2>1. PICK w \in Workers : Step(w) BY <1>2 DEF Next
  <2>2. Shape' BY <1>0, <2>1, StepShape
  <2>3. OthersWait(w) /\ OthersConnected(w) BY <1>0, <2>1, Others
  <2>4. ASSUME NEW x \in Workers PROVE LockOK(x)'
    <3>1. CASE x = w BY <3>1, <1>0, <2>1, StepLock
    <3>2. CASE x # w BY <3>2, <1>0, <2>1, <2>3, OtherLock
    <3> QED BY <3>1, <3>2
  <2>5. ASSUME NEW x \in Workers PROVE EntryOK(x)'
    <3>1. CASE x = w BY <3>1, <1>0, <2>1, OwnEntry
    <3>2. CASE x # w BY <3>2, <1>0, <2>1, OtherEntry
    <3> QED BY <3>1, <3>2
  <2>6. LivesOK' BY <1>0, <2>1, StepLives
  <2>7. FreezeIsRespected' BY <1>0, <2>1, StepFreeze
  <2>8. ASSUME NEW x \in Libraries, NEW i \in Instances PROVE MemoryOK(x, i)'
    <3>1. CASE x = w BY <3>1, <1>0, <2>1, OwnMemory
    <3>2. CASE x # w BY <3>2, <1>0, <2>1, OtherMemory DEF Workers
    <3> QED BY <3>1, <3>2
  <2>9. \A i \in Instances : RowsOK(db'.ledger[i]) BY <1>0, <2>1, StepRows
  <2>10. IndexOK' BY <1>0, <2>1, StepIndex
  <2> QED BY <2>2, <2>4, <2>5, <2>6, <2>7, <2>8, <2>9, <2>10 DEF IInv
<1> QED BY <1>1, <1>2

LEMMA Invariant == Spec => []IInv
BY InitIInv, NextIInv, PTL DEF Spec

-----------------------------------------------------------------------------
(* The theorems.                                                           *)

\* The types, an empty transaction under a lock that an idle worker kept, and no row
\* on an instance that was frozen when transition looked: for every number of processes,
\* instances and calls.
THEOREM LifecycleCorrect == Spec => []LifecycleInv
<1>1. IInv => LifecycleInv
  <2> SUFFICES ASSUME IInv PROVE LifecycleInv OBVIOUS
  <2>0. /\ Shape /\ FreezeIsRespected /\ \A w \in Workers : LockOK(w)
    BY DEF IInv
  <2>1. ASSUME NEW w \in Workers, NEW i \in Instances, engine[w].instances[i] # NoInstance
        PROVE  /\ engine[w].instances[i].state \in States
               /\ engine[w].instances[i].protocol \in Protocols
    <3>1. engine[w] \in EngineObject BY <2>0 DEF Shape
    <3>2. engine[w].instances[i] \in Instance BY <2>1, <3>1 DEF EngineObject
    <3> QED BY <3>2 DEF Instance
  <2>2. TypeOK BY <2>0, <2>1 DEF Shape, ConnType, Database, TypeOK
  <2>3. IdleLockIsEmpty BY <2>0 DEF IdleLockIsEmpty, LockOK, WroteSteps
  <2> QED BY <2>0, <2>2, <2>3 DEF LifecycleInv
<1> QED BY <1>1, Invariant, PTL

\* A history that one Engine object recorded is a path of the instance's protocol,
\* and its memory is where the path ends.
THEOREM PathsAreWalked == Spec => []PathsNeedOneEngine
<1>1. IInv => PathsNeedOneEngine
  BY DEF IInv, MemoryOK, OneEngine, PathOf, PathsNeedOneEngine
<1> QED BY <1>1, Invariant, PTL

\* A chain that replay refuses has a strict decision with a seed, or two rows of one
\* sequence_id that two processes recorded after an Engine took the unique indexes away.
THEOREM RefusedChainsExplained == Spec => []ReplayRefusalsExplained
<1>1. ASSUME IInv PROVE ReplayRefusalsExplained
  <2> SUFFICES ASSUME NEW i \in Instances, ~replay(db.ledger[i]),
                      \A n \in DOMAIN db.ledger[i] : ~db.ledger[i][n].strict_seed
               PROVE  /\ rebuilt /\ ~db.unique
                      /\ \E m, n \in DOMAIN db.ledger[i] :
                            /\ db.ledger[i][m].sequence_id = db.ledger[i][n].sequence_id
                            /\ db.ledger[i][m].life # db.ledger[i][n].life
    BY DEF ReplayRefusalsExplained
  <2> DEFINE rows == db.ledger[i]
  <2>0. RowsOK(rows) /\ IndexOK /\ rows \in Seq(Row)
    BY <1>1 DEF IInv, Shape, ConnType, Database
  <2>1. Duplicated(rows)
    <3> SUFFICES ASSUME ~Duplicated(rows) PROVE replay(rows) OBVIOUS
    <3>0. \A n \in DOMAIN rows : ~rows[n].strict_seed OBVIOUS
    <3> HIDE DEF rows
    <3>1. \A n \in DOMAIN rows : rows[n].sequence_id = n /\ rows[n].previous = n - 1
      BY <2>0 DEF RowsOK
    <3>2. ASSUME NEW n \in DOMAIN rows PROVE SequenceAt(rows, rows[n].previous) = n - 1
      <4>1. DOMAIN rows = 1 .. Len(rows) /\ Len(rows) \in Nat BY <2>0
      <4>2. CASE n = 1 BY <4>2, <3>1 DEF SequenceAt
      <4>3. CASE n # 1
        <5>1. n - 1 \in DOMAIN rows /\ n - 1 # 0 BY <4>1, <4>3
        <5> QED BY <5>1, <3>1 DEF SequenceAt
      <4> QED BY <4>2, <4>3
    <3> QED BY <3>0, <3>1, <3>2 DEF replay
  <2>2. ~db.unique /\ rebuilt BY <2>0, <2>1 DEF IndexOK
  <2> QED BY <2>0, <2>1, <2>2 DEF Duplicated, RowsOK
<1> QED BY <1>1, Invariant, PTL
=============================================================================
