-------------------------- MODULE KeyRegistryProofs -------------------------
(* Proofs about KeyRegistry, for every set of workers and keys and every   *)
(* number of seconds and calls.                                            *)
EXTENDS KeyRegistry, SequenceTheorems, WellFoundedInduction, TLAPS

-----------------------------------------------------------------------------
(* The inductive invariant.                                                *)

Inserting(w) == pc[w] \in {"prev", "insert", "commit"}

\* A busy worker has a call, one that inserts has rows to insert.
ShapeOK ==
    \A w \in Workers :
        /\ Busy(w) => call[w] \in Call /\ call[w].now <= clock
        /\ Inserting(w) =>
              \/ todo[w] = <<Activation(call[w])>>
              \/ \E active \in Content :
                    todo[w] = <<Retirement(active, call[w]), Activation(call[w])>>

TypeInv == TypeOK /\ ShapeOK

\* The registry now goes on from the registry before.
Grown(rows, more) ==
    Len(rows) <= Len(more) /\ \A n \in 1 .. Len(rows) : rows[n] = more[n]

\* The chain hashes that a row after rows may continue.
Known(rows) == {KEY_REGISTRY_GENESIS} \cup {rows[j].chain_hash : j \in 1 .. Len(rows)}

\* What RowsAreChained says of the registry.
Chained(rows) ==
    \A n \in 1 .. Len(rows) :
        \E h \in {KEY_REGISTRY_GENESIS} \cup {rows[j].chain_hash : j \in 1 .. n - 1} :
            RowVerifies(rows[n], h)

\* A connection stuck in an old transaction reads an old registry.
SnapshotsAreOld == \A w \in Workers : conn[w] = "stale" => Grown(snap[w], db)

\* The lock is held from the INSERT to the COMMIT of one row.
LockDiscipline ==
    \A w \in Workers :
        /\ lock = w <=> pc[w] = "commit"
        /\ lock = w => txn = Append(db, NewRow(Head(todo[w]), prev[w]))

\* What a worker continues is a chain hash of the registry.
DraftInv == \A w \in Workers : pc[w] \in {"insert", "commit"} => prev[w] \in Known(db)

\* Row m brings the successor that a retirement names.
Succeeds(row, retired) ==
    /\ row.status = "active"
    /\ row.key_id = retired.superseded_by
    /\ row.registered_at = retired.retired_at

\* Without a failure, the successor that a retirement names is registered behind
\* it, or a worker is about to.
RotationInv ==
    ~faults =>
        \A n \in 1 .. Len(db) : db[n].content.status = "retired" =>
            \/ \E m \in n + 1 .. Len(db) : Succeeds(db[m].content, db[n].content)
            \/ \E w \in Workers :
                  /\ Inserting(w)
                  /\ todo[w] = <<Activation(call[w])>>
                  /\ Succeeds(Activation(call[w]), db[n].content)

SafeInv == Chained(db) /\ SnapshotsAreOld /\ LockDiscipline /\ DraftInv /\ RotationInv

-----------------------------------------------------------------------------
(* The history of a calm registry.                                         *)

\* When the event that a row records happened.
TimeOf(content) ==
    IF content.status = "active" THEN content.registered_at ELSE content.retired_at

\* In a calm registry each key is retired by the row after its registration, and
\* its successor registered by the row after that, at the same time.
Follows(next, last) ==
    IF next.status = "active"
    THEN last.status = "retired" /\ next.registered_at = last.retired_at
    ELSE last.status = "active" /\ next.key_id = last.key_id

Alternates(rows) ==
    /\ Len(rows) > 0 => rows[1].content.status = "active"
    /\ \A n \in 2 .. Len(rows) : Follows(rows[n].content, rows[n - 1].content)

Ordered(rows) ==
    \A m, n \in 1 .. Len(rows) : m <= n => TimeOf(rows[m].content) <= TimeOf(rows[n].content)

EndsActive(rows) == Len(rows) > 0 => rows[Len(rows)].content.status = "active"

\* The key held at the end of second t is that of the last row up to then.
HeldInv(t) ==
    \/ held[t] = NoKey /\ \A n \in 1 .. Len(db) : TimeOf(db[n].content) > t
    \/ \E m \in 1 .. Len(db) :
          /\ db[m].content.status = "active"
          /\ db[m].content.key_id = held[t]
          /\ TimeOf(db[m].content) <= t
          /\ \A n \in m + 1 .. Len(db) : TimeOf(db[n].content) > t

\* How far the one call that is under way has come.
CalmCall(w) ==
    /\ call[w].now = clock
    /\ ~Inserting(w) => EndsActive(db)
    /\ (pc[w] = "active" /\ call[w].op = "register_or_update") =>
          RowsOf(db, call[w].key, "active") = {}
    /\ Inserting(w) =>
          \/ /\ todo[w] = <<Activation(call[w])>>
             /\ Len(db) > 0 => /\ db[Len(db)].content.status = "retired"
                               /\ db[Len(db)].content.retired_at = clock
          \/ /\ Len(db) > 0 /\ EndsActive(db)
             /\ todo[w] = <<Retirement(db[Len(db)].content, call[w]), Activation(call[w])>>
    /\ pc[w] \in {"insert", "commit"} => prev[w] = _prev_chain_hash(db)

\* No two calls are under way, and no transaction is open outside a call.
CallsCalm ==
    /\ \A w \in Workers : conn[w] = "closed"
    /\ \A v, w \in Workers : Busy(v) /\ Busy(w) => v = w
    /\ \A w \in Workers : Busy(w) => CalmCall(w)
    /\ (\A w \in Workers : ~Busy(w)) => EndsActive(db)

\* What the rows are then.
RowsCalm ==
    /\ verify_chain(db)
    /\ Alternates(db) /\ Ordered(db)
    /\ \A n \in 1 .. Len(db) : TimeOf(db[n].content) <= clock
    /\ \A t \in Times : t < clock => HeldInv(t)

CalmInv == (calm /\ ~faults) => CallsCalm /\ RowsCalm

IInv == TypeInv /\ SafeInv /\ CalmInv

-----------------------------------------------------------------------------
(* First and last rows.                                                    *)

\* A set of row ids has a least one.
LEMMA MinIs ==
    ASSUME NEW ids, ids \subseteq Nat, ids # {}
    PROVE  Min(ids) \in ids /\ \A n \in ids : Min(ids) <= n
<1>1. PICK x \in ids : \A y \in ids : ~(<<y, x>> \in OpToRel(<, Nat))
  BY NatLessThanWellFounded, WFMin
<1>2. \A y \in ids : x <= y
  <2> SUFFICES ASSUME NEW y \in ids, y < x PROVE FALSE OBVIOUS
  <2>1. <<y, x>> \in {ss \in Nat \X Nat : ss[1] < ss[2]} OBVIOUS
  <2> QED BY <2>1, <1>1 DEF OpToRel
<1> QED BY <1>2 DEF Min

\* A bounded set of row ids has a greatest one.
LEMMA MaxIs ==
    ASSUME NEW len \in Nat, NEW ids, ids \subseteq 1 .. len, ids # {}
    PROVE  Max(ids) \in ids /\ \A n \in ids : Max(ids) >= n
<1> DEFINE rest == {len - n : n \in ids}
<1>0. \A n \in ids : len - n \in Nat OBVIOUS
<1>1. rest \subseteq Nat /\ rest # {}
  <2>1. PICK n \in ids : TRUE OBVIOUS
  <2>2. len - n \in rest OBVIOUS
  <2> QED BY <1>0, <2>2
<1>2. Min(rest) \in rest /\ \A y \in rest : Min(rest) <= y BY <1>1, MinIs
<1>3. PICK x \in ids : Min(rest) = len - x BY <1>2
<1>4. \A n \in ids : x >= n
  <2> SUFFICES ASSUME NEW n \in ids PROVE x >= n OBVIOUS
  <2>1. len - n \in rest OBVIOUS
  <2>2. len - x <= len - n BY <2>1, <1>2, <1>3
  <2>3. x \in Int /\ n \in Int OBVIOUS
  <2> HIDE DEF rest
  <2> QED BY <2>2, <2>3
<1> QED BY <1>4 DEF Max

\* The latest active row of a registry.
LEMMA LatestActive ==
    ASSUME NEW rows \in Seq(Row), ActiveRows(rows) # {}
    PROVE  \E m \in 1 .. Len(rows) :
              /\ rows[m].content \in Content
              /\ Latest(rows, ActiveRows(rows)) = rows[m].content
              /\ rows[m].content.status = "active"
              /\ \A n \in 1 .. Len(rows) : rows[n].content.status = "active" => n <= m
<1> DEFINE ids == ActiveRows(rows)
           m == Max(ids)
<1>1. Len(rows) \in Nat /\ DOMAIN rows = 1 .. Len(rows) OBVIOUS
<1>2. ids \subseteq 1 .. Len(rows)
      /\ \A n \in 1 .. Len(rows) : n \in ids <=> rows[n].content.status = "active"
  BY <1>1 DEF ActiveRows
<1> HIDE DEF ids
<1>3. m \in ids /\ \A n \in ids : m >= n BY <1>1, <1>2, MaxIs DEF ids
<1>4. m \in 1 .. Len(rows) BY <1>2, <1>3
<1>5. rows[m] \in Row BY <1>1, <1>4
<1>6. rows[m].content \in Content BY <1>5 DEF Row
<1>7. Latest(rows, ids) = rows[m].content BY DEF Latest
<1> HIDE DEF m
<1>8. \A n \in 1 .. Len(rows) : rows[n].content.status = "active" => n <= m
  BY <1>1, <1>2, <1>3, <1>4
<1> QED BY <1>2, <1>3, <1>4, <1>6, <1>7, <1>8 DEF ids

\* get_active returns a key or none.
LEMMA GetActiveType ==
    ASSUME NEW rows \in Seq(Row)
    PROVE  get_active(rows) \in Keys \cup {NoKey}
<1>1. CASE ActiveRows(rows) = {} BY <1>1 DEF get_active
<1>2. CASE ActiveRows(rows) # {}
  <2>1. Latest(rows, ActiveRows(rows)) \in Content BY <1>2, LatestActive
  <2> QED BY <2>1, <1>2 DEF get_active, Content
<1> QED BY <1>1, <1>2

-----------------------------------------------------------------------------
(* Types.                                                                  *)

\* The active row that a call inserts has a content.
LEMMA ActivationType ==
    ASSUME NEW c \in Call
    PROVE  Activation(c) \in Content
<1>1. c.key \in Keys /\ c.now \in Times BY DEF Call
<1> QED BY <1>1 DEF Activation, Content

\* So has the retirement row that a call inserts.
LEMMA RetirementType ==
    ASSUME NEW c \in Call, NEW active \in Content
    PROVE  Retirement(active, c) \in Content
<1>1. c.key \in Keys /\ c.now \in Times BY DEF Call
<1> QED BY <1>1 DEF Retirement, Content

\* What a call is to insert: one row, or a retirement and one row.
LEMMA RowsToInsertIs ==
    ASSUME NEW rows \in Seq(Row), NEW c \in Call
    PROVE  /\ \/ RowsToInsert(rows, c) = <<Activation(c)>>
              \/ \E active \in Content :
                    RowsToInsert(rows, c) = <<Retirement(active, c), Activation(c)>>
           /\ RowsToInsert(rows, c) \in Seq(Content)
<1>1. CASE RowsToInsert(rows, c) = <<Activation(c)>>
  <2>2. Activation(c) \in Content BY ActivationType
  <2>3. <<Activation(c)>> \in Seq(Content) BY <2>2
  <2> QED BY <2>3, <1>1
<1>2. CASE RowsToInsert(rows, c) # <<Activation(c)>>
  <2>1. ActiveRows(rows) # {} BY <1>2 DEF RowsToInsert
  <2>2. PICK active \in Content : active = Latest(rows, ActiveRows(rows))
    BY <2>1, LatestActive
  <2>3. RowsToInsert(rows, c) = <<Retirement(active, c), Activation(c)>>
    BY <2>2, <1>2 DEF RowsToInsert
  <2>4. Activation(c) \in Content /\ Retirement(active, c) \in Content
    BY ActivationType, RetirementType
  <2>5. <<Retirement(active, c), Activation(c)>> \in Seq(Content) BY <2>4
  <2> QED BY <2>3, <2>5
<1> QED BY <1>1, <1>2

\* A row on a chain hash is a row.
LEMMA NewRowType ==
    ASSUME NEW content \in Content, NEW h \in Seq(Content)
    PROVE  NewRow(content, h) \in Row /\ RowVerifies(NewRow(content, h), h)
<1>1. Append(h, content) \in Seq(Content) BY AppendProperties
<1>2. NewRow(content, h) \in Row BY <1>1 DEF NewRow, Row, _row_hash
<1>3. RowVerifies(NewRow(content, h), h) BY DEF NewRow, RowVerifies, _row_hash
<1> QED BY <1>2, <1>3

\* The chain hash a registry ends in is a chain hash.
LEMMA PreviousType ==
    ASSUME NEW rows \in Seq(Row)
    PROVE  _prev_chain_hash(rows) \in Seq(Content) /\ _prev_chain_hash(rows) \in Known(rows)
<1>1. CASE rows = <<>> BY <1>1 DEF _prev_chain_hash, KEY_REGISTRY_GENESIS, Known
<1>2. CASE rows # <<>>
  <2>1. Len(rows) \in 1 .. Len(rows) BY <1>2
  <2>2. rows[Len(rows)] \in Row BY <2>1
  <2> QED BY <1>2, <2>1, <2>2 DEF _prev_chain_hash, Last, Row, Known
<1> QED BY <1>1, <1>2

\* What a worker has to insert, and the row it inserts next.
LEMMA TodoIs ==
    ASSUME TypeInv, NEW w \in Workers, Inserting(w)
    PROVE  /\ call[w] \in Call /\ call[w].now <= clock
           /\ Head(todo[w]) \in Content
           /\ prev[w] \in Seq(Content)
           /\ NewRow(Head(todo[w]), prev[w]) \in Row
           /\ \/ /\ todo[w] = <<Activation(call[w])>> /\ Len(todo[w]) = 1
                 /\ Head(todo[w]) = Activation(call[w])
              \/ /\ Len(todo[w]) = 2 /\ Tail(todo[w]) = <<Activation(call[w])>>
                 /\ \E active \in Content :
                       /\ todo[w] = <<Retirement(active, call[w]), Activation(call[w])>>
                       /\ Head(todo[w]) = Retirement(active, call[w])
<1>1. call[w] \in Call /\ call[w].now <= clock /\ prev[w] \in Seq(Content)
  BY DEF TypeInv, TypeOK, ShapeOK, Inserting, Busy
<1>2. CASE todo[w] = <<Activation(call[w])>>
  <2>1. Len(todo[w]) = 1 /\ Head(todo[w]) = Activation(call[w]) BY <1>2
  <2>3. Head(todo[w]) \in Content BY <2>1, <1>1, ActivationType
  <2> QED BY <2>1, <2>3, <1>1, <1>2, NewRowType
<1>3. CASE \E active \in Content :
             todo[w] = <<Retirement(active, call[w]), Activation(call[w])>>
  <2>1. PICK active \in Content :
          todo[w] = <<Retirement(active, call[w]), Activation(call[w])>>
    BY <1>3
  <2>2. /\ Len(todo[w]) = 2 /\ Head(todo[w]) = Retirement(active, call[w])
        /\ Tail(todo[w]) = <<Activation(call[w])>>
    BY <2>1
  <2>3. Head(todo[w]) \in Content BY <2>2, <1>1, RetirementType
  <2> QED BY <2>1, <2>2, <2>3, <1>1, NewRowType
<1> QED BY <1>2, <1>3 DEF TypeInv, ShapeOK

\* A worker reads and starts its writes from a whole registry.
LEMMA ViewType ==
    ASSUME TypeOK, NEW w \in Workers
    PROVE  View(w) \in Seq(Row) /\ Base(w) \in Seq(Row)
BY DEF TypeOK, View, Base

ConnTypes ==
    /\ db' \in Seq(Row) /\ txn' \in Seq(Row)
    /\ lock' \in Workers \cup {NoWorker}
    /\ conn' \in [Workers -> ConnStates]
    /\ snap' \in [Workers -> Seq(Row)]

\* SELECT, write, failed write, commit and rollback keep the types.
LEMMA ConnType ==
    ASSUME TypeOK, NEW w \in Workers,
           \/ Read(w) \/ WriteFails(w) \/ Commit(w) \/ Rollback(w)
           \/ \E new \in Seq(Row) : Write(w, new)
    PROVE  ConnTypes
<1>0. EmptyDb \in Seq(Row) BY DEF EmptyDb
<1>1. CASE Read(w) BY <1>1 DEF Read, TypeOK, ConnTypes, ConnStates
<1>2. CASE WriteFails(w) BY <1>2 DEF WriteFails, TypeOK, ConnTypes, ConnStates
<1>3. CASE Commit(w)
  BY <1>0, <1>3 DEF Commit, Release, TypeOK, ConnTypes, ConnStates
<1>4. CASE Rollback(w)
  BY <1>0, <1>4 DEF Rollback, Release, TypeOK, ConnTypes, ConnStates
<1>5. CASE \E new \in Seq(Row) : Write(w, new)
  BY <1>5 DEF Write, TypeOK, ConnTypes
<1> QED BY <1>1, <1>2, <1>3, <1>4, <1>5

CallTypes ==
    /\ pc' \in [Workers -> {"idle", "existing", "active", "prev", "insert", "commit"}]
    /\ call' \in [Workers -> Call \cup {NoCall}]
    /\ todo' \in [Workers -> Seq(Content)]
    /\ prev' \in [Workers -> Seq(Content)]

\* What a step leaves alone of the workers other than the one that takes it.
OthersKeep(w) ==
    \A v \in Workers \ {w} :
        pc'[v] = pc[v] /\ call'[v] = call[v] /\ todo'[v] = todo[v] /\ prev'[v] = prev[v]

\* A call that ends leaves nothing behind.
LEMMA ForgetSteps ==
    ASSUME TypeOK, NEW w \in Workers, Forget(w)
    PROVE  pc'[w] = "idle" /\ OthersKeep(w) /\ CallTypes
<1>1. KEY_REGISTRY_GENESIS \in Seq(Content) /\ <<>> \in Seq(Content)
  BY DEF KEY_REGISTRY_GENESIS
<1> QED BY <1>1 DEF Forget, Goto, TypeOK, OthersKeep, CallTypes

\* Steps of one worker keep the shapes of the others.
LEMMA ShapeSteps ==
    ASSUME TypeInv, NEW w \in Workers, OthersKeep(w), clock' = clock,
           /\ Busy(w)' => call'[w] \in Call /\ call'[w].now <= clock
           /\ Inserting(w)' =>
                 \/ todo'[w] = <<Activation(call'[w])>>
                 \/ \E active \in Content :
                       todo'[w] = <<Retirement(active, call'[w]), Activation(call'[w])>>
    PROVE  ShapeOK'
<1> SUFFICES ASSUME NEW v \in Workers
             PROVE  /\ Busy(v)' => call'[v] \in Call /\ call'[v].now <= clock'
                    /\ Inserting(v)' =>
                          \/ todo'[v] = <<Activation(call'[v])>>
                          \/ \E active \in Content :
                                todo'[v] = <<Retirement(active, call'[v]), Activation(call'[v])>>
  BY DEF ShapeOK, Activation, Retirement
<1>1. CASE v = w BY <1>1
<1>2. CASE v # w
  <2>1. /\ pc'[v] = pc[v] /\ call'[v] = call[v] /\ todo'[v] = todo[v] BY <1>2 DEF OthersKeep
  <2> QED BY <2>1 DEF TypeInv, ShapeOK, Busy, Inserting
<1> QED BY <1>1, <1>2

-----------------------------------------------------------------------------
(* Steps that commit nothing.                                              *)

\* What a worker has to do, if it is inserting, stays to be done.
StaysPending(w) ==
    Inserting(w) => Inserting(w)' /\ todo'[w] = todo[w] /\ call'[w] = call[w]

\* A step that commits nothing keeps the safe part of the invariant if it keeps
\* the discipline of the lock, continues a known hash and drops no row unnoticed.
LEMMA SafeKeeps ==
    ASSUME TypeInv, SafeInv, NEW w \in Workers, OthersKeep(w), db' = db,
           \A v \in Workers : conn'[v] = "stale" => conn[v] = "stale" /\ snap'[v] = snap[v],
           LockDiscipline',
           pc'[w] \in {"insert", "commit"} => prev'[w] \in Known(db),
           ~faults' => ~faults /\ StaysPending(w)
    PROVE  SafeInv'
<1>1. Chained(db)' BY DEF SafeInv, Chained
<1>2. SnapshotsAreOld' BY DEF SafeInv, SnapshotsAreOld, Grown
<1>3. DraftInv'
  <2> SUFFICES ASSUME NEW v \in Workers, pc'[v] \in {"insert", "commit"}
               PROVE  prev'[v] \in Known(db)
    BY DEF DraftInv, Known
  <2>1. CASE v = w BY <2>1
  <2>2. CASE v # w BY <2>2 DEF OthersKeep, SafeInv, DraftInv
  <2> QED BY <2>1, <2>2
<1>4. RotationInv'
  <2> SUFFICES ASSUME ~faults', NEW n \in 1 .. Len(db), db[n].content.status = "retired",
                      ~\E m \in n + 1 .. Len(db) : Succeeds(db[m].content, db[n].content)
               PROVE  \E v \in Workers :
                         /\ Inserting(v)'
                         /\ todo'[v] = <<Activation(call'[v])>>
                         /\ Succeeds(Activation(call'[v]), db[n].content)
    BY DEF RotationInv, Succeeds, Activation
  <2>1. PICK v \in Workers :
          /\ Inserting(v)
          /\ todo[v] = <<Activation(call[v])>>
          /\ Succeeds(Activation(call[v]), db[n].content)
    BY DEF SafeInv, RotationInv
  <2>2. Inserting(v)' /\ todo'[v] = todo[v] /\ call'[v] = call[v]
    BY <2>1 DEF StaysPending, OthersKeep, Inserting
  <2> QED BY <2>1, <2>2
<1> QED BY <1>1, <1>2, <1>3, <1>4 DEF SafeInv

\* A step that neither takes nor gives back the lock keeps its discipline.
LEMMA LockKeeps ==
    ASSUME SafeInv, NEW w \in Workers, OthersKeep(w), UNCHANGED <<db, lock, txn>>,
           pc[w] # "commit", pc'[w] # "commit"
    PROVE  LockDiscipline'
<1> SUFFICES ASSUME NEW v \in Workers
             PROVE  /\ lock' = v <=> pc'[v] = "commit"
                    /\ lock' = v => txn' = Append(db', NewRow(Head(todo'[v]), prev'[v]))
  BY DEF LockDiscipline, NewRow
<1>1. /\ lock = v <=> pc[v] = "commit"
      /\ lock = v => txn = Append(db, NewRow(Head(todo[v]), prev[v]))
  BY DEF SafeInv, LockDiscipline
<1>2. CASE v = w BY <1>1, <1>2
<1>3. CASE v # w BY <1>1, <1>3 DEF OthersKeep
<1> QED BY <1>2, <1>3

\* The step keeps the types of what is not the worker's or the connections'.
RestTypes ==
    /\ clock' \in Times /\ calls' \in Nat
    /\ held' \in [Times -> Keys \cup {NoKey}]
    /\ calm' \in BOOLEAN /\ faults' \in BOOLEAN

\* Types, put together.
LEMMA TypeParts ==
    ASSUME ConnTypes, CallTypes, RestTypes, ShapeOK'
    PROVE  TypeInv'
BY DEF ConnTypes, CallTypes, RestTypes, TypeInv, TypeOK

\* What a SELECT does.
LEMMA ReadSteps ==
    ASSUME TypeOK, NEW w \in Workers, Read(w)
    PROVE  /\ ConnTypes /\ UNCHANGED <<db, lock, txn, snap>>
           /\ \A v \in Workers : conn'[v] = "stale" => conn[v] = "stale" /\ snap'[v] = snap[v]
           /\ \A v \in Workers : conn[v] = "closed" => conn'[v] = "closed"
<1>1. ConnTypes BY ConnType
<1>2. UNCHANGED <<db, lock, txn, snap>>
      /\ \A v \in Workers : conn'[v] = IF v = w /\ conn[v] = "open" THEN "pinned" ELSE conn[v]
  BY DEF Read, TypeOK
<1> QED BY <1>1, <1>2

\* A call begins.
LEMMA BeginSafe ==
    ASSUME TypeInv, SafeInv, NEW w \in Workers, Begin(w)
    PROVE  TypeInv' /\ SafeInv'
<1>1. TypeOK /\ ShapeOK BY DEF TypeInv
<1>2. PICK op \in Operations, k \in Keys :
        /\ call' = [call EXCEPT ![w] = [op |-> op, key |-> k, now |-> clock]]
        /\ pc' = [pc EXCEPT ![w] = IF op = "rotate_key" THEN "active" ELSE "existing"]
  BY DEF Begin, Goto
<1>3. [op |-> op, key |-> k, now |-> clock] \in Call BY <1>1 DEF TypeOK, Call
<1>4. /\ pc[w] = "idle" /\ pc'[w] \in {"active", "existing"}
      /\ call'[w] = [op |-> op, key |-> k, now |-> clock]
      /\ OthersKeep(w)
      /\ UNCHANGED <<db, lock, txn, conn, snap, todo, prev, clock, held, faults>>
  BY <1>1, <1>2 DEF Begin, Busy, TypeOK, OthersKeep, dbVars
<1>5. CallTypes BY <1>1, <1>2, <1>3, <1>4 DEF TypeOK, CallTypes
<1>6. ConnTypes BY <1>1, <1>4 DEF TypeOK, ConnTypes
<1>7. RestTypes
  <2>1. calm' \in BOOLEAN BY DEF Begin
  <2>2. calls' \in Nat BY <1>1 DEF Begin, TypeOK
  <2> QED BY <2>1, <2>2, <1>1, <1>4 DEF TypeOK, RestTypes
<1>8. ShapeOK'
  <2>1. call'[w].now <= clock BY <1>1, <1>4 DEF TypeOK, Times
  <2>2. call'[w] \in Call BY <1>3, <1>4
  <2>3. ~Inserting(w)' BY <1>4 DEF Inserting
  <2> QED BY <2>1, <2>2, <2>3, <1>4, ShapeSteps
<1>9. LockDiscipline' BY <1>4, LockKeeps
<1>10. ~Inserting(w) BY <1>4 DEF Inserting
<1> QED BY <1>4, <1>5, <1>6, <1>7, <1>8, <1>9, <1>10, TypeParts, SafeKeeps DEF StaysPending

\* A call ends without having anything to commit.
LEMMA ForgetSafe ==
    ASSUME TypeInv, SafeInv, NEW w \in Workers, Forget(w), ConnTypes, RestTypes,
           clock' = clock, db' = db, LockDiscipline',
           \A v \in Workers : conn'[v] = "stale" => conn[v] = "stale" /\ snap'[v] = snap[v],
           ~faults' => ~faults /\ ~Inserting(w)
    PROVE  TypeInv' /\ SafeInv'
<1>1. pc'[w] = "idle" /\ OthersKeep(w) /\ CallTypes BY ForgetSteps DEF TypeInv
<1>2. ~Busy(w)' /\ ~Inserting(w)' BY <1>1 DEF Busy, Inserting
<1>3. ShapeOK' BY <1>1, <1>2, ShapeSteps
<1>4. TypeInv' BY <1>1, <1>3, TypeParts
<1>5. SafeInv' BY <1>1, SafeKeeps DEF StaysPending
<1> QED BY <1>4, <1>5

\* The call looks for its key.
LEMMA SelectExistingSafe ==
    ASSUME TypeInv, SafeInv, NEW w \in Workers, SelectExisting(w)
    PROVE  TypeInv' /\ SafeInv'
<1>1. TypeOK /\ ShapeOK BY DEF TypeInv
<1>2. /\ pc[w] = "existing" /\ UNCHANGED <<clock, calls, held, calm, faults>>
      /\ Read(w)
  BY DEF SelectExisting, ghosts
<1>3. /\ ConnTypes /\ UNCHANGED <<db, lock, txn, snap>>
      /\ \A v \in Workers : conn'[v] = "stale" => conn[v] = "stale" /\ snap'[v] = snap[v]
  BY <1>1, <1>2, ReadSteps
<1>4. RestTypes BY <1>1, <1>2 DEF TypeOK, RestTypes
<1>5. ~Inserting(w) BY <1>2 DEF Inserting
<1>6. CASE RowsOf(View(w), call[w].key, "active") # {}
  <2>1. Forget(w) BY <1>6 DEF SelectExisting
  <2>2. pc'[w] = "idle" /\ OthersKeep(w) BY <2>1, <1>1, ForgetSteps
  <2>3. LockDiscipline' BY <2>2, <1>2, <1>3, LockKeeps
  <2> QED BY <2>1, <2>3, <1>2, <1>3, <1>4, <1>5, ForgetSafe
<1>7. CASE RowsOf(View(w), call[w].key, "active") = {}
  <2>1. pc'[w] = "active" /\ OthersKeep(w) /\ UNCHANGED <<call, todo, prev>> /\ CallTypes
    BY <1>1, <1>7 DEF SelectExisting, Goto, TypeOK, OthersKeep, CallTypes
  <2>2. ShapeOK'
    <3>1. call'[w] \in Call /\ call'[w].now <= clock BY <2>1, <1>1, <1>2 DEF ShapeOK, Busy
    <3>2. ~Inserting(w)' BY <2>1 DEF Inserting
    <3> QED BY <3>1, <3>2, <2>1, <1>2, ShapeSteps
  <2>3. LockDiscipline' BY <2>1, <1>2, <1>3, LockKeeps
  <2>4. SafeInv' BY <2>1, <2>3, <1>2, <1>3, <1>5, SafeKeeps DEF StaysPending
  <2> QED BY <2>1, <2>2, <2>4, <1>3, <1>4, TypeParts
<1> QED BY <1>6, <1>7

\* The call looks for the tenant's active key.
LEMMA SelectActiveSafe ==
    ASSUME TypeInv, SafeInv, NEW w \in Workers, SelectActive(w)
    PROVE  TypeInv' /\ SafeInv'
<1>1. TypeOK /\ ShapeOK BY DEF TypeInv
<1>2. /\ pc[w] = "active" /\ UNCHANGED <<clock, calls, held, calm, faults>>
      /\ Read(w)
  BY DEF SelectActive, ghosts
<1>3. /\ ConnTypes /\ UNCHANGED <<db, lock, txn, snap>>
      /\ \A v \in Workers : conn'[v] = "stale" => conn[v] = "stale" /\ snap'[v] = snap[v]
  BY <1>1, <1>2, ReadSteps
<1>4. RestTypes BY <1>1, <1>2 DEF TypeOK, RestTypes
<1>5. ~Inserting(w) BY <1>2 DEF Inserting
<1>6. CASE call[w].op = "register_key" /\ ActiveRows(View(w)) # {}
  <2>1. Forget(w) BY <1>6 DEF SelectActive
  <2>2. pc'[w] = "idle" /\ OthersKeep(w) BY <2>1, <1>1, ForgetSteps
  <2>3. LockDiscipline' BY <2>2, <1>2, <1>3, LockKeeps
  <2> QED BY <2>1, <2>3, <1>2, <1>3, <1>4, <1>5, ForgetSafe
<1>7. CASE ~(call[w].op = "register_key" /\ ActiveRows(View(w)) # {})
  <2> DEFINE rows == RowsToInsert(View(w), call[w])
  <2>1. call[w] \in Call /\ call[w].now <= clock BY <1>1, <1>2 DEF ShapeOK, Busy
  <2>2. /\ rows \in Seq(Content)
        /\ \/ rows = <<Activation(call[w])>>
           \/ \E active \in Content :
                 rows = <<Retirement(active, call[w]), Activation(call[w])>>
    BY <2>1, <1>1, ViewType, RowsToInsertIs
  <2>3. todo' = [todo EXCEPT ![w] = rows] BY <1>7 DEF SelectActive
  <2> HIDE DEF rows
  <2>4. /\ pc'[w] = "prev" /\ OthersKeep(w) /\ UNCHANGED <<call, prev>> /\ CallTypes
        /\ todo'[w] = rows
    BY <2>2, <2>3, <1>1, <1>7 DEF SelectActive, Goto, TypeOK, OthersKeep, CallTypes
  <2>5. ShapeOK'
    <3>1. call'[w] \in Call /\ call'[w].now <= clock BY <2>1, <2>4
    <3>2. \/ todo'[w] = <<Activation(call'[w])>>
          \/ \E active \in Content :
                todo'[w] = <<Retirement(active, call'[w]), Activation(call'[w])>>
      BY <2>2, <2>4
    <3> QED BY <3>1, <3>2, <2>4, <1>2, ShapeSteps
  <2>6. LockDiscipline' BY <2>4, <1>2, <1>3, LockKeeps
  <2>7. SafeInv' BY <2>4, <2>6, <1>2, <1>3, <1>5, SafeKeeps DEF StaysPending
  <2> QED BY <2>4, <2>5, <2>7, <1>3, <1>4, TypeParts
<1> QED BY <1>6, <1>7

\* A worker reads the registry or an old state of it, whose hashes are still known.
LEMMA ViewKnown ==
    ASSUME TypeInv, SafeInv, NEW w \in Workers
    PROVE  Known(View(w)) \subseteq Known(db)
<1>1. Grown(View(w), db) \/ View(w) = db BY DEF SafeInv, SnapshotsAreOld, View
<1>2. View(w) \in Seq(Row) /\ db \in Seq(Row) BY ViewType DEF TypeInv, TypeOK
<1>3. ASSUME Grown(View(w), db) PROVE Known(View(w)) \subseteq Known(db)
  <2>1. \A j \in 1 .. Len(View(w)) : j \in 1 .. Len(db) /\ View(w)[j] = db[j]
    BY <1>2, <1>3 DEF Grown
  <2>2. {View(w)[j].chain_hash : j \in 1 .. Len(View(w))} \subseteq
          {db[j].chain_hash : j \in 1 .. Len(db)}
    BY <2>1
  <2> QED BY <2>2 DEF Known
<1> QED BY <1>1, <1>3

\* _insert_row reads the hash to continue.
LEMMA SelectPreviousSafe ==
    ASSUME TypeInv, SafeInv, NEW w \in Workers, SelectPrevious(w)
    PROVE  TypeInv' /\ SafeInv'
<1>1. TypeOK /\ ShapeOK BY DEF TypeInv
<1>2. /\ pc[w] = "prev" /\ UNCHANGED <<clock, calls, held, calm, faults>>
      /\ Read(w)
  BY DEF SelectPrevious, ghosts
<1>3. /\ ConnTypes /\ UNCHANGED <<db, lock, txn, snap>>
      /\ \A v \in Workers : conn'[v] = "stale" => conn[v] = "stale" /\ snap'[v] = snap[v]
  BY <1>1, <1>2, ReadSteps
<1>4. RestTypes BY <1>1, <1>2 DEF TypeOK, RestTypes
<1> DEFINE h == _prev_chain_hash(View(w))
<1>5. h \in Seq(Content) /\ h \in Known(View(w)) BY <1>1, ViewType, PreviousType
<1>6. h \in Known(db) BY <1>5, ViewKnown
<1>7. prev' = [prev EXCEPT ![w] = h] BY DEF SelectPrevious
<1> HIDE DEF h
<1>8. /\ pc'[w] = "insert" /\ OthersKeep(w) /\ UNCHANGED <<call, todo>> /\ CallTypes
      /\ prev'[w] = h
  BY <1>1, <1>5, <1>7 DEF SelectPrevious, Goto, TypeOK, OthersKeep, CallTypes
<1>9. StaysPending(w) BY <1>8 DEF StaysPending, Inserting
<1>10. ShapeOK'
  <2>1. Busy(w) /\ Inserting(w) BY <1>2 DEF Busy, Inserting
  <2> QED BY <2>1, <1>1, <1>2, <1>8, ShapeSteps DEF ShapeOK
<1>11. LockDiscipline' BY <1>2, <1>3, <1>8, LockKeeps
<1>12. SafeInv' BY <1>2, <1>3, <1>6, <1>8, <1>9, <1>11, SafeKeeps
<1> QED BY <1>3, <1>4, <1>8, <1>10, <1>12, TypeParts

\* The INSERT.
LEMMA InsertRowSafe ==
    ASSUME TypeInv, SafeInv, NEW w \in Workers, InsertRow(w)
    PROVE  TypeInv' /\ SafeInv' /\ UNCHANGED <<db, conn>>
<1>1. TypeOK /\ ShapeOK BY DEF TypeInv
<1> DEFINE row == NewRow(Head(todo[w]), prev[w])
<1>2. /\ pc[w] = "insert" /\ UNCHANGED <<call, todo, prev, clock, calls, held, calm, faults>>
      /\ Write(w, Append(Base(w), row)) /\ Goto(w, "commit")
  BY DEF InsertRow, ghosts
<1>3. Base(w) = db BY <1>2 DEF SafeInv, LockDiscipline, Base
<1>4. Inserting(w) /\ Busy(w) BY <1>2 DEF Inserting, Busy
<1>5. row \in Row BY <1>4, TodoIs
<1> HIDE DEF row
<1>6. Append(db, row) \in Seq(Row) BY <1>1, <1>5, AppendProperties DEF TypeOK
<1>7. ConnTypes BY <1>1, <1>2, <1>3, <1>6, ConnType
<1>8. /\ lock \in {NoWorker, w} /\ lock' = w /\ txn' = Append(db, row)
      /\ UNCHANGED <<db, conn, snap>>
  BY <1>2, <1>3 DEF Write, CanWrite
<1>9. RestTypes BY <1>1, <1>2 DEF TypeOK, RestTypes
<1>10. pc'[w] = "commit" /\ OthersKeep(w) /\ CallTypes
  BY <1>1, <1>2 DEF Goto, TypeOK, OthersKeep, CallTypes
<1>11. StaysPending(w) BY <1>2, <1>10 DEF StaysPending, Inserting
<1>12. ShapeOK' BY <1>1, <1>2, <1>4, <1>10, ShapeSteps DEF ShapeOK
<1>13. LockDiscipline'
  <2>1. ASSUME NEW v \in Workers, v # w PROVE lock' # v /\ pc'[v] # "commit"
    BY <2>1, <1>8, <1>10, RegistryAssumption DEF SafeInv, LockDiscipline, OthersKeep
  <2>2. row' = row BY <1>2 DEF row, NewRow, _row_hash
  <2>3. txn' = Append(db', NewRow(Head(todo'[w]), prev'[w])) BY <1>2, <1>8 DEF row
  <2> SUFFICES ASSUME NEW v \in Workers
               PROVE  /\ lock' = v <=> pc'[v] = "commit"
                      /\ lock' = v => txn' = Append(db', NewRow(Head(todo'[v]), prev'[v]))
    BY DEF LockDiscipline, NewRow
  <2> QED BY <2>1, <2>3, <1>8, <1>10
<1>14. prev'[w] \in Known(db) BY <1>2 DEF SafeInv, DraftInv
<1>15. SafeInv' BY <1>2, <1>8, <1>10, <1>11, <1>13, <1>14, SafeKeeps
<1> QED BY <1>7, <1>8, <1>9, <1>10, <1>12, <1>15, TypeParts

\* The INSERT fails and the call raises.
LEMMA InsertFailsSafe ==
    ASSUME TypeInv, SafeInv, NEW w \in Workers, InsertFails(w)
    PROVE  TypeInv' /\ SafeInv'
<1>1. TypeOK /\ ShapeOK BY DEF TypeInv
<1>2. /\ pc[w] = "insert" /\ UNCHANGED <<clock, calls, held, calm>> /\ faults' = TRUE
      /\ Forget(w) /\ WriteFails(w)
  BY DEF InsertFails
<1>3. ConnTypes BY <1>1, <1>2, ConnType
<1>4. /\ UNCHANGED <<db, lock, txn, snap>>
      /\ \A v \in Workers : conn'[v] = "stale" => conn[v] = "stale" /\ snap'[v] = snap[v]
  BY <1>1, <1>2 DEF WriteFails, TypeOK
<1>5. RestTypes BY <1>1, <1>2 DEF TypeOK, RestTypes
<1>6. pc'[w] = "idle" /\ OthersKeep(w) BY <1>1, <1>2, ForgetSteps
<1>7. LockDiscipline' BY <1>2, <1>4, <1>6, LockKeeps
<1> QED BY <1>2, <1>3, <1>4, <1>5, <1>7, ForgetSafe

\* A GET of the registry.
LEMMA ReadRegistrySafe ==
    ASSUME TypeInv, SafeInv, NEW w \in Workers, ReadRegistry(w)
    PROVE  TypeInv' /\ SafeInv'
<1>1. TypeOK /\ ShapeOK BY DEF TypeInv
<1>2. /\ pc[w] = "idle" /\ Read(w)
      /\ UNCHANGED <<pc, call, todo, prev, clock, calls, held, calm, faults>>
  BY DEF ReadRegistry, Busy, callVars, ghosts
<1>3. /\ ConnTypes /\ UNCHANGED <<db, lock, txn, snap>>
      /\ \A v \in Workers : conn'[v] = "stale" => conn[v] = "stale" /\ snap'[v] = snap[v]
  BY <1>1, <1>2, ReadSteps
<1>4. RestTypes /\ CallTypes BY <1>1, <1>2 DEF TypeOK, RestTypes, CallTypes
<1>5. OthersKeep(w) /\ ~Inserting(w) /\ ~Inserting(w)' /\ ~Busy(w)'
  BY <1>2 DEF OthersKeep, Inserting, Busy
<1>6. ShapeOK' BY <1>2, <1>5, ShapeSteps
<1>7. LockDiscipline' BY <1>2, <1>3, <1>5, LockKeeps
<1>8. SafeInv' BY <1>2, <1>3, <1>5, <1>7, SafeKeeps DEF StaysPending
<1> QED BY <1>3, <1>4, <1>6, <1>8, TypeParts

\* A worker dies.
LEMMA CrashSafe ==
    ASSUME TypeInv, SafeInv, NEW w \in Workers, Crash(w)
    PROVE  TypeInv' /\ SafeInv'
<1>1. TypeOK /\ ShapeOK BY DEF TypeInv
<1>2. /\ UNCHANGED <<clock, calls, held, calm>> /\ faults' = (faults \/ Busy(w))
      /\ Forget(w) /\ Rollback(w)
  BY DEF Crash
<1>3. ConnTypes BY <1>1, <1>2, ConnType
<1>4. /\ db' = db /\ lock' = IF lock = w THEN NoWorker ELSE lock
      /\ lock # w => txn' = txn
      /\ \A v \in Workers : conn'[v] = "stale" => conn[v] = "stale" /\ snap'[v] = snap[v]
  BY <1>1, <1>2 DEF Rollback, Release, TypeOK
<1>5. RestTypes
  <2>1. faults' \in BOOLEAN BY <1>2
  <2> QED BY <2>1, <1>1, <1>2 DEF TypeOK, RestTypes
<1>6. pc'[w] = "idle" /\ OthersKeep(w) BY <1>1, <1>2, ForgetSteps
<1>7. LockDiscipline'
  <2> SUFFICES ASSUME NEW v \in Workers
               PROVE  /\ lock' = v <=> pc'[v] = "commit"
                      /\ lock' = v => txn' = Append(db', NewRow(Head(todo'[v]), prev'[v]))
    BY DEF LockDiscipline, NewRow
  <2>1. /\ lock = v <=> pc[v] = "commit"
        /\ lock = v => txn = Append(db, NewRow(Head(todo[v]), prev[v]))
    BY DEF SafeInv, LockDiscipline
  <2>2. CASE v = w BY <2>2, <1>4, <1>6, RegistryAssumption
  <2>3. CASE v # w
    <3>1. /\ pc'[v] = pc[v] /\ todo'[v] = todo[v] /\ prev'[v] = prev[v]
          /\ lock' = v <=> lock = v
      BY <2>3, <1>4, <1>6, RegistryAssumption DEF OthersKeep
    <3> QED BY <3>1, <2>1, <2>3, <1>4
  <2> QED BY <2>2, <2>3
<1>8. ~faults' => ~faults /\ ~Inserting(w) BY <1>2 DEF Inserting, Busy
<1> QED BY <1>2, <1>3, <1>4, <1>5, <1>7, <1>8, ForgetSafe

\* A second is over.
LEMMA TickSafe ==
    ASSUME TypeInv, SafeInv, Tick
    PROVE  TypeInv' /\ SafeInv'
<1>1. TypeOK /\ ShapeOK BY DEF TypeInv
<1>2. /\ clock < MaxClock /\ clock' = clock + 1
      /\ UNCHANGED <<db, lock, txn, conn, snap, pc, call, todo, prev, calls, faults>>
  BY DEF Tick, dbVars, callVars
<1>3. ConnTypes /\ CallTypes BY <1>1, <1>2 DEF TypeOK, ConnTypes, CallTypes
<1>4. clock \in Nat /\ MaxClock \in Nat /\ clock' \in Times
  BY <1>1, <1>2, RegistryAssumption DEF TypeOK, Times
<1>5. RestTypes
  <2>1. get_active(db) \in Keys \cup {NoKey} BY <1>1, GetActiveType DEF TypeOK
  <2>2. held' \in [Times -> Keys \cup {NoKey}] BY <2>1, <1>1 DEF Tick, TypeOK
  <2>3. calm' \in BOOLEAN BY DEF Tick
  <2> QED BY <2>2, <2>3, <1>1, <1>2, <1>4 DEF TypeOK, RestTypes
<1>6. ShapeOK'
  <2> SUFFICES ASSUME NEW v \in Workers, Busy(v) PROVE call[v].now <= clock'
    BY <1>1, <1>2 DEF ShapeOK, Busy, Inserting, Activation, Retirement
  <2>1. call[v] \in Call /\ call[v].now <= clock BY <1>1 DEF ShapeOK
  <2>2. call[v].now \in Nat BY <2>1 DEF Call, Times
  <2> QED BY <2>1, <2>2, <1>2, <1>4
<1>7. SafeInv'
  <2>1. Chained(db)' BY <1>2 DEF SafeInv
  <2>2. SnapshotsAreOld' BY <1>2 DEF SafeInv, SnapshotsAreOld
  <2>3. LockDiscipline' BY <1>2 DEF SafeInv, LockDiscipline
  <2>4. DraftInv' BY <1>2 DEF SafeInv, DraftInv
  <2>5. RotationInv' BY <1>2 DEF SafeInv, RotationInv, Inserting
  <2> QED BY <2>1, <2>2, <2>3, <2>4, <2>5 DEF SafeInv
<1> QED BY <1>3, <1>5, <1>6, <1>7, TypeParts

-----------------------------------------------------------------------------
(* The step that commits a row.                                            *)

\* What a commit does: the row goes to the end of the registry, and the worker
\* goes on to the second row of a rotation or is done.
LEMMA CommitIs ==
    ASSUME TypeInv, SafeInv, NEW w \in Workers, CommitRow(w)
    PROVE  /\ lock = w /\ pc[w] = "commit" /\ Inserting(w) /\ lock' = NoWorker
           /\ UNCHANGED <<clock, calls, held, calm, faults>>
           /\ Head(todo[w]) \in Content
           /\ db' \in Seq(Row) /\ Len(db) \in Nat /\ Len(db') = Len(db) + 1
           /\ db'[Len(db) + 1] = NewRow(Head(todo[w]), prev[w])
           /\ db'[Len(db) + 1].content = Head(todo[w])
           /\ \A n \in 1 .. Len(db) : db'[n] = db[n]
           /\ OthersKeep(w)
           /\ \A v \in Workers \ {w} : pc[v] # "commit"
           /\ \A v \in Workers :
                 /\ conn'[v] = IF v = w THEN "closed"
                               ELSE IF conn[v] = "pinned" THEN "stale" ELSE conn[v]
                 /\ snap'[v] = IF v # w /\ conn[v] = "pinned" THEN db ELSE snap[v]
           /\ \/ /\ todo[w] = <<Activation(call[w])>> /\ Head(todo[w]) = Activation(call[w])
                 /\ Forget(w) /\ pc'[w] = "idle"
              \/ /\ pc'[w] = "prev" /\ todo'[w] = <<Activation(call[w])>>
                 /\ call'[w] = call[w] /\ prev'[w] = prev[w]
                 /\ \E active \in Content :
                       /\ todo[w] = <<Retirement(active, call[w]), Activation(call[w])>>
                       /\ Head(todo[w]) = Retirement(active, call[w])
<1>1. TypeOK /\ ShapeOK BY DEF TypeInv
<1>2. /\ pc[w] = "commit" /\ Commit(w) /\ lock = w
      /\ UNCHANGED <<clock, calls, held, calm, faults>>
  BY DEF CommitRow, Commit, ghosts
<1>3. Inserting(w) BY <1>2 DEF Inserting
<1> DEFINE row == NewRow(Head(todo[w]), prev[w])
<1>4. db' = Append(db, row) BY <1>2 DEF Commit, SafeInv, LockDiscipline
<1>5. Head(todo[w]) \in Content /\ row \in Row BY <1>3, TodoIs
<1>6. row.content = Head(todo[w]) BY DEF NewRow
<1>7. db \in Seq(Row) /\ Len(db) \in Nat BY <1>1 DEF TypeOK
<1> HIDE DEF row
<1>8. /\ db' \in Seq(Row) /\ Len(db') = Len(db) + 1 /\ db'[Len(db) + 1] = row
      /\ \A n \in 1 .. Len(db) : db'[n] = db[n]
  BY <1>4, <1>5, <1>7, AppendProperties
<1>9. \A v \in Workers \ {w} : pc[v] # "commit" BY <1>2 DEF SafeInv, LockDiscipline
<1>10. /\ lock' = NoWorker
       /\ \A v \in Workers :
             /\ conn'[v] = IF v = w THEN "closed"
                           ELSE IF conn[v] = "pinned" THEN "stale" ELSE conn[v]
             /\ snap'[v] = IF v # w /\ conn[v] = "pinned" THEN db ELSE snap[v]
  BY <1>2 DEF Commit, Release
<1>11. CASE todo[w] = <<Activation(call[w])>>
  <2>1. Len(todo[w]) = 1 /\ Head(todo[w]) = Activation(call[w]) BY <1>11
  <2>2. Forget(w) BY <2>1 DEF CommitRow
  <2>3. pc'[w] = "idle" /\ OthersKeep(w) BY <2>2, <1>1, ForgetSteps
  <2> QED BY <2>1, <2>2, <2>3, <1>2, <1>3, <1>5, <1>6, <1>7, <1>8, <1>9, <1>10, <1>11 DEF row
<1>12. CASE todo[w] # <<Activation(call[w])>>
  <2>1. /\ Len(todo[w]) = 2 /\ Tail(todo[w]) = <<Activation(call[w])>>
        /\ \E active \in Content :
              /\ todo[w] = <<Retirement(active, call[w]), Activation(call[w])>>
              /\ Head(todo[w]) = Retirement(active, call[w])
    BY <1>3, <1>12, TodoIs
  <2>2. /\ todo' = [todo EXCEPT ![w] = Tail(@)] /\ pc' = [pc EXCEPT ![w] = "prev"]
        /\ UNCHANGED <<call, prev>>
    BY <2>1 DEF CommitRow, Goto
  <2>3. /\ pc'[w] = "prev" /\ todo'[w] = <<Activation(call[w])>>
        /\ call'[w] = call[w] /\ prev'[w] = prev[w] /\ OthersKeep(w)
    BY <2>1, <2>2, <1>1 DEF TypeOK, OthersKeep
  <2> QED BY <2>1, <2>3, <1>2, <1>3, <1>5, <1>6, <1>7, <1>8, <1>9, <1>10 DEF row
<1> QED BY <1>11, <1>12

\* A commit keeps the types.
LEMMA CommitType ==
    ASSUME TypeInv, SafeInv, NEW w \in Workers, CommitRow(w)
    PROVE  TypeInv'
<1>1. TypeOK /\ ShapeOK BY DEF TypeInv
<1>2. ConnTypes BY <1>1, ConnType DEF CommitRow
<1>3. RestTypes BY <1>1, CommitIs DEF TypeOK, RestTypes
<1>4. OthersKeep(w) /\ clock' = clock BY CommitIs
<1>5. CASE Forget(w)
  <2>1. CallTypes /\ pc'[w] = "idle" BY <1>1, <1>5, ForgetSteps
  <2>2. ~Busy(w)' /\ ~Inserting(w)' BY <2>1 DEF Busy, Inserting
  <2>3. ShapeOK' BY <2>2, <1>4, ShapeSteps
  <2> QED BY <2>1, <2>3, <1>2, <1>3, TypeParts
<1>6. CASE ~Forget(w)
  <2>1. /\ pc'[w] = "prev" /\ todo'[w] = <<Activation(call[w])>> /\ call'[w] = call[w]
        /\ Inserting(w)
    BY <1>6, CommitIs
  <2>2. /\ todo' = [todo EXCEPT ![w] = Tail(@)] /\ pc' = [pc EXCEPT ![w] = "prev"]
        /\ UNCHANGED <<call, prev>>
    BY <1>6 DEF CommitRow, Goto
  <2>3. call[w] \in Call /\ call[w].now <= clock BY <2>1, TodoIs
  <2>4. todo'[w] \in Seq(Content)
    <3>1. Activation(call[w]) \in Content BY <2>3, ActivationType
    <3> QED BY <3>1, <2>1
  <2>5. CallTypes BY <2>2, <2>4, <1>1 DEF TypeOK, CallTypes
  <2>6. ShapeOK' BY <2>1, <2>3, <1>4, ShapeSteps
  <2> QED BY <2>5, <2>6, <1>2, <1>3, TypeParts
<1> QED BY <1>5, <1>6

\* A commit keeps the safe part of the invariant.
LEMMA CommitSafe ==
    ASSUME TypeInv, SafeInv, NEW w \in Workers, CommitRow(w)
    PROVE  SafeInv'
<1>1. TypeOK /\ ShapeOK BY DEF TypeInv
<1> DEFINE len == Len(db)
           row == NewRow(Head(todo[w]), prev[w])
<1>2. /\ lock = w /\ pc[w] = "commit" /\ Inserting(w) /\ lock' = NoWorker
      /\ faults' = faults
      /\ db' \in Seq(Row) /\ len \in Nat /\ Len(db') = len + 1
      /\ db'[len + 1] = row /\ db'[len + 1].content = Head(todo[w])
      /\ \A n \in 1 .. len : db'[n] = db[n]
      /\ OthersKeep(w) /\ Head(todo[w]) \in Content
      /\ \A v \in Workers \ {w} : pc[v] # "commit"
  BY CommitIs
<1>3. db \in Seq(Row) BY <1>1 DEF TypeOK
<1>4. Known(db) \subseteq Known(db')
  <2>1. {db[j].chain_hash : j \in 1 .. len} \subseteq {db'[j].chain_hash : j \in 1 .. len + 1}
    BY <1>2
  <2> QED BY <2>1, <1>2 DEF Known
<1>5. prev[w] \in Known(db) /\ prev[w] \in Seq(Content)
  BY <1>1, <1>2 DEF SafeInv, DraftInv, TypeOK
<1>6. RowVerifies(row, prev[w]) BY <1>2, <1>5, NewRowType
<1> HIDE DEF row, len
<1>7. Chained(db')
  <2> SUFFICES ASSUME NEW n \in 1 .. len + 1
               PROVE  \E h \in {KEY_REGISTRY_GENESIS} \cup
                               {db'[j].chain_hash : j \in 1 .. n - 1} :
                          RowVerifies(db'[n], h)
    BY <1>2 DEF Chained
  <2>1. {db'[j].chain_hash : j \in 1 .. n - 1} = {db[j].chain_hash : j \in 1 .. n - 1}
    <3>1. \A j \in 1 .. n - 1 : db'[j] = db[j] BY <1>2
    <3> QED BY <3>1
  <2>2. CASE n = len + 1
    <3>1. 1 .. n - 1 = 1 .. len BY <2>2, <1>2
    <3> QED BY <2>1, <2>2, <3>1, <1>2, <1>5, <1>6 DEF Known, len
  <2>3. CASE n # len + 1
    <3>1. n \in 1 .. len BY <2>3, <1>2
    <3>2. db'[n] = db[n] BY <3>1, <1>2
    <3> QED BY <2>1, <3>1, <3>2 DEF SafeInv, Chained, len
  <2> QED BY <2>2, <2>3
<1>8. SnapshotsAreOld'
  <2> SUFFICES ASSUME NEW v \in Workers, conn'[v] = "stale" PROVE Grown(snap'[v], db')
    BY DEF SnapshotsAreOld
  <2>0. /\ conn'[v] = IF v = w THEN "closed"
                      ELSE IF conn[v] = "pinned" THEN "stale" ELSE conn[v]
        /\ snap'[v] = IF v # w /\ conn[v] = "pinned" THEN db ELSE snap[v]
    BY CommitIs
  <2>1. snap'[v] = db \/ (snap'[v] = snap[v] /\ Grown(snap[v], db))
    BY <2>0 DEF SafeInv, SnapshotsAreOld
  <2>2. Grown(db, db') BY <1>2, <1>3 DEF Grown, len
  <2>3. ASSUME Grown(snap[v], db) PROVE Grown(snap[v], db')
    <3>1. snap[v] \in Seq(Row) /\ Len(snap[v]) \in Nat BY <1>1 DEF TypeOK
    <3> QED BY <3>1, <2>2, <2>3, <1>2, <1>3 DEF Grown, len
  <2> QED BY <2>1, <2>2, <2>3
<1>9. \A v \in Workers : pc'[v] # "commit" /\ lock' # v
  <2>1. pc'[w] # "commit" BY CommitIs
  <2> QED BY <2>1, <1>2, RegistryAssumption DEF OthersKeep
<1>10. LockDiscipline' BY <1>9 DEF LockDiscipline
<1>11. DraftInv'
  <2>1. pc'[w] \notin {"insert", "commit"} BY CommitIs
  <2> SUFFICES ASSUME NEW v \in Workers \ {w}, pc'[v] \in {"insert", "commit"}
               PROVE  prev'[v] \in Known(db')
    BY <2>1 DEF DraftInv
  <2>2. pc'[v] = pc[v] /\ prev'[v] = prev[v] BY <1>2 DEF OthersKeep
  <2> QED BY <2>2, <1>4 DEF SafeInv, DraftInv
<1>12. RotationInv'
  <2> SUFFICES ASSUME ~faults, NEW n \in 1 .. len + 1, db'[n].content.status = "retired",
                      ~\E m \in n + 1 .. len + 1 : Succeeds(db'[m].content, db'[n].content)
               PROVE  \E v \in Workers :
                         /\ Inserting(v)'
                         /\ todo'[v] = <<Activation(call'[v])>>
                         /\ Succeeds(Activation(call'[v]), db'[n].content)
    BY <1>2 DEF RotationInv, Succeeds, Activation
  <2>1. CASE n = len + 1
    <3>1. Head(todo[w]).status = "retired" BY <2>1, <1>2
    <3>2. Head(todo[w]) # Activation(call[w]) BY <3>1 DEF Activation
    <3>3. /\ pc'[w] = "prev" /\ todo'[w] = <<Activation(call[w])>> /\ call'[w] = call[w]
          /\ \E active \in Content : Head(todo[w]) = Retirement(active, call[w])
      BY <3>2, CommitIs
    <3>4. PICK active \in Content : Head(todo[w]) = Retirement(active, call[w]) BY <3>3
    <3>5. Succeeds(Activation(call[w]), Retirement(active, call[w]))
      BY DEF Succeeds, Activation, Retirement, Content
    <3> QED BY <3>3, <3>4, <3>5, <2>1, <1>2 DEF Inserting
  <2>2. CASE n # len + 1
    <3>1. n \in 1 .. len /\ db'[n] = db[n] BY <2>2, <1>2
    <3>2. ~\E m \in n + 1 .. len : Succeeds(db[m].content, db[n].content)
      <4> SUFFICES ASSUME NEW m \in n + 1 .. len, Succeeds(db[m].content, db[n].content)
                   PROVE  FALSE
        OBVIOUS
      <4>1. m \in n + 1 .. len + 1 /\ m \in 1 .. len BY <3>1, <1>2
      <4> QED BY <4>1, <3>1, <1>2
    <3>3. PICK v \in Workers :
            /\ Inserting(v)
            /\ todo[v] = <<Activation(call[v])>>
            /\ Succeeds(Activation(call[v]), db[n].content)
      BY <3>1, <3>2 DEF SafeInv, RotationInv, len
    <3>4. v # w
      <4> SUFFICES ASSUME v = w PROVE FALSE OBVIOUS
      <4>1. Head(todo[w]) = Activation(call[w]) BY <3>3
      <4>2. Succeeds(db'[len + 1].content, db'[n].content) BY <4>1, <3>1, <3>3, <1>2
      <4>3. len + 1 \in n + 1 .. len + 1 BY <3>1, <1>2
      <4> QED BY <4>2, <4>3
    <3>5. pc'[v] = pc[v] /\ todo'[v] = todo[v] /\ call'[v] = call[v]
      BY <3>4, <1>2 DEF OthersKeep
    <3> QED BY <3>1, <3>3, <3>5 DEF Inserting
  <2> QED BY <2>1, <2>2
<1> QED BY <1>7, <1>8, <1>10, <1>11, <1>12 DEF SafeInv

-----------------------------------------------------------------------------
(* Answers about the past.                                                 *)

\* One row more does not change which row of a key and a status is the first,
\* unless it is the first.
LEMMA FirstKeeps ==
    ASSUME NEW rows \in Seq(Row), NEW more \in Seq(Row), Len(more) = Len(rows) + 1,
           \A n \in 1 .. Len(rows) : more[n] = rows[n], NEW k, NEW status
    PROVE  /\ RowsOf(rows, k, status) # {} =>
                 /\ RowsOf(more, k, status) # {}
                 /\ First(more, RowsOf(more, k, status)) = First(rows, RowsOf(rows, k, status))
           /\ (RowsOf(rows, k, status) = {} /\ RowsOf(more, k, status) # {}) =>
                 /\ First(more, RowsOf(more, k, status)) = more[Len(rows) + 1].content
                 /\ more[Len(rows) + 1].content.status = status
<1> DEFINE old == RowsOf(rows, k, status)
           new == RowsOf(more, k, status)
<1>1. /\ Len(rows) \in Nat /\ DOMAIN rows = 1 .. Len(rows)
      /\ DOMAIN more = 1 .. Len(rows) + 1
  OBVIOUS
<1>2. old \subseteq 1 .. Len(rows) /\ new \subseteq 1 .. Len(rows) + 1
  BY <1>1 DEF RowsOf
<1>a. old \subseteq Nat /\ new \subseteq Nat BY <1>1, <1>2
<1>3. old \subseteq new /\ \A n \in new : n \in old \/ n = Len(rows) + 1
  BY <1>1 DEF RowsOf
<1>4. \A n \in new : more[n].content.status = status BY DEF RowsOf
<1> HIDE DEF old, new
<1>5. ASSUME old # {}
      PROVE  new # {} /\ First(more, new) = First(rows, old)
  <2>1. Min(old) \in old /\ \A n \in old : Min(old) <= n BY <1>a, <1>5, MinIs
  <2>2. new # {} BY <2>1, <1>3
  <2>3. Min(new) \in new /\ \A n \in new : Min(new) <= n BY <2>2, <1>a, MinIs
  <2>4. Min(new) = Min(old)
    <3>1. Min(new) <= Min(old) BY <2>1, <2>3, <1>3
    <3>2. Min(old) \in 1 .. Len(rows) /\ Min(new) \in 1 .. Len(rows) + 1
      BY <2>1, <2>3, <1>2
    <3>3. Min(new) # Len(rows) + 1 BY <3>1, <3>2, <1>1
    <3>4. Min(old) <= Min(new) BY <3>3, <2>1, <2>3, <1>3
    <3> QED BY <3>1, <3>2, <3>4, <1>1
  <2>5. more[Min(new)] = rows[Min(old)] BY <2>1, <2>4, <1>2
  <2> QED BY <2>2, <2>5 DEF First
<1>6. ASSUME old = {}, new # {}
      PROVE  /\ First(more, new) = more[Len(rows) + 1].content
             /\ more[Len(rows) + 1].content.status = status
  <2>1. Min(new) \in new BY <1>a, <1>6, MinIs
  <2>2. Min(new) = Len(rows) + 1 BY <2>1, <1>3, <1>6
  <2> QED BY <2>1, <2>2, <1>4 DEF First
<1> QED BY <1>5, <1>6 DEF old, new

\* A row about a later time does not change the answer about time t.
LEMMA LaterRows ==
    ASSUME NEW rows \in Seq(Row), NEW more \in Seq(Row), Len(more) = Len(rows) + 1,
           \A n \in 1 .. Len(rows) : more[n] = rows[n],
           NEW t \in Times, TimeOf(more[Len(rows) + 1].content) > t,
           NEW k \in Keys
    PROVE  was_active_at(more, k, t) = was_active_at(rows, k, t)
<1> DEFINE reg == RowsOf(rows, k, "active")
           reg2 == RowsOf(more, k, "active")
           ret == RowsOf(rows, k, "retired")
           ret2 == RowsOf(more, k, "retired")
           last == more[Len(rows) + 1].content
           Registered == reg # {} /\ First(rows, reg).registered_at <= t
           Registered2 == reg2 # {} /\ First(more, reg2).registered_at <= t
           Current == ret = {} \/ First(rows, ret).retired_at > t
           Current2 == ret2 = {} \/ First(more, ret2).retired_at > t
<1>0. last \in Content
  <2>1. Len(rows) \in Nat /\ Len(rows) + 1 \in 1 .. Len(more) OBVIOUS
  <2>2. more[Len(rows) + 1] \in Row BY <2>1
  <2> QED BY <2>2 DEF Row
<1>1. /\ reg # {} => reg2 # {} /\ First(more, reg2) = First(rows, reg)
      /\ (reg = {} /\ reg2 # {}) => First(more, reg2) = last /\ last.status = "active"
  BY FirstKeeps
<1>2. /\ ret # {} => ret2 # {} /\ First(more, ret2) = First(rows, ret)
      /\ (ret = {} /\ ret2 # {}) => First(more, ret2) = last /\ last.status = "retired"
  BY FirstKeeps
<1>3. was_active_at(rows, k, t) = (Registered /\ Current)
      /\ was_active_at(more, k, t) = (Registered2 /\ Current2)
  BY DEF was_active_at
<1>a. t \in Nat /\ last.registered_at \in Nat BY <1>0 DEF Times, Content
<1>b. last.status = "active" => ~(last.registered_at <= t) BY <1>a DEF TimeOf
<1>c. last.status = "retired" => last.retired_at > t BY DEF TimeOf
<1> HIDE DEF reg, reg2, ret, ret2, last
<1>4. Registered2 <=> Registered
  <2>1. CASE reg # {} BY <2>1, <1>1
  <2>2. CASE reg = {} BY <2>2, <1>1, <1>b
  <2> QED BY <2>1, <2>2
<1>5. Current2 <=> Current
  <2>1. CASE ret # {} BY <2>1, <1>2
  <2>2. CASE ret = {} BY <2>2, <1>2, <1>c
  <2> QED BY <2>1, <2>2
<1> HIDE DEF Registered, Registered2, Current, Current2
<1>6. (Registered2 /\ Current2) = (Registered /\ Current)
  <2>1. CASE Registered /\ Current BY <2>1, <1>4, <1>5
  <2>2. CASE ~(Registered /\ Current)
    <3>1. ~(Registered2 /\ Current2) BY <2>2, <1>4, <1>5
    <3> QED BY <2>2, <3>1
  <2> QED BY <2>1, <2>2
<1> QED BY <1>3, <1>6

\* The time of the row that a worker commits is the time its call began.
LEMMA CommittedTime ==
    ASSUME TypeInv, SafeInv, NEW w \in Workers, CommitRow(w)
    PROVE  /\ TimeOf(db'[Len(db) + 1].content) = call[w].now
           /\ Busy(w)
<1>1. /\ db'[Len(db) + 1].content = Head(todo[w]) /\ pc[w] = "commit"
      /\ \/ Head(todo[w]) = Activation(call[w])
         \/ \E active \in Content : Head(todo[w]) = Retirement(active, call[w])
  BY CommitIs
<1>2. TimeOf(Activation(call[w])) = call[w].now BY DEF TimeOf, Activation
<1>3. ASSUME NEW active \in Content
      PROVE  TimeOf(Retirement(active, call[w])) = call[w].now
  BY DEF TimeOf, Retirement, Content
<1> QED BY <1>1, <1>2, <1>3 DEF Busy

\* A step leaves the answers about settled seconds alone.
LEMMA StepSettles ==
    ASSUME TypeInv, SafeInv, [Next]_vars, NEW k \in Keys, NEW t \in Times,
           \A w \in Workers : Busy(w) => call[w].now > t
    PROVE  was_active_at(db', k, t) = was_active_at(db, k, t)
<1>1. ASSUME db' = db PROVE was_active_at(db', k, t) = was_active_at(db, k, t) BY <1>1
<1>2. ASSUME NEW w \in Workers, CommitRow(w)
      PROVE  was_active_at(db', k, t) = was_active_at(db, k, t)
  <2>1. TimeOf(db'[Len(db) + 1].content) > t BY <1>2, CommittedTime
  <2>2. db \in Seq(Row) BY DEF TypeInv, TypeOK
  <2>3. /\ db' \in Seq(Row) /\ Len(db') = Len(db) + 1
        /\ \A n \in 1 .. Len(db) : db'[n] = db[n]
    BY <1>2, CommitIs
  <2> QED BY <2>1, <2>2, <2>3, LaterRows
<1>3. CASE UNCHANGED vars BY <1>1, <1>3 DEF vars, dbVars
<1>4. CASE Next
  <2>1. db' = db \/ \E w \in Workers : CommitRow(w)
    BY <1>4 DEF Next, Begin, SelectExisting, SelectActive, SelectPrevious, InsertRow,
                InsertFails, ReadRegistry, Crash, Tick, Read, Write, WriteFails, Rollback,
                dbVars
  <2> QED BY <2>1, <1>1, <1>2
<1> QED BY <1>3, <1>4

-----------------------------------------------------------------------------
(* The safe part holds.                                                    *)

\* Nothing is registered at first.
LEMMA InitSafe == Init => TypeInv /\ SafeInv
<1> SUFFICES ASSUME Init PROVE TypeInv /\ SafeInv OBVIOUS
<1>1. db = <<>> /\ db \in Seq(Row) /\ Len(db) = 0 BY DEF Init, EmptyDb
<1>2. \A w \in Workers : pc[w] = "idle" /\ conn[w] = "closed" /\ lock # w
  BY RegistryAssumption DEF Init
<1>3. SafeInv
  <2>1. Chained(db) BY <1>1 DEF Chained
  <2>2. SnapshotsAreOld /\ LockDiscipline /\ DraftInv
    BY <1>2 DEF SnapshotsAreOld, LockDiscipline, DraftInv
  <2>3. RotationInv BY <1>1 DEF RotationInv
  <2> QED BY <2>1, <2>2, <2>3 DEF SafeInv
<1>4. ShapeOK BY <1>2 DEF ShapeOK, Busy, Inserting
<1>5. TypeOK
  <2>1. EmptyDb \in Seq(Row) /\ <<>> \in Seq(Content) BY DEF EmptyDb
  <2>2. 0 \in Times BY RegistryAssumption DEF Times
  <2>3. /\ conn \in [Workers -> ConnStates] /\ snap \in [Workers -> Seq(Row)]
        /\ pc \in [Workers -> {"idle", "existing", "active", "prev", "insert", "commit"}]
        /\ call \in [Workers -> Call \cup {NoCall}]
        /\ todo \in [Workers -> Seq(Content)] /\ prev \in [Workers -> Seq(Content)]
        /\ held \in [Times -> Keys \cup {NoKey}]
    BY <2>1 DEF Init, ConnStates, KEY_REGISTRY_GENESIS
  <2> QED BY <2>1, <2>2, <2>3 DEF Init, TypeOK
<1> QED BY <1>3, <1>4, <1>5 DEF TypeInv

\* Every step keeps it.
LEMMA NextSafe == TypeInv /\ SafeInv /\ [Next]_vars => TypeInv' /\ SafeInv'
<1> SUFFICES ASSUME TypeInv, SafeInv, [Next]_vars PROVE TypeInv' /\ SafeInv' OBVIOUS
<1>1. CASE UNCHANGED vars
  <2>0. UNCHANGED <<db, lock, txn, conn, snap, pc, call, todo, prev, clock, calls, held,
                    calm, faults>>
    BY <1>1 DEF vars, dbVars, callVars, ghosts
  <2>1. TypeOK' BY <2>0 DEF TypeInv, TypeOK
  <2>2. ShapeOK' BY <2>0 DEF TypeInv, ShapeOK, Busy, Inserting
  <2>3. Chained(db)' BY <2>0 DEF SafeInv
  <2>4. SnapshotsAreOld' BY <2>0 DEF SafeInv, SnapshotsAreOld
  <2>5. LockDiscipline' BY <2>0 DEF SafeInv, LockDiscipline
  <2>6. DraftInv' BY <2>0 DEF SafeInv, DraftInv
  <2>7. RotationInv' BY <2>0 DEF SafeInv, RotationInv, Inserting
  <2> QED BY <2>1, <2>2, <2>3, <2>4, <2>5, <2>6, <2>7 DEF TypeInv, SafeInv
<1>2. CASE Next
  BY <1>2, BeginSafe, SelectExistingSafe, SelectActiveSafe, SelectPreviousSafe,
     InsertRowSafe, InsertFailsSafe, CommitType, CommitSafe, ReadRegistrySafe, CrashSafe,
     TickSafe DEF Next
<1> QED BY <1>1, <1>2

\* The safe part of the invariant is an invariant.
THEOREM SafeInvariant == Spec => [](TypeInv /\ SafeInv)
BY InitSafe, NextSafe, PTL DEF Spec

\* However calls race, fail and die, every row of the registry hashes its content
\* and continues genesis or an earlier row.
THEOREM RegistryIsChained == Spec => []RegistryInv
<1>1. TypeInv /\ SafeInv => RegistryInv
  <2> SUFFICES ASSUME TypeInv, SafeInv PROVE RegistryInv OBVIOUS
  <2>1. DOMAIN db = 1 .. Len(db) BY DEF TypeInv, TypeOK
  <2>2. RowsAreChained BY <2>1 DEF SafeInv, Chained, RowsAreChained
  <2> QED BY <2>2 DEF RegistryInv, TypeInv
<1> QED BY <1>1, SafeInvariant, PTL

\* A retirement is left without the successor it names only by a call that failed
\* or died half-way; interleavings of rotations never do.
THEOREM RotationsAreCompleted == Spec => []RotationsComplete
<1>1. TypeInv /\ SafeInv => RotationsComplete
  <2> SUFFICES ASSUME TypeInv, SafeInv, ~faults, \A w \in Workers : ~Busy(w),
                      NEW n \in DOMAIN db, db[n].content.status = "retired"
               PROVE  \E m \in n + 1 .. Len(db) : Succeeds(db[m].content, db[n].content)
    BY DEF RotationsComplete, Succeeds
  <2>1. n \in 1 .. Len(db) BY DEF TypeInv, TypeOK
  <2>2. \A w \in Workers : ~Inserting(w) BY DEF Busy, Inserting
  <2> QED BY <2>1, <2>2 DEF SafeInv, RotationInv
<1> QED BY <1>1, SafeInvariant, PTL

\* Once a second is over and the calls that began by then have ended, nothing
\* changes the answers of was_active_at about it.
THEOREM AnswersAreFinal == Spec => PastIsSettled
<1>1. TypeInv /\ SafeInv /\ [Next]_vars =>
        [\A k \in Keys, t \in Times :
            (t < clock /\ \A w \in Workers : Busy(w) => call[w].now > t) =>
                was_active_at(db', k, t) = was_active_at(db, k, t)]_vars
  BY StepSettles
<1> QED BY <1>1, SafeInvariant, PTL DEF Spec, PastIsSettled

-----------------------------------------------------------------------------
(* The history of a calm registry.                                         *)

\* Every row has a time.
LEMMA TimeType ==
    ASSUME NEW rows \in Seq(Row)
    PROVE  \A n \in 1 .. Len(rows) : TimeOf(rows[n].content) \in Nat
<1> SUFFICES ASSUME NEW n \in 1 .. Len(rows) PROVE TimeOf(rows[n].content) \in Nat
  OBVIOUS
<1>1. rows[n] \in Row OBVIOUS
<1>2. rows[n].content \in Content BY <1>1 DEF Row
<1>3. MaxClock \in Nat BY RegistryAssumption
<1> QED BY <1>2, <1>3 DEF Content, TimeOf, Times, NoTime

\* In a calm registry a key is retired by the row behind its registration only,
\* so that a key registered once is retired at most once.
LEMMA RetiredBehind ==
    ASSUME TypeInv, RowsCalm, RegisteredOnce, NEW k \in Keys,
           NEW i \in RowsOf(db, k, "active"), NEW r \in RowsOf(db, k, "retired")
    PROVE  r = i + 1
<1>1. db \in Seq(Row) BY DEF TypeInv, TypeOK
<1>2. Len(db) \in Nat /\ DOMAIN db = 1 .. Len(db) BY <1>1
<1>3. /\ r \in 1 .. Len(db) /\ db[r].content.status = "retired" /\ db[r].content.key_id = k
      /\ i \in 1 .. Len(db)
  BY <1>2 DEF RowsOf
<1>4. r # 1 BY <1>2, <1>3 DEF RowsCalm, Alternates
<1>5. r \in 2 .. Len(db) /\ r - 1 \in 1 .. Len(db) BY <1>2, <1>3, <1>4
<1>6. Follows(db[r].content, db[r - 1].content) BY <1>5 DEF RowsCalm, Alternates
<1>7. db[r - 1].content.status = "active" /\ db[r - 1].content.key_id = k
  BY <1>3, <1>6 DEF Follows
<1>8. r - 1 \in RowsOf(db, k, "active") BY <1>2, <1>5, <1>7 DEF RowsOf
<1>9. r - 1 = i BY <1>8 DEF RegisteredOnce
<1> QED BY <1>3, <1>5, <1>9

\* What was_active_at says of a key that is registered once.
LEMMA ActiveFromTo ==
    ASSUME TypeInv, RowsCalm, RegisteredOnce, NEW k \in Keys, NEW t \in Times,
           NEW i \in RowsOf(db, k, "active")
    PROVE  was_active_at(db, k, t) <=>
              /\ TimeOf(db[i].content) <= t
              /\ i + 1 \in 1 .. Len(db) => TimeOf(db[i + 1].content) > t
<1>1. db \in Seq(Row) BY DEF TypeInv, TypeOK
<1>2. Len(db) \in Nat /\ DOMAIN db = 1 .. Len(db) BY <1>1
<1>3. i \in 1 .. Len(db) /\ db[i].content.status = "active" /\ db[i].content.key_id = k
  BY <1>2 DEF RowsOf
<1> DEFINE reg == RowsOf(db, k, "active")
           ret == RowsOf(db, k, "retired")
<1>4. reg \subseteq Nat /\ ret \subseteq Nat BY <1>2 DEF RowsOf
<1>5. First(db, reg) = db[i].content
  <2>1. Min(reg) \in reg BY <1>4, MinIs
  <2>2. Min(reg) = i BY <2>1 DEF RegisteredOnce
  <2> QED BY <2>2 DEF First
<1>6. First(db, reg).registered_at = TimeOf(db[i].content) BY <1>3, <1>5 DEF TimeOf
<1>7. CASE i + 1 \in 1 .. Len(db)
  <2>1. i + 1 \in 2 .. Len(db) /\ (i + 1) - 1 = i BY <1>2, <1>3, <1>7
  <2>2. Follows(db[i + 1].content, db[(i + 1) - 1].content)
    BY <2>1 DEF RowsCalm, Alternates
  <2>3. db[i + 1].content.key_id = k /\ db[i + 1].content.status # "active"
    BY <2>1, <2>2, <1>3 DEF Follows
  <2>4. db[i + 1] \in Row BY <1>1, <1>7
  <2>5. db[i + 1].content.status = "retired" BY <2>3, <2>4 DEF Row, Content
  <2>6. i + 1 \in ret BY <2>3, <2>5, <1>2, <1>7 DEF RowsOf
  <2>7. Min(ret) \in ret BY <2>6, <1>4, MinIs
  <2>8. Min(ret) = i + 1 BY <2>7, RetiredBehind
  <2>9. First(db, ret).retired_at = TimeOf(db[i + 1].content)
    BY <2>5, <2>8 DEF First, TimeOf
  <2> HIDE DEF reg, ret
  <2>10. was_active_at(db, k, t) <=>
           /\ TimeOf(db[i].content) <= t
           /\ TimeOf(db[i + 1].content) > t
    <3>1. reg # {} /\ ret # {} BY <2>6 DEF reg
    <3>2. was_active_at(db, k, t) =
            (/\ reg # {} /\ First(db, reg).registered_at <= t
             /\ ret = {} \/ First(db, ret).retired_at > t)
      BY DEF was_active_at, reg, ret
    <3> QED BY <3>1, <3>2, <2>9, <1>6
  <2> QED BY <2>10, <1>7
<1>8. CASE i + 1 \notin 1 .. Len(db)
  <2>1. ret = {}
    <3> SUFFICES ASSUME NEW r \in ret PROVE FALSE OBVIOUS
    <3>1. r = i + 1 /\ r \in 1 .. Len(db) BY <1>2, RetiredBehind DEF RowsOf
    <3> QED BY <3>1, <1>8
  <2> HIDE DEF ret
  <2>2. reg # {} OBVIOUS
  <2> HIDE DEF reg
  <2>3. was_active_at(db, k, t) =
          (/\ reg # {} /\ First(db, reg).registered_at <= t
           /\ ret = {} \/ First(db, ret).retired_at > t)
    BY DEF was_active_at, reg, ret
  <2> QED BY <2>1, <2>2, <2>3, <1>6, <1>8
<1> QED BY <1>7, <1>8

\* The registry answers about past seconds what get_active answered then.
LEMMA CalmHistory ==
    ASSUME TypeInv, RowsCalm, RegisteredOnce, NEW k \in Keys, NEW t \in Times, t < clock
    PROVE  was_active_at(db, k, t) <=> held[t] = k
<1>1. db \in Seq(Row) BY DEF TypeInv, TypeOK
<1>2. Len(db) \in Nat /\ DOMAIN db = 1 .. Len(db) BY <1>1
<1>3. HeldInv(t) BY DEF RowsCalm
<1>t. t \in Nat /\ \A n \in 1 .. Len(db) : TimeOf(db[n].content) \in Nat
  BY <1>1, TimeType DEF Times
<1>4. CASE RowsOf(db, k, "active") = {}
  <2>1. ~was_active_at(db, k, t) BY <1>4 DEF was_active_at
  <2>2. held[t] # k
    <3> SUFFICES ASSUME held[t] = k PROVE FALSE OBVIOUS
    <3>1. k # NoKey BY RegistryAssumption
    <3>2. PICK m \in 1 .. Len(db) :
            db[m].content.status = "active" /\ db[m].content.key_id = k
      BY <3>1, <1>3 DEF HeldInv
    <3>3. m \in RowsOf(db, k, "active") BY <3>2, <1>2 DEF RowsOf
    <3> QED BY <3>3, <1>4
  <2> QED BY <2>1, <2>2
<1>5. ASSUME NEW i \in RowsOf(db, k, "active")
      PROVE  was_active_at(db, k, t) <=> held[t] = k
  <2>1. i \in 1 .. Len(db) /\ db[i].content.status = "active" /\ db[i].content.key_id = k
    BY <1>2 DEF RowsOf
  <2>2. was_active_at(db, k, t) <=>
              /\ TimeOf(db[i].content) <= t
              /\ i + 1 \in 1 .. Len(db) => TimeOf(db[i + 1].content) > t
    BY ActiveFromTo
  <2>3. CASE \A n \in 1 .. Len(db) : TimeOf(db[n].content) > t
    <3>1. ~(TimeOf(db[i].content) <= t) BY <2>1, <2>3, <1>t
    <3>2. held[t] = NoKey
      <4> SUFFICES ASSUME held[t] # NoKey PROVE FALSE OBVIOUS
      <4>1. PICK m \in 1 .. Len(db) : TimeOf(db[m].content) <= t BY <1>3 DEF HeldInv
      <4> QED BY <4>1, <2>3, <1>t
    <3>3. k # NoKey BY RegistryAssumption
    <3> QED BY <3>1, <3>2, <3>3, <2>2
  <2>4. CASE ~\A n \in 1 .. Len(db) : TimeOf(db[n].content) > t
    <3>1. PICK m \in 1 .. Len(db) :
             /\ db[m].content.status = "active"
             /\ db[m].content.key_id = held[t]
             /\ TimeOf(db[m].content) <= t
             /\ \A n \in m + 1 .. Len(db) : TimeOf(db[n].content) > t
      BY <2>4, <1>3 DEF HeldInv
    <3>2. ASSUME held[t] = k PROVE was_active_at(db, k, t)
      <4>1. m \in RowsOf(db, k, "active") BY <3>1, <3>2, <1>2 DEF RowsOf
      <4>2. m = i BY <4>1 DEF RegisteredOnce
      <4>3. i + 1 \in 1 .. Len(db) => i + 1 \in m + 1 .. Len(db) BY <4>2, <1>2
      <4> QED BY <4>2, <4>3, <3>1, <2>2
    <3>3. ASSUME was_active_at(db, k, t) PROVE held[t] = k
      <4> SUFFICES ASSUME held[t] # k PROVE FALSE OBVIOUS
      <4>1. /\ TimeOf(db[i].content) <= t
            /\ i + 1 \in 1 .. Len(db) => TimeOf(db[i + 1].content) > t
        BY <3>3, <2>2
      <4>2. i # m BY <3>1, <2>1
      <4>3. ~(i \in m + 1 .. Len(db)) BY <4>1, <3>1, <2>1, <1>t
      <4>4. i + 1 \in 1 .. Len(db) /\ i + 1 <= m BY <4>2, <4>3, <2>1, <1>2
      <4>5. TimeOf(db[i + 1].content) <= TimeOf(db[m].content)
        BY <4>4 DEF RowsCalm, Ordered
      <4> QED BY <4>1, <4>4, <4>5, <3>1, <1>t
    <3> QED BY <3>2, <3>3
  <2> QED BY <2>3, <2>4
<1> QED BY <1>4, <1>5

-----------------------------------------------------------------------------
(* Steps in a calm registry.                                               *)

Calm == calm /\ ~faults /\ CallsCalm /\ RowsCalm

\* The rows stay as they are.
LEMMA RowsStay ==
    ASSUME RowsCalm, UNCHANGED <<db, clock, held>>
    PROVE  RowsCalm'
<1>1. verify_chain(db)' /\ Alternates(db)' /\ Ordered(db)' BY DEF RowsCalm
<1>2. \A n \in 1 .. Len(db') : TimeOf(db'[n].content) <= clock' BY DEF RowsCalm
<1>3. \A t \in Times : t < clock' => HeldInv(t)' BY DEF RowsCalm, HeldInv
<1> QED BY <1>1, <1>2, <1>3 DEF RowsCalm, TimeOf

\* A step of the one worker that is busy, before and after it.
LEMMA OneWorker ==
    ASSUME NEW w \in Workers, OthersKeep(w), \A v \in Workers \ {w} : ~Busy(v),
           \A v \in Workers : conn'[v] = "closed",
           Busy(w)' => CalmCall(w)', ~Busy(w)' => EndsActive(db)'
    PROVE  CallsCalm'
<1>1. \A v \in Workers \ {w} : ~Busy(v)' BY DEF OthersKeep, Busy
<1>2. \A u, v \in Workers : Busy(u)' /\ Busy(v)' => u = v BY <1>1
<1>3. \A v \in Workers : Busy(v)' => CalmCall(v)' BY <1>1
<1> QED BY <1>2, <1>3 DEF CallsCalm

\* What is known of the worker that takes a step of a call.
LEMMA CalmWorker ==
    ASSUME TypeInv, Calm, NEW w \in Workers, Busy(w)
    PROVE  /\ \A v \in Workers \ {w} : ~Busy(v)
           /\ CalmCall(w)
           /\ \A v \in Workers : conn[v] = "closed"
           /\ View(w) = db
<1>1. \A v \in Workers : conn[v] = "closed" BY DEF Calm, CallsCalm
<1>2. View(w) = db BY <1>1 DEF View
<1> QED BY <1>1, <1>2 DEF Calm, CallsCalm

\* A call begins when none is under way.
LEMMA BeginCalm ==
    ASSUME TypeInv, Calm, NEW w \in Workers, Begin(w), calm', ~faults'
    PROVE  Calm'
<1>1. TypeOK BY DEF TypeInv
<1>2. PICK op \in Operations, k \in Keys :
        /\ call' = [call EXCEPT ![w] = [op |-> op, key |-> k, now |-> clock]]
        /\ pc' = [pc EXCEPT ![w] = IF op = "rotate_key" THEN "active" ELSE "existing"]
  BY DEF Begin, Goto
<1>3. /\ pc'[w] = IF op = "rotate_key" THEN "active" ELSE "existing"
      /\ call'[w] = [op |-> op, key |-> k, now |-> clock]
      /\ OthersKeep(w)
      /\ UNCHANGED <<db, conn, clock, held>>
      /\ \A v \in Workers : ~Busy(v)
  BY <1>1, <1>2 DEF Begin, TypeOK, OthersKeep, dbVars
<1>4. EndsActive(db) /\ \A v \in Workers : conn[v] = "closed"
  BY <1>3 DEF Calm, CallsCalm
<1>5. CalmCall(w)'
  <2>1. call'[w].now = clock' BY <1>3
  <2>2. ~Inserting(w)' /\ pc'[w] \notin {"insert", "commit"} BY <1>3 DEF Inserting
  <2>3. pc'[w] = "active" => call'[w].op # "register_or_update" BY <1>3
  <2>4. EndsActive(db)' BY <1>3, <1>4
  <2> QED BY <2>1, <2>2, <2>3, <2>4 DEF CalmCall
<1>6. Busy(w)' BY <1>3 DEF Busy
<1>7. CallsCalm' BY <1>3, <1>4, <1>5, <1>6, OneWorker
<1>8. RowsCalm' BY <1>3, RowsStay DEF Calm
<1> QED BY <1>7, <1>8 DEF Calm

\* The call ends with nothing to commit.
LEMMA ForgetCalm ==
    ASSUME TypeInv, Calm, NEW w \in Workers, Forget(w), Busy(w), ~Inserting(w), calm', ~faults',
           UNCHANGED <<db, clock, held>>, \A v \in Workers : conn'[v] = "closed"
    PROVE  Calm'
<1>1. pc'[w] = "idle" /\ OthersKeep(w) BY ForgetSteps DEF TypeInv
<1>2. \A v \in Workers \ {w} : ~Busy(v) BY CalmWorker
<1>3. EndsActive(db)' BY CalmWorker DEF CalmCall
<1>4. ~Busy(w)' BY <1>1 DEF Busy
<1>5. CallsCalm' BY <1>1, <1>2, <1>3, <1>4, OneWorker
<1>6. RowsCalm' BY RowsStay DEF Calm
<1> QED BY <1>5, <1>6 DEF Calm

\* The call looks for its key.
LEMMA SelectExistingCalm ==
    ASSUME TypeInv, Calm, NEW w \in Workers, SelectExisting(w)
    PROVE  Calm'
<1>1. TypeOK BY DEF TypeInv
<1>2. /\ pc[w] = "existing" /\ UNCHANGED <<clock, held, calm, faults>> /\ Read(w)
  BY DEF SelectExisting, ghosts
<1>3. Busy(w) /\ ~Inserting(w) BY <1>2 DEF Busy, Inserting
<1>4. /\ \A v \in Workers \ {w} : ~Busy(v)
      /\ CalmCall(w) /\ View(w) = db /\ \A v \in Workers : conn[v] = "closed"
  BY <1>3, CalmWorker
<1>5. db' = db /\ \A v \in Workers : conn'[v] = "closed" BY <1>1, <1>2, <1>4, ReadSteps
<1>6. calm' /\ ~faults' BY <1>2 DEF Calm
<1>7. CASE RowsOf(db, call[w].key, "active") # {}
  <2>1. Forget(w) BY <1>4, <1>7 DEF SelectExisting
  <2> QED BY <2>1, <1>2, <1>3, <1>5, <1>6, ForgetCalm
<1>8. CASE RowsOf(db, call[w].key, "active") = {}
  <2>1. pc'[w] = "active" /\ OthersKeep(w) /\ call'[w] = call[w]
    BY <1>1, <1>4, <1>8 DEF SelectExisting, Goto, TypeOK, OthersKeep
  <2>2. ~Inserting(w)' /\ Busy(w)' BY <2>1 DEF Inserting, Busy
  <2>3. EndsActive(db)' BY <1>3, <1>4, <1>5 DEF CalmCall
  <2>4. RowsOf(db', call'[w].key, "active") = {} BY <2>1, <1>5, <1>8
  <2>5. CalmCall(w)'
    BY <2>1, <2>2, <2>3, <2>4, <1>2, <1>4 DEF CalmCall
  <2>6. CallsCalm' BY <2>1, <2>2, <2>5, <1>4, <1>5, OneWorker
  <2>7. RowsCalm' BY <1>2, <1>5, RowsStay DEF Calm
  <2> QED BY <2>6, <2>7, <1>6 DEF Calm
<1> QED BY <1>7, <1>8

\* When the registry ends in an active row, that row is what the call retires.
LEMMA CalmTodo ==
    ASSUME NEW rows \in Seq(Row), EndsActive(rows), NEW c \in Call,
           c.op = "register_or_update" => RowsOf(rows, c.key, "active") = {}
    PROVE  \/ Len(rows) = 0 /\ RowsToInsert(rows, c) = <<Activation(c)>>
           \/ /\ Len(rows) > 0
              /\ RowsToInsert(rows, c) =
                     <<Retirement(rows[Len(rows)].content, c), Activation(c)>>
<1>1. Len(rows) \in Nat /\ DOMAIN rows = 1 .. Len(rows) OBVIOUS
<1>2. CASE Len(rows) = 0
  <2>1. ActiveRows(rows) = {} BY <1>1, <1>2 DEF ActiveRows
  <2> QED BY <2>1, <1>2 DEF RowsToInsert
<1>3. CASE Len(rows) > 0
  <2>1. Len(rows) \in 1 .. Len(rows) BY <1>1, <1>3
  <2>2. Len(rows) \in ActiveRows(rows) BY <2>1, <1>1, <1>3 DEF EndsActive, ActiveRows
  <2>3. PICK m \in 1 .. Len(rows) :
              /\ Latest(rows, ActiveRows(rows)) = rows[m].content
              /\ rows[m].content.status = "active"
              /\ \A n \in 1 .. Len(rows) : rows[n].content.status = "active" => n <= m
    BY <2>2, LatestActive
  <2>a. rows[Len(rows)].content.status = "active" BY <1>3 DEF EndsActive
  <2>b. Len(rows) <= m BY <2>a, <2>1, <2>3
  <2>c. \A a, b \in Nat : a <= b /\ b <= a => a = b OBVIOUS
  <2>d. m \in Nat /\ m <= Len(rows) BY <1>1
  <2>4. m = Len(rows) BY <2>b, <2>c, <2>d, <1>1, Zenon
  <2>5. ~(c.op = "register_or_update" /\ get_active(rows) = c.key)
    <3> SUFFICES ASSUME c.op = "register_or_update", get_active(rows) = c.key PROVE FALSE
      OBVIOUS
    <3>1. rows[m].content.key_id = c.key BY <2>2, <2>3 DEF get_active
    <3>2. m \in RowsOf(rows, c.key, "active") BY <3>1, <2>3, <1>1 DEF RowsOf
    <3> QED BY <3>2
  <2> QED BY <2>2, <2>3, <2>4, <2>5, <1>3 DEF RowsToInsert
<1> QED BY <1>1, <1>2, <1>3

\* The call looks for the tenant's active key.
LEMMA SelectActiveCalm ==
    ASSUME TypeInv, Calm, NEW w \in Workers, SelectActive(w)
    PROVE  Calm'
<1>1. TypeOK /\ ShapeOK BY DEF TypeInv
<1>2. /\ pc[w] = "active" /\ UNCHANGED <<clock, held, calm, faults>> /\ Read(w)
  BY DEF SelectActive, ghosts
<1>3. Busy(w) /\ ~Inserting(w) BY <1>2 DEF Busy, Inserting
<1>4. /\ \A v \in Workers \ {w} : ~Busy(v)
      /\ CalmCall(w) /\ View(w) = db /\ \A v \in Workers : conn[v] = "closed"
  BY <1>3, CalmWorker
<1>5. db' = db /\ \A v \in Workers : conn'[v] = "closed" BY <1>1, <1>2, <1>4, ReadSteps
<1>6. calm' /\ ~faults' BY <1>2 DEF Calm
<1>7. CASE call[w].op = "register_key" /\ ActiveRows(db) # {}
  <2>1. Forget(w) BY <1>4, <1>7 DEF SelectActive
  <2> QED BY <2>1, <1>2, <1>3, <1>5, <1>6, ForgetCalm
<1>8. CASE ~(call[w].op = "register_key" /\ ActiveRows(db) # {})
  <2> DEFINE rows == RowsToInsert(db, call[w])
  <2>1. /\ todo' = [todo EXCEPT ![w] = rows] /\ pc' = [pc EXCEPT ![w] = "prev"]
        /\ UNCHANGED <<call, prev>>
    BY <1>4, <1>8 DEF SelectActive, Goto
  <2>2. call[w] \in Call /\ db \in Seq(Row) /\ EndsActive(db)
    BY <1>1, <1>3, <1>4 DEF ShapeOK, TypeOK, CalmCall
  <2>3. call[w].op = "register_or_update" => RowsOf(db, call[w].key, "active") = {}
    BY <1>2, <1>4 DEF CalmCall
  <2>4. \/ Len(db) = 0 /\ rows = <<Activation(call[w])>>
        \/ /\ Len(db) > 0
           /\ rows = <<Retirement(db[Len(db)].content, call[w]), Activation(call[w])>>
    BY <2>2, <2>3, CalmTodo
  <2> HIDE DEF rows
  <2>5. pc'[w] = "prev" /\ OthersKeep(w) /\ call'[w] = call[w] /\ todo'[w] = rows
    BY <2>1, <1>1 DEF TypeOK, OthersKeep
  <2>6. Inserting(w)' /\ Busy(w)' BY <2>5 DEF Inserting, Busy
  <2>7. \/ /\ todo'[w] = <<Activation(call'[w])>>
           /\ Len(db') > 0 => /\ db'[Len(db')].content.status = "retired"
                              /\ db'[Len(db')].content.retired_at = clock'
        \/ /\ Len(db') > 0 /\ EndsActive(db')
           /\ todo'[w] = <<Retirement(db'[Len(db')].content, call'[w]), Activation(call'[w])>>
    <3>1. CASE Len(db) = 0 /\ rows = <<Activation(call[w])>>
      <4>1. ~(Len(db') > 0) BY <3>1, <1>5
      <4> QED BY <4>1, <3>1, <2>5
    <3>2. CASE Len(db) > 0
           /\ rows = <<Retirement(db[Len(db)].content, call[w]), Activation(call[w])>>
      BY <3>2, <2>2, <2>5, <1>5
    <3> QED BY <3>1, <3>2, <2>4
  <2>8. call'[w].now = clock' BY <2>5, <1>2, <1>4 DEF CalmCall
  <2>9. CalmCall(w)'
    BY <2>5, <2>6, <2>7, <2>8 DEF CalmCall, Activation, Retirement
  <2>10. CallsCalm' BY <2>5, <2>6, <2>9, <1>4, <1>5, OneWorker
  <2>11. RowsCalm' BY <1>2, <1>5, RowsStay DEF Calm
  <2> QED BY <2>10, <2>11, <1>6 DEF Calm
<1> QED BY <1>7, <1>8

\* _insert_row reads the hash to continue: the one the registry ends in.
LEMMA SelectPreviousCalm ==
    ASSUME TypeInv, Calm, NEW w \in Workers, SelectPrevious(w)
    PROVE  Calm'
<1>1. TypeOK BY DEF TypeInv
<1>2. /\ pc[w] = "prev" /\ UNCHANGED <<clock, held, calm, faults>> /\ Read(w)
  BY DEF SelectPrevious, ghosts
<1>3. Busy(w) /\ Inserting(w) BY <1>2 DEF Busy, Inserting
<1>4. /\ \A v \in Workers \ {w} : ~Busy(v)
      /\ CalmCall(w) /\ View(w) = db /\ \A v \in Workers : conn[v] = "closed"
  BY <1>3, CalmWorker
<1>5. db' = db /\ \A v \in Workers : conn'[v] = "closed" BY <1>1, <1>2, <1>4, ReadSteps
<1>6. /\ prev' = [prev EXCEPT ![w] = _prev_chain_hash(db)]
      /\ pc' = [pc EXCEPT ![w] = "insert"] /\ UNCHANGED <<call, todo>>
  BY <1>4 DEF SelectPrevious, Goto
<1>7. /\ pc'[w] = "insert" /\ OthersKeep(w) /\ call' = call /\ todo' = todo
      /\ prev'[w] = _prev_chain_hash(db')
  BY <1>1, <1>5, <1>6 DEF TypeOK, OthersKeep
<1>8. Inserting(w)' /\ Busy(w)' BY <1>7 DEF Inserting, Busy
<1>9. CalmCall(w)' BY <1>2, <1>3, <1>4, <1>5, <1>7, <1>8 DEF CalmCall
<1>10. CallsCalm' BY <1>4, <1>5, <1>7, <1>8, <1>9, OneWorker
<1>11. RowsCalm' BY <1>2, <1>5, RowsStay DEF Calm
<1> QED BY <1>10, <1>11, <1>2 DEF Calm

\* The INSERT opens the transaction that the COMMIT ends.
LEMMA InsertRowCalm ==
    ASSUME TypeInv, Calm, NEW w \in Workers, InsertRow(w)
    PROVE  Calm'
<1>1. TypeOK BY DEF TypeInv
<1>2. /\ pc[w] = "insert" /\ UNCHANGED <<clock, held, calm, faults, db, conn>>
      /\ pc' = [pc EXCEPT ![w] = "commit"] /\ UNCHANGED <<call, todo, prev>>
  BY DEF InsertRow, ghosts, Write, Goto
<1>3. Busy(w) /\ Inserting(w) BY <1>2 DEF Busy, Inserting
<1>4. /\ \A v \in Workers \ {w} : ~Busy(v)
      /\ CalmCall(w) /\ \A v \in Workers : conn'[v] = "closed"
  BY <1>2, <1>3, CalmWorker
<1>5. pc'[w] = "commit" /\ OthersKeep(w) BY <1>1, <1>2 DEF TypeOK, OthersKeep
<1>6. Inserting(w)' /\ Busy(w)' BY <1>5 DEF Inserting, Busy
<1>7. CalmCall(w)' BY <1>2, <1>3, <1>4, <1>5, <1>6 DEF CalmCall
<1>8. CallsCalm' BY <1>4, <1>5, <1>6, <1>7, OneWorker
<1>9. RowsCalm' BY <1>2, RowsStay DEF Calm
<1> QED BY <1>8, <1>9, <1>2 DEF Calm

\* A SELECT of a GET leaves the connection without a transaction.
LEMMA ReadRegistryCalm ==
    ASSUME TypeInv, Calm, NEW w \in Workers, ReadRegistry(w)
    PROVE  Calm'
<1>1. TypeOK BY DEF TypeInv
<1>2. /\ UNCHANGED <<clock, held, calm, faults, pc, call, todo, prev>> /\ Read(w)
  BY DEF ReadRegistry, ghosts, callVars
<1>3. /\ db' = db /\ \A v \in Workers : conn[v] = "closed" => conn'[v] = "closed"
  BY <1>1, <1>2, ReadSteps
<1>4. CallsCalm'
  BY <1>2, <1>3 DEF Calm, CallsCalm, CalmCall, Busy, Inserting
<1>5. RowsCalm' BY <1>2, <1>3, RowsStay DEF Calm
<1> QED BY <1>2, <1>4, <1>5 DEF Calm

\* An idle process that dies leaves nothing behind.
LEMMA CrashCalm ==
    ASSUME TypeInv, Calm, NEW w \in Workers, Crash(w), calm', ~faults'
    PROVE  Calm'
<1>1. TypeOK BY DEF TypeInv
<1>2. /\ UNCHANGED <<clock, held, db>> /\ ~Busy(w) /\ Forget(w)
      /\ conn' = [conn EXCEPT ![w] = "closed"]
  BY DEF Crash, Rollback
<1>3. pc'[w] = "idle" /\ OthersKeep(w) BY <1>1, <1>2, ForgetSteps
<1>4. \A v \in Workers : conn'[v] = "closed" BY <1>1, <1>2 DEF Calm, CallsCalm, TypeOK
<1>5. \A v \in Workers : Busy(v)' <=> Busy(v) BY <1>2, <1>3 DEF Busy, OthersKeep
<1>6. ASSUME NEW v \in Workers, Busy(v) PROVE CalmCall(v)'
  <2>1. v # w BY <1>2, <1>6
  <2>2. CalmCall(v) BY <1>6 DEF Calm, CallsCalm
  <2>3. pc'[v] = pc[v] /\ call'[v] = call[v] /\ todo'[v] = todo[v] /\ prev'[v] = prev[v]
    BY <2>1, <1>3 DEF OthersKeep
  <2> QED BY <2>2, <2>3, <1>2 DEF CalmCall, Inserting
<1>7. \A u, v \in Workers : Busy(u)' /\ Busy(v)' => u = v BY <1>5 DEF Calm, CallsCalm
<1>8. (\A v \in Workers : ~Busy(v)') => EndsActive(db)' BY <1>2, <1>5 DEF Calm, CallsCalm
<1>9. CallsCalm' BY <1>4, <1>5, <1>6, <1>7, <1>8 DEF CallsCalm
<1>10. RowsCalm' BY <1>2, RowsStay DEF Calm
<1> QED BY <1>9, <1>10 DEF Calm

\* A second ends: the key get_active returns is that of the last row.
LEMMA TickCalm ==
    ASSUME TypeInv, Calm, Tick, calm', ~faults'
    PROVE  Calm'
<1>1. TypeOK BY DEF TypeInv
<1>2. /\ UNCHANGED <<db, conn, pc>> /\ clock < MaxClock /\ clock' = clock + 1
      /\ held' = [held EXCEPT ![clock] = get_active(db)]
      /\ \A w \in Workers : ~Busy(w)
  BY DEF Tick, dbVars, callVars
<1>3. EndsActive(db) BY <1>2 DEF Calm, CallsCalm
<1>4. CallsCalm'
  <2>1. \A w \in Workers : ~Busy(w)' BY <1>2 DEF Busy
  <2>2. \A w \in Workers : conn'[w] = "closed" BY <1>2 DEF Calm, CallsCalm
  <2>3. EndsActive(db)' BY <1>2, <1>3
  <2> QED BY <2>1, <2>2, <2>3 DEF CallsCalm
<1>5. db \in Seq(Row) /\ clock \in Times /\ held \in [Times -> Keys \cup {NoKey}]
  BY <1>1 DEF TypeOK
<1>6. Len(db) \in Nat /\ DOMAIN db = 1 .. Len(db) /\ clock \in Nat BY <1>5 DEF Times
<1>n. \A n \in 1 .. Len(db) : TimeOf(db[n].content) \in Nat BY <1>5, TimeType
<1>7. \A n \in 1 .. Len(db) : TimeOf(db[n].content) <= clock BY DEF Calm, RowsCalm
<1>8. ASSUME NEW t \in Times, t < clock' PROVE HeldInv(t)'
  <2>1. CASE t # clock
    <3>1. held'[t] = held[t] BY <2>1, <1>2, <1>5
    <3>2. t < clock BY <2>1, <1>2, <1>6, <1>8 DEF Times
    <3>3. HeldInv(t) BY <3>2 DEF Calm, RowsCalm
    <3> QED BY <3>1, <3>3, <1>2 DEF HeldInv
  <2>2. CASE t = clock
    <3>1. held'[t] = get_active(db) BY <2>2, <1>2, <1>5
    <3>2. CASE Len(db) = 0
      <4>1. ActiveRows(db) = {} BY <3>2, <1>6 DEF ActiveRows
      <4>2. held'[t] = NoKey BY <4>1, <3>1 DEF get_active
      <4>3. \A n \in 1 .. Len(db') : TimeOf(db'[n].content) > t BY <3>2, <1>2
      <4> QED BY <4>2, <4>3 DEF HeldInv, TimeOf
    <3>3. CASE Len(db) > 0
      <4>1. Len(db) \in 1 .. Len(db) BY <3>3, <1>6
      <4>2. db[Len(db)].content.status = "active" BY <3>3, <1>3 DEF EndsActive
      <4>3. Len(db) \in ActiveRows(db) BY <4>1, <4>2, <1>6 DEF ActiveRows
      <4>4. PICK m \in 1 .. Len(db) :
                  /\ Latest(db, ActiveRows(db)) = db[m].content
                  /\ \A n \in 1 .. Len(db) : db[n].content.status = "active" => n <= m
        BY <4>3, <1>5, LatestActive
      <4>5. Len(db) <= m BY <4>1, <4>2, <4>4
      <4>a. \A a, b \in Nat : a <= b /\ b <= a => a = b OBVIOUS
      <4>b. m \in Nat /\ m <= Len(db) BY <1>6
      <4>6. m = Len(db) BY <4>5, <4>a, <4>b, <1>6, Zenon
      <4>7. get_active(db) = db[Len(db)].content.key_id
        BY <4>3, <4>4, <4>6 DEF get_active
      <4>8. \A n \in Len(db) + 1 .. Len(db) : FALSE BY <1>6
      <4>9. TimeOf(db[Len(db)].content) <= t BY <4>1, <2>2, <1>7
      <4> QED BY <4>1, <4>2, <4>7, <4>8, <4>9, <3>1, <1>2 DEF HeldInv
    <3> QED BY <3>2, <3>3, <1>6
  <2> QED BY <2>1, <2>2
<1>9. \A n \in 1 .. Len(db') : TimeOf(db'[n].content) <= clock'
  BY <1>2, <1>6, <1>7, <1>n
<1>10. RowsCalm'
  <2>1. verify_chain(db)' /\ Alternates(db)' /\ Ordered(db)' BY <1>2 DEF Calm, RowsCalm
  <2> QED BY <2>1, <1>8, <1>9 DEF RowsCalm, TimeOf
<1> QED BY <1>4, <1>10 DEF Calm

\* A row of the current second at the end of the registry keeps the history.
LEMMA RowsGrow ==
    ASSUME TypeInv, RowsCalm, UNCHANGED <<clock, held>>,
           db' \in Seq(Row), Len(db') = Len(db) + 1,
           \A n \in 1 .. Len(db) : db'[n] = db[n],
           RowVerifies(db'[Len(db) + 1], _prev_chain_hash(db)),
           TimeOf(db'[Len(db) + 1].content) = clock,
           IF Len(db) = 0 THEN db'[Len(db) + 1].content.status = "active"
           ELSE Follows(db'[Len(db) + 1].content, db[Len(db)].content)
    PROVE  RowsCalm'
<1> DEFINE len == Len(db)
<1>1. db \in Seq(Row) /\ clock \in Nat BY DEF TypeInv, TypeOK, Times
<1>2. len \in Nat /\ DOMAIN db = 1 .. len /\ DOMAIN db' = 1 .. len + 1 BY <1>1
<1>n. \A n \in 1 .. len : TimeOf(db[n].content) \in Nat BY <1>1, TimeType
<1>3. \A n \in 1 .. len + 1 : n \in 1 .. len \/ n = len + 1 BY <1>2
<1>4. verify_chain(db')
  <2> SUFFICES ASSUME NEW n \in 1 .. len + 1
               PROVE  RowVerifies(db'[n], IF n = 1 THEN KEY_REGISTRY_GENESIS
                                          ELSE db'[n - 1].chain_hash)
    BY <1>2 DEF verify_chain
  <2>1. CASE n \in 1 .. len
    <3>1. RowVerifies(db[n], IF n = 1 THEN KEY_REGISTRY_GENESIS ELSE db[n - 1].chain_hash)
      BY <2>1, <1>2 DEF RowsCalm, verify_chain
    <3>2. db'[n] = db[n] /\ (n # 1 => db'[n - 1] = db[n - 1]) BY <2>1, <1>2
    <3> QED BY <3>1, <3>2
  <2>2. CASE n = len + 1
    <3>1. CASE len = 0
      <4>1. db = <<>> BY <3>1, <1>1
      <4>2. _prev_chain_hash(db) = KEY_REGISTRY_GENESIS BY <4>1 DEF _prev_chain_hash
      <4> QED BY <4>2, <3>1, <2>2
    <3>2. CASE len # 0
      <4>1. db # <<>> BY <3>2, <1>1
      <4>2. _prev_chain_hash(db) = db[len].chain_hash BY <4>1 DEF _prev_chain_hash, Last
      <4>3. n # 1 /\ n - 1 = len /\ len \in 1 .. len BY <3>2, <2>2, <1>2
      <4>4. db'[n - 1] = db[len] BY <4>3
      <4> QED BY <4>2, <4>3, <4>4, <2>2
    <3> QED BY <3>1, <3>2
  <2> QED BY <2>1, <2>2, <1>3
<1>5. Alternates(db')
  <2>1. db'[1].content.status = "active"
    <3>1. CASE len = 0 BY <3>1
    <3>2. CASE len # 0
      <4>1. 1 \in 1 .. len /\ len > 0 BY <3>2, <1>2
      <4> QED BY <4>1 DEF RowsCalm, Alternates
    <3> QED BY <3>1, <3>2
  <2>2. ASSUME NEW n \in 2 .. len + 1 PROVE Follows(db'[n].content, db'[n - 1].content)
    <3>1. CASE n = len + 1
      <4>1. len # 0 /\ n - 1 = len /\ len \in 1 .. len BY <3>1, <2>2, <1>2
      <4> QED BY <4>1, <3>1
    <3>2. CASE n # len + 1
      <4>1. n \in 2 .. len /\ n \in 1 .. len /\ n - 1 \in 1 .. len BY <3>2, <2>2, <1>2
      <4> QED BY <4>1 DEF RowsCalm, Alternates
    <3> QED BY <3>1, <3>2
  <2> QED BY <2>1, <2>2 DEF Alternates
<1>6. \A n \in 1 .. Len(db') : TimeOf(db'[n].content) <= clock'
  <2> SUFFICES ASSUME NEW n \in 1 .. len + 1 PROVE TimeOf(db'[n].content) <= clock
    OBVIOUS
  <2>1. CASE n \in 1 .. len BY <2>1 DEF RowsCalm
  <2>2. CASE n = len + 1 BY <2>2, <1>1
  <2> QED BY <2>1, <2>2, <1>3
<1>7. Ordered(db')
  <2> SUFFICES ASSUME NEW m \in 1 .. len + 1, NEW n \in 1 .. len + 1, m <= n
               PROVE  TimeOf(db'[m].content) <= TimeOf(db'[n].content)
    BY DEF Ordered
  <2>1. CASE n = len + 1 BY <2>1, <1>6
  <2>2. CASE n # len + 1
    <3>1. m \in 1 .. len /\ n \in 1 .. len BY <2>2, <1>2
    <3> QED BY <3>1 DEF RowsCalm, Ordered
  <2> QED BY <2>1, <2>2
<1>8. ASSUME NEW t \in Times, t < clock' PROVE HeldInv(t)'
  <2>1. HeldInv(t) /\ t \in Nat BY <1>8 DEF RowsCalm, Times
  <2>2. TimeOf(db'[len + 1].content) > t BY <2>1, <1>1, <1>8
  <2>3. CASE held[t] = NoKey /\ \A n \in 1 .. len : TimeOf(db[n].content) > t
    <3>1. \A n \in 1 .. len + 1 : TimeOf(db'[n].content) > t BY <2>2, <2>3, <1>3
    <3> QED BY <3>1, <2>3 DEF HeldInv
  <2>4. CASE \E m \in 1 .. len :
               /\ db[m].content.status = "active"
               /\ db[m].content.key_id = held[t]
               /\ TimeOf(db[m].content) <= t
               /\ \A n \in m + 1 .. len : TimeOf(db[n].content) > t
    <3>1. PICK m \in 1 .. len :
               /\ db[m].content.status = "active"
               /\ db[m].content.key_id = held[t]
               /\ TimeOf(db[m].content) <= t
               /\ \A n \in m + 1 .. len : TimeOf(db[n].content) > t
      BY <2>4
    <3>2. \A n \in m + 1 .. len + 1 : TimeOf(db'[n].content) > t
      <4> SUFFICES ASSUME NEW n \in m + 1 .. len + 1 PROVE TimeOf(db'[n].content) > t
        OBVIOUS
      <4>1. CASE n = len + 1 BY <4>1, <2>2
      <4>2. CASE n # len + 1
        <5>1. n \in m + 1 .. len /\ n \in 1 .. len BY <4>2, <1>2
        <5> QED BY <5>1, <3>1
      <4> QED BY <4>1, <4>2
    <3>3. m \in 1 .. len + 1 /\ db'[m] = db[m] BY <1>2
    <3> QED BY <3>1, <3>2, <3>3 DEF HeldInv
  <2> QED BY <2>1, <2>3, <2>4 DEF HeldInv
<1> QED BY <1>4, <1>5, <1>6, <1>7, <1>8 DEF RowsCalm, TimeOf

\* A commit in a calm registry: the registration of a key, or the retirement of
\* the key that the registry ends in.
LEMMA CommitCalm ==
    ASSUME TypeInv, SafeInv, Calm, NEW w \in Workers, CommitRow(w)
    PROVE  Calm'
<1> DEFINE len == Len(db)
           new == db'[Len(db) + 1]
<1>1. db \in Seq(Row) /\ clock \in Nat /\ len \in Nat BY DEF TypeInv, TypeOK, Times
<1>2. /\ UNCHANGED <<clock, held, calm, faults>> /\ OthersKeep(w) /\ Inserting(w)
      /\ pc[w] = "commit"
      /\ db' \in Seq(Row) /\ Len(db') = len + 1
      /\ new = NewRow(Head(todo[w]), prev[w]) /\ new.content = Head(todo[w])
      /\ Head(todo[w]) \in Content
      /\ \A n \in 1 .. Len(db) : db'[n] = db[n]
  BY CommitIs
<1>3. Busy(w) /\ prev[w] \in Seq(Content) BY <1>2, TodoIs DEF Busy
<1>4. /\ \A v \in Workers \ {w} : ~Busy(v)
      /\ CalmCall(w) /\ \A v \in Workers : conn[v] = "closed"
  BY <1>3, CalmWorker
<1>5. prev[w] = _prev_chain_hash(db) /\ call[w].now = clock BY <1>2, <1>4 DEF CalmCall
<1>6. RowVerifies(new, _prev_chain_hash(db)) BY <1>2, <1>3, <1>5, NewRowType
<1>7. TimeOf(new.content) = clock BY <1>5, CommittedTime
<1>8. \A v \in Workers : conn'[v] = "closed" BY <1>4, CommitIs
<1>9. RowsCalm BY DEF Calm
<1> HIDE DEF len, new
<1>10. CASE todo[w] = <<Activation(call[w])>>
  <2>1. Head(todo[w]) = Activation(call[w]) /\ pc'[w] = "idle"
    <3>1. ASSUME NEW active,
                 todo[w] = <<Retirement(active, call[w]), Activation(call[w])>>
          PROVE  FALSE
      BY <3>1, <1>10
    <3>2. \/ Head(todo[w]) = Activation(call[w]) /\ pc'[w] = "idle"
          \/ \E active \in Content :
                todo[w] = <<Retirement(active, call[w]), Activation(call[w])>>
      BY CommitIs
    <3> QED BY <3>1, <3>2
  <2>2. len > 0 => db[len].content.status = "retired" /\ db[len].content.retired_at = clock
    <3>1. todo[w] # <<Retirement(db[Len(db)].content, call[w]), Activation(call[w])>>
      BY <1>10
    <3> QED BY <3>1, <1>2, <1>4 DEF CalmCall, len
  <2>3. new.content.status = "active" /\ new.content.registered_at = clock
    BY <2>1, <1>2, <1>5 DEF Activation
  <2>4. IF len = 0 THEN new.content.status = "active"
        ELSE Follows(new.content, db[len].content)
    BY <2>2, <2>3, <1>1 DEF Follows
  <2>5. RowsCalm' BY <2>4, <1>2, <1>6, <1>7, <1>9, RowsGrow DEF len, new
  <2>6. EndsActive(db)' BY <2>3, <1>1, <1>2 DEF EndsActive, new, len
  <2>7. ~Busy(w)' BY <2>1 DEF Busy
  <2>8. CallsCalm' BY <2>6, <2>7, <1>2, <1>4, <1>8, OneWorker
  <2> QED BY <2>5, <2>8, <1>2 DEF Calm
<1>11. CASE todo[w] # <<Activation(call[w])>>
  <2>1. /\ len > 0 /\ EndsActive(db)
        /\ todo[w] = <<Retirement(db[len].content, call[w]), Activation(call[w])>>
    BY <1>2, <1>4, <1>11 DEF CalmCall, len
  <2>2. Head(todo[w]) = Retirement(db[len].content, call[w]) BY <2>1
  <2>3. db[len].content.status = "active" BY <2>1 DEF EndsActive, len
  <2>4. db[len].content \in Content
    <3>1. len \in 1 .. Len(db) BY <2>1, <1>1 DEF len
    <3>2. db[len] \in Row BY <3>1, <1>1
    <3> QED BY <3>2 DEF Row
  <2>5. /\ new.content.status = "retired" /\ new.content.retired_at = clock
        /\ new.content.key_id = db[len].content.key_id
    BY <2>2, <2>4, <1>2, <1>5 DEF Retirement, Content
  <2>6. Follows(new.content, db[len].content) BY <2>3, <2>5 DEF Follows
  <2>7. RowsCalm' BY <2>1, <2>6, <1>1, <1>2, <1>6, <1>7, <1>9, RowsGrow DEF len, new
  <2>8. pc'[w] = "prev" /\ todo'[w] = <<Activation(call[w])>> /\ call'[w] = call[w]
    BY <1>11, CommitIs
  <2>9. Inserting(w)' /\ Busy(w)' BY <2>8 DEF Inserting, Busy
  <2>10. CalmCall(w)'
    <3>1. db'[Len(db')] = new BY <1>2 DEF new, len
    <3>2. todo'[w] = <<Activation(call'[w])>> BY <2>8
    <3> QED BY <3>1, <3>2, <2>5, <2>8, <2>9, <1>2, <1>5 DEF CalmCall, Activation
  <2>11. CallsCalm' BY <2>9, <2>10, <1>2, <1>4, <1>8, OneWorker
  <2> QED BY <2>7, <2>11, <1>2 DEF Calm
<1> QED BY <1>10, <1>11

-----------------------------------------------------------------------------
(* The whole invariant holds.                                              *)

\* Nothing has happened at first.
LEMMA InitCalm == Init => CalmInv
<1> SUFFICES ASSUME Init PROVE CalmInv OBVIOUS
<1>1. db = <<>> /\ Len(db) = 0 /\ DOMAIN db = {} /\ clock = 0
  BY DEF Init, EmptyDb
<1>2. \A w \in Workers : conn[w] = "closed" /\ ~Busy(w) BY DEF Init, Busy
<1>3. CallsCalm BY <1>1, <1>2 DEF CallsCalm, EndsActive
<1>4. RowsCalm
  <2>1. verify_chain(db) BY <1>1 DEF verify_chain
  <2>2. Alternates(db) /\ Ordered(db) BY <1>1 DEF Alternates, Ordered
  <2>3. \A n \in 1 .. Len(db) : FALSE BY <1>1
  <2>4. \A t \in Times : ~(t < clock) BY <1>1 DEF Times
  <2> QED BY <2>1, <2>2, <2>3, <2>4 DEF RowsCalm
<1> QED BY <1>3, <1>4 DEF CalmInv

\* A calm registry was calm before.
LEMMA NextCalm == TypeInv /\ SafeInv /\ CalmInv /\ [Next]_vars => CalmInv'
<1> SUFFICES ASSUME TypeInv, SafeInv, CalmInv, [Next]_vars, calm', ~faults'
             PROVE  Calm'
  BY DEF CalmInv, Calm
<1>1. CASE UNCHANGED vars
  <2>0. UNCHANGED <<dbVars, callVars, clock, ghosts>> BY <1>1 DEF vars
  <2>a. UNCHANGED <<db, conn, pc, call, todo, prev, clock, held>>
    BY <2>0 DEF dbVars, callVars, ghosts
  <2>b. calm' = calm /\ faults' = faults BY <2>0, Zenon DEF ghosts
  <2>1. UNCHANGED <<db, conn, pc, call, todo, prev, clock, held>> /\ calm /\ ~faults
    BY <2>a, <2>b, Zenon
  <2>2. CallsCalm /\ RowsCalm BY <2>1 DEF CalmInv
  <2>3. CallsCalm' BY <2>1, <2>2 DEF CallsCalm, CalmCall, Busy, Inserting
  <2>4. RowsCalm' BY <2>1, <2>2, RowsStay
  <2> QED BY <2>3, <2>4 DEF Calm
<1>2. CASE Next
  <2>1. calm /\ ~faults
    <3>1. CASE Tick BY <3>1 DEF Tick
    <3>2. ASSUME NEW w \in Workers, Begin(w) PROVE calm /\ ~faults BY <3>2 DEF Begin
    <3>3. ASSUME NEW w \in Workers, InsertFails(w) PROVE FALSE BY <3>3 DEF InsertFails
    <3>4. ASSUME NEW w \in Workers, Crash(w) PROVE calm /\ ~faults BY <3>4 DEF Crash
    <3>5. ASSUME NEW w \in Workers,
                 \/ SelectExisting(w) \/ SelectActive(w) \/ SelectPrevious(w)
                 \/ InsertRow(w) \/ CommitRow(w) \/ ReadRegistry(w)
          PROVE  calm /\ ~faults
      <4>1. UNCHANGED <<calm, faults>>
        BY <3>5 DEF SelectExisting, SelectActive, SelectPrevious, InsertRow, CommitRow,
                    ReadRegistry, ghosts
      <4> QED BY <4>1
    <3> QED BY <1>2, <3>1, <3>2, <3>3, <3>4, <3>5 DEF Next
  <2>2. Calm BY <2>1 DEF CalmInv, Calm
  <2>3. ASSUME NEW w \in Workers, InsertFails(w) PROVE FALSE BY <2>3 DEF InsertFails
  <2> QED BY <1>2, <2>2, <2>3, BeginCalm, SelectExistingCalm, SelectActiveCalm,
             SelectPreviousCalm, InsertRowCalm, CommitCalm, ReadRegistryCalm, CrashCalm,
             TickCalm DEF Next
<1> QED BY <1>1, <1>2

\* The whole invariant is an invariant.
THEOREM Invariant == Spec => []IInv
<1>1. Init => IInv BY InitSafe, InitCalm DEF IInv
<1>2. IInv /\ [Next]_vars => IInv' BY NextSafe, NextCalm DEF IInv
<1> QED BY <1>1, <1>2, PTL DEF Spec

\* While calls neither overlap nor fail nor cross a second and no key comes back,
\* the chain verifies and was_active_at names for every past second exactly the
\* key that get_active returned when the second ended.
THEOREM HistoryIsReconstructed == Spec => []HistoryIsRight
<1>1. IInv => HistoryIsRight
  <2> SUFFICES ASSUME IInv, calm, ~faults, RegisteredOnce
               PROVE  /\ verify_chain(db)
                      /\ \A k \in Keys : \A t \in 0 .. clock :
                            t < clock => (was_active_at(db, k, t) <=> held[t] = k)
    BY DEF HistoryIsRight
  <2>1. TypeInv /\ RowsCalm BY DEF IInv, CalmInv
  <2>2. verify_chain(db) BY <2>1 DEF RowsCalm
  <2>3. \A t \in 0 .. clock : t \in Times
    BY <2>1, RegistryAssumption DEF TypeInv, TypeOK, Times
  <2> QED BY <2>1, <2>2, <2>3, CalmHistory
<1> QED BY <1>1, Invariant, PTL
=============================================================================
