-------------------------- MODULE AuditTrailProofs --------------------------
(* Proofs about AuditTrail, for any number of workers, any finite number   *)
(* of instances and any length of the ledger, the audit log and the        *)
(* anchor store.                                                           *)
EXTENDS AuditTrail, FiniteSetTheorems, SequenceTheorems, WellFoundedInduction, TLAPS

-----------------------------------------------------------------------------
(* The inductive invariant: types.                                         *)

Roots == {compute_system_root(g) : g \in [Instances -> Nat]}
Hashes == [kind : {"audit"}, hash : Nat] \cup [kind : {"root"}, hash : Roots]
Row == [chain_hash : Hashes, anchored_at : Times, anchor_seq : Nat, prev_anchor : Nat]

\* What a worker collects: a snapshot, an anchor, or the first half of a drift check.
Snapshot == [op : {"snapshot", "drift"}, base : Nat, environment : Environments,
             recorded_at : Times, system_root : Roots, instance_count : Nat,
             version : Nat, fresh : BOOLEAN, stuck : BOOLEAN,
             audit_chain_hash : Nat, audit_row_count : Nat,
             anchors : Hashes, anchored : BOOLEAN]
AnchorCall == [op : {"anchor"}, anchors : Hashes]
DriftCall == [op : {"drift"}, base : Nat, env_a : Environments,
              env_b : Environments \cup {NoEnv}]

\* A row of the snapshots table, and a state of the ledger.
Saved == [environment : Environments, recorded_at : Times, system_root : Roots,
          instance_count : Nat, version : Nat, fresh : BOOLEAN, anchored : BOOLEAN,
          audit_chain_hash : Nat, audit_row_count : Nat]
LedgerState == [root : Roots, count : Nat, time : Times]

Steps == {"idle", "ledger", "chain", "count", "seq", "prev", "insert", "commit", "save",
          "second", "record"}

TypeInv ==
    /\ db \in Seq(Row) /\ snap \in [AnchorWorkers -> Seq(Row)]
    /\ lock \in AnchorWorkers \cup {NoWorker}
    /\ conn \in [AnchorWorkers -> ConnStates]
    /\ DOMAIN draft = AnchorWorkers /\ DOMAIN part = AnchorWorkers
    /\ clock \in Times /\ heads \in [Instances -> Nat]
    /\ roots \in Seq(LedgerState) /\ audit \in Seq(Times)
    /\ pc \in [AnchorWorkers -> Steps]
    /\ requests \in 0 .. MaxRequests
    /\ snapshots \in Seq(Saved)

-----------------------------------------------------------------------------
(* The anchor store.                                                       *)

HasSeq(rows, s) == \E n \in 1 .. Len(rows) : rows[n].anchor_seq = s

\* Numbers are given out without gaps, and a row continues an earlier one.
RowsChained(rows) ==
    \A n \in 1 .. Len(rows) :
        /\ rows[n].anchor_seq \in 1 .. n
        /\ rows[n].prev_anchor < n
        /\ rows[n].anchor_seq > 1 => HasSeq(rows, rows[n].anchor_seq - 1)

\* What a connection may read: the store as it is or was.
ViewOK(rows) ==
    /\ RowsChained(rows)
    /\ Len(rows) <= Len(db)
    /\ \A n \in 1 .. Len(rows) : HasSeq(db, rows[n].anchor_seq)

\* The hash existed at time t.
Born(hash, t) ==
    \/ /\ hash.kind = "audit"
       /\ \/ hash.hash = 0
          \/ hash.hash \in 1 .. Len(audit) /\ audit[hash.hash] <= t
    \/ /\ hash.kind = "root"
       /\ \E n \in 1 .. Len(roots) : roots[n].root = hash.hash /\ roots[n].time <= t

StoreInv ==
    /\ RowsChained(db)
    /\ \A w \in AnchorWorkers : conn[w] = "stale" => ViewOK(snap[w])
    /\ \A n \in 1 .. Len(db) : Born(db[n].chain_hash, db[n].anchored_at)

\* The transaction of a worker is the one row it has inserted.
LockInv ==
    \A w \in AnchorWorkers :
        /\ lock = w <=> pc[w] = "commit"
        /\ lock = w => txn = Append(db, draft[w])

-----------------------------------------------------------------------------
(* The ledger's history.                                                   *)

TimesInv ==
    /\ Len(roots) >= 1 /\ roots[1].root = ZERO_ROOT /\ roots[1].count = 0
    /\ \A n \in 1 .. Len(roots) : roots[n].time <= clock
    /\ \A m, n \in 1 .. Len(roots) : m <= n => roots[m].time <= roots[n].time
    /\ \A n \in 1 .. Len(audit) : audit[n] <= clock

\* A snapshot names a state of the ledger, which was the latest one when it was taken
\* if it says so, and is anchored if it says so.
RowOK(s) ==
    /\ s.version \in 1 .. Len(roots)
    /\ s.system_root = roots[s.version].root /\ s.instance_count = roots[s.version].count
    /\ s.recorded_at <= clock
    /\ s.fresh => \A k \in s.version + 1 .. Len(roots) : s.recorded_at <= roots[k].time
    /\ s.anchored => \E k \in 1 .. Len(db) : /\ db[k].chain_hash = RootHash(s.system_root)
                                             /\ db[k].anchored_at >= s.recorded_at

\* One that is being taken.
SnapOK(s) ==
    /\ RowOK(s)
    /\ s.anchors = RootHash(s.system_root)
    /\ s.op = "drift" => s.base \in 1 .. Len(snapshots)

\* The workers in anchor(), in the part of it after the first SELECT, and those that
\* are taking a snapshot, in anchor() or not.
Anchoring(w) == pc[w] \in {"seq", "prev", "insert", "commit"}
Drafting(w) == pc[w] \in {"prev", "insert", "commit"}
Collecting(w) ==
    \/ pc[w] \in {"ledger", "chain", "count", "save"}
    \/ Anchoring(w) /\ part[w].op # "anchor"

\* The row that a worker is making.
DraftOK(w) ==
    LET d == draft[w]
    IN  /\ d \in Row
        /\ d.chain_hash = part[w].anchors
        /\ Born(d.chain_hash, d.anchored_at)
        /\ Collecting(w) => d.anchored_at >= part[w].recorded_at
        /\ d.anchor_seq \in 1 .. Len(db) + 1
        /\ d.anchor_seq > 1 => HasSeq(db, d.anchor_seq - 1)
        /\ d.prev_anchor <= Len(db)

CallOK(w) ==
    /\ Collecting(w) => part[w] \in Snapshot /\ SnapOK(part[w])
    /\ Anchoring(w) => /\ Collecting(w) \/ part[w] \in AnchorCall
                       /\ Born(part[w].anchors, clock)
    /\ Drafting(w) => DraftOK(w)
    /\ pc[w] = "ledger" => part[w].anchored = FALSE
    /\ pc[w] = "second" => part[w] \in DriftCall /\ part[w].base \in 1 .. Len(snapshots)
    /\ pc[w] = "record" => /\ part[w].a \in 1 .. Len(snapshots)
                           /\ part[w].b \in 1 .. Len(snapshots)

CallsInv == \A w \in AnchorWorkers : CallOK(w)

SavedInv == \A n \in 1 .. Len(snapshots) : RowOK(snapshots[n])

EventsInv ==
    \A e \in events : \E a, b \in 1 .. Len(snapshots) :
        e = [a |-> a, b |-> b, result |-> compare(snapshots[a], snapshots[b])]

\* The counts of decisions only grow.
Below(g, h) == \A i \in Instances : g[i] <= h[i]

\* Some history of the ledger explains the roots.
HistoryOf(hist) ==
    /\ hist \in [1 .. Len(roots) -> [Instances -> Nat]]
    /\ hist[Len(roots)] = heads
    /\ \A n \in 1 .. Len(roots) : roots[n].root = compute_system_root(hist[n])
    /\ \A m, n \in 1 .. Len(roots) : m < n => Below(hist[m], hist[n]) /\ hist[m] # hist[n]

HistoryInv == \E hist : HistoryOf(hist)

IInv == /\ TypeInv
        /\ StoreInv /\ LockInv /\ TimesInv
        /\ CallsInv /\ SavedInv /\ EventsInv /\ HistoryInv

-----------------------------------------------------------------------------
(* Numbers.                                                                *)

\* A set of numbers has a least one.
LEMMA Least ==
    ASSUME NEW S \in SUBSET Nat, S # {}
    PROVE  \E x \in S : \A y \in S : x <= y
<1>1. PICK x \in S : \A y \in S : ~(<<y, x>> \in OpToRel(<, Nat))
  BY NatLessThanWellFounded, WFMin
<1>2. ASSUME NEW y \in S, ~(x <= y) PROVE FALSE
  <2>1. <<y, x>> \in {ss \in Nat \X Nat : ss[1] < ss[2]} BY <1>2
  <2> QED BY <2>1, <1>1 DEF OpToRel
<1> QED BY <1>2

\* A set of numbers with a bound has a greatest one.
LEMMA Greatest ==
    ASSUME NEW S \in SUBSET Nat, S # {}, NEW bound \in Nat, \A x \in S : x <= bound
    PROVE  \E x \in S : \A y \in S : y <= x
<1> DEFINE rest == {bound - x : x \in S}
<1>1. \A x \in S : bound - x \in Nat OBVIOUS
<1>2. rest \in SUBSET Nat /\ rest # {} BY <1>1
<1> HIDE DEF rest
<1>3. PICK r \in rest : \A y \in rest : r <= y BY <1>2, Least
<1>4. PICK x \in S : r = bound - x BY <1>3 DEF rest
<1>5. \A y \in S : bound - y \in rest BY DEF rest
<1>6. \A y \in S : bound - x <= bound - y BY <1>3, <1>4, <1>5
<1>7. \A y \in S : y <= x BY <1>6
<1> QED BY <1>7

\* Max is the greatest number of a set that has a bound.
LEMMA MaxIs ==
    ASSUME NEW S \in SUBSET Nat, S # {}, NEW bound \in Nat, \A x \in S : x <= bound
    PROVE  Max(S) \in S /\ \A y \in S : y <= Max(S)
<1>1. PICK x \in S : \A y \in S : y <= x BY Greatest
<1>2. \A y \in S : x >= y BY <1>1
<1>3. Max(S) \in S /\ \A y \in S : Max(S) >= y BY <1>2 DEF Max
<1>4. \A y \in S : y \in Nat OBVIOUS
<1> QED BY <1>3, <1>4

\* Min is the least number of a set.
LEMMA MinIs ==
    ASSUME NEW S \in SUBSET Nat, S # {}
    PROVE  Min(S) \in S /\ \A y \in S : Min(S) <= y
<1>1. PICK x \in S : \A y \in S : x <= y BY Least
<1> QED BY <1>1 DEF Min

\* The order of numbers is transitive, for terms the provers do not take for numbers.
LEMMA Transitive ==
    \A x, y, z \in Nat : x <= y /\ y <= z => x <= z
OBVIOUS

-----------------------------------------------------------------------------
(* The queries of the anchor store.                                        *)

\* The types of a list of rows.
LEMMA RowTypes ==
    ASSUME NEW rows \in Seq(Row)
    PROVE  /\ Len(rows) \in Nat /\ DOMAIN rows = 1 .. Len(rows)
           /\ \A n \in 1 .. Len(rows) :
                 /\ rows[n] \in Row /\ rows[n].chain_hash \in Hashes
                 /\ rows[n].anchored_at \in Times
                 /\ rows[n].anchor_seq \in Nat /\ rows[n].prev_anchor \in Nat
<1>1. \A n \in 1 .. Len(rows) : rows[n] \in Row BY ElementOfSeq
<1> QED BY <1>1, LenProperties DEF Row

\* The highest number of a list of rows, 0 if it is empty.
LEMMA HighestSeq ==
    ASSUME NEW rows \in Seq(Row), RowsChained(rows)
    PROVE  LET top == Max(AnchorSeqs(rows) \cup {0})
           IN  /\ top \in 0 .. Len(rows)
               /\ top # 0 => HasSeq(rows, top)
               /\ \A n \in 1 .. Len(rows) : rows[n].anchor_seq <= top
<1> DEFINE S == AnchorSeqs(rows) \cup {0}
<1>1. Len(rows) \in Nat /\ DOMAIN rows = 1 .. Len(rows) BY RowTypes
<1>2. \A n \in 1 .. Len(rows) : rows[n].anchor_seq \in 0 .. Len(rows)
  BY <1>1 DEF RowsChained
<1>3. S \in SUBSET (0 .. Len(rows)) /\ 0 \in S BY <1>1, <1>2 DEF AnchorSeqs
<1>4. S \in SUBSET Nat /\ S # {} /\ \A x \in S : x <= Len(rows) BY <1>1, <1>3
<1>5. \A n \in 1 .. Len(rows) : rows[n].anchor_seq \in S BY <1>1 DEF AnchorSeqs
<1>6. \A s \in S : s # 0 => HasSeq(rows, s) BY <1>1 DEF AnchorSeqs, HasSeq
<1> HIDE DEF S
<1>7. Max(S) \in S /\ \A y \in S : y <= Max(S) BY <1>1, <1>4, MaxIs
<1>8. /\ Max(S) \in 0 .. Len(rows)
      /\ Max(S) # 0 => HasSeq(rows, Max(S))
      /\ \A n \in 1 .. Len(rows) : rows[n].anchor_seq <= Max(S)
  BY <1>3, <1>5, <1>6, <1>7
<1> QED BY <1>8 DEF S

\* The numbers that have been given out are the first ones.
LEMMA SeqsHaveNoGap ==
    ASSUME NEW rows \in Seq(Row), RowsChained(rows)
    PROVE  AnchorSeqs(rows) = 1 .. Max(AnchorSeqs(rows) \cup {0})
<1> DEFINE top == Max(AnchorSeqs(rows) \cup {0})
<1>1. /\ top \in 0 .. Len(rows)
      /\ top # 0 => HasSeq(rows, top)
      /\ \A n \in 1 .. Len(rows) : rows[n].anchor_seq <= top
  BY HighestSeq
<1>2. Len(rows) \in Nat /\ DOMAIN rows = 1 .. Len(rows) BY RowTypes
<1>3. \A s : s \in AnchorSeqs(rows) <=> HasSeq(rows, s) BY <1>2 DEF AnchorSeqs, HasSeq
<1> HIDE DEF top
<1>4. ASSUME NEW s, HasSeq(rows, s) PROVE s \in 1 .. top
  <2>1. PICK n \in 1 .. Len(rows) : rows[n].anchor_seq = s BY <1>4 DEF HasSeq
  <2>2. s \in 1 .. n BY <2>1 DEF RowsChained
  <2> QED BY <2>1, <2>2, <1>1, <1>2
<1>5. ASSUME NEW s \in 1 .. top, ~HasSeq(rows, s) PROVE FALSE
  <2> DEFINE S == {k \in 1 .. top : ~HasSeq(rows, k)}
  <2>1. S \in SUBSET Nat /\ S # {} /\ \A x \in S : x <= top BY <1>1, <1>5
  <2>2. top \in Nat BY <1>1, <1>2
  <2>3. PICK k \in S : \A y \in S : y <= k BY <2>1, <2>2, Greatest
  <2>4. k \in 1 .. top /\ ~HasSeq(rows, k) /\ k # top /\ top # 0 BY <2>3, <1>1, <2>2
  <2>5. k + 1 \in 1 .. top /\ ~(k + 1 <= k) BY <2>4, <2>2
  <2>6. HasSeq(rows, k + 1) BY <2>3, <2>5
  <2>7. PICK n \in 1 .. Len(rows) : rows[n].anchor_seq = k + 1 BY <2>6 DEF HasSeq
  <2>8. k + 1 > 1 /\ (k + 1) - 1 = k BY <2>4, <2>2
  <2>9. HasSeq(rows, k) BY <2>7, <2>8 DEF RowsChained
  <2> QED BY <2>4, <2>9
<1> QED BY <1>3, <1>4, <1>5 DEF top

\* verify_anchor_chain accepts a store exactly when no two rows continue the same.
LEMMA BreaksAreForks ==
    ASSUME NEW rows \in Seq(Row), RowsChained(rows)
    PROVE  verify_anchor_chain(rows) <=>
              \A m, n \in DOMAIN rows : rows[m].prev_anchor = rows[n].prev_anchor => m = n
<1>1. /\ Len(rows) \in Nat /\ DOMAIN rows = 1 .. Len(rows)
      /\ \A n \in 1 .. Len(rows) : rows[n].prev_anchor \in Nat /\ rows[n].prev_anchor < n
  BY RowTypes DEF RowsChained
<1>2. ASSUME verify_anchor_chain(rows)
      PROVE  \A m, n \in DOMAIN rows : rows[m].prev_anchor = rows[n].prev_anchor => m = n
  BY <1>1, <1>2 DEF verify_anchor_chain
<1>3. ASSUME \A m, n \in DOMAIN rows : rows[m].prev_anchor = rows[n].prev_anchor => m = n,
             ~verify_anchor_chain(rows)
      PROVE  FALSE
  <2> DEFINE S == {n \in 1 .. Len(rows) : rows[n].prev_anchor # n - 1}
  <2>1. S \in SUBSET Nat /\ S # {} BY <1>1, <1>3 DEF verify_anchor_chain
  <2>2. PICK n \in S : \A y \in S : n <= y BY <2>1, Least
  <2>3. n \in 1 .. Len(rows) /\ rows[n].prev_anchor # n - 1 BY <2>2
  <2> DEFINE m == rows[n].prev_anchor + 1
  <2>4. m \in 1 .. Len(rows) /\ m < n BY <2>3, <1>1
  <2>5. m \notin S BY <2>2, <2>4, <1>1
  <2>6. rows[m].prev_anchor = m - 1 BY <2>4, <2>5
  <2>7. rows[m].prev_anchor = rows[n].prev_anchor BY <2>6, <2>3, <1>1
  <2>8. m = n BY <2>3, <2>4, <2>7, <1>1, <1>3
  <2> QED BY <2>4, <2>8, <1>1
<1> QED BY <1>2, <1>3

-----------------------------------------------------------------------------
(* System roots.                                                           *)

\* Finitely many numbers have a bound: by the least length of a list that has none.
LEMMA ListsAreBounded ==
    \A n \in Nat : \A f \in [1 .. n -> Nat] : \E b \in Nat : \A k \in 1 .. n : f[k] <= b
<1> DEFINE bad == {n \in Nat : \E f \in [1 .. n -> Nat] :
                                  ~\E b \in Nat : \A k \in 1 .. n : f[k] <= b}
<1> SUFFICES ASSUME bad # {} PROVE FALSE OBVIOUS
<1>1. PICK n \in bad : \A m \in bad : n <= m BY Least
<1>2. PICK f \in [1 .. n -> Nat] : ~\E b \in Nat : \A k \in 1 .. n : f[k] <= b
  BY <1>1
<1>3. n # 0
  <2>1. n = 0 => \A k \in 1 .. n : f[k] <= 0 OBVIOUS
  <2> QED BY <2>1, <1>2
<1>4. n \in Nat /\ n - 1 \in Nat /\ ~(n <= n - 1) BY <1>1, <1>3
<1>5. n - 1 \notin bad BY <1>1, <1>4
<1>14. \A k \in 1 .. n : f[k] \in Nat OBVIOUS
<1>15. \A k \in 1 .. n - 1 : k \in 1 .. n BY <1>4
<1> DEFINE e == [k \in 1 .. n - 1 |-> f[k]]
<1>6. e \in [1 .. n - 1 -> Nat] BY <1>14, <1>15
<1> HIDE DEF e
<1>7. PICK b \in Nat : \A k \in 1 .. n - 1 : e[k] <= b BY <1>4, <1>5, <1>6
<1>8. \A k \in 1 .. n - 1 : f[k] <= b BY <1>7 DEF e
<1>9. f[n] \in Nat BY <1>3, <1>4, <1>14
<1> HIDE DEF bad
<1>10. \A k \in 1 .. n : k \in 1 .. n - 1 \/ k = n BY <1>4
<1>11. PICK c \in Nat : b <= c /\ f[n] <= c
  <2>1. b + f[n] \in Nat /\ b <= b + f[n] /\ f[n] <= b + f[n] BY <1>9
  <2> QED BY <2>1
<1>12. \A k \in 1 .. n - 1 : f[k] <= c
  <2>1. \A k \in 1 .. n - 1 : f[k] \in Nat BY <1>14, <1>15
  <2> QED BY <2>1, <1>8, <1>11
<1>13. \A k \in 1 .. n : f[k] <= c BY <1>10, <1>11, <1>12
<1> QED BY <1>2, <1>13

\* No instance has more decisions than some number.
LEMMA HeadsAreBounded ==
    ASSUME NEW h \in [Instances -> Nat]
    PROVE  \E b \in Nat : \A i \in Instances : h[i] <= b
<1>1. IsFiniteSet(Instances) BY TrailAssumption
<1> DEFINE n == Cardinality(Instances)
<1>2. n \in Nat /\ ExistsBijection(1 .. n, Instances) BY <1>1, FS_CardinalityType
<1> HIDE DEF n
<1>3. PICK f \in Bijection(1 .. n, Instances) : TRUE BY <1>2 DEF ExistsBijection
<1>4. /\ f \in [1 .. n -> Instances]
      /\ \A i \in Instances : \E k \in 1 .. n : f[k] = i
  BY <1>3 DEF Bijection, Surjection
<1> DEFINE e == [k \in 1 .. n |-> h[f[k]]]
<1>5. e \in [1 .. n -> Nat] BY <1>4
<1>6. \A k \in 1 .. n : e[k] = h[f[k]] OBVIOUS
<1> HIDE DEF e
<1>7. PICK b \in Nat : \A k \in 1 .. n : e[k] <= b BY <1>2, <1>5, ListsAreBounded
<1>8. ASSUME NEW i \in Instances PROVE h[i] <= b
  <2>1. PICK k \in 1 .. n : f[k] = i BY <1>4
  <2>2. e[k] <= b /\ e[k] = h[f[k]] BY <1>6, <1>7
  <2> QED BY <2>1, <2>2, Zenon
<1> QED BY <1>7, <1>8

\* More decisions give another root, although the root forgets whose they are: at
\* the highest count that they change, more instances stand than before.
LEMMA RootsDiffer ==
    ASSUME NEW g \in [Instances -> Nat], NEW h \in [Instances -> Nat], Below(g, h), g # h
    PROVE  compute_system_root(g) # compute_system_root(h)
<1> DEFINE D == {k \in Nat : \E i \in Instances : g[i] < k /\ k <= h[i]}
<1>1. D # {}
  <2>1. PICK i \in Instances : g[i] # h[i] OBVIOUS
  <2>2. g[i] < h[i] /\ h[i] <= h[i] /\ h[i] \in Nat BY <2>1 DEF Below
  <2> QED BY <2>2
<1>2. PICK b \in Nat : \A i \in Instances : h[i] <= b BY HeadsAreBounded
<1>3. \A k \in D : k <= b
  <2> SUFFICES ASSUME NEW k \in D PROVE k <= b OBVIOUS
  <2>1. PICK i \in Instances : k <= h[i] OBVIOUS
  <2>2. k \in Nat /\ h[i] \in Nat /\ h[i] <= b BY <1>2
  <2> QED BY <2>1, <2>2
<1>4. D \in SUBSET Nat OBVIOUS
<1>5. PICK k \in D : \A y \in D : y <= k
  <2> HIDE DEF D
  <2> QED BY <1>1, <1>2, <1>3, <1>4, Greatest
<1>6. PICK j \in Instances : g[j] < k /\ k <= h[j] BY <1>5
<1>7. k \in Nat /\ k # 0 BY <1>5, <1>6
<1>8. k + 1 \notin D BY <1>5, <1>7
<1>9. \A i \in Instances : g[i] <= k => h[i] <= k
  <2> SUFFICES ASSUME NEW i \in Instances, g[i] <= k, ~(h[i] <= k) PROVE FALSE OBVIOUS
  <2>1. g[i] < k + 1 /\ k + 1 <= h[i] /\ k + 1 \in Nat BY <1>7
  <2> QED BY <2>1, <1>8
<1> HIDE DEF D
<1> DEFINE A == {i \in Instances : g[i] = k}
           B == {i \in Instances : h[i] = k}
<1>10. j \in B /\ j \notin A
  <2>1. g[j] \in Nat /\ h[j] \in Nat BY <1>6
  <2>2. h[j] <= k BY <1>6, <1>7, <1>9, <2>1
  <2>3. h[j] = k BY <1>6, <1>7, <2>1, <2>2
  <2> QED BY <2>3, <1>6, <1>7
<1>11. A \in SUBSET B
  <2> SUFFICES ASSUME NEW i \in Instances, g[i] = k PROVE h[i] = k OBVIOUS
  <2>1. g[i] <= h[i] /\ h[i] <= k /\ h[i] \in Nat BY <1>7, <1>9 DEF Below
  <2> QED BY <2>1, <1>7
<1>12. IsFiniteSet(B) BY TrailAssumption, FS_Subset
<1> HIDE DEF A, B
<1>13. Cardinality(A) # Cardinality(B) BY <1>10, <1>11, <1>12, FS_Subset
<1>14. DOMAIN g = Instances /\ DOMAIN h = Instances OBVIOUS
<1>15. /\ k \in DOMAIN compute_system_root(h)
       /\ compute_system_root(h)[k] = Cardinality(B)
  BY <1>7, <1>10, <1>14 DEF compute_system_root, B
<1>16. k \in DOMAIN compute_system_root(g) => compute_system_root(g)[k] = Cardinality(A)
  BY <1>14 DEF compute_system_root, A
<1> QED BY <1>13, <1>15, <1>16

-----------------------------------------------------------------------------
(* What the steps of other workers and of the rest of the system leave true.*)

Keeps(new, old) ==
    Len(old) <= Len(new) /\ \A n \in 1 .. Len(old) : new[n] = old[n]

\* The tables and the ledger only grow, a root is dated when it comes about.
Grows ==
    /\ Keeps(db', db) /\ Keeps(roots', roots)
    /\ Keeps(audit', audit) /\ Keeps(snapshots', snapshots)
    /\ clock <= clock'
    /\ \A k \in Len(roots) + 1 .. Len(roots') : clock <= roots'[k].time

OthersKeep(w) ==
    \A x \in AnchorWorkers : x # w =>
        pc'[x] = pc[x] /\ part'[x] = part[x] /\ draft'[x] = draft[x]

\* The types, one by one.
LEMMA Types ==
    ASSUME TypeInv
    PROVE  /\ MaxClock \in Nat /\ Times \subseteq Nat /\ clock \in Times /\ clock \in Nat
           /\ Len(db) \in Nat /\ Len(roots) \in Nat /\ Len(audit) \in Nat
           /\ Len(snapshots) \in Nat
           /\ DOMAIN db = 1 .. Len(db) /\ DOMAIN roots = 1 .. Len(roots)
           /\ DOMAIN audit = 1 .. Len(audit) /\ DOMAIN snapshots = 1 .. Len(snapshots)
           /\ \A n \in 1 .. Len(db) :
                 db[n] \in Row /\ db[n].anchored_at \in Nat /\ db[n].anchor_seq \in Nat
           /\ \A n \in 1 .. Len(roots) : /\ roots[n].time \in Nat /\ roots[n].root \in Roots
                                             /\ roots[n].count \in Nat
           /\ \A n \in 1 .. Len(audit) : audit[n] \in Nat
           /\ \A n \in 1 .. Len(snapshots) : snapshots[n] \in Saved
           /\ \A w \in AnchorWorkers : snap[w] \in Seq(Row)
<1>1. MaxClock \in Nat /\ Times \subseteq Nat BY TrailAssumption DEF Times
<1>2. /\ db \in Seq(Row) /\ roots \in Seq(LedgerState)
      /\ audit \in Seq(Times) /\ snapshots \in Seq(Saved)
  BY DEF TypeInv
<1>3. /\ \A n \in 1 .. Len(db) : db[n] \in Row
      /\ \A n \in 1 .. Len(roots) : roots[n] \in LedgerState
      /\ \A n \in 1 .. Len(audit) : audit[n] \in Times
      /\ \A n \in 1 .. Len(snapshots) : snapshots[n] \in Saved
  BY <1>2, ElementOfSeq
<1>4. /\ Len(db) \in Nat /\ Len(roots) \in Nat /\ Len(audit) \in Nat /\ Len(snapshots) \in Nat
      /\ DOMAIN db = 1 .. Len(db) /\ DOMAIN roots = 1 .. Len(roots)
      /\ DOMAIN audit = 1 .. Len(audit) /\ DOMAIN snapshots = 1 .. Len(snapshots)
  BY <1>2, LenProperties
<1>5. \A n \in 1 .. Len(db) : db[n].anchored_at \in Nat /\ db[n].anchor_seq \in Nat
  BY <1>1, <1>3 DEF Row
<1>6. \A n \in 1 .. Len(roots) : /\ roots[n].time \in Nat /\ roots[n].root \in Roots
                                  /\ roots[n].count \in Nat
  BY <1>1, <1>3 DEF LedgerState
<1>7. clock \in Times /\ \A w \in AnchorWorkers : snap[w] \in Seq(Row) BY DEF TypeInv
<1> QED BY <1>1, <1>3, <1>4, <1>5, <1>6, <1>7

\* A longer list has the places of a shorter one.
LEMMA Positions ==
    ASSUME NEW new, NEW old, Keeps(new, old), Len(new) \in Nat, Len(old) \in Nat
    PROVE  \A n \in 1 .. Len(old) : n \in 1 .. Len(new)
BY DEF Keeps

\* A hash that was there is there later.
LEMMA BornGrows ==
    ASSUME TypeInv, TypeInv', Grows, NEW hash, NEW t \in Nat, NEW u \in Nat, t <= u,
           Born(hash, t)
    PROVE  Born(hash, u)'
<1>1. /\ Keeps(roots', roots) /\ Keeps(audit', audit) BY DEF Grows
<1>2. /\ Len(roots) \in Nat /\ Len(audit) \in Nat
      /\ \A n \in 1 .. Len(roots) : roots[n].time \in Nat
      /\ \A n \in 1 .. Len(audit) : audit[n] \in Nat
  BY Types
<1>3. Len(roots') \in Nat /\ Len(audit') \in Nat
  <2>1. roots' \in Seq(LedgerState) /\ audit' \in Seq(Times)
    BY DEF TypeInv
  <2> QED BY <2>1, LenProperties
<1>4. /\ \A n \in 1 .. Len(roots) : n \in 1 .. Len(roots') /\ roots'[n] = roots[n]
      /\ \A n \in 1 .. Len(audit) : n \in 1 .. Len(audit') /\ audit'[n] = audit[n]
  BY <1>1, <1>2, <1>3, Positions DEF Keeps
<1>5. CASE hash.kind = "audit" /\ hash.hash = 0 BY <1>5 DEF Born
<1>6. CASE hash.kind = "audit" /\ hash.hash \in 1 .. Len(audit) /\ audit[hash.hash] <= t
  BY <1>2, <1>4, <1>6 DEF Born
<1>7. CASE /\ hash.kind = "root"
           /\ \E n \in 1 .. Len(roots) : roots[n].root = hash.hash /\ roots[n].time <= t
  <2>1. PICK n \in 1 .. Len(roots) : roots[n].root = hash.hash /\ roots[n].time <= t
    BY <1>7
  <2>2. roots[n].time <= u BY <2>1, <1>2
  <2> QED BY <2>1, <2>2, <1>4, <1>7 DEF Born
<1> QED BY <1>5, <1>6, <1>7 DEF Born

\* A number that was given out stays so.
LEMMA SeqGrows ==
    ASSUME TypeInv, TypeInv', Grows
    PROVE  \A x : HasSeq(db, x) => HasSeq(db', x)
<1>1. Len(db) \in Nat /\ Keeps(db', db) BY Types DEF Grows
<1>2. Len(db') \in Nat
  <2>1. db' \in Seq(Row) BY DEF TypeInv
  <2> QED BY <2>1, LenProperties
<1>3. \A n \in 1 .. Len(db) : n \in 1 .. Len(db') /\ db'[n] = db[n]
  BY <1>1, <1>2, Positions DEF Keeps
<1> QED BY <1>3 DEF HasSeq

\* A list of rows that a connection could read it can still be reading later.
LEMMA ViewGrows ==
    ASSUME TypeInv, TypeInv', Grows, NEW rows \in Seq(Row), ViewOK(rows)
    PROVE  ViewOK(rows)'
<1>1. Len(rows) \in Nat /\ Len(db) \in Nat /\ Len(db) <= Len(db') BY Types, RowTypes DEF Grows, Keeps
<1>2. Len(db') \in Nat
  <2>1. db' \in Seq(Row) BY DEF TypeInv
  <2> QED BY <2>1, LenProperties
<1>3. Len(rows) <= Len(db') BY <1>1, <1>2 DEF ViewOK
<1> QED BY <1>3, SeqGrows DEF ViewOK

\* A snapshot that was right stays right.
LEMMA RowGrows ==
    ASSUME TypeInv, TypeInv', Grows, NEW s, s.recorded_at \in Nat, RowOK(s)
    PROVE  RowOK(s)'
<1>1. /\ Keeps(roots', roots) /\ Keeps(db', db) /\ clock <= clock'
      /\ \A k \in Len(roots) + 1 .. Len(roots') : clock <= roots'[k].time
  BY DEF Grows
<1>2. Len(roots) \in Nat /\ Len(db) \in Nat /\ clock \in Nat BY Types
<1>3. Len(roots') \in Nat /\ Len(db') \in Nat /\ clock' \in Nat
      /\ \A k \in 1 .. Len(roots') : roots'[k].time \in Nat
  <2>1. roots' \in Seq(LedgerState) /\ db' \in Seq(Row) /\ clock' \in Times BY DEF TypeInv
  <2>2. Times \subseteq Nat BY Types
  <2>3. \A k \in 1 .. Len(roots') : roots'[k] \in LedgerState BY <2>1, ElementOfSeq
  <2> QED BY <2>1, <2>2, <2>3, LenProperties DEF LedgerState
<1>4. \A n \in 1 .. Len(roots) : n \in 1 .. Len(roots') /\ roots'[n] = roots[n]
  BY <1>1, <1>2, <1>3, Positions DEF Keeps
<1>5. \A n \in 1 .. Len(db) : n \in 1 .. Len(db') /\ db'[n] = db[n]
  BY <1>1, <1>2, <1>3, Positions DEF Keeps
<1>6. /\ s.version \in 1 .. Len(roots)
      /\ s.system_root = roots[s.version].root /\ s.instance_count = roots[s.version].count
      /\ s.recorded_at <= clock
      /\ s.fresh => \A k \in s.version + 1 .. Len(roots) : s.recorded_at <= roots[k].time
  BY DEF RowOK
<1>7. /\ s.version \in 1 .. Len(roots')
      /\ s.system_root = roots'[s.version].root /\ s.instance_count = roots'[s.version].count
      /\ s.recorded_at <= clock'
  BY <1>1, <1>2, <1>3, <1>4, <1>6
<1>8. ASSUME s.fresh, NEW k \in s.version + 1 .. Len(roots') PROVE s.recorded_at <= roots'[k].time
  <2>1. CASE k \in 1 .. Len(roots)
    <3>1. k \in s.version + 1 .. Len(roots) BY <2>1, <1>2, <1>6
    <3>2. s.recorded_at <= roots[k].time BY <3>1, <1>6, <1>8
    <3> QED BY <2>1, <3>2, <1>4
  <2>2. CASE k \in Len(roots) + 1 .. Len(roots')
    <3>1. clock <= roots'[k].time /\ k \in 1 .. Len(roots') BY <2>2, <1>1, <1>2, <1>3
    <3>2. roots'[k].time \in Nat BY <3>1, <1>3
    <3> QED BY <3>1, <3>2, <1>2, <1>6, Transitive
  <2>3. k \in 1 .. Len(roots) \/ k \in Len(roots) + 1 .. Len(roots') BY <1>2, <1>3, <1>6
  <2> QED BY <2>1, <2>2, <2>3
<1>9. s.anchored => \E k \in 1 .. Len(db') : /\ db'[k].chain_hash = RootHash(s.system_root)
                                             /\ db'[k].anchored_at >= s.recorded_at
  BY <1>5 DEF RowOK
<1> QED BY <1>7, <1>8, <1>9 DEF RowOK

\* So does one that is being taken.
LEMMA SnapGrows ==
    ASSUME TypeInv, TypeInv', Grows, NEW s \in Snapshot, SnapOK(s)
    PROVE  SnapOK(s)'
<1>1. s.recorded_at \in Nat BY Types DEF Snapshot
<1>2. RowOK(s)' BY <1>1, RowGrows DEF SnapOK
<1>3. Len(snapshots) \in Nat /\ Len(snapshots') \in Nat /\ Keeps(snapshots', snapshots)
  <2>1. snapshots' \in Seq(Saved) BY DEF TypeInv
  <2> QED BY <2>1, Types, LenProperties DEF Grows
<1>4. \A n \in 1 .. Len(snapshots) : n \in 1 .. Len(snapshots') BY <1>3, Positions
<1> QED BY <1>2, <1>4 DEF SnapOK

\* A worker that goes on with the request it has, or does nothing.
LEMMA CallMoves ==
    ASSUME TypeInv, TypeInv', Grows, NEW w \in AnchorWorkers, CallOK(w),
           part'[w] = part[w], draft'[w] = draft[w],
           Anchoring(w)' => Anchoring(w), Drafting(w)' => Drafting(w),
           Collecting(w)' <=> Collecting(w), pc'[w] = "second" => pc[w] = "second",
           pc'[w] = "record" => pc[w] = "record", pc'[w] = "ledger" => pc[w] = "ledger"
    PROVE  CallOK(w)'
<1>2. Collecting(w) => part'[w] \in Snapshot /\ SnapOK(part[w])'
  <2> SUFFICES ASSUME Collecting(w) PROVE part'[w] \in Snapshot /\ SnapOK(part[w])' OBVIOUS
  <2>1. part[w] \in Snapshot /\ SnapOK(part[w]) BY DEF CallOK
  <2>2. ASSUME NEW s, s = part[w] PROVE SnapOK(s)' BY <2>1, <2>2, SnapGrows
  <2>3. SnapOK(part[w])' BY <2>2
  <2> QED BY <2>1, <2>3
<1>3. Anchoring(w) => Born(part[w].anchors, clock)'
  <2> SUFFICES ASSUME Anchoring(w) PROVE Born(part[w].anchors, clock)' OBVIOUS
  <2>1. Born(part[w].anchors, clock) BY DEF CallOK
  <2>2. ASSUME NEW h, h = part[w].anchors, NEW u, u = clock' PROVE Born(h, u)'
    <3>1. clock \in Nat /\ clock' \in Nat /\ clock <= clock' BY Types DEF Grows, TypeInv
    <3> QED BY <2>1, <2>2, <3>1, BornGrows
  <2> QED BY <2>2
<1>4. Drafting(w) => DraftOK(w)'
  <2> SUFFICES ASSUME Drafting(w) PROVE DraftOK(w)' OBVIOUS
  <2>1. DraftOK(w) BY DEF CallOK
  <2>2. draft[w] \in Row BY <2>1 DEF DraftOK
  <2>3. draft[w].anchored_at \in Nat /\ draft[w].anchor_seq \in Nat /\ draft[w].prev_anchor \in Nat
    BY <2>2, Types DEF Row
  <2>4. Born(draft[w].chain_hash, draft[w].anchored_at) BY <2>1 DEF DraftOK
  <2>5. ASSUME NEW h, h = draft[w].chain_hash, NEW u, u = draft[w].anchored_at PROVE Born(h, u)'
    BY <2>3, <2>4, <2>5, BornGrows
  <2>6. Born(draft[w].chain_hash, draft[w].anchored_at)' BY <2>5
  <2>7. Len(db) \in Nat /\ Len(db') \in Nat /\ Len(db) <= Len(db')
    <3>1. db' \in Seq(Row) BY DEF TypeInv
    <3> QED BY <3>1, Types, LenProperties DEF Grows, Keeps
  <2>8. /\ draft[w].anchor_seq \in 1 .. Len(db') + 1
        /\ draft[w].prev_anchor <= Len(db')
    BY <2>1, <2>3, <2>7 DEF DraftOK
  <2>9. draft[w].anchor_seq > 1 => HasSeq(db', draft[w].anchor_seq - 1)
    BY <2>1, SeqGrows DEF DraftOK
  <2>10. HasSeq(db', draft[w].anchor_seq - 1) => HasSeq(db, draft[w].anchor_seq - 1)'
    BY DEF HasSeq
  <2> QED BY <2>1, <2>6, <2>8, <2>9, <2>10 DEF DraftOK
<1>5. /\ pc[w] = "second" => part[w].base \in 1 .. Len(snapshots')
      /\ pc[w] = "record" => /\ part[w].a \in 1 .. Len(snapshots')
                             /\ part[w].b \in 1 .. Len(snapshots')
  <2>1. Keeps(snapshots', snapshots) /\ Len(snapshots) \in Nat BY Types DEF Grows
  <2>2. Len(snapshots') \in Nat
    <3>1. snapshots' \in Seq(Saved) BY DEF TypeInv
    <3> QED BY <3>1, LenProperties
  <2> QED BY <2>1, <2>2, Positions DEF CallOK
<1> QED BY <1>2, <1>3, <1>4, <1>5 DEF CallOK

\* A worker that does nothing.
LEMMA CallGrows ==
    ASSUME TypeInv, TypeInv', Grows, NEW w \in AnchorWorkers, CallOK(w),
           pc'[w] = pc[w], part'[w] = part[w], draft'[w] = draft[w]
    PROVE  CallOK(w)'
<1>1. /\ Anchoring(w)' <=> Anchoring(w)
      /\ Drafting(w)' <=> Drafting(w)
      /\ Collecting(w)' <=> Collecting(w)
  BY DEF Anchoring, Drafting, Collecting
<1> QED BY <1>1, CallMoves

-----------------------------------------------------------------------------
(* Steps of one worker that commit, record and save nothing.               *)

\* The ledger, the tables and the clock stand still.
Quiet == UNCHANGED <<db, clock, heads, roots, audit, snapshots, events>>

\* Tables that stand still are tables that grow.
LEMMA QuietGrows ==
    ASSUME TypeInv, Quiet
    PROVE  Grows
<1>1. /\ Len(db) \in Nat /\ Len(roots) \in Nat /\ Len(audit) \in Nat
      /\ Len(snapshots) \in Nat /\ clock \in Nat
  BY Types
<1> QED BY <1>1 DEF Quiet, Grows, Keeps

StaleKeeps ==
    \A x \in AnchorWorkers : conn'[x] = "stale" => conn[x] = "stale" /\ snap'[x] = snap[x]

\* The anchor store stays as it is.
LEMMA StoreStays ==
    ASSUME TypeInv, TypeInv', StoreInv, Grows, db' = db, StaleKeeps
    PROVE  StoreInv'
<1>1. RowsChained(db)' BY DEF StoreInv, RowsChained, HasSeq
<1>2. ASSUME NEW x \in AnchorWorkers, conn'[x] = "stale" PROVE ViewOK(snap[x])'
  <2>1. conn[x] = "stale" /\ snap'[x] = snap[x] BY <1>2 DEF StaleKeeps
  <2>2. ViewOK(snap[x]) /\ snap[x] \in Seq(Row) BY <2>1, Types DEF StoreInv
  <2>3. ASSUME NEW rows, rows = snap[x] PROVE ViewOK(rows)' BY <2>2, <2>3, ViewGrows
  <2> QED BY <2>1, <2>3
<1>3. ASSUME NEW n \in 1 .. Len(db') PROVE Born(db[n].chain_hash, db[n].anchored_at)'
  <2>1. n \in 1 .. Len(db) /\ Born(db[n].chain_hash, db[n].anchored_at) BY DEF StoreInv
  <2>2. db[n].anchored_at \in Nat BY <2>1, Types
  <2>3. ASSUME NEW h, h = db[n].chain_hash, NEW u, u = db[n].anchored_at PROVE Born(h, u)'
    BY <2>1, <2>2, <2>3, BornGrows
  <2> QED BY <2>3
<1> QED BY <1>1, <1>2, <1>3 DEF StoreInv

\* The other workers' requests, the saved snapshots and the history, in any step that
\* lets the tables grow.
LEMMA OthersStay ==
    ASSUME TypeInv, CallsInv, TypeInv', Grows, NEW w \in AnchorWorkers, OthersKeep(w), CallOK(w)'
    PROVE  CallsInv'
<1>1. ASSUME NEW x \in AnchorWorkers, x # w PROVE CallOK(x)'
  <2>1. CallOK(x) BY DEF CallsInv
  <2> QED BY <1>1, <2>1, CallGrows DEF OthersKeep
<1> QED BY <1>1 DEF CallsInv

\* A saved snapshot stays right.
LEMMA SavedStays ==
    ASSUME TypeInv, SavedInv, TypeInv', Grows,
           NEW n \in 1 .. Len(snapshots), snapshots'[n] = snapshots[n]
    PROVE  RowOK(snapshots[n])'
<1>1. RowOK(snapshots[n]) /\ snapshots[n].recorded_at \in Nat BY Types DEF SavedInv, Saved
<1>2. ASSUME NEW s, s = snapshots[n] PROVE RowOK(s)' BY <1>1, <1>2, RowGrows
<1> QED BY <1>2

\* The history of a ledger that stands still.
LEMMA HistorySame ==
    ASSUME HistoryInv, UNCHANGED <<heads, roots>>
    PROVE  HistoryInv'
<1>1. PICK hist : HistoryOf(hist) BY DEF HistoryInv
<1>2. HistoryOf(hist)' BY <1>1 DEF HistoryOf
<1> QED BY <1>2 DEF HistoryInv

\* A quiet step of a worker is right if the worker's own request stays right.
LEMMA QuietStep ==
    ASSUME IInv, TypeInv', NEW w \in AnchorWorkers, OthersKeep(w), Quiet, StaleKeeps,
           LockInv', CallOK(w)'
    PROVE  IInv'
<1>1. /\ TypeInv /\ StoreInv /\ TimesInv /\ CallsInv /\ SavedInv /\ EventsInv /\ HistoryInv
  BY DEF IInv
<1>2. Grows BY <1>1, QuietGrows
<1>3. StoreInv' BY <1>1, <1>2, StoreStays DEF Quiet
<1>4. TimesInv' BY <1>1 DEF Quiet, TimesInv
<1>5. CallsInv' BY <1>1, <1>2, OthersStay
<1>6. SavedInv'
  <2>1. ASSUME NEW n \in 1 .. Len(snapshots') PROVE RowOK(snapshots[n])'
    <3>1. n \in 1 .. Len(snapshots) /\ snapshots'[n] = snapshots[n] BY DEF Quiet
    <3> QED BY <1>1, <1>2, <3>1, SavedStays
  <2> QED BY <2>1 DEF SavedInv
<1>7. EventsInv' BY <1>1 DEF Quiet, EventsInv
<1>8. HistoryInv' BY <1>1, HistorySame DEF Quiet
<1> QED BY <1>3, <1>4, <1>5, <1>6, <1>7, <1>8 DEF IInv

\* The write lock stays where it is.
LEMMA LockKept ==
    ASSUME LockInv, NEW w \in AnchorWorkers, OthersKeep(w), UNCHANGED <<db, lock, txn>>,
           pc[w] # "commit", pc'[w] # "commit"
    PROVE  LockInv'
BY DEF LockInv, OthersKeep

\* A worker that had the lock, or not, has it no more.
LEMMA LockDropped ==
    ASSUME LockInv, NEW w \in AnchorWorkers, OthersKeep(w), db' = db, Release(w),
           pc'[w] # "commit"
    PROVE  LockInv'
BY TrailAssumption DEF LockInv, OthersKeep, Release

\* A worker has inserted its row.
LEMMA LockTaken ==
    ASSUME LockInv, NEW w \in AnchorWorkers, OthersKeep(w), db' = db, draft' = draft,
           CanWrite(w), lock' = w, txn' = Append(db, draft[w]), pc'[w] = "commit"
    PROVE  LockInv'
BY TrailAssumption DEF LockInv, OthersKeep, CanWrite

\* A SELECT pins a connection at most.
LEMMA ReadIs ==
    ASSUME TypeInv, NEW w \in AnchorWorkers, Read(w)
    PROVE  /\ UNCHANGED <<db, lock, txn, snap>> /\ StaleKeeps
           /\ conn' \in [AnchorWorkers -> ConnStates]
<1>1. conn \in [AnchorWorkers -> ConnStates] BY DEF TypeInv
<1>2. UNCHANGED <<db, lock, txn, snap>> BY DEF Read
<1>3. conn' = [conn EXCEPT ![w] = "pinned"] \/ conn' = conn BY DEF Read
<1> QED BY <1>1, <1>2, <1>3 DEF StaleKeeps, ConnStates

\* A failed write opens a transaction and changes no table.
LEMMA WriteFailsIs ==
    ASSUME TypeInv, NEW w \in AnchorWorkers, WriteFails(w)
    PROVE  /\ UNCHANGED <<db, lock, txn, snap>> /\ StaleKeeps
           /\ conn' \in [AnchorWorkers -> ConnStates]
<1>1. conn \in [AnchorWorkers -> ConnStates] BY DEF TypeInv
<1>2. UNCHANGED <<db, lock, txn, snap>> BY DEF WriteFails
<1>3. conn' = [conn EXCEPT ![w] = "open"] \/ conn' = conn BY DEF WriteFails
<1> QED BY <1>1, <1>2, <1>3 DEF StaleKeeps, ConnStates

\* The end of a process drops its transaction.
LEMMA RollbackIs ==
    ASSUME TypeInv, NEW w \in AnchorWorkers, Rollback(w)
    PROVE  /\ db' = db /\ Release(w) /\ StaleKeeps
           /\ lock' \in AnchorWorkers \cup {NoWorker}
           /\ conn' \in [AnchorWorkers -> ConnStates]
           /\ snap' \in [AnchorWorkers -> Seq(Row)]
<1>1. conn \in [AnchorWorkers -> ConnStates] /\ snap \in [AnchorWorkers -> Seq(Row)]
      /\ lock \in AnchorWorkers \cup {NoWorker}
  BY DEF TypeInv
<1>2. /\ db' = db /\ Release(w) /\ snap' = [snap EXCEPT ![w] = EmptyDb]
      /\ conn' = [conn EXCEPT ![w] = "closed"]
  BY DEF Rollback
<1>3. EmptyDb \in Seq(Row) BY DEF EmptyDb
<1>4. lock' \in AnchorWorkers \cup {NoWorker} BY <1>1, <1>2 DEF Release
<1>5. snap' \in [AnchorWorkers -> Seq(Row)] BY <1>1, <1>2, <1>3
<1> QED BY <1>1, <1>2, <1>4, <1>5 DEF StaleKeeps, ConnStates

\* An assignment to one worker's program counter.
LEMMA PcIs ==
    ASSUME TypeInv, NEW w \in AnchorWorkers, NEW step \in Steps, Goto(w, step)
    PROVE  /\ pc' \in [AnchorWorkers -> Steps] /\ pc'[w] = step
           /\ \A x \in AnchorWorkers : x # w => pc'[x] = pc[x]
BY DEF TypeInv, Goto

\* An assignment to one worker's request.
LEMMA PartIs ==
    ASSUME TypeInv, NEW w \in AnchorWorkers, NEW v, part' = [part EXCEPT ![w] = v]
    PROVE  /\ DOMAIN part' = AnchorWorkers /\ part'[w] = v
           /\ \A x \in AnchorWorkers : x # w => part'[x] = part[x]
BY DEF TypeInv

\* An assignment to one worker's draft.
LEMMA DraftIs ==
    ASSUME TypeInv, NEW w \in AnchorWorkers, NEW v, draft' = [draft EXCEPT ![w] = v]
    PROVE  /\ DOMAIN draft' = AnchorWorkers /\ draft'[w] = v
           /\ \A x \in AnchorWorkers : x # w => draft'[x] = draft[x]
BY DEF TypeInv

-----------------------------------------------------------------------------
(* The snapshots and the anchors that are begun.                           *)

\* A worker without a request has nothing to account for.
LEMMA IdleCall ==
    ASSUME NEW w \in AnchorWorkers, pc'[w] = "idle"
    PROVE  CallOK(w)'
BY DEF CallOK, Collecting, Anchoring, Drafting

\* A snapshot starts as one of the empty ledger.
LEMMA StartIsRight ==
    ASSUME IInv, NEW op \in {"snapshot", "drift"}, NEW env \in Environments, NEW base \in Nat,
           op = "drift" => base \in 1 .. Len(snapshots)
    PROVE  LET s == SnapshotStart(op, env, base)
           IN  s \in Snapshot /\ SnapOK(s)
<1> DEFINE s == SnapshotStart(op, env, base)
<1>1. TypeInv /\ TimesInv BY DEF IInv
<1>2. clock \in Times /\ clock <= clock BY <1>1, Types
<1>3. Len(roots) \in Nat /\ 1 \in 1 .. Len(roots) BY <1>1, Types DEF TimesInv
<1>4. ZERO_ROOT \in Roots /\ RootHash(ZERO_ROOT) \in Hashes
  <2>1. roots[1].root \in Roots BY <1>1, <1>3, Types
  <2> QED BY <2>1, <1>1 DEF TimesInv, RootHash, Hashes
<1>5. s \in Snapshot
  <2> HIDE DEF Snapshot
  <2>1. s \in Snapshot BY <1>2, <1>4 DEF SnapshotStart, Snapshot
  <2> QED BY <2>1
<1>6. /\ s.version = 1 /\ s.instance_count = 0 /\ s.system_root = ZERO_ROOT
      /\ s.recorded_at = clock /\ s.fresh = FALSE /\ s.anchored = FALSE
      /\ s.anchors = RootHash(ZERO_ROOT) /\ s.op = op /\ s.base = base
  BY DEF SnapshotStart
<1> HIDE DEF s
<1>7. SnapOK(s) BY <1>1, <1>2, <1>3, <1>6 DEF SnapOK, RowOK, TimesInv
<1> QED BY <1>5, <1>7 DEF s

\* The root of a snapshot has been there.
LEMMA RootIsBorn ==
    ASSUME TypeInv, TimesInv, NEW s \in Snapshot, SnapOK(s)
    PROVE  Born(s.anchors, clock)
<1>1. /\ s.version \in 1 .. Len(roots) /\ s.system_root = roots[s.version].root
      /\ s.anchors = RootHash(s.system_root)
  BY DEF SnapOK, RowOK
<1>2. roots[s.version].time <= clock BY <1>1 DEF TimesInv
<1>3. s.anchors.kind = "root" /\ s.anchors.hash = s.system_root BY <1>1 DEF RootHash
<1> QED BY <1>1, <1>2, <1>3 DEF Born

\* A request that starts a snapshot.
LEMMA StartStep ==
    ASSUME IInv, NEW w \in AnchorWorkers, pc[w] # "commit", Quiet,
           UNCHANGED <<lock, txn, conn, snap, draft>>, Goto(w, "ledger"),
           requests' \in 0 .. MaxRequests,
           NEW op \in {"snapshot", "drift"}, NEW env \in Environments, NEW base \in Nat,
           op = "drift" => base \in 1 .. Len(snapshots),
           part' = [part EXCEPT ![w] = SnapshotStart(op, env, base)]
    PROVE  IInv'
<1>1. TypeInv /\ LockInv BY DEF IInv
<1>2. /\ pc' \in [AnchorWorkers -> Steps] /\ pc'[w] = "ledger"
      /\ \A x \in AnchorWorkers : x # w => pc'[x] = pc[x]
  BY <1>1, PcIs DEF Steps
<1>3. /\ DOMAIN part' = AnchorWorkers /\ part'[w] = SnapshotStart(op, env, base)
      /\ \A x \in AnchorWorkers : x # w => part'[x] = part[x]
  BY <1>1, PartIs
<1>4. OthersKeep(w) BY <1>2, <1>3 DEF OthersKeep
<1>5. TypeInv' BY <1>1, <1>2, <1>3 DEF TypeInv, Quiet
<1>6. StaleKeeps BY DEF StaleKeeps
<1>7. LockInv' BY <1>1, <1>2, <1>4, LockKept DEF Quiet
<1>8. ASSUME NEW s, s = SnapshotStart(op, env, base)
      PROVE  s \in Snapshot /\ SnapOK(s)' /\ s.anchored = FALSE
  <2>1. s \in Snapshot /\ SnapOK(s) BY <1>8, StartIsRight
  <2>2. s.anchored = FALSE BY <1>8 DEF SnapshotStart
  <2> QED BY <2>1, <2>2, <1>1, <1>5, QuietGrows, SnapGrows
<1>9. CallOK(w)'
  BY <1>2, <1>3, <1>8 DEF CallOK, Collecting, Anchoring, Drafting
<1> QED BY <1>4, <1>5, <1>6, <1>7, <1>9, QuietStep

\* POST /system/snapshot takes the time.
LEMMA SnapshotRequestStep ==
    ASSUME IInv, NEW w \in AnchorWorkers, NEW env \in Environments, SnapshotRequest(w, env)
    PROVE  IInv'
<1>1. requests \in 0 .. MaxRequests /\ MaxRequests \in Nat
  BY TrailAssumption DEF IInv, TypeInv
<1>2. requests' \in 0 .. MaxRequests BY <1>1 DEF SnapshotRequest, Arrives
<1>3. pc[w] # "commit" BY DEF SnapshotRequest, Arrives
<1>4. Quiet /\ UNCHANGED <<lock, txn, conn, snap, draft>> /\ Goto(w, "ledger")
  BY DEF SnapshotRequest, dbVars, trailVars, Quiet
<1>5. part' = [part EXCEPT ![w] = SnapshotStart("snapshot", env, 0)]
  BY DEF SnapshotRequest
<1> QED BY <1>2, <1>3, <1>4, <1>5, StartStep

\* GET /system/drift, with one snapshot only, takes another.
LEMMA DriftSnapshotStep ==
    ASSUME IInv, NEW w \in AnchorWorkers, DriftSnapshot(w)
    PROVE  IInv'
<1>1. TypeInv /\ CallOK(w) BY DEF IInv, CallsInv
<1>2. pc[w] = "second" /\ UNCHANGED requests /\ requests \in 0 .. MaxRequests
  BY <1>1 DEF DriftSnapshot, TypeInv
<1>3. Quiet /\ UNCHANGED <<lock, txn, conn, snap, draft>> /\ Goto(w, "ledger")
  BY DEF DriftSnapshot, dbVars, trailVars, Quiet
<1>4. part[w] \in DriftCall /\ part[w].base \in 1 .. Len(snapshots)
  BY <1>1, <1>2 DEF CallOK
<1>5. part[w].env_a \in Environments /\ part[w].base \in Nat BY <1>4 DEF DriftCall
<1>6. part' = [part EXCEPT ![w] = SnapshotStart("drift", part[w].env_a, part[w].base)]
  BY DEF DriftSnapshot
<1> QED BY <1>2, <1>3, <1>4, <1>5, <1>6, StartStep

\* POST /audit/anchor has read the last hash of the audit log.
LEMMA AnchorRequestStep ==
    ASSUME IInv, NEW w \in AnchorWorkers, AnchorRequest(w)
    PROVE  IInv'
<1>1. TypeInv /\ LockInv /\ TimesInv BY DEF IInv
<1>14. PICK version \in 0 .. Len(audit) :
          part' = [part EXCEPT ![w] = [op |-> "anchor", anchors |-> AuditHash(version)]]
  BY DEF AnchorRequest
<1>2. pc[w] = "idle" /\ Goto(w, "seq")
      /\ part' = [part EXCEPT ![w] = [op |-> "anchor", anchors |-> AuditHash(version)]]
      /\ Quiet /\ UNCHANGED <<lock, txn, conn, snap, draft>>
  BY <1>14 DEF AnchorRequest, Arrives, Quiet, dbVars, trailVars
<1>3. requests' \in 0 .. MaxRequests
  <2>1. requests \in 0 .. MaxRequests /\ MaxRequests \in Nat
    BY <1>1, TrailAssumption DEF TypeInv
  <2> QED BY <2>1 DEF AnchorRequest, Arrives
<1>4. /\ pc' \in [AnchorWorkers -> Steps] /\ pc'[w] = "seq"
      /\ \A x \in AnchorWorkers : x # w => pc'[x] = pc[x]
  BY <1>1, <1>2, PcIs DEF Steps
<1>5. /\ DOMAIN part' = AnchorWorkers
      /\ part'[w] = [op |-> "anchor", anchors |-> AuditHash(version)]
      /\ \A x \in AnchorWorkers : x # w => part'[x] = part[x]
  BY <1>1, <1>2, PartIs
<1>6. OthersKeep(w) BY <1>2, <1>4, <1>5 DEF OthersKeep
<1>7. TypeInv' BY <1>1, <1>2, <1>3, <1>4, <1>5 DEF TypeInv, Quiet
<1>8. StaleKeeps BY <1>2 DEF StaleKeeps
<1>9. LockInv' BY <1>1, <1>2, <1>4, <1>6, LockKept DEF Quiet
<1>10. /\ part'[w].op = "anchor" /\ part'[w].anchors = AuditHash(version)
       /\ part'[w] \in AnchorCall
  <2>1. AuditHash(version) \in Hashes BY <1>1, Types DEF AuditHash, Hashes
  <2> QED BY <2>1, <1>5 DEF AnchorCall
<1>11. Born(part[w].anchors, clock)'
  <2>1. part'[w].anchors.kind = "audit" /\ part'[w].anchors.hash = version
    BY <1>10 DEF AuditHash
  <2>2. version = 0 \/ (version \in 1 .. Len(audit') /\ audit'[version] <= clock')
    <3>1. version = 0 \/ (version \in 1 .. Len(audit) /\ audit[version] <= clock)
      BY <1>1, Types DEF TimesInv
    <3> QED BY <3>1, <1>2 DEF Quiet
  <2> QED BY <2>1, <2>2 DEF Born
<1>12. ~Collecting(w)' /\ ~Drafting(w)' BY <1>4, <1>10 DEF Collecting, Drafting
<1>13. CallOK(w)' BY <1>4, <1>10, <1>11, <1>12 DEF CallOK
<1> QED BY <1>2, <1>6, <1>7, <1>8, <1>9, <1>13, QuietStep

\* GET /system/drift has found a snapshot to compare with.
LEMMA DriftRequestStep ==
    ASSUME IInv, NEW w \in AnchorWorkers, NEW a \in Environments,
           NEW b \in Environments \cup {NoEnv}, DriftRequest(w, a, b)
    PROVE  IInv'
<1>1. TypeInv /\ LockInv BY DEF IInv
<1>2. PICK n \in get_latest(snapshots, a) :
         part' = [part EXCEPT ![w] = [op |-> "drift", base |-> n, env_a |-> a, env_b |-> b]]
  BY DEF DriftRequest
<1>3. n \in 1 .. Len(snapshots) BY <1>1, <1>2, Types DEF get_latest
<1>4. pc[w] = "idle" /\ Goto(w, "second") /\ Quiet
      /\ UNCHANGED <<lock, txn, conn, snap, draft>>
  BY DEF DriftRequest, Arrives, Quiet, dbVars, trailVars
<1>5. requests' \in 0 .. MaxRequests
  <2>1. requests \in 0 .. MaxRequests /\ MaxRequests \in Nat
    BY <1>1, TrailAssumption DEF TypeInv
  <2> QED BY <2>1 DEF DriftRequest, Arrives
<1>6. /\ pc' \in [AnchorWorkers -> Steps] /\ pc'[w] = "second"
      /\ \A x \in AnchorWorkers : x # w => pc'[x] = pc[x]
  BY <1>1, <1>4, PcIs DEF Steps
<1>7. /\ DOMAIN part' = AnchorWorkers
      /\ part'[w] = [op |-> "drift", base |-> n, env_a |-> a, env_b |-> b]
      /\ \A x \in AnchorWorkers : x # w => part'[x] = part[x]
  BY <1>1, <1>2, PartIs
<1>8. OthersKeep(w) BY <1>4, <1>6, <1>7 DEF OthersKeep
<1>9. TypeInv' BY <1>1, <1>4, <1>5, <1>6, <1>7 DEF TypeInv, Quiet
<1>10. StaleKeeps BY <1>4 DEF StaleKeeps
<1>11. LockInv' BY <1>1, <1>4, <1>6, <1>8, LockKept DEF Quiet
<1>12. part'[w] \in DriftCall /\ part'[w].base \in 1 .. Len(snapshots')
  BY <1>3, <1>4, <1>7 DEF DriftCall, Quiet
<1>13. ~Collecting(w)' /\ ~Drafting(w)' /\ ~Anchoring(w)'
  BY <1>6 DEF Collecting, Drafting, Anchoring
<1>14. CallOK(w)' BY <1>6, <1>12, <1>13 DEF CallOK
<1> QED BY <1>4, <1>8, <1>9, <1>10, <1>11, <1>14, QuietStep

-----------------------------------------------------------------------------
(* The reads of take_snapshot and the steps of anchor().                   *)

\* A read that fills in fields of a snapshot.
LEMMA FieldStep ==
    ASSUME IInv, NEW w \in AnchorWorkers, pc[w] \in {"ledger", "chain", "count"}, Quiet,
           UNCHANGED <<lock, txn, conn, snap, draft, requests>>,
           NEW step \in {"chain", "count", "seq", "save"}, Goto(w, step),
           NEW v \in Snapshot, part' = [part EXCEPT ![w] = v], SnapOK(v)
    PROVE  IInv'
<1>1. TypeInv /\ LockInv /\ TimesInv /\ CallOK(w) BY DEF IInv, CallsInv
<1>2. /\ pc' \in [AnchorWorkers -> Steps] /\ pc'[w] = step
      /\ \A x \in AnchorWorkers : x # w => pc'[x] = pc[x]
  BY <1>1, PcIs DEF Steps
<1>3. /\ DOMAIN part' = AnchorWorkers /\ part'[w] = v
      /\ \A x \in AnchorWorkers : x # w => part'[x] = part[x]
  BY <1>1, PartIs
<1>4. OthersKeep(w) BY <1>2, <1>3 DEF OthersKeep
<1>5. TypeInv' BY <1>1, <1>2, <1>3 DEF TypeInv, Quiet
<1>6. StaleKeeps BY DEF StaleKeeps
<1>7. LockInv' BY <1>1, <1>2, <1>4, LockKept DEF Quiet
<1>10. SnapOK(v)' BY <1>1, <1>5, QuietGrows, SnapGrows
<1>11. SnapOK(part[w])' BY <1>3, <1>10
<1>12. Born(part[w].anchors, clock)'
  <2>1. Born(v.anchors, clock) BY <1>1, RootIsBorn
  <2>2. clock \in Nat /\ clock <= clock BY <1>1, Types
  <2>3. ASSUME NEW h, h = v.anchors, NEW u, u = clock PROVE Born(h, u)'
    BY <2>1, <2>2, <2>3, <1>1, <1>5, QuietGrows, BornGrows
  <2> QED BY <2>3, <1>3 DEF Quiet
<1>13. Collecting(w)'
  <2>1. part'[w].op # "anchor" BY <1>3 DEF Snapshot
  <2> QED BY <2>1, <1>2 DEF Collecting, Anchoring
<1>14. ~Drafting(w)' /\ pc'[w] \notin {"second", "record", "ledger"} BY <1>2 DEF Drafting
<1>15. CallOK(w)' BY <1>3, <1>11, <1>12, <1>13, <1>14 DEF CallOK
<1> QED BY <1>4, <1>5, <1>6, <1>7, <1>15, QuietStep

\* What a worker has collected.
LEMMA CollectedIs ==
    ASSUME IInv, NEW w \in AnchorWorkers, pc[w] \in {"ledger", "chain", "count", "save"}
    PROVE  part[w] \in Snapshot /\ SnapOK(part[w])
BY DEF IInv, CallsInv, CallOK, Collecting

\* take_snapshot reads the latest hash of every instance, or what they were.
LEMMA ReadLedgerStep ==
    ASSUME IInv, NEW w \in AnchorWorkers, ReadLedger(w)
    PROVE  IInv'
<1>1. TypeInv BY DEF IInv
<1>2. PICK version \in DOMAIN roots :
         part' = [part EXCEPT ![w] = [@ EXCEPT
             !.system_root    = roots[version].root,
             !.instance_count = roots[version].count,
             !.version        = version,
             !.fresh          = version = Len(roots),
             !.anchors        = RootHash(roots[version].root)]]
  BY DEF ReadLedger
<1>3. /\ pc[w] = "ledger" /\ Goto(w, "chain") /\ Quiet
      /\ UNCHANGED <<lock, txn, conn, snap, draft, requests>>
  BY DEF ReadLedger, Quiet, dbVars, trailVars
<1>4. part[w] \in Snapshot /\ SnapOK(part[w]) BY <1>3, CollectedIs
<1> DEFINE v == [part[w] EXCEPT !.system_root    = roots[version].root,
                                !.instance_count = roots[version].count,
                                !.version        = version,
                                !.fresh          = version = Len(roots),
                                !.anchors        = RootHash(roots[version].root)]
<1>5. part' = [part EXCEPT ![w] = v] BY <1>2
<1>6. /\ version \in 1 .. Len(roots) /\ Len(roots) \in Nat /\ version \in Nat
      /\ roots[version].root \in Roots /\ roots[version].count \in Nat
  BY <1>1, Types
<1>7. RootHash(roots[version].root) \in Hashes BY <1>6 DEF RootHash, Hashes
<1>8. v \in Snapshot BY <1>4, <1>6, <1>7 DEF Snapshot
<1>9. /\ v.op = part[w].op /\ v.base = part[w].base /\ v.recorded_at = part[w].recorded_at
      /\ v.anchored = part[w].anchored
      /\ v.system_root = roots[version].root /\ v.instance_count = roots[version].count
      /\ v.version = version /\ v.fresh = (version = Len(roots))
      /\ v.anchors = RootHash(roots[version].root)
  BY <1>4 DEF Snapshot
<1> HIDE DEF v
<1>10. v.fresh => \A k \in v.version + 1 .. Len(roots) : v.recorded_at <= roots[k].time
  <2>1. CASE version = Len(roots)
    <3>1. \A k \in v.version + 1 .. Len(roots) : FALSE BY <1>6, <1>9, <2>1
    <3> QED BY <3>1
  <2>2. CASE version # Len(roots)
    <3>1. v.fresh = FALSE BY <1>9, <2>2
    <3> QED BY <3>1
  <2> QED BY <2>1, <2>2
<1>11. v.anchored = FALSE
  <2>1. CallOK(w) BY DEF IInv, CallsInv
  <2> QED BY <2>1, <1>3, <1>9 DEF CallOK
<1>12. SnapOK(v) BY <1>4, <1>6, <1>9, <1>10, <1>11 DEF SnapOK, RowOK
<1> QED BY <1>3, <1>5, <1>8, <1>12, FieldStep

\* The SELECT raised: the snapshot goes on as it was begun.
LEMMA ReadLedgerFailsStep ==
    ASSUME IInv, NEW w \in AnchorWorkers, ReadLedgerFails(w)
    PROVE  IInv'
<1>1. TypeInv /\ LockInv /\ CallOK(w) BY DEF IInv, CallsInv
<1>2. /\ pc[w] = "ledger" /\ Goto(w, "chain") /\ Quiet /\ UNCHANGED part
      /\ UNCHANGED <<lock, txn, conn, snap, draft, requests>>
  BY DEF ReadLedgerFails, Quiet, dbVars, trailVars
<1>3. /\ pc' \in [AnchorWorkers -> Steps] /\ pc'[w] = "chain"
      /\ \A x \in AnchorWorkers : x # w => pc'[x] = pc[x]
  BY <1>1, <1>2, PcIs DEF Steps
<1>4. OthersKeep(w) BY <1>2, <1>3 DEF OthersKeep
<1>5. TypeInv' BY <1>1, <1>2, <1>3 DEF TypeInv, Quiet
<1>6. StaleKeeps BY <1>2 DEF StaleKeeps
<1>7. LockInv' BY <1>1, <1>2, <1>3, <1>4, LockKept DEF Quiet
<1>8. /\ Collecting(w) /\ Collecting(w)' /\ ~Anchoring(w)' /\ ~Drafting(w)'
  BY <1>2, <1>3 DEF Collecting, Anchoring, Drafting
<1>9. CallOK(w)' BY <1>1, <1>2, <1>3, <1>5, <1>8, QuietGrows, CallMoves
<1> QED BY <1>2, <1>4, <1>5, <1>6, <1>7, <1>9, QuietStep

\* A read of the audit log changes nothing that a later step depends on.
LEMMA AuditReadStep ==
    ASSUME IInv, NEW w \in AnchorWorkers, pc[w] \in {"chain", "count"}, Quiet,
           UNCHANGED <<lock, txn, conn, snap, draft, requests>>,
           NEW step \in {"chain", "count", "seq", "save"}, Goto(w, step),
           NEW v, part' = [part EXCEPT ![w] = v],
           NEW hash \in Nat, NEW count \in Nat, NEW stuck \in BOOLEAN,
           v = [part[w] EXCEPT !.audit_chain_hash = hash, !.audit_row_count = count,
                               !.stuck = stuck]
    PROVE  IInv'
<1>1. part[w] \in Snapshot /\ SnapOK(part[w]) BY CollectedIs
<1>2. v \in Snapshot BY <1>1 DEF Snapshot
<1>3. /\ v.op = part[w].op /\ v.base = part[w].base /\ v.recorded_at = part[w].recorded_at
      /\ v.system_root = part[w].system_root /\ v.version = part[w].version
      /\ v.instance_count = part[w].instance_count /\ v.fresh = part[w].fresh
      /\ v.anchors = part[w].anchors /\ v.anchored = part[w].anchored
  BY <1>1 DEF Snapshot
<1>4. SnapOK(v) BY <1>1, <1>3 DEF SnapOK, RowOK
<1> QED BY <1>2, <1>4, FieldStep

\* take_snapshot reads the last hash of the audit log, or what it was.
LEMMA ReadChainHashStep ==
    ASSUME IInv, NEW w \in AnchorWorkers, ReadChainHash(w)
    PROVE  IInv'
<1>1. TypeInv BY DEF IInv
<1>2. /\ pc[w] = "chain" /\ Goto(w, "count") /\ Quiet
      /\ UNCHANGED <<lock, txn, conn, snap, draft, requests>>
  BY DEF ReadChainHash, Quiet, dbVars, trailVars
<1>3. PICK version \in 0 .. Len(audit), stuck \in BOOLEAN :
         part' = [part EXCEPT ![w].audit_chain_hash = version, ![w].stuck = stuck]
  BY DEF ReadChainHash, Stuck
<1>4. part[w] \in Snapshot BY <1>2, CollectedIs
<1>5. version \in Nat /\ part[w].audit_row_count \in Nat BY <1>1, <1>4, Types DEF Snapshot
<1> DEFINE v == [part[w] EXCEPT !.audit_chain_hash = version,
                                !.audit_row_count = part[w].audit_row_count, !.stuck = stuck]
<1>6. v = [part[w] EXCEPT !.audit_chain_hash = version, !.stuck = stuck]
  BY <1>4 DEF Snapshot
<1>7. part' = [part EXCEPT ![w] = v]
  <2>1. part' = [part EXCEPT ![w] = [part[w] EXCEPT !.audit_chain_hash = version,
                                                    !.stuck = stuck]]
    BY <1>1, <1>3 DEF TypeInv
  <2> QED BY <2>1, <1>6
<1> QED BY <1>2, <1>5, <1>7, AuditReadStep

\* take_snapshot counts the rows of the audit log.
LEMMA ReadRowCountStep ==
    ASSUME IInv, NEW w \in AnchorWorkers, ReadRowCount(w)
    PROVE  IInv'
<1>1. TypeInv BY DEF IInv
<1>2. /\ pc[w] = "count" /\ Quiet
      /\ UNCHANGED <<lock, txn, conn, snap, draft, requests>>
  BY DEF ReadRowCount, Quiet, dbVars, trailVars
<1> DEFINE count == IF part[w].stuck THEN part[w].audit_chain_hash ELSE Len(audit)
<1>3. part' = [part EXCEPT ![w] = [part[w] EXCEPT !.audit_row_count = count, !.stuck = FALSE]]
  BY DEF ReadRowCount
<1>4. part[w] \in Snapshot BY <1>2, CollectedIs
<1>5. part[w].audit_chain_hash \in Nat /\ count \in Nat BY <1>1, <1>4, Types DEF Snapshot
<1> HIDE DEF count
<1> DEFINE v == [part[w] EXCEPT !.audit_chain_hash = part[w].audit_chain_hash,
                                !.audit_row_count = count, !.stuck = FALSE]
<1>6. v = [part[w] EXCEPT !.audit_row_count = count, !.stuck = FALSE]
  BY <1>4 DEF Snapshot
<1>7. part' = [part EXCEPT ![w] = v] BY <1>3, <1>6
<1>8. Goto(w, "save") \/ Goto(w, "seq") BY DEF ReadRowCount
<1> HIDE DEF v
<1>9. v = [part[w] EXCEPT !.audit_chain_hash = part[w].audit_chain_hash,
                          !.audit_row_count = count, !.stuck = FALSE]
  BY DEF v
<1> QED BY <1>2, <1>5, <1>7, <1>8, <1>9, AuditReadStep

\* What a SELECT of a worker returns.
LEMMA ViewIs ==
    ASSUME TypeInv, StoreInv, NEW w \in AnchorWorkers
    PROVE  View(w) \in Seq(Row) /\ ViewOK(View(w))
<1>1. db \in Seq(Row) /\ snap[w] \in Seq(Row) BY Types DEF TypeInv
<1>2. ViewOK(db)
  <2>1. Len(db) \in Nat BY Types
  <2> QED BY <2>1 DEF ViewOK, StoreInv, HasSeq
<1>3. conn[w] = "stale" => ViewOK(snap[w]) BY DEF StoreInv
<1> QED BY <1>1, <1>2, <1>3 DEF View

\* anchor() reads the time and the highest number.
LEMMA AnchorSeqStep ==
    ASSUME IInv, NEW w \in AnchorWorkers, AnchorSeq(w)
    PROVE  IInv'
<1>1. TypeInv /\ LockInv /\ StoreInv /\ CallOK(w) BY DEF IInv, CallsInv
<1> DEFINE d == [chain_hash |-> part[w].anchors, anchored_at |-> clock,
                 anchor_seq |-> NextAnchorSeq(View(w)), prev_anchor |-> 0]
<1>2. /\ pc[w] = "seq" /\ Goto(w, "prev") /\ Read(w) /\ UNCHANGED <<part, requests>>
      /\ draft' = [draft EXCEPT ![w] = d]
      /\ UNCHANGED <<clock, heads, roots, audit, snapshots, events>>
  BY DEF AnchorSeq, SelectAnchorSeq, ANCHOR_GENESIS, trailVars
<1>3. /\ UNCHANGED <<db, lock, txn, snap>> /\ StaleKeeps
      /\ conn' \in [AnchorWorkers -> ConnStates]
  BY <1>1, <1>2, ReadIs
<1>4. /\ pc' \in [AnchorWorkers -> Steps] /\ pc'[w] = "prev"
      /\ \A x \in AnchorWorkers : x # w => pc'[x] = pc[x]
  BY <1>1, <1>2, PcIs DEF Steps
<1>5. /\ DOMAIN draft' = AnchorWorkers /\ draft'[w] = d
      /\ \A x \in AnchorWorkers : x # w => draft'[x] = draft[x]
  BY <1>1, <1>2, DraftIs
<1>6. OthersKeep(w) BY <1>2, <1>4, <1>5 DEF OthersKeep
<1>7. Quiet BY <1>2, <1>3 DEF Quiet
<1>8. TypeInv' BY <1>1, <1>2, <1>3, <1>4, <1>5 DEF TypeInv
<1>9. LockInv' BY <1>1, <1>2, <1>3, <1>4, <1>6, LockKept
<1>10. /\ Anchoring(w) /\ (Collecting(w) <=> part[w].op # "anchor")
       /\ Anchoring(w)' /\ Drafting(w)' /\ (Collecting(w)' <=> Collecting(w))
       /\ pc'[w] \notin {"second", "record", "ledger"}
  BY <1>2, <1>4 DEF Collecting, Anchoring, Drafting
<1>11. /\ Collecting(w) \/ part[w] \in AnchorCall
       /\ Born(part[w].anchors, clock)
       /\ Collecting(w) => part[w] \in Snapshot /\ SnapOK(part[w])
  BY <1>1, <1>10 DEF CallOK
<1>12. part[w].anchors \in Hashes /\ (Collecting(w) => part[w].recorded_at <= clock)
  <2>1. part[w].anchors \in Hashes BY <1>11 DEF Snapshot, AnchorCall
  <2> QED BY <2>1, <1>11 DEF SnapOK, RowOK
<1>13. ASSUME NEW h, h = part[w].anchors, NEW u, u = clock PROVE Born(h, u)'
  <2>1. clock \in Nat /\ clock <= clock BY <1>1, Types
  <2> QED BY <1>1, <1>7, <1>8, <1>11, <1>13, <2>1, QuietGrows, BornGrows
<1>14. /\ NextAnchorSeq(View(w)) \in Nat
       /\ NextAnchorSeq(View(w)) \in 1 .. Len(db) + 1
       /\ NextAnchorSeq(View(w)) > 1 => HasSeq(db, NextAnchorSeq(View(w)) - 1)
  <2> DEFINE rows == View(w)
             top == Max(AnchorSeqs(rows) \cup {0})
  <2>1. rows \in Seq(Row) /\ ViewOK(rows) BY <1>1, ViewIs
  <2>2. Len(rows) \in Nat /\ Len(db) \in Nat /\ Len(rows) <= Len(db)
    BY <2>1, <1>1, RowTypes, Types DEF ViewOK
  <2> HIDE DEF rows
  <2>3. top \in 0 .. Len(rows) /\ (top # 0 => HasSeq(rows, top))
    BY <2>1, HighestSeq DEF ViewOK
  <2>4. NextAnchorSeq(rows) = top + 1 BY DEF NextAnchorSeq
  <2> HIDE DEF top
  <2>5. HasSeq(rows, top) => HasSeq(db, top) BY <2>1 DEF ViewOK, HasSeq
  <2>6. top \in Nat /\ (top + 1) - 1 = top /\ (top + 1 > 1 => top # 0) BY <2>2, <2>3
  <2>7. NextAnchorSeq(rows) \in Nat /\ NextAnchorSeq(rows) \in 1 .. Len(db) + 1
    BY <2>2, <2>3, <2>4
  <2>8. NextAnchorSeq(rows) > 1 => HasSeq(db, NextAnchorSeq(rows) - 1)
    BY <2>3, <2>4, <2>5, <2>6
  <2> QED BY <2>7, <2>8 DEF rows
<1>15. d \in Row /\ d.chain_hash = part[w].anchors /\ d.anchored_at = clock
       /\ d.anchor_seq = NextAnchorSeq(View(w)) /\ d.prev_anchor = 0
  <2>1. clock \in Times BY <1>1, Types
  <2> QED BY <2>1, <1>12, <1>14 DEF Row
<1> HIDE DEF d
<1>16. Len(db) \in Nat BY <1>1, Types
<1>17. Born(draft[w].chain_hash, draft[w].anchored_at)' BY <1>13, <1>5, <1>15
<1>18. ASSUME NEW k, HasSeq(db, k) PROVE HasSeq(db, k)' BY <1>3, <1>18 DEF HasSeq
<1>19. Collecting(w)' => draft'[w].anchored_at >= part'[w].recorded_at
  <2>1. clock \in Nat BY <1>1, Types
  <2>2. Collecting(w) => part[w].recorded_at \in Nat BY <1>1, <1>11, Types DEF Snapshot
  <2> QED BY <2>1, <2>2, <1>2, <1>5, <1>10, <1>12, <1>15
<1>20. DraftOK(w)'
  <2>1. /\ draft'[w] \in Row /\ draft'[w].chain_hash = part'[w].anchors
        /\ draft'[w].anchor_seq \in 1 .. Len(db') + 1
        /\ draft'[w].prev_anchor <= Len(db')
    BY <1>2, <1>3, <1>5, <1>14, <1>15, <1>16
  <2>2. draft'[w].anchor_seq > 1 => HasSeq(db, draft[w].anchor_seq - 1)'
    BY <1>3, <1>5, <1>14, <1>15 DEF HasSeq
  <2> QED BY <2>1, <2>2, <1>17, <1>19 DEF DraftOK
<1>21. Collecting(w)' => part'[w] \in Snapshot /\ SnapOK(part[w])'
  <2>1. ASSUME NEW s, s = part[w], Collecting(w) PROVE SnapOK(s)'
    BY <2>1, <1>1, <1>7, <1>8, <1>11, QuietGrows, SnapGrows
  <2> QED BY <2>1, <1>2, <1>10, <1>11
<1>22. Born(part[w].anchors, clock)' BY <1>2, <1>13
<1>23. CallOK(w)' BY <1>2, <1>10, <1>11, <1>20, <1>21, <1>22 DEF CallOK
<1> QED BY <1>3, <1>6, <1>7, <1>8, <1>9, <1>23, QuietStep

\* anchor() reads the row to continue.
LEMMA AnchorPrevStep ==
    ASSUME IInv, NEW w \in AnchorWorkers, AnchorPrev(w)
    PROVE  IInv'
<1>1. TypeInv /\ LockInv /\ StoreInv /\ CallOK(w) BY DEF IInv, CallsInv
<1>2. /\ pc[w] = "prev" /\ Goto(w, "insert") /\ Read(w) /\ UNCHANGED <<part, requests>>
      /\ draft' = [draft EXCEPT ![w].prev_anchor = Len(View(w))]
      /\ UNCHANGED <<clock, heads, roots, audit, snapshots, events>>
  BY DEF AnchorPrev, SelectPreviousAnchor, trailVars
<1>3. /\ UNCHANGED <<db, lock, txn, snap>> /\ StaleKeeps
      /\ conn' \in [AnchorWorkers -> ConnStates]
  BY <1>1, <1>2, ReadIs
<1>4. /\ pc' \in [AnchorWorkers -> Steps] /\ pc'[w] = "insert"
      /\ \A x \in AnchorWorkers : x # w => pc'[x] = pc[x]
  BY <1>1, <1>2, PcIs DEF Steps
<1> DEFINE d == [draft[w] EXCEPT !.prev_anchor = Len(View(w))]
<1>5. /\ DOMAIN draft' = AnchorWorkers /\ draft'[w] = d
      /\ \A x \in AnchorWorkers : x # w => draft'[x] = draft[x]
  <2>1. draft' = [draft EXCEPT ![w] = d] BY <1>2
  <2> HIDE DEF d
  <2> QED BY <2>1, <1>1, DraftIs
<1>6. OthersKeep(w) BY <1>2, <1>4, <1>5 DEF OthersKeep
<1>7. Quiet BY <1>2, <1>3 DEF Quiet
<1>8. TypeInv' BY <1>1, <1>2, <1>3, <1>4, <1>5 DEF TypeInv
<1>9. LockInv' BY <1>1, <1>2, <1>3, <1>4, <1>6, LockKept
<1>10. /\ Anchoring(w) /\ Drafting(w) /\ Anchoring(w)' /\ Drafting(w)'
       /\ (Collecting(w)' <=> Collecting(w)) /\ pc'[w] \notin {"second", "record", "ledger"}
  BY <1>2, <1>4 DEF Collecting, Anchoring, Drafting
<1>11. /\ Collecting(w) \/ part[w] \in AnchorCall
       /\ Born(part[w].anchors, clock) /\ DraftOK(w)
       /\ Collecting(w) => part[w] \in Snapshot /\ SnapOK(part[w])
  BY <1>1, <1>10 DEF CallOK
<1>12. Len(View(w)) \in Nat /\ Len(View(w)) <= Len(db)
  <2>1. View(w) \in Seq(Row) /\ ViewOK(View(w)) BY <1>1, ViewIs
  <2> QED BY <2>1, RowTypes DEF ViewOK
<1>13. /\ d \in Row /\ d.chain_hash = draft[w].chain_hash
       /\ d.anchored_at = draft[w].anchored_at /\ d.anchor_seq = draft[w].anchor_seq
       /\ d.prev_anchor = Len(View(w))
  <2>1. draft[w] \in Row BY <1>11 DEF DraftOK
  <2> QED BY <2>1, <1>12 DEF Row
<1> HIDE DEF d
<1>14. ASSUME NEW h, NEW t \in Nat, Born(h, t) PROVE Born(h, t)'
  BY <1>1, <1>7, <1>8, <1>14, QuietGrows, BornGrows
<1>15. Born(draft[w].chain_hash, draft[w].anchored_at)'
  <2>1. draft[w].anchored_at \in Nat BY <1>1, <1>11, Types DEF DraftOK, Row
  <2>2. Born(draft[w].chain_hash, draft[w].anchored_at) BY <1>11 DEF DraftOK
  <2>3. ASSUME NEW h, h = draft[w].chain_hash, NEW t, t = draft[w].anchored_at PROVE Born(h, t)'
    BY <1>14, <2>1, <2>2, <2>3
  <2> QED BY <2>3, <1>5, <1>13
<1>16. Born(part[w].anchors, clock)'
  <2>1. clock \in Nat BY <1>1, Types
  <2>2. ASSUME NEW h, h = part[w].anchors, NEW t, t = clock PROVE Born(h, t)'
    BY <1>14, <2>1, <2>2, <1>11
  <2> QED BY <2>2, <1>2
<1>17. DraftOK(w)'
  <2>1. /\ draft'[w] \in Row /\ draft'[w].chain_hash = part'[w].anchors
        /\ Collecting(w)' => draft'[w].anchored_at >= part'[w].recorded_at
        /\ draft'[w].anchor_seq \in 1 .. Len(db') + 1
        /\ draft'[w].prev_anchor <= Len(db')
    BY <1>2, <1>3, <1>5, <1>10, <1>11, <1>12, <1>13 DEF DraftOK
  <2>2. draft'[w].anchor_seq > 1 => HasSeq(db, draft[w].anchor_seq - 1)'
    BY <1>3, <1>5, <1>11, <1>13 DEF HasSeq, DraftOK
  <2> QED BY <2>1, <2>2, <1>15 DEF DraftOK
<1>18. Collecting(w)' => part'[w] \in Snapshot /\ SnapOK(part[w])'
  <2>1. ASSUME NEW s, s = part[w], Collecting(w) PROVE SnapOK(s)'
    BY <2>1, <1>1, <1>7, <1>8, <1>11, QuietGrows, SnapGrows
  <2> QED BY <2>1, <1>2, <1>10, <1>11
<1>19. CallOK(w)' BY <1>2, <1>10, <1>11, <1>16, <1>17, <1>18 DEF CallOK
<1> QED BY <1>3, <1>6, <1>7, <1>8, <1>9, <1>19, QuietStep

\* anchor() inserts its row.
LEMMA AnchorInsertStep ==
    ASSUME IInv, NEW w \in AnchorWorkers, AnchorInsert(w)
    PROVE  IInv'
<1>1. TypeInv /\ LockInv /\ CallOK(w) BY DEF IInv, CallsInv
<1>2. /\ pc[w] = "insert" /\ Goto(w, "commit") /\ UNCHANGED <<part, requests, draft>>
      /\ UNCHANGED <<db, conn, snap, clock, heads, roots, audit, snapshots, events>>
      /\ CanWrite(w) /\ lock' = w /\ txn' = Append(Base(w), draft[w])
  BY DEF AnchorInsert, InsertAnchor, Write, trailVars
<1>3. txn' = Append(db, draft[w])
  <2>1. lock # w BY <1>1, <1>2 DEF LockInv
  <2> QED BY <2>1, <1>2 DEF Base
<1>4. /\ pc' \in [AnchorWorkers -> Steps] /\ pc'[w] = "commit"
      /\ \A x \in AnchorWorkers : x # w => pc'[x] = pc[x]
  BY <1>1, <1>2, PcIs DEF Steps
<1>5. OthersKeep(w) BY <1>2, <1>4 DEF OthersKeep
<1>6. Quiet /\ StaleKeeps BY <1>2 DEF Quiet, StaleKeeps
<1>7. TypeInv' BY <1>1, <1>2, <1>4 DEF TypeInv
<1>8. LockInv' BY <1>1, <1>2, <1>3, <1>4, <1>5, LockTaken
<1>9. /\ Anchoring(w) /\ Drafting(w)
      /\ (Collecting(w)' <=> Collecting(w)) /\ pc'[w] \notin {"second", "record", "ledger"}
  BY <1>2, <1>4 DEF Collecting, Anchoring, Drafting
<1>10. CallOK(w)' BY <1>1, <1>2, <1>6, <1>7, <1>9, QuietGrows, CallMoves
<1> QED BY <1>5, <1>6, <1>7, <1>8, <1>10, QuietStep

\* A request that ends without a trace in the tables.
LEMMA DropStep ==
    ASSUME IInv, NEW w \in AnchorWorkers, Finish(w), Quiet, UNCHANGED requests, StaleKeeps,
           lock' \in AnchorWorkers \cup {NoWorker}, conn' \in [AnchorWorkers -> ConnStates],
           snap' \in [AnchorWorkers -> Seq(Row)],
           DOMAIN draft' = AnchorWorkers,
           \A x \in AnchorWorkers : x # w => draft'[x] = draft[x],
           \/ pc[w] # "commit" /\ UNCHANGED <<lock, txn>>
           \/ Release(w)
    PROVE  IInv'
<1>1. TypeInv /\ LockInv BY DEF IInv
<1>2. Goto(w, "idle") /\ part' = [part EXCEPT ![w] = NoPart] BY DEF Finish
<1>3. /\ pc' \in [AnchorWorkers -> Steps] /\ pc'[w] = "idle"
      /\ \A x \in AnchorWorkers : x # w => pc'[x] = pc[x]
  BY <1>1, <1>2, PcIs DEF Steps
<1>4. /\ DOMAIN part' = AnchorWorkers
      /\ \A x \in AnchorWorkers : x # w => part'[x] = part[x]
  BY <1>1, <1>2, PartIs
<1>5. OthersKeep(w) BY <1>3, <1>4 DEF OthersKeep
<1>6. TypeInv' BY <1>1, <1>3, <1>4 DEF TypeInv, Quiet
<1>7. LockInv' BY <1>1, <1>3, <1>5, LockKept, LockDropped DEF Quiet
<1>8. CallOK(w)' BY <1>3, IdleCall
<1> QED BY <1>5, <1>6, <1>7, <1>8, QuietStep

\* The insert fails; take_snapshot goes on without an anchor.
LEMMA AnchorFailsStep ==
    ASSUME IInv, NEW w \in AnchorWorkers, AnchorFails(w)
    PROVE  IInv'
<1>1. TypeInv /\ LockInv /\ CallOK(w) BY DEF IInv, CallsInv
<1>2. /\ pc[w] = "insert" /\ WriteFails(w) /\ UNCHANGED requests
      /\ draft' = [draft EXCEPT ![w] = NoDraft]
      /\ UNCHANGED <<clock, heads, roots, audit, snapshots, events>>
  BY DEF AnchorFails, InsertAnchorFails, trailVars
<1>3. /\ UNCHANGED <<db, lock, txn, snap>> /\ StaleKeeps
      /\ conn' \in [AnchorWorkers -> ConnStates]
  BY <1>1, <1>2, WriteFailsIs
<1>4. /\ DOMAIN draft' = AnchorWorkers
      /\ \A x \in AnchorWorkers : x # w => draft'[x] = draft[x]
  BY <1>1, <1>2, DraftIs
<1>5. Quiet BY <1>2, <1>3 DEF Quiet
<1>6. CASE Finish(w)
  <2>1. lock' \in AnchorWorkers \cup {NoWorker} /\ snap' \in [AnchorWorkers -> Seq(Row)]
    BY <1>1, <1>3 DEF TypeInv
  <2> QED BY <1>2, <1>3, <1>4, <1>5, <1>6, <2>1, DropStep
<1>7. CASE Goto(w, "save") /\ part[w].op # "anchor" /\ UNCHANGED part
  <2>1. /\ pc' \in [AnchorWorkers -> Steps] /\ pc'[w] = "save"
        /\ \A x \in AnchorWorkers : x # w => pc'[x] = pc[x]
    BY <1>1, <1>7, PcIs DEF Steps
  <2>2. OthersKeep(w) BY <1>4, <1>7, <2>1 DEF OthersKeep
  <2>3. TypeInv' BY <1>1, <1>2, <1>3, <1>4, <1>7, <2>1 DEF TypeInv
  <2>4. LockInv' BY <1>1, <1>2, <1>3, <2>1, <2>2, LockKept
  <2>5. Collecting(w) /\ Collecting(w)' BY <1>2, <1>7, <2>1 DEF Collecting, Anchoring
  <2>6. part[w] \in Snapshot /\ SnapOK(part[w]) BY <1>1, <2>5 DEF CallOK
  <2>7. ASSUME NEW s, s = part[w] PROVE SnapOK(s)'
    BY <1>1, <1>5, <2>3, <2>6, <2>7, QuietGrows, SnapGrows
  <2>8. SnapOK(part[w])' BY <2>7, <1>7
  <2>9. CallOK(w)' BY <1>7, <2>1, <2>6, <2>8 DEF CallOK, Anchoring, Drafting
  <2> QED BY <1>3, <1>5, <2>2, <2>3, <2>4, <2>9, QuietStep
<1> QED BY <1>6, <1>7 DEF AnchorFails

\* A request fails.
LEMMA RequestFailsStep ==
    ASSUME IInv, NEW w \in AnchorWorkers, RequestFails(w)
    PROVE  IInv'
<1>1. TypeInv BY DEF IInv
<1>2. /\ pc[w] # "commit" /\ Finish(w) /\ UNCHANGED <<lock, txn, conn, snap, draft, requests>>
      /\ Quiet
  BY DEF RequestFails, Quiet, dbVars, trailVars
<1>3. StaleKeeps BY <1>2 DEF StaleKeeps
<1>4. /\ lock' \in AnchorWorkers \cup {NoWorker} /\ conn' \in [AnchorWorkers -> ConnStates]
      /\ snap' \in [AnchorWorkers -> Seq(Row)] /\ DOMAIN draft' = AnchorWorkers
  BY <1>1, <1>2 DEF TypeInv
<1> QED BY <1>2, <1>3, <1>4, DropStep

\* The process of a worker dies.
LEMMA CrashStep ==
    ASSUME IInv, NEW w \in AnchorWorkers, Crash(w)
    PROVE  IInv'
<1>1. TypeInv BY DEF IInv
<1>2. /\ Rollback(w) /\ draft' = [draft EXCEPT ![w] = NoDraft] /\ Finish(w)
      /\ UNCHANGED <<clock, heads, roots, audit, requests, snapshots, events>>
  BY DEF Crash, trailVars
<1>3. /\ db' = db /\ Release(w) /\ StaleKeeps
      /\ lock' \in AnchorWorkers \cup {NoWorker}
      /\ conn' \in [AnchorWorkers -> ConnStates]
      /\ snap' \in [AnchorWorkers -> Seq(Row)]
  BY <1>1, <1>2, RollbackIs
<1>4. /\ DOMAIN draft' = AnchorWorkers
      /\ \A x \in AnchorWorkers : x # w => draft'[x] = draft[x]
  BY <1>1, <1>2, DraftIs
<1>5. Quiet BY <1>2, <1>3 DEF Quiet
<1> QED BY <1>2, <1>3, <1>4, <1>5, DropStep

-----------------------------------------------------------------------------
(* Steps that write to the tables.                                         *)

\* A row is appended.
LEMMA AppendIs ==
    ASSUME NEW S, NEW old \in Seq(S), NEW e \in S
    PROVE  /\ Append(old, e) \in Seq(S) /\ Len(old) \in Nat
           /\ Len(Append(old, e)) = Len(old) + 1
           /\ Keeps(Append(old, e), old) /\ Append(old, e)[Len(old) + 1] = e
           /\ \A n \in 1 .. Len(Append(old, e)) : n \in 1 .. Len(old) \/ n = Len(old) + 1
<1>1. /\ Append(old, e) \in Seq(S) /\ Len(Append(old, e)) = Len(old) + 1
      /\ Append(old, e)[Len(old) + 1] = e
      /\ \A n \in 1 .. Len(old) : Append(old, e)[n] = old[n]
  BY AppendProperties
<1>2. Len(old) \in Nat BY LenProperties
<1> QED BY <1>1, <1>2 DEF Keeps

\* A row made by anchor() may follow the rows of the store.
LEMMA RowsGrow ==
    ASSUME NEW rows \in Seq(Row), RowsChained(rows), NEW d \in Row,
           d.anchor_seq \in 1 .. Len(rows) + 1, d.prev_anchor <= Len(rows),
           d.anchor_seq > 1 => HasSeq(rows, d.anchor_seq - 1),
           NEW new, new = Append(rows, d)
    PROVE  RowsChained(new)
<1>1. /\ new \in Seq(Row) /\ Len(rows) \in Nat /\ Len(new) = Len(rows) + 1
      /\ Keeps(new, rows) /\ new[Len(rows) + 1] = d
      /\ \A n \in 1 .. Len(new) : n \in 1 .. Len(rows) \/ n = Len(rows) + 1
  BY AppendIs
<1>2. \A n \in 1 .. Len(rows) : n \in 1 .. Len(new) /\ new[n] = rows[n]
  BY <1>1, Positions DEF Keeps
<1>3. \A x : HasSeq(rows, x) => HasSeq(new, x) BY <1>2 DEF HasSeq
<1>4. ASSUME NEW n \in 1 .. Len(rows)
      PROVE  /\ new[n].anchor_seq \in 1 .. n /\ new[n].prev_anchor < n
             /\ new[n].anchor_seq > 1 => HasSeq(new, new[n].anchor_seq - 1)
  BY <1>2, <1>3 DEF RowsChained
<1>5. d.prev_anchor < Len(rows) + 1
  <2>1. d.prev_anchor \in Nat BY DEF Row
  <2> QED BY <2>1, <1>1
<1> QED BY <1>1, <1>3, <1>4, <1>5 DEF RowsChained

\* anchor() commits its row.
LEMMA AnchorCommitStep ==
    ASSUME IInv, NEW w \in AnchorWorkers, AnchorCommit(w)
    PROVE  IInv'
<1>1. /\ TypeInv /\ StoreInv /\ LockInv /\ TimesInv /\ CallsInv /\ SavedInv /\ EventsInv
      /\ HistoryInv /\ CallOK(w)
  BY DEF IInv, CallsInv
<1>2. /\ pc[w] = "commit" /\ Commit(w) /\ UNCHANGED requests
      /\ draft' = [draft EXCEPT ![w] = NoDraft]
      /\ UNCHANGED <<clock, heads, roots, audit, snapshots, events>>
  BY DEF AnchorCommit, CommitAnchor, trailVars
<1>3. /\ Drafting(w) /\ Anchoring(w) /\ (Collecting(w) <=> part[w].op # "anchor")
  BY <1>2 DEF Drafting, Anchoring, Collecting
<1>4. DraftOK(w) /\ draft[w] \in Row BY <1>1, <1>3 DEF CallOK, DraftOK
<1>5. lock = w /\ db' = Append(db, draft[w]) BY <1>1, <1>2 DEF LockInv, Commit
<1>6. db \in Seq(Row) /\ Len(db) \in Nat BY <1>1, Types DEF TypeInv
<1>7. /\ db' \in Seq(Row) /\ Len(db') = Len(db) + 1 /\ Keeps(db', db)
      /\ db'[Len(db) + 1] = draft[w]
      /\ \A n \in 1 .. Len(db') : n \in 1 .. Len(db) \/ n = Len(db) + 1
  BY <1>4, <1>5, <1>6, AppendIs
<1>8. /\ DOMAIN draft' = AnchorWorkers
      /\ \A x \in AnchorWorkers : x # w => draft'[x] = draft[x]
  BY <1>1, <1>2, DraftIs
<1>9. Grows
  <2>1. /\ Len(roots) \in Nat /\ Len(audit) \in Nat /\ Len(snapshots) \in Nat /\ clock \in Nat
    BY <1>1, Types
  <2> QED BY <1>2, <1>7, <2>1 DEF Grows, Keeps
<1>10. /\ lock' = NoWorker
       /\ snap' \in [AnchorWorkers -> Seq(Row)] /\ conn' \in [AnchorWorkers -> ConnStates]
       /\ \A x \in AnchorWorkers : conn'[x] = "stale" =>
             \/ conn[x] = "stale" /\ snap'[x] = snap[x]
             \/ snap'[x] = db
  <2>1. conn \in [AnchorWorkers -> ConnStates] /\ snap \in [AnchorWorkers -> Seq(Row)]
    BY <1>1 DEF TypeInv
  <2>2. lock' = NoWorker BY <1>2, <1>5 DEF Commit, Release
  <2>3. /\ snap' = [x \in AnchorWorkers |->
                      IF x # w /\ conn[x] = "pinned" THEN db ELSE snap[x]]
        /\ conn' = [x \in AnchorWorkers |->
                      IF x = w THEN "closed"
                      ELSE IF conn[x] = "pinned" THEN "stale" ELSE conn[x]]
    BY <1>2 DEF Commit
  <2>4. snap' \in [AnchorWorkers -> Seq(Row)] BY <2>1, <2>3, <1>6
  <2>5. conn' \in [AnchorWorkers -> ConnStates] BY <2>1, <2>3 DEF ConnStates
  <2> QED BY <2>2, <2>3, <2>4, <2>5
<1>11. ASSUME TypeInv' PROVE StoreInv'
  <2>1. RowsChained(db)'
    <3>1. ASSUME NEW new, new = db' PROVE RowsChained(new)
      BY <1>1, <1>4, <1>5, <1>6, <3>1, RowsGrow DEF StoreInv, DraftOK
    <3> QED BY <3>1 DEF RowsChained, HasSeq
  <2>2. ASSUME NEW x \in AnchorWorkers, conn'[x] = "stale" PROVE ViewOK(snap[x])'
    <3>1. ViewOK(db) BY <1>1, <1>6 DEF ViewOK, StoreInv, HasSeq
    <3>2. conn[x] = "stale" => ViewOK(snap[x]) BY <1>1 DEF StoreInv
    <3>3. snap[x] \in Seq(Row) BY <1>1, Types
    <3>4. ASSUME NEW rows, rows = snap'[x] PROVE ViewOK(rows)'
      <4>1. ViewOK(rows) /\ rows \in Seq(Row)
        BY <2>2, <3>1, <3>2, <3>3, <3>4, <1>6, <1>10
      <4> QED BY <4>1, <1>1, <1>9, <1>11, ViewGrows
    <3> QED BY <3>4
  <2>3. ASSUME NEW n \in 1 .. Len(db') PROVE Born(db[n].chain_hash, db[n].anchored_at)'
    <3>1. PICK row \in Row : row = db'[n] /\ Born(row.chain_hash, row.anchored_at)
      <4>1. CASE n \in 1 .. Len(db)
        <5>1. db'[n] = db[n] /\ db[n] \in Row BY <4>1, <1>1, <1>7, Types DEF Keeps
        <5> QED BY <4>1, <5>1, <1>1 DEF StoreInv
      <4>2. CASE n = Len(db) + 1 BY <4>2, <1>4, <1>7 DEF DraftOK
      <4> QED BY <4>1, <4>2, <1>7
    <3>2. row.anchored_at \in Nat BY <3>1, <1>1, Types DEF Row
    <3>3. ASSUME NEW h, h = row.chain_hash, NEW u, u = row.anchored_at PROVE Born(h, u)'
      BY <1>1, <1>9, <1>11, <3>1, <3>2, <3>3, BornGrows
    <3> QED BY <3>1, <3>3
  <2> QED BY <2>1, <2>2, <2>3 DEF StoreInv
<1>12. ASSUME TypeInv', OthersKeep(w), pc'[w] # "commit", CallOK(w)' PROVE IInv'
  <2>1. StoreInv' BY <1>11, <1>12
  <2>2. LockInv' BY <1>1, <1>5, <1>10, <1>12, TrailAssumption DEF LockInv, OthersKeep
  <2>3. TimesInv' BY <1>1, <1>2 DEF TimesInv
  <2>4. CallsInv' BY <1>1, <1>9, <1>12, OthersStay
  <2>5. SavedInv'
    <3>1. ASSUME NEW n \in 1 .. Len(snapshots') PROVE RowOK(snapshots[n])'
      <4>1. n \in 1 .. Len(snapshots) /\ snapshots'[n] = snapshots[n] BY <1>2
      <4> QED BY <1>1, <1>9, <1>12, <4>1, SavedStays
    <3> QED BY <3>1 DEF SavedInv
  <2>6. EventsInv' BY <1>1, <1>2 DEF EventsInv
  <2>7. HistoryInv' BY <1>1, <1>2, HistorySame
  <2> QED BY <1>12, <2>1, <2>2, <2>3, <2>4, <2>5, <2>6, <2>7 DEF IInv
<1>13. CASE Finish(w)
  <2>1. Goto(w, "idle") /\ part' = [part EXCEPT ![w] = NoPart] BY <1>13 DEF Finish
  <2>2. /\ pc' \in [AnchorWorkers -> Steps] /\ pc'[w] = "idle"
        /\ \A x \in AnchorWorkers : x # w => pc'[x] = pc[x]
    BY <1>1, <2>1, PcIs DEF Steps
  <2>3. /\ DOMAIN part' = AnchorWorkers
        /\ \A x \in AnchorWorkers : x # w => part'[x] = part[x]
    BY <1>1, <2>1, PartIs
  <2>4. OthersKeep(w) BY <1>8, <2>2, <2>3 DEF OthersKeep
  <2>5. TypeInv' BY <1>1, <1>2, <1>7, <1>8, <1>10, <2>2, <2>3 DEF TypeInv
  <2>6. CallOK(w)' BY <2>2, IdleCall
  <2> QED BY <1>12, <2>2, <2>4, <2>5, <2>6
<1>14. CASE /\ part[w].op # "anchor" /\ Goto(w, "save")
            /\ part' = [part EXCEPT ![w].anchored = TRUE]
  <2>1. part[w] \in Snapshot /\ SnapOK(part[w]) BY <1>1, <1>3, <1>14 DEF CallOK
  <2> DEFINE v == [part[w] EXCEPT !.anchored = TRUE]
  <2>2. part' = [part EXCEPT ![w] = v] BY <1>14
  <2>3. v \in Snapshot BY <2>1 DEF Snapshot
  <2>4. /\ v.op = part[w].op /\ v.base = part[w].base /\ v.recorded_at = part[w].recorded_at
        /\ v.system_root = part[w].system_root /\ v.version = part[w].version
        /\ v.instance_count = part[w].instance_count /\ v.anchors = part[w].anchors
        /\ v.fresh = part[w].fresh
    BY <2>1 DEF Snapshot
  <2> HIDE DEF v
  <2>5. /\ pc' \in [AnchorWorkers -> Steps] /\ pc'[w] = "save"
        /\ \A x \in AnchorWorkers : x # w => pc'[x] = pc[x]
    BY <1>1, <1>14, PcIs DEF Steps
  <2>6. /\ DOMAIN part' = AnchorWorkers /\ part'[w] = v
        /\ \A x \in AnchorWorkers : x # w => part'[x] = part[x]
    BY <1>1, <2>2, PartIs
  <2>7. OthersKeep(w) BY <1>8, <2>5, <2>6 DEF OthersKeep
  <2>8. TypeInv' BY <1>1, <1>2, <1>7, <1>8, <1>10, <2>5, <2>6 DEF TypeInv
  <2>9. Collecting(w) /\ Collecting(w)' BY <1>3, <1>14, <2>5 DEF Collecting
  <2>10. ASSUME NEW u, u = v PROVE SnapOK(u)'
    <3>1. ASSUME NEW s, s = part[w] PROVE SnapOK(s)'
      BY <1>1, <1>9, <2>1, <2>8, <3>1, SnapGrows
    <3>2. /\ db'[Len(db) + 1].chain_hash = RootHash(v.system_root)
          /\ db'[Len(db) + 1].anchored_at >= v.recorded_at
      BY <1>4, <1>7, <2>1, <2>4, <2>9 DEF DraftOK, SnapOK
    <3>3. Len(db) + 1 \in 1 .. Len(db') BY <1>6, <1>7
    <3>4. PICK s : s = part[w] /\ SnapOK(s)' BY <3>1
    <3> QED BY <2>4, <2>10, <3>2, <3>3, <3>4 DEF SnapOK, RowOK
  <2>11. SnapOK(part[w])' BY <2>6, <2>10
  <2>12. CallOK(w)' BY <2>3, <2>5, <2>6, <2>11 DEF CallOK, Anchoring, Drafting
  <2> QED BY <1>12, <2>5, <2>7, <2>8, <2>12
<1> QED BY <1>13, <1>14 DEF AnchorCommit

\* A request that writes to the tables of snapshots and drift events and then ends, or
\* goes on to compare two snapshots.
LEMMA EndStep ==
    ASSUME IInv, NEW w \in AnchorWorkers, pc[w] # "commit",
           Finish(w) \/ \E a, b \in 1 .. Len(snapshots') : Compare(w, a, b),
           UNCHANGED <<dbVars, draft, trailVars, requests>>,
           snapshots' \in Seq(Saved), Keeps(snapshots', snapshots),
           \A n \in 1 .. Len(snapshots') :
              n \in 1 .. Len(snapshots) \/ \E s \in Saved : RowOK(s) /\ snapshots'[n] = s,
           EventsInv'
    PROVE  IInv'
<1>1. /\ TypeInv /\ StoreInv /\ LockInv /\ TimesInv /\ CallsInv /\ SavedInv /\ HistoryInv
  BY DEF IInv
<1>2. PICK step, p :
         /\ step = "idle" \/ (step = "record" /\ p.a \in 1 .. Len(snapshots')
                                              /\ p.b \in 1 .. Len(snapshots'))
         /\ Goto(w, step) /\ part' = [part EXCEPT ![w] = p]
  <2>1. CASE Finish(w)
    <3>1. Goto(w, "idle") /\ part' = [part EXCEPT ![w] = NoPart] BY <2>1 DEF Finish
    <3> QED BY <3>1, Zenon
  <2>2. CASE \E a, b \in 1 .. Len(snapshots') : Compare(w, a, b)
    <3>1. PICK a, b \in 1 .. Len(snapshots') : Compare(w, a, b) BY <2>2
    <3> DEFINE q == [op |-> "record", a |-> a, b |-> b]
    <3>2. Goto(w, "record") /\ part' = [part EXCEPT ![w] = q] BY <3>1 DEF Compare
    <3>3. q.a \in 1 .. Len(snapshots') /\ q.b \in 1 .. Len(snapshots') OBVIOUS
    <3> HIDE DEF q
    <3> QED BY <3>2, <3>3, Zenon
  <2> QED BY <2>1, <2>2
<1>16. step \in {"idle", "record"} /\ step \in Steps BY <1>2 DEF Steps
<1>3. /\ pc' \in [AnchorWorkers -> Steps] /\ pc'[w] = step
      /\ \A x \in AnchorWorkers : x # w => pc'[x] = pc[x]
  BY <1>1, <1>2, <1>16, PcIs
<1>4. /\ DOMAIN part' = AnchorWorkers /\ part'[w] = p
      /\ \A x \in AnchorWorkers : x # w => part'[x] = part[x]
  BY <1>1, <1>2, PartIs
<1>5. /\ UNCHANGED <<db, lock, txn, conn, snap, draft, clock, heads, roots, audit, requests>>
  BY DEF dbVars, trailVars
<1>6. OthersKeep(w) BY <1>3, <1>4, <1>5 DEF OthersKeep
<1>7. TypeInv' BY <1>1, <1>3, <1>4, <1>5 DEF TypeInv
<1>8. Grows
  <2>1. /\ Len(db) \in Nat /\ Len(roots) \in Nat /\ Len(audit) \in Nat /\ clock \in Nat
    BY <1>1, Types
  <2> QED BY <1>5, <2>1 DEF Grows, Keeps
<1>9. StoreInv'
  <2>1. StaleKeeps BY <1>5 DEF StaleKeeps
  <2> QED BY <1>1, <1>5, <1>7, <1>8, <2>1, StoreStays
<1>10. LockInv' BY <1>1, <1>3, <1>5, <1>6, <1>16, LockKept
<1>11. TimesInv' BY <1>1, <1>5 DEF TimesInv
<1>12. CallOK(w)' BY <1>2, <1>3, <1>4, <1>16 DEF CallOK, Collecting, Anchoring, Drafting
<1>13. CallsInv' BY <1>1, <1>6, <1>7, <1>8, <1>12, OthersStay
<1>14. SavedInv'
  <2>1. ASSUME NEW n \in 1 .. Len(snapshots') PROVE RowOK(snapshots[n])'
    <3>1. CASE n \in 1 .. Len(snapshots)
      <4>1. snapshots'[n] = snapshots[n] BY <3>1 DEF Keeps
      <4> QED BY <1>1, <1>7, <1>8, <3>1, <4>1, SavedStays
    <3>2. CASE \E s \in Saved : RowOK(s) /\ snapshots'[n] = s
      <4>1. PICK s \in Saved : RowOK(s) /\ snapshots'[n] = s BY <3>2
      <4>2. s.recorded_at \in Nat BY <1>1, Types DEF Saved
      <4>3. RowOK(s)' BY <1>1, <1>7, <1>8, <4>1, <4>2, RowGrows
      <4> QED BY <4>1, <4>3
    <3> QED BY <3>1, <3>2
  <2> QED BY <2>1 DEF SavedInv
<1>15. HistoryInv' BY <1>1, <1>5, HistorySame
<1> QED BY <1>7, <1>9, <1>10, <1>11, <1>13, <1>14, <1>15 DEF IInv

\* The events there are still compare the snapshots they name.
LEMMA EventsStay ==
    ASSUME TypeInv, EventsInv, snapshots' \in Seq(Saved), Keeps(snapshots', snapshots),
           \A e \in events' : e \in events \/ \E a, b \in 1 .. Len(snapshots') :
              e = [a |-> a, b |-> b, result |-> compare(snapshots'[a], snapshots'[b])]
    PROVE  EventsInv'
<1>1. \A n \in 1 .. Len(snapshots) : n \in 1 .. Len(snapshots') /\ snapshots'[n] = snapshots[n]
  <2>1. Len(snapshots) \in Nat /\ Len(snapshots') \in Nat BY Types, LenProperties
  <2> QED BY <2>1, Positions DEF Keeps
<1>2. ASSUME NEW e \in events
      PROVE  \E a, b \in 1 .. Len(snapshots') :
                e = [a |-> a, b |-> b, result |-> compare(snapshots'[a], snapshots'[b])]
  <2>1. PICK a, b \in 1 .. Len(snapshots) :
           e = [a |-> a, b |-> b, result |-> compare(snapshots[a], snapshots[b])]
    BY DEF EventsInv
  <2>2. /\ a \in 1 .. Len(snapshots') /\ b \in 1 .. Len(snapshots')
        /\ snapshots'[a] = snapshots[a] /\ snapshots'[b] = snapshots[b]
    BY <1>1
  <2>3. e = [a |-> a, b |-> b, result |-> compare(snapshots'[a], snapshots'[b])]
    BY <2>1, <2>2
  <2> QED BY <2>2, <2>3
<1> QED BY <1>2 DEF EventsInv

\* save_snapshot; a drift check that took the snapshot goes on to compare it.
LEMMA SaveSnapshotStep ==
    ASSUME IInv, NEW w \in AnchorWorkers, SaveSnapshot(w)
    PROVE  IInv'
<1>1. TypeInv /\ EventsInv BY DEF IInv
<1> DEFINE row == SnapshotRow(part[w])
<1>2. /\ pc[w] = "save" /\ snapshots' = Append(snapshots, row)
      /\ UNCHANGED <<dbVars, draft, trailVars, requests, events>>
      /\ IF part[w].op = "drift" THEN Compare(w, part[w].base, Len(snapshots')) ELSE Finish(w)
  BY DEF SaveSnapshot
<1>3. part[w] \in Snapshot /\ SnapOK(part[w]) BY <1>2, CollectedIs
<1>4. row \in Saved /\ RowOK(row)
  <2>1. row \in Saved BY <1>3 DEF SnapshotRow, Snapshot, Saved
  <2>2. /\ row.version = part[w].version /\ row.system_root = part[w].system_root
        /\ row.instance_count = part[w].instance_count /\ row.fresh = part[w].fresh
        /\ row.recorded_at = part[w].recorded_at /\ row.anchored = part[w].anchored
    BY DEF SnapshotRow
  <2> HIDE DEF row
  <2> QED BY <2>1, <2>2, <1>3 DEF SnapOK, RowOK
<1> HIDE DEF row
<1>5. /\ snapshots' \in Seq(Saved) /\ Len(snapshots) \in Nat
      /\ Len(snapshots') = Len(snapshots) + 1
      /\ Keeps(snapshots', snapshots) /\ snapshots'[Len(snapshots) + 1] = row
      /\ \A n \in 1 .. Len(snapshots') : n \in 1 .. Len(snapshots) \/ n = Len(snapshots) + 1
  <2>1. snapshots \in Seq(Saved) BY <1>1 DEF TypeInv
  <2> QED BY <1>2, <1>4, <2>1, AppendIs
<1>6. \A n \in 1 .. Len(snapshots') :
         n \in 1 .. Len(snapshots) \/ \E s \in Saved : RowOK(s) /\ snapshots'[n] = s
  BY <1>4, <1>5
<1>7. EventsInv' BY <1>1, <1>2, <1>5, EventsStay
<1>8. Finish(w) \/ \E a, b \in 1 .. Len(snapshots') : Compare(w, a, b)
  <2>1. Len(snapshots') \in 1 .. Len(snapshots') BY <1>5
  <2>2. CASE part[w].op = "drift"
    <3>1. part[w].base \in 1 .. Len(snapshots') BY <1>3, <1>5, <2>2 DEF SnapOK
    <3> QED BY <1>2, <2>1, <2>2, <3>1
  <2> QED BY <1>2, <2>2
<1> QED BY <1>2, <1>5, <1>6, <1>7, <1>8, EndStep

\* A drift check that is about to compare two saved snapshots, or has none, or has
\* compared them.
LEMMA DriftStep ==
    ASSUME IInv, NEW w \in AnchorWorkers, pc[w] # "commit",
           UNCHANGED <<dbVars, draft, trailVars, requests, snapshots>>,
           Finish(w) \/ \E a, b \in 1 .. Len(snapshots) : Compare(w, a, b),
           \A e \in events' : e \in events \/ \E a, b \in 1 .. Len(snapshots) :
              e = [a |-> a, b |-> b, result |-> compare(snapshots[a], snapshots[b])]
    PROVE  IInv'
<1>1. TypeInv /\ EventsInv BY DEF IInv
<1>2. snapshots' = snapshots /\ snapshots' \in Seq(Saved) /\ Keeps(snapshots', snapshots)
  <2>1. Len(snapshots) \in Nat BY <1>1, Types
  <2> QED BY <1>1, <2>1 DEF TypeInv, Keeps
<1>3. EventsInv' BY <1>1, <1>2, EventsStay
<1>4. \A n \in 1 .. Len(snapshots') :
         n \in 1 .. Len(snapshots) \/ \E s \in Saved : RowOK(s) /\ snapshots'[n] = s
  BY <1>2
<1>5. Finish(w) \/ \E a, b \in 1 .. Len(snapshots') : Compare(w, a, b) BY <1>2
<1> QED BY <1>2, <1>3, <1>4, <1>5, EndStep

\* record_drift_event.
LEMMA RecordDriftEventStep ==
    ASSUME IInv, NEW w \in AnchorWorkers, RecordDriftEvent(w)
    PROVE  IInv'
<1>1. /\ pc[w] = "record" /\ Finish(w)
      /\ UNCHANGED <<dbVars, draft, trailVars, requests, snapshots>>
      /\ events' = events \cup
            {[a |-> part[w].a, b |-> part[w].b,
              result |-> compare(snapshots[part[w].a], snapshots[part[w].b])]}
  BY DEF RecordDriftEvent
<1>2. part[w].a \in 1 .. Len(snapshots) /\ part[w].b \in 1 .. Len(snapshots)
  BY <1>1 DEF IInv, CallsInv, CallOK
<1>3. \A e \in events' : e \in events \/ \E a, b \in 1 .. Len(snapshots) :
         e = [a |-> a, b |-> b, result |-> compare(snapshots[a], snapshots[b])]
  BY <1>1, <1>2
<1> QED BY <1>1, <1>3, DriftStep

\* A drift check of two environments.
LEMMA DriftBetweenStep ==
    ASSUME IInv, NEW w \in AnchorWorkers, DriftBetween(w)
    PROVE  IInv'
<1>1. TypeInv /\ CallOK(w) BY DEF IInv, CallsInv
<1>2. /\ pc[w] = "second"
      /\ UNCHANGED <<dbVars, draft, trailVars, requests, snapshots, events>>
  BY DEF DriftBetween
<1>3. part[w].base \in 1 .. Len(snapshots) BY <1>1, <1>2 DEF CallOK
<1>4. \A b \in get_latest(snapshots, part[w].env_b) : b \in 1 .. Len(snapshots)
  BY <1>1, Types DEF get_latest
<1>5. \/ Finish(w)
      \/ \E b \in get_latest(snapshots, part[w].env_b) : Compare(w, part[w].base, b)
  BY DEF DriftBetween
<1>6. Finish(w) \/ \E a, b \in 1 .. Len(snapshots) : Compare(w, a, b)
  BY <1>3, <1>4, <1>5
<1> QED BY <1>2, <1>6, DriftStep

\* A drift check of the last two snapshots.
LEMMA DriftLastTwoStep ==
    ASSUME IInv, NEW w \in AnchorWorkers, DriftLastTwo(w)
    PROVE  IInv'
<1>1. TypeInv BY DEF IInv
<1>2. /\ pc[w] = "second"
      /\ UNCHANGED <<dbVars, draft, trailVars, requests, snapshots, events>>
  BY DEF DriftLastTwo
<1>3. PICK p \in list_two_snapshots(snapshots) : Compare(w, p[2], p[1])
  BY DEF DriftLastTwo
<1>4. p[1] \in 1 .. Len(snapshots) /\ p[2] \in 1 .. Len(snapshots)
  BY <1>1, Types DEF list_two_snapshots
<1> QED BY <1>2, <1>3, <1>4, DriftStep

-----------------------------------------------------------------------------
(* The rest of the system.                                                 *)

\* A step that no worker of the three endpoints takes.
LEMMA OutsideStep ==
    ASSUME IInv, TypeInv', Grows, TimesInv', HistoryInv',
           UNCHANGED <<dbVars, draft, pc, part, requests, snapshots, events>>
    PROVE  IInv'
<1>1. /\ TypeInv /\ StoreInv /\ LockInv /\ CallsInv /\ SavedInv /\ EventsInv BY DEF IInv
<1>2. UNCHANGED <<db, lock, txn, conn, snap>> BY DEF dbVars
<1>3. StoreInv'
  <2>1. StaleKeeps BY <1>2 DEF StaleKeeps
  <2> QED BY <1>1, <1>2, <2>1, StoreStays
<1>4. LockInv' BY <1>1, <1>2 DEF LockInv
<1>5. CallsInv'
  <2>1. ASSUME NEW w \in AnchorWorkers PROVE CallOK(w)'
    <3>1. CallOK(w) BY <1>1 DEF CallsInv
    <3> QED BY <1>1, <3>1, CallGrows
  <2> QED BY <2>1 DEF CallsInv
<1>6. SavedInv'
  <2>1. ASSUME NEW n \in 1 .. Len(snapshots') PROVE RowOK(snapshots[n])'
    <3>1. n \in 1 .. Len(snapshots) /\ snapshots'[n] = snapshots[n] OBVIOUS
    <3> QED BY <1>1, <3>1, SavedStays
  <2> QED BY <2>1 DEF SavedInv
<1>7. EventsInv' BY <1>1 DEF EventsInv
<1> QED BY <1>3, <1>4, <1>5, <1>6, <1>7 DEF IInv

\* A second passes.
LEMMA TickStep ==
    ASSUME IInv, Tick
    PROVE  IInv'
<1>1. TypeInv /\ TimesInv /\ HistoryInv BY DEF IInv
<1>2. /\ UNCHANGED <<dbVars, draft, pc, part, requests, snapshots, events, heads, roots, audit>>
      /\ clock < MaxClock /\ clock' = clock + 1
  BY DEF Tick
<1>3. clock \in Nat /\ MaxClock \in Nat BY <1>1, Types
<1>4. clock' \in Times /\ clock <= clock' BY <1>2, <1>3 DEF Times
<1>5. TypeInv' BY <1>1, <1>2, <1>4 DEF TypeInv, dbVars
<1>6. Grows
  <2>1. /\ Len(db) \in Nat /\ Len(roots) \in Nat /\ Len(audit) \in Nat /\ Len(snapshots) \in Nat
    BY <1>1, Types
  <2> QED BY <1>2, <1>4, <2>1 DEF Grows, Keeps, dbVars
<1>7. TimesInv'
  <2>1. /\ \A n \in 1 .. Len(roots) : roots[n].time \in Nat
        /\ \A n \in 1 .. Len(audit) : audit[n] \in Nat
    BY <1>1, Types
  <2>2. /\ \A n \in 1 .. Len(roots) : roots[n].time <= clock'
        /\ \A n \in 1 .. Len(audit) : audit[n] <= clock'
    BY <1>1, <1>2, <1>3, <2>1 DEF TimesInv
  <2> QED BY <1>1, <1>2, <2>2 DEF TimesInv
<1>8. HistoryInv' BY <1>1, <1>2, HistorySame
<1> QED BY <1>2, <1>5, <1>6, <1>7, <1>8, OutsideStep

\* A verify call is recorded.
LEMMA VerifyStep ==
    ASSUME IInv, Verify
    PROVE  IInv'
<1>1. TypeInv /\ TimesInv /\ HistoryInv BY DEF IInv
<1>2. /\ UNCHANGED <<dbVars, draft, pc, part, requests, snapshots, events, heads, roots, clock>>
      /\ audit' = Append(audit, clock)
  BY DEF Verify
<1>3. audit \in Seq(Times) /\ clock \in Times /\ clock \in Nat BY <1>1, Types DEF TypeInv
<1>4. /\ audit' \in Seq(Times) /\ Len(audit) \in Nat /\ Len(audit') = Len(audit) + 1
      /\ Keeps(audit', audit) /\ audit'[Len(audit) + 1] = clock
      /\ \A n \in 1 .. Len(audit') : n \in 1 .. Len(audit) \/ n = Len(audit) + 1
  BY <1>2, <1>3, AppendIs
<1>5. TypeInv' BY <1>1, <1>2, <1>4 DEF TypeInv, dbVars
<1>6. Grows
  <2>1. /\ Len(db) \in Nat /\ Len(roots) \in Nat /\ Len(snapshots) \in Nat
    BY <1>1, Types
  <2> QED BY <1>2, <1>3, <1>4, <2>1 DEF Grows, Keeps, dbVars
<1>7. TimesInv'
  <2>1. \A n \in 1 .. Len(audit') : audit'[n] <= clock'
    BY <1>1, <1>2, <1>3, <1>4 DEF TimesInv, Keeps
  <2> QED BY <1>1, <1>2, <2>1 DEF TimesInv
<1>8. HistoryInv' BY <1>1, <1>2, HistorySame
<1> QED BY <1>2, <1>5, <1>6, <1>7, <1>8, OutsideStep

\* A decision of some instance is committed.
LEMMA DecideStep ==
    ASSUME IInv, NEW i \in Instances, Decide(i)
    PROVE  IInv'
<1>1. TypeInv /\ TimesInv /\ CallsInv /\ SavedInv /\ HistoryInv BY DEF IInv
<1> DEFINE r == [root |-> compute_system_root(heads'), count |-> InstanceCount(heads'),
                 time |-> clock]
<1>2. /\ UNCHANGED <<dbVars, draft, pc, part, requests, snapshots, events, audit, clock>>
      /\ heads' = [heads EXCEPT ![i] = @ + 1]
      /\ roots' = Append(roots, r)
  BY DEF Decide
<1>3. /\ heads \in [Instances -> Nat] /\ clock \in Times /\ clock \in Nat
      /\ roots \in Seq(LedgerState)
  BY <1>1, Types DEF TypeInv
<1>4. /\ heads' \in [Instances -> Nat] /\ heads'[i] = heads[i] + 1 /\ Below(heads, heads')
  BY <1>2, <1>3 DEF Below
<1>11. InstanceCount(heads') \in Nat
  <2> DEFINE S == {j \in DOMAIN heads' : heads'[j] # 0}
  <2>1. S \subseteq Instances BY <1>4
  <2>2. IsFiniteSet(S) BY <2>1, TrailAssumption, FS_Subset
  <2> HIDE DEF S
  <2>3. Cardinality(S) \in Nat BY <2>2, FS_CardinalityType
  <2> QED BY <2>3 DEF InstanceCount, S
<1>5. /\ r \in LedgerState
      /\ r.root = compute_system_root(heads') /\ r.time = clock
  BY <1>3, <1>4, <1>11 DEF Roots, LedgerState
<1> HIDE DEF r
<1>6. /\ roots' \in Seq(LedgerState) /\ Len(roots) \in Nat
      /\ Len(roots') = Len(roots) + 1
      /\ Keeps(roots', roots) /\ roots'[Len(roots) + 1] = r
      /\ \A n \in 1 .. Len(roots') : n \in 1 .. Len(roots) \/ n = Len(roots) + 1
  BY <1>2, <1>3, <1>5, AppendIs
<1>7. TypeInv' BY <1>1, <1>2, <1>4, <1>6 DEF TypeInv, dbVars
<1>8. Grows
  <2>1. /\ Len(db) \in Nat /\ Len(audit) \in Nat /\ Len(snapshots) \in Nat
    BY <1>1, Types
  <2> QED BY <1>2, <1>3, <1>5, <1>6, <2>1 DEF Grows, Keeps, dbVars
<1>9. TimesInv'
  <2>1. \A n \in 1 .. Len(roots) :
           roots[n].time \in Nat /\ roots[n].time <= clock /\ roots'[n] = roots[n]
    BY <1>1, <1>6, Types DEF TimesInv, Keeps
  <2>2. \A n \in 1 .. Len(roots') : roots'[n].time <= clock
    BY <1>3, <1>5, <1>6, <2>1
  <2>3. \A m, n \in 1 .. Len(roots') : m <= n => roots'[m].time <= roots'[n].time
    <3>1. ASSUME NEW m \in 1 .. Len(roots'), NEW n \in 1 .. Len(roots'), m <= n
          PROVE  roots'[m].time <= roots'[n].time
      <4>1. CASE n \in 1 .. Len(roots)
        <5>1. m \in 1 .. Len(roots) BY <3>1, <4>1, <1>6
        <5> QED BY <3>1, <4>1, <5>1, <2>1, <1>1 DEF TimesInv
      <4>2. CASE n = Len(roots) + 1 BY <4>2, <2>2, <1>5, <1>6
      <4> QED BY <4>1, <4>2, <1>6
    <3> QED BY <3>1
  <2>4. Len(roots') >= 1 /\ roots'[1].root = ZERO_ROOT /\ roots'[1].count = 0
    <3>1. 1 \in 1 .. Len(roots) BY <1>1, <1>6 DEF TimesInv
    <3> QED BY <3>1, <2>1, <1>1, <1>6 DEF TimesInv
  <2> QED BY <1>1, <1>2, <2>2, <2>3, <2>4 DEF TimesInv
<1>10. HistoryInv'
  <2>1. PICK hist : HistoryOf(hist) BY <1>1 DEF HistoryInv
  <2>2. /\ hist \in [1 .. Len(roots) -> [Instances -> Nat]]
        /\ hist[Len(roots)] = heads
        /\ \A n \in 1 .. Len(roots) : roots[n].root = compute_system_root(hist[n])
        /\ \A m, n \in 1 .. Len(roots) : m < n => Below(hist[m], hist[n]) /\ hist[m] # hist[n]
    BY <2>1 DEF HistoryOf
  <2>3. \A n \in 1 .. Len(roots) : hist[n] \in [Instances -> Nat] BY <2>2
  <2> DEFINE more == [n \in 1 .. Len(roots') |-> IF n \in 1 .. Len(roots) THEN hist[n] ELSE heads']
  <2>4. /\ more \in [1 .. Len(roots') -> [Instances -> Nat]]
        /\ \A n \in 1 .. Len(roots) : more[n] = hist[n]
        /\ more[Len(roots) + 1] = heads'
    <3>1. \A n \in 1 .. Len(roots) : n \in 1 .. Len(roots') BY <1>6
    <3>2. Len(roots) + 1 \in 1 .. Len(roots') /\ Len(roots) + 1 \notin 1 .. Len(roots) BY <1>6
    <3> QED BY <3>1, <3>2, <2>3, <1>4
  <2> HIDE DEF more
  <2>5. \A n \in 1 .. Len(roots') : roots'[n].root = compute_system_root(more[n])
    <3>1. ASSUME NEW n \in 1 .. Len(roots) PROVE roots'[n].root = compute_system_root(more[n])
      BY <1>6, <2>2, <2>4 DEF Keeps
    <3>2. roots'[Len(roots) + 1].root = compute_system_root(more[Len(roots) + 1])
      BY <1>5, <1>6, <2>4
    <3> QED BY <3>1, <3>2, <1>6
  <2>6. ASSUME NEW m \in 1 .. Len(roots) PROVE Below(hist[m], heads)
    <3>1. CASE m = Len(roots) BY <3>1, <1>3, <2>2 DEF Below
    <3>2. CASE m < Len(roots)
      <4>1. Len(roots) \in 1 .. Len(roots) BY <1>6
      <4> QED BY <3>2, <4>1, <2>2
    <3> QED BY <3>1, <3>2, <1>6
  <2>7. ASSUME NEW m \in 1 .. Len(roots)
        PROVE  Below(hist[m], heads') /\ hist[m] # heads'
    <3>1. \A j \in Instances : hist[m][j] \in Nat /\ heads[j] \in Nat /\ heads'[j] \in Nat
      BY <2>3, <1>3, <1>4
    <3>2. \A j \in Instances : hist[m][j] <= heads[j] /\ heads[j] <= heads'[j]
      BY <2>6, <1>4 DEF Below
    <3>3. Below(hist[m], heads') BY <3>1, <3>2 DEF Below
    <3>4. hist[m][i] # heads'[i] BY <3>1, <3>2, <1>4
    <3> QED BY <3>3, <3>4
  <2>8. ASSUME NEW m \in 1 .. Len(roots'), NEW n \in 1 .. Len(roots'), m < n
        PROVE  Below(more[m], more[n]) /\ more[m] # more[n]
    <3>1. m \in 1 .. Len(roots) BY <2>8, <1>6
    <3>2. CASE n \in 1 .. Len(roots) BY <2>8, <3>1, <3>2, <2>2, <2>4
    <3>3. CASE n = Len(roots) + 1 BY <3>1, <3>3, <2>4, <2>7
    <3> QED BY <3>2, <3>3, <1>6
  <2>11. more[Len(roots')] = heads' BY <1>6, <2>4
  <2>12. PICK h : h = more OBVIOUS
  <2>13. HistoryOf(h)' BY <2>4, <2>5, <2>8, <2>11, <2>12 DEF HistoryOf, Below
  <2> QED BY <2>13 DEF HistoryInv
<1> QED BY <1>2, <1>7, <1>8, <1>9, <1>10, OutsideStep

-----------------------------------------------------------------------------
(* The inductive invariant is one.                                         *)

\* It holds at the start: the tables are empty and no worker has a request.
LEMMA InitInv == Init => IInv
<1> SUFFICES ASSUME Init PROVE IInv OBVIOUS
<1>1. /\ db = <<>> /\ lock = NoWorker /\ conn = [w \in AnchorWorkers |-> "closed"]
      /\ snap = [w \in AnchorWorkers |-> <<>>] /\ draft = [w \in AnchorWorkers |-> NoDraft]
      /\ clock = 0 /\ heads = [i \in Instances |-> 0]
      /\ roots = <<[root |-> ZERO_ROOT, count |-> 0, time |-> 0]>> /\ audit = <<>>
      /\ pc = [w \in AnchorWorkers |-> "idle"] /\ part = [w \in AnchorWorkers |-> NoPart]
      /\ requests = 0 /\ snapshots = <<>> /\ events = {}
  BY DEF Init, EmptyDb
<1>2. heads \in [Instances -> Nat] /\ ZERO_ROOT = compute_system_root(heads)
  BY <1>1 DEF ZERO_ROOT
<1>3. ZERO_ROOT \in Roots BY <1>2 DEF Roots
<1>4. 0 \in Times /\ MaxRequests \in Nat BY TrailAssumption DEF Times
<1>5. Len(roots) = 1 /\ roots[1].root = ZERO_ROOT /\ roots[1].count = 0 /\ roots[1].time = 0
  BY <1>1
<1>6. TypeInv
  <2>1. roots \in Seq(LedgerState)
    <3>1. [root |-> ZERO_ROOT, count |-> 0, time |-> 0] \in LedgerState
      BY <1>3, <1>4 DEF LedgerState
    <3> QED BY <3>1, <1>1
  <2>2. /\ db \in Seq(Row) /\ snap \in [AnchorWorkers -> Seq(Row)] /\ audit \in Seq(Times)
        /\ snapshots \in Seq(Saved)
    <3>1. \A S : <<>> \in Seq(S) OBVIOUS
    <3>2. db \in Seq(Row) /\ audit \in Seq(Times) /\ snapshots \in Seq(Saved)
      BY <1>1, <3>1
    <3>3. snap \in [AnchorWorkers -> Seq(Row)] BY <1>1, <3>1
    <3> QED BY <3>2, <3>3
  <2>3. /\ conn \in [AnchorWorkers -> ConnStates] /\ pc \in [AnchorWorkers -> Steps]
    BY <1>1 DEF ConnStates, Steps
  <2> QED BY <1>1, <1>2, <1>4, <2>1, <2>2, <2>3 DEF TypeInv
<1>7. Len(db) = 0 /\ Len(snapshots) = 0 /\ Len(audit) = 0 BY <1>1
<1>8. StoreInv BY <1>1, <1>7 DEF StoreInv, RowsChained
<1>9. LockInv BY <1>1, TrailAssumption DEF LockInv
<1>10. TimesInv BY <1>1, <1>5, <1>7 DEF TimesInv
<1>11. CallsInv BY <1>1 DEF CallsInv, CallOK, Collecting, Anchoring, Drafting
<1>12. SavedInv /\ EventsInv BY <1>1, <1>7 DEF SavedInv, EventsInv
<1>13. HistoryInv
  <2> DEFINE hist == [n \in 1 .. 1 |-> heads]
  <2>1. hist \in [1 .. Len(roots) -> [Instances -> Nat]] /\ hist[Len(roots)] = heads
    BY <1>2, <1>5
  <2>2. \A n \in 1 .. Len(roots) : n = 1 BY <1>5
  <2>3. \A n \in 1 .. Len(roots) : roots[n].root = compute_system_root(hist[n])
    BY <1>2, <1>5, <2>2
  <2> HIDE DEF hist
  <2>4. HistoryOf(hist)
    BY <1>1, <1>7, <2>1, <2>2, <2>3 DEF HistoryOf, Collecting, Anchoring
  <2> QED BY <2>4 DEF HistoryInv
<1> QED BY <1>6, <1>8, <1>9, <1>10, <1>11, <1>12, <1>13 DEF IInv

\* Every step keeps it.
LEMMA NextInv == IInv /\ [Next]_vars => IInv'
<1> SUFFICES ASSUME IInv, [Next]_vars PROVE IInv' OBVIOUS
<1>1. CASE UNCHANGED vars
  <2>1. TypeInv /\ TimesInv /\ HistoryInv BY DEF IInv
  <2>2. UNCHANGED <<dbVars, draft, pc, part, requests, snapshots, events, heads, roots,
                    audit, clock>>
    BY <1>1 DEF vars, trailVars
  <2>3. TypeInv' BY <2>1, <2>2 DEF TypeInv, dbVars
  <2>4. Grows BY <2>1, <2>2, QuietGrows DEF Quiet, dbVars
  <2>5. TimesInv' BY <2>1, <2>2 DEF TimesInv
  <2>6. HistoryInv' BY <2>1, <2>2, HistorySame
  <2> QED BY <2>2, <2>3, <2>4, <2>5, <2>6, OutsideStep
<1>2. CASE \E i \in Instances : Decide(i) BY <1>2, DecideStep
<1>3. CASE Verify BY <1>3, VerifyStep
<1>4. CASE Tick BY <1>4, TickStep
<1>5. CASE \E w \in AnchorWorkers :
             \/ AnchorRequest(w)
             \/ \E env \in Environments : SnapshotRequest(w, env)
             \/ ReadLedger(w) \/ ReadLedgerFails(w) \/ ReadChainHash(w) \/ ReadRowCount(w)
  BY <1>5, AnchorRequestStep, SnapshotRequestStep, ReadLedgerStep, ReadLedgerFailsStep,
     ReadChainHashStep, ReadRowCountStep
<1>6. CASE \E w \in AnchorWorkers :
             AnchorSeq(w) \/ AnchorPrev(w) \/ AnchorInsert(w) \/ AnchorFails(w)
  BY <1>6, AnchorSeqStep, AnchorPrevStep, AnchorInsertStep, AnchorFailsStep
<1>7. CASE \E w \in AnchorWorkers :
             \/ AnchorCommit(w) \/ SaveSnapshot(w) \/ RecordDriftEvent(w)
             \/ RequestFails(w) \/ Crash(w)
  BY <1>7, AnchorCommitStep, SaveSnapshotStep, RecordDriftEventStep, RequestFailsStep, CrashStep
<1>8. CASE \E w \in AnchorWorkers :
             \/ \E a \in Environments, b \in Environments \cup {NoEnv} : DriftRequest(w, a, b)
             \/ DriftBetween(w) \/ DriftLastTwo(w) \/ DriftSnapshot(w)
  BY <1>8, DriftRequestStep, DriftBetweenStep, DriftLastTwoStep, DriftSnapshotStep
<1> QED BY <1>1, <1>2, <1>3, <1>4, <1>5, <1>6, <1>7, <1>8 DEF Next

\* The inductive invariant holds in every reachable state, whatever the workers, the
\* decisions and the verify calls do.
THEOREM Invariant == Spec => []IInv
<1> QED BY InitInv, NextInv, PTL DEF Spec

-----------------------------------------------------------------------------
(* What it means for the anchors, the snapshots and the drift checks.      *)

\* A hash that is anchored has been there.
LEMMA BornIsAnchored ==
    ASSUME TypeInv, NEW hash \in Hashes, NEW t, Born(hash, t)
    PROVE  hash \in Anchored
<1>1. DOMAIN roots = 1 .. Len(roots) /\ Len(audit) \in Nat BY Types
<1>2. CASE hash.kind = "audit"
  <2>1. hash \in [kind : {"audit"}, hash : Nat] BY <1>2 DEF Hashes
  <2>2. hash = AuditHash(hash.hash) BY <2>1 DEF AuditHash
  <2>3. hash.hash \in 0 .. Len(audit) BY <1>1, <1>2, <2>1 DEF Born
  <2> QED BY <2>2, <2>3 DEF Anchored
<1>3. CASE hash.kind # "audit"
  <2>1. hash \in [kind : {"root"}, hash : Roots] BY <1>3 DEF Hashes
  <2>2. hash = RootHash(hash.hash) BY <2>1 DEF RootHash
  <2>3. \E n \in DOMAIN roots : roots[n].root = hash.hash BY <1>1, <1>3 DEF Born
  <2> QED BY <2>2, <2>3 DEF Anchored
<1> QED BY <1>2, <1>3

\* However anchor() calls, snapshots and drift checks overlap and crash, an anchor
\* names a hash that has been there, anchor numbers have no gap, verify_anchor_chain
\* reports a break exactly for a fork, and a snapshot that was anchored stays so.
THEOREM TrailIsSound == Spec => []TrailInv
<1>1. IInv => TrailInv
  <2> SUFFICES ASSUME IInv PROVE TrailInv OBVIOUS
  <2>1. TypeInv /\ StoreInv /\ SavedInv /\ EventsInv BY DEF IInv
  <2>2. /\ Len(db) \in Nat /\ DOMAIN db = 1 .. Len(db) /\ DOMAIN snapshots = 1 .. Len(snapshots)
        /\ db \in Seq(Row)
    BY <2>1, Types DEF TypeInv
  <2>3. \A n \in 1 .. Len(db) :
           /\ db[n].chain_hash \in Hashes /\ db[n].anchored_at \in Times
           /\ db[n].anchor_seq \in Nat /\ db[n].prev_anchor \in Nat
    BY <2>2, RowTypes
  <2>4. TypeOK
    <3>1. \A n \in 1 .. Len(db) : db[n].chain_hash \in Anchored
      BY <2>1, <2>3, BornIsAnchored DEF StoreInv
    <3>2. \A n \in 1 .. Len(snapshots) : snapshots[n].environment \in Environments
      BY <2>1, Types DEF Saved
    <3>3. \A e \in events : {e.a, e.b} \subseteq 1 .. Len(snapshots)
      BY <2>1 DEF EventsInv
    <3> QED BY <2>1, <2>2, <2>3, <3>1, <3>2, <3>3 DEF TypeOK, TypeInv, Steps
  <2>5. AnchorsAreChained
    <3>1. RowsChained(db) BY <2>1 DEF StoreInv
    <3>2. AnchorSeqs(db) = 1 .. Max(AnchorSeqs(db) \cup {0}) BY <2>2, <3>1, SeqsHaveNoGap
    <3>3. \A n \in DOMAIN db : db[n].prev_anchor < n /\ db[n].anchor_seq <= n
      BY <2>2, <3>1 DEF RowsChained
    <3>4. verify_anchor_chain(db) <=>
             \A m, n \in DOMAIN db : db[m].prev_anchor = db[n].prev_anchor => m = n
      BY <2>2, <3>1, BreaksAreForks
    <3> QED BY <3>2, <3>3, <3>4 DEF AnchorsAreChained
  <2>6. SavedRootsAreAnchored
    BY <2>1, <2>2 DEF SavedInv, RowOK, SavedRootsAreAnchored
  <2> QED BY <2>4, <2>5, <2>6 DEF TrailInv
<1> QED BY <1>1, Invariant, PTL

\* verify_against_anchor never dates a hash before it existed, however long the
\* time-stamping authority took and whoever else anchored the same hash.
THEOREM ClaimsAreSound == Spec => []ClaimsAreNotEarly
<1>1. IInv => ClaimsAreNotEarly
  <2> SUFFICES ASSUME IInv,
                      NEW hash \in {db[n].chain_hash : n \in DOMAIN db}, NEW t \in Times,
                      before_claim(db, hash, t)
               PROVE  Birth(hash) <= t
    BY DEF ClaimsAreNotEarly
  <2>1. TypeInv /\ StoreInv BY DEF IInv
  <2>2. PICK k \in 1 .. Len(db) : db[k].chain_hash = hash /\ db[k].anchored_at <= t
    BY <2>1, Types DEF before_claim, find
  <2>3. Born(hash, db[k].anchored_at) BY <2>1, <2>2 DEF StoreInv
  <2>4. db[k].anchored_at \in Nat /\ t \in Nat BY <2>1, <2>2, Types
  <2>5. CASE hash.kind = "audit"
    <3>1. CASE hash.hash = 0 BY <2>4, <2>5, <3>1 DEF Birth
    <3>2. CASE hash.hash # 0
      <4>1. hash.hash \in 1 .. Len(audit) /\ audit[hash.hash] <= db[k].anchored_at
        BY <2>3, <2>5, <3>2 DEF Born
      <4>2. audit[hash.hash] \in Nat BY <2>1, <4>1, Types
      <4>3. audit[hash.hash] <= t BY <2>2, <2>4, <4>1, <4>2, Transitive
      <4> QED BY <2>5, <3>2, <4>3 DEF Birth
    <3> QED BY <3>1, <3>2
  <2>6. CASE hash.kind # "audit"
    <3> DEFINE S == {roots[n].time : n \in {m \in DOMAIN roots : roots[m].root = hash.hash}}
    <3>1. PICK n \in 1 .. Len(roots) :
             roots[n].root = hash.hash /\ roots[n].time <= db[k].anchored_at
      BY <2>3, <2>6 DEF Born
    <3>2. S \in SUBSET Nat /\ roots[n].time \in S BY <2>1, <3>1, Types
    <3> HIDE DEF S
    <3>3. Min(S) \in S /\ Min(S) <= roots[n].time BY <3>2, MinIs
    <3>4. Min(S) <= t
      <4>1. Min(S) \in Nat /\ roots[n].time \in Nat BY <3>2, <3>3
      <4>2. roots[n].time <= t BY <2>2, <2>4, <3>1, <4>1, Transitive
      <4> QED BY <2>4, <3>3, <4>1, <4>2, Transitive
    <3> QED BY <2>6, <3>4 DEF Birth, S
  <2> QED BY <2>5, <2>6
<1> QED BY <1>1, Invariant, PTL

\* What compare() says of two snapshots.
LEMMA CompareIs ==
    ASSUME NEW a, NEW b
    PROVE  /\ a.system_root # b.system_root => compare(a, b).severity = "CRITICAL"
           /\ ~compare(a, b).drifted <=>
                 /\ a.system_root = b.system_root /\ a.instance_count = b.instance_count
                 /\ a.audit_chain_hash = b.audit_chain_hash
                 /\ a.audit_row_count = b.audit_row_count
<1>1. Issues(a, b) = {} <=> /\ a.system_root = b.system_root
                            /\ a.instance_count = b.instance_count
                            /\ a.audit_chain_hash = b.audit_chain_hash
                            /\ a.audit_row_count = b.audit_row_count
  BY DEF Issues
<1>2. a.system_root # b.system_root => "root_mismatch" \in Issues(a, b) BY DEF Issues
<1>3. Issues(a, b) = {} => compare(a, b).drifted = FALSE BY DEF compare
<1>4. Issues(a, b) # {} =>
         compare(a, b).drifted = TRUE /\ compare(a, b).severity = _severity(Issues(a, b))
  BY DEF compare
<1>5. "root_mismatch" \in Issues(a, b) => _severity(Issues(a, b)) = "CRITICAL" BY DEF _severity
<1> QED BY <1>1, <1>2, <1>3, <1>4, <1>5

\* A drift check reports a root mismatch exactly when the two snapshots show different
\* states of the ledger, failed reads and reads of stuck connections included, for any
\* number of instances and decisions; and it is silent only if they show the same audit
\* log as well.
THEOREM DriftChecksAreExact == Spec => []DriftIsExact
<1>1. IInv => DriftIsExact
  <2> SUFFICES ASSUME IInv, NEW e \in events
               PROVE  LET a == snapshots[e.a]
                          b == snapshots[e.b]
                      IN  /\ (a.version # b.version) => e.result.severity = "CRITICAL"
                          /\ (a.system_root = b.system_root) <=> (a.version = b.version)
                          /\ ~e.result.drifted <=>
                                /\ a.version = b.version
                                /\ a.audit_chain_hash = b.audit_chain_hash
                                /\ a.audit_row_count = b.audit_row_count
    BY DEF DriftIsExact
  <2>1. TypeInv /\ SavedInv /\ EventsInv /\ HistoryInv BY DEF IInv
  <2>2. PICK m, n \in 1 .. Len(snapshots) :
           e = [a |-> m, b |-> n, result |-> compare(snapshots[m], snapshots[n])]
    BY <2>1 DEF EventsInv
  <2> DEFINE a == snapshots[m]
             b == snapshots[n]
  <2>3. e.a = m /\ e.b = n /\ e.result = compare(a, b) BY <2>2
  <2>4. PICK hist : HistoryOf(hist) BY <2>1 DEF HistoryInv
  <2>5. /\ a.version \in 1 .. Len(roots) /\ a.system_root = roots[a.version].root
        /\ b.version \in 1 .. Len(roots) /\ b.system_root = roots[b.version].root
    BY <2>1 DEF SavedInv, RowOK
  <2>6. /\ a.instance_count = roots[a.version].count /\ b.instance_count = roots[b.version].count
    BY <2>1 DEF SavedInv, RowOK
  <2> HIDE DEF a, b
  <2>7. ASSUME NEW u \in 1 .. Len(roots), NEW v \in 1 .. Len(roots), u < v
        PROVE  roots[u].root # roots[v].root
    <3>1. /\ hist[u] \in [Instances -> Nat] /\ hist[v] \in [Instances -> Nat]
          /\ Below(hist[u], hist[v]) /\ hist[u] # hist[v]
          /\ roots[u].root = compute_system_root(hist[u])
          /\ roots[v].root = compute_system_root(hist[v])
      BY <2>4, <2>7 DEF HistoryOf
    <3> QED BY <3>1, RootsDiffer
  <2>8. a.system_root = b.system_root <=> a.version = b.version
    <3>1. a.version # b.version => a.version < b.version \/ b.version < a.version
      <4>1. Len(roots) \in Nat BY <2>1, Types
      <4> QED BY <2>5, <4>1
    <3> QED BY <2>5, <2>7, <3>1
  <2>9. a.version = b.version => a.instance_count = b.instance_count BY <2>6
  <2>10. /\ a.system_root # b.system_root => compare(a, b).severity = "CRITICAL"
         /\ ~compare(a, b).drifted <=>
               /\ a.system_root = b.system_root /\ a.instance_count = b.instance_count
               /\ a.audit_chain_hash = b.audit_chain_hash
               /\ a.audit_row_count = b.audit_row_count
    BY CompareIs
  <2>11. /\ (a.version # b.version) => e.result.severity = "CRITICAL"
         /\ (a.system_root = b.system_root) <=> (a.version = b.version)
         /\ ~e.result.drifted <=>
               /\ a.version = b.version
               /\ a.audit_chain_hash = b.audit_chain_hash
               /\ a.audit_row_count = b.audit_row_count
    BY <2>3, <2>8, <2>9, <2>10
  <2> QED BY <2>3, <2>11 DEF a, b
<1> QED BY <1>1, Invariant, PTL

\* The snapshot a drift check starts from was begun no earlier than any other of its
\* environment, and if its ledger was read as it was, it misses only what was recorded
\* in its own second or later, however late the anchors of either were answered.
THEOREM BaselinesAreNewest == Spec => []BaselineIsNewest
<1>1. IInv => BaselineIsNewest
  <2> SUFFICES ASSUME IInv, NEW env \in Environments, NEW n \in get_latest(snapshots, env),
                      NEW m \in DOMAIN snapshots,
                      snapshots[m].environment = env,
                      snapshots[m].version > snapshots[n].version, snapshots[n].fresh
               PROVE  /\ snapshots[m].recorded_at <= snapshots[n].recorded_at
                      /\ \A k \in snapshots[n].version + 1 .. Len(roots) :
                            snapshots[n].recorded_at <= roots[k].time
    BY DEF BaselineIsNewest
  <2>1. TypeInv /\ SavedInv BY DEF IInv
  <2>2. n \in 1 .. Len(snapshots) /\ snapshots[m].recorded_at <= snapshots[n].recorded_at
    BY <2>1, Types DEF get_latest
  <2> QED BY <2>1, <2>2 DEF SavedInv, RowOK
<1> QED BY <1>1, Invariant, PTL
=============================================================================
