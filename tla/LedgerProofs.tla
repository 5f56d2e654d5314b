---------------------------- MODULE LedgerProofs ----------------------------
(* Proofs about Ledger, for every set of workers, instances and requests.  *)
EXTENDS Ledger, SequenceTheorems, TLAPS

-----------------------------------------------------------------------------
(* Types.                                                                  *)

TypeInv == TypeOK /\ ShapeOK

\* Hashing and signing a payload on top of a hash gives a proof.
LEMMA BuildProofType ==
    ASSUME NEW payload \in Payload, NEW h \in Hash, NEW n \in Nat
    PROVE  BuildProof(payload, h, n, Key) \in Proof
<1>1. canonical_hash(payload, h, n) \in Hash
  BY DEF canonical_hash, Hash
<1> QED BY <1>1, LedgerAssumption DEF BuildProof, Proof, sign_hash

\* The hash a chain ends in is a hash.
LEMMA LastHashType ==
    ASSUME NEW chain \in Seq(Proof)
    PROVE  LastHash(chain) \in Hash
<1>1. <<>> \in Hash BY DEF Hash
<1>2. CASE chain = <<>> BY <1>1, <1>2 DEF LastHash, genesis_hash
<1>3. CASE chain # <<>>
  <2>1. chain[Len(chain)] \in Proof BY <1>3
  <2> QED BY <2>1, <1>3 DEF LastHash, Proof
<1> QED BY <1>2, <1>3

\* record_decision builds a proof out of any request on top of any chain.
LEMMA DraftType ==
    ASSUME NEW r \in DecisionRequest, NEW chain \in Seq(Proof)
    PROVE  DraftOf(r, chain) \in Proof
<1>1. DeterminismOf(r.determinism) \in Determinism
  BY DeterminismInputsAssumption DEF DecisionRequest, DeterminismOf, Determinism
<1>2. [decision |-> r.decision, governance |-> r.governance,
       determinism |-> DeterminismOf(r.determinism)] \in Payload
  BY <1>1 DEF DecisionRequest, Payload
<1>3. Len(chain) + 1 \in Nat OBVIOUS
<1> QED BY <1>2, <1>3, LastHashType, BuildProofType DEF DraftOf

\* The seeded, otherwise empty database is a database.
LEMMA EmptyDbType == EmptyDb \in Database
<1>1. [i \in Instances |-> <<>>] \in [Instances -> Seq(Proof)] OBVIOUS
<1> QED BY <1>1, LedgerAssumption DEF EmptyDb, Database, InstanceStates

\* The initial state has the types.
LEMMA InitType == Init => TypeInv
BY EmptyDbType DEF Init, TypeInv, TypeOK, ShapeOK, ConnStates, Steps

\* A worker reads and starts its writes from a whole database.
LEMMA ViewType ==
    ASSUME TypeOK, NEW w \in Workers
    PROVE  View(w) \in Database /\ Base(w) \in Database
BY DEF TypeOK, View, Base

\* A SELECT keeps the types of the connections.
LEMMA ReadType ==
    ASSUME TypeOK, NEW w \in Workers, Read(w)
    PROVE  /\ db' \in Database /\ txn' \in Database
           /\ lock' \in Workers \cup {NoWorker}
           /\ conn' \in [Workers -> ConnStates]
           /\ snap' \in [Workers -> Database]
BY DEF TypeOK, Read, ConnStates

\* A write statement of a whole database keeps the types of the connections.
LEMMA WriteType ==
    ASSUME TypeOK, NEW w \in Workers, NEW new \in Database, Write(w, new)
    PROVE  /\ db' \in Database /\ txn' \in Database
           /\ lock' \in Workers \cup {NoWorker}
           /\ conn' \in [Workers -> ConnStates]
           /\ snap' \in [Workers -> Database]
BY DEF TypeOK, Write

\* A write that fails keeps the types of the connections.
LEMMA WriteFailsType ==
    ASSUME TypeOK, NEW w \in Workers, WriteFails(w)
    PROVE  /\ db' \in Database /\ txn' \in Database
           /\ lock' \in Workers \cup {NoWorker}
           /\ conn' \in [Workers -> ConnStates]
           /\ snap' \in [Workers -> Database]
BY DEF TypeOK, WriteFails, ConnStates

\* commit() keeps the types of the connections.
LEMMA CommitType ==
    ASSUME TypeOK, NEW w \in Workers, Commit(w)
    PROVE  /\ db' \in Database /\ txn' \in Database
           /\ lock' \in Workers \cup {NoWorker}
           /\ conn' \in [Workers -> ConnStates]
           /\ snap' \in [Workers -> Database]
BY EmptyDbType DEF TypeOK, Commit, Release, ConnStates

\* rollback() keeps the types of the connections.
LEMMA RollbackType ==
    ASSUME TypeOK, NEW w \in Workers, Rollback(w)
    PROVE  /\ db' \in Database /\ txn' \in Database
           /\ lock' \in Workers \cup {NoWorker}
           /\ conn' \in [Workers -> ConnStates]
           /\ snap' \in [Workers -> Database]
BY EmptyDbType DEF TypeOK, Rollback, Release, ConnStates

\* The end of a request keeps the types of the workers' variables.
LEMMA FinishType ==
    ASSUME TypeInv, NEW w \in Workers, Finish(w)
    PROVE  /\ pc' \in [Workers -> Steps]
           /\ req' \in [Workers -> DecisionRequest \cup {NoRequest}]
           /\ draft' \in [Workers -> Proof \cup {NoProof}]
           /\ package' \in [Workers -> Package \cup PartialPackage \cup {NoPackage}]
           /\ inForce' \in [Workers -> SUBSET GovernanceTables]
           /\ ShapeOK'
BY DEF TypeInv, TypeOK, ShapeOK, Finish, Goto, Steps

\* add_approved_* leaves governance tables behind.
LEMMA ApprovalsType ==
    ASSUME NEW tables \in GovernanceTables, NEW new \in Approvals(tables)
    PROVE  new \in GovernanceTables
<1>1. \A v \in Policies, name \in Names \cup {NoName} : PolicyRow(v, name) \in PolicyRows
  BY DEF PolicyRow, PolicyRows
<1> QED BY <1>1 DEF Approvals, GovernanceTables

\* The signed root of a chain makes a whole package.
LEMMA RootType ==
    ASSUME NEW chain \in Seq(Proof)
    PROVE  instance_root(chain) \in Seq(Hash)
<1>1. DOMAIN chain = 1..Len(chain) /\ Len(chain) \in Nat OBVIOUS
<1>2. ASSUME NEW n \in 1..Len(chain) PROVE chain[n].current_hash \in Hash
  <2>1. chain[n] \in Proof BY <1>1
  <2> QED BY <2>1 DEF Proof
<1> QED BY <1>1, <1>2 DEF instance_root

\* Every step keeps the types.
LEMMA NextType == TypeInv /\ [Next]_vars => TypeInv'
<1> SUFFICES ASSUME TypeInv, [Next]_vars PROVE TypeInv' OBVIOUS
<1>0. TypeOK /\ ShapeOK BY DEF TypeInv
<1>1. CASE UNCHANGED vars
  BY <1>1, <1>0 DEF TypeInv, TypeOK, ShapeOK, vars
<1>2. CASE Next
  <2>1. PICK w \in Workers : Decide(w) \/ Export(w) \/ Govern(w) \/ Query(w) \/ Crash(w)
    BY <1>2 DEF Next
  <2>2. View(w) \in Database /\ Base(w) \in Database
    BY <1>0, ViewType
  <2>3. CASE StartDecision(w)
    BY <2>3, <1>0, ReadType DEF StartDecision, StartRequest, Goto, TypeInv, TypeOK, ShapeOK, Steps, Database
  <2>4. CASE ValidateGovernance(w)
    BY <2>4, <1>0, ReadType DEF ValidateGovernance, Goto, TypeInv, TypeOK, ShapeOK, Steps
  <2>5. CASE RejectDecision(w)
    BY <2>5, <1>0, ReadType, FinishType DEF RejectDecision, TypeInv, TypeOK
  <2>6. CASE ReadLatest(w)
    <3>1. req[w] \in DecisionRequest BY <2>6, <1>0 DEF ShapeOK, ReadLatest
    <3>2. View(w).ledger[req[w].instance] \in Seq(Proof)
      BY <3>1, <2>2 DEF Database, DecisionRequest
    <3>3. DraftOf(req[w], View(w).ledger[req[w].instance]) \in Proof
      BY <3>1, <3>2, DraftType
    <3> QED BY <3>3, <2>6, <1>0, ReadType DEF ReadLatest, Goto, TypeInv, TypeOK, ShapeOK, Steps
  <2>7. CASE ValidateChain(w)
    <3>1. CASE ChainAccepts(View(w).ledger[req[w].instance], draft[w])
      BY <3>1, <2>7, <1>0, ReadType DEF ValidateChain, Goto, TypeInv, TypeOK, ShapeOK, Steps
    <3>2. CASE ~ChainAccepts(View(w).ledger[req[w].instance], draft[w])
      BY <3>2, <2>7, <1>0, ReadType, FinishType DEF ValidateChain, TypeInv, TypeOK
    <3> QED BY <3>1, <3>2
  <2>8. CASE EnsureInstance(w)
    <3>1. req[w] \in DecisionRequest BY <2>8, <1>0 DEF ShapeOK, EnsureInstance
    <3>2. [Base(w) EXCEPT !.instances[req[w].instance] =
                             IF @ = "absent" THEN "live" ELSE @] \in Database
      BY <3>1, <2>2 DEF Database, InstanceStates
    <3>3. /\ db' \in Database /\ txn' \in Database
          /\ lock' \in Workers \cup {NoWorker}
          /\ conn' \in [Workers -> ConnStates]
          /\ snap' \in [Workers -> Database]
      BY <3>2, <2>8, <1>0, ReadType, WriteType DEF EnsureInstance
    <3> QED BY <3>3, <2>8, <1>0 DEF EnsureInstance, Goto, TypeInv, TypeOK, ShapeOK, Steps
  <2>9. CASE InsertEntry(w)
    <3>1. req[w] \in DecisionRequest /\ draft[w] \in Proof
      BY <2>9, <1>0 DEF ShapeOK, InsertEntry
    <3>a. req[w].instance \in Instances BY <3>1 DEF DecisionRequest
    <3>b. Base(w).ledger[req[w].instance] \in Seq(Proof) BY <3>a, <2>2 DEF Database
    <3>c. Append(Base(w).ledger[req[w].instance], draft[w]) \in Seq(Proof)
      BY <3>b, <3>1, AppendProperties
    <3>2. [Base(w) EXCEPT !.ledger[req[w].instance] = Append(@, draft[w])] \in Database
      BY <3>a, <3>c, <2>2 DEF Database
    <3>3. /\ db' \in Database /\ txn' \in Database
          /\ lock' \in Workers \cup {NoWorker}
          /\ conn' \in [Workers -> ConnStates]
          /\ snap' \in [Workers -> Database]
      BY <3>2, <2>9, <1>0, WriteType DEF InsertEntry
    <3> QED BY <3>3, <2>9, <1>0 DEF InsertEntry, Goto, TypeInv, TypeOK, ShapeOK, Steps
  <2>10. CASE InsertRefused(w)
    BY <2>10, <1>0, RollbackType, FinishType DEF InsertRefused, TypeInv, TypeOK
  <2>11. CASE CommitEntry(w)
    <3>1. req[w] \in DecisionRequest /\ draft[w] \in Proof
      BY <2>11, <1>0 DEF ShapeOK, CommitEntry
    <3>2. acked' \subseteq [instance : Instances, proof : Proof]
      BY <3>1, <2>11, <1>0 DEF CommitEntry, TypeOK, DecisionRequest
    <3> QED BY <3>2, <2>11, <1>0, CommitType, FinishType DEF CommitEntry, TypeInv, TypeOK
  <2>12. CASE DecisionWriteFails(w)
    BY <2>12, <1>0, WriteFailsType, FinishType DEF DecisionWriteFails, TypeInv, TypeOK
  <2>13. CASE StartExport(w)
    <3>1. PICK i \in Instances :
            package' = [package EXCEPT ![w] =
                [instance |-> i, ledger |-> View(w).ledger[i]]]
      BY <2>13 DEF StartExport
    <3>2. [instance |-> i, ledger |-> View(w).ledger[i]] \in PartialPackage
      BY <2>2 DEF PartialPackage, Database
    <3> QED BY <3>1, <3>2, <2>13, <1>0, ReadType
            DEF StartExport, StartRequest, Goto, TypeInv, TypeOK, ShapeOK, Steps
  <2>14. CASE ComputeRoot(w)
    <3>1. package[w] \in PartialPackage BY <2>14, <1>0 DEF ShapeOK, ComputeRoot
    <3> DEFINE root == instance_root(View(w).ledger[package[w].instance])
               new  == [instance |-> package[w].instance, ledger |-> package[w].ledger,
                        instance_root |-> root, public_key |-> Key,
                        signature |-> sign_hash(Key, root)]
    <3>2. root \in Seq(Hash)
      BY <3>1, <2>2, RootType DEF PartialPackage, Database
    <3>3. new \in Package
      BY <3>1, <3>2, LedgerAssumption DEF PartialPackage, Package, sign_hash
    <3>4. package' = [package EXCEPT ![w] = new] BY <2>14 DEF ComputeRoot
    <3> HIDE DEF new
    <3> QED BY <3>3, <3>4, <2>14, <1>0, ReadType
            DEF ComputeRoot, Goto, TypeInv, TypeOK, ShapeOK, Steps
  <2>15. CASE freeze_instance(w)
    <3>1. package[w] \in Package BY <2>15, <1>0 DEF ShapeOK, freeze_instance
    <3>2. [Base(w) EXCEPT !.instances[package[w].instance] =
                             IF @ = "absent" THEN @ ELSE "frozen"] \in Database
      BY <3>1, <2>2 DEF Database, InstanceStates
    <3>3. /\ db' \in Database /\ txn' \in Database
          /\ lock' \in Workers \cup {NoWorker}
          /\ conn' \in [Workers -> ConnStates]
          /\ snap' \in [Workers -> Database]
      BY <3>2, <2>15, <1>0, WriteType DEF freeze_instance
    <3> QED BY <3>3, <2>15, <1>0 DEF freeze_instance, Goto, TypeInv, TypeOK, ShapeOK, Steps
  <2>16. CASE CommitFreeze(w)
    <3>1. package[w] \in Package BY <2>16, <1>0 DEF ShapeOK, CommitFreeze
    <3> QED BY <3>1, <2>16, <1>0, CommitType, FinishType
            DEF CommitFreeze, ReturnPackage, TypeInv, TypeOK
  <2>17. CASE FreezeFails(w)
    <3>1. package[w] \in Package BY <2>17, <1>0 DEF ShapeOK, FreezeFails
    <3> QED BY <3>1, <2>17, <1>0, WriteFailsType, FinishType
            DEF FreezeFails, ReturnPackage, TypeInv, TypeOK
  <2>18. CASE Approve(w)
    <3>1. PICK tables \in Approvals(db.governance) :
             Write(w, [Base(w) EXCEPT !.governance = tables])
      BY <2>18 DEF Approve
    <3>2. tables \in GovernanceTables
      BY <1>0, ApprovalsType DEF TypeOK, Database
    <3>3. [Base(w) EXCEPT !.governance = tables] \in Database
      BY <3>2, <2>2 DEF Database
    <3>4. /\ db' \in Database /\ txn' \in Database
          /\ lock' \in Workers \cup {NoWorker}
          /\ conn' \in [Workers -> ConnStates]
          /\ snap' \in [Workers -> Database]
      BY <3>1, <3>3, <1>0, WriteType
    <3> QED BY <3>4, <2>18, <1>0
            DEF Approve, StartRequest, Goto, TypeInv, TypeOK, ShapeOK, Steps
  <2>19. CASE CommitGovernance(w)
    <3>1. txn.governance \in GovernanceTables BY <1>0 DEF TypeOK, Database
    <3> QED BY <3>1, <2>19, <1>0, CommitType
            DEF CommitGovernance, Goto, TypeInv, TypeOK, ShapeOK, Steps
  <2>20. CASE GovernanceWriteFails(w)
    BY <2>20, <1>0, WriteFailsType
    DEF GovernanceWriteFails, StartRequest, TypeInv, TypeOK, ShapeOK
  <2>21. CASE Crash(w)
    BY <2>21, <1>0, RollbackType, FinishType DEF Crash, TypeInv, TypeOK
  <2>22. ASSUME NEW v \in Policies, deactivate_policy(w, v) PROVE TypeInv'
    <3>1. UnnamedRow(v) \in PolicyRows BY DEF UnnamedRow, PolicyRows
    <3>2. [Base(w) EXCEPT !.governance.policies[UnnamedRow(v)] = "inactive"] \in Database
      BY <3>1, <2>2 DEF Database, GovernanceTables
    <3>3. /\ db' \in Database /\ txn' \in Database
          /\ lock' \in Workers \cup {NoWorker}
          /\ conn' \in [Workers -> ConnStates]
          /\ snap' \in [Workers -> Database]
      BY <3>2, <2>22, <1>0, WriteType DEF deactivate_policy
    <3> QED BY <3>3, <2>22, <1>0
            DEF deactivate_policy, StartRequest, Goto, TypeInv, TypeOK, ShapeOK, Steps
  <2>23. ASSUME NEW v \in Policies, DeactivateNothing(w, v) PROVE TypeInv'
    BY <2>23, <1>0, RollbackType
    DEF DeactivateNothing, StartRequest, TypeInv, TypeOK, ShapeOK
  <2>24. CASE ExportRaises(w)
    BY <2>24, <1>0, ReadType, FinishType DEF ExportRaises, TypeInv, TypeOK
  <2>25. CASE Query(w)
    BY <2>25, <1>0, ReadType DEF Query, TypeInv, TypeOK, ShapeOK
  <2> QED BY <2>1, <2>3, <2>4, <2>5, <2>6, <2>7, <2>8, <2>9, <2>10, <2>11, <2>12,
             <2>13, <2>14, <2>15, <2>16, <2>17, <2>18, <2>19, <2>20, <2>21, <2>22, <2>23,
             <2>24, <2>25
          DEF Decide, Export, Govern
<1> QED BY <1>1, <1>2

\* Type correctness of the workers and the database, for every number of
\* workers, instances and requests.
THEOREM TypeCorrect == Spec => []TypeOK
<1>1. TypeInv => TypeOK BY DEF TypeInv
<1> QED BY <1>1, InitType, NextType, PTL DEF Spec

-----------------------------------------------------------------------------
(* Chains.                                                                 *)

\* IsPrefix, element by element.
LEMMA PrefixElements ==
    ASSUME NEW S, NEW s \in Seq(S), NEW t \in Seq(S)
    PROVE  IsPrefix(s, t) <=> /\ Len(s) <= Len(t)
                              /\ \A k \in 1 .. Len(s) : s[k] = t[k]
<1>1. CASE Len(s) <= Len(t)
  <2>1. /\ SubSeq(s, 1, Len(s)) \in Seq(S) /\ Len(SubSeq(s, 1, Len(s))) = Len(s)
        /\ \A k \in 1 .. Len(s) : SubSeq(s, 1, Len(s))[k] = s[k]
    OBVIOUS
  <2>2. /\ SubSeq(t, 1, Len(s)) \in Seq(S) /\ Len(SubSeq(t, 1, Len(s))) = Len(s)
        /\ \A k \in 1 .. Len(s) : SubSeq(t, 1, Len(s))[k] = t[k]
    BY <1>1
  <2>3. ASSUME \A k \in 1 .. Len(s) : s[k] = t[k]
        PROVE  SubSeq(s, 1, Len(s)) = SubSeq(t, 1, Len(s))
    BY <2>1, <2>2, <2>3, SeqEqual
  <2>4. ASSUME SubSeq(s, 1, Len(s)) = SubSeq(t, 1, Len(s))
        PROVE  \A k \in 1 .. Len(s) : s[k] = t[k]
    BY <2>1, <2>2, <2>4
  <2> QED BY <1>1, <2>3, <2>4 DEF IsPrefix
<1>2. CASE ~(Len(s) <= Len(t)) BY <1>2 DEF IsPrefix
<1> QED BY <1>1, <1>2

\* A chain is a prefix of itself.
LEMMA PrefixReflexive ==
    ASSUME NEW S, NEW s \in Seq(S)
    PROVE  IsPrefix(s, s)
BY PrefixElements

\* A prefix of a prefix is a prefix.
LEMMA PrefixTransitive ==
    ASSUME NEW S, NEW s \in Seq(S), NEW t \in Seq(S), NEW u \in Seq(S),
           IsPrefix(s, t), IsPrefix(t, u)
    PROVE  IsPrefix(s, u)
<1>1. Len(s) <= Len(t) /\ \A k \in 1 .. Len(s) : s[k] = t[k] BY PrefixElements
<1>2. Len(t) <= Len(u) /\ \A k \in 1 .. Len(t) : t[k] = u[k] BY PrefixElements
<1>3. Len(s) <= Len(u) /\ \A k \in 1 .. Len(s) : s[k] = u[k] BY <1>1, <1>2
<1> QED BY <1>3, PrefixElements

\* The appended proof is the last one.
LEMMA AppendLast ==
    ASSUME NEW chain \in Seq(Proof), NEW p \in Proof
    PROVE  /\ Len(Append(chain, p)) = Len(chain) + 1
           /\ Append(chain, p)[Len(chain) + 1] = p
OBVIOUS

\* A chain is a prefix of itself with one proof more.
LEMMA AppendPrefix ==
    ASSUME NEW S, NEW s \in Seq(S), NEW e \in S
    PROVE  Append(s, e) \in Seq(S) /\ IsPrefix(s, Append(s, e))
<1>1. /\ Append(s, e) \in Seq(S) /\ Len(Append(s, e)) = Len(s) + 1
      /\ \A k \in 1 .. Len(s) : Append(s, e)[k] = s[k]
  BY AppendProperties
<1>2. Len(s) <= Len(Append(s, e)) BY <1>1
<1>3. \A t \in Seq(S) : Len(s) <= Len(t) /\ (\A k \in 1 .. Len(s) : s[k] = t[k])
                           => IsPrefix(s, t)
  BY PrefixElements
<1> QED BY <1>1, <1>2, <1>3, Zenon

\* What continues a chain continues every chain that extends it: the previous
\* hash it names is still where it was.
LEMMA ContinuesExtension ==
    ASSUME NEW s \in Seq(Proof), NEW t \in Seq(Proof), IsPrefix(s, t),
           NEW p, Continues(p, s)
    PROVE  Continues(p, t)
<1> DEFINE n == p.sequence_id
<1>1. Len(s) <= Len(t) /\ \A k \in 1 .. Len(s) : s[k] = t[k] BY PrefixElements
<1>2. n \in 1 .. Len(s) + 1 BY DEF Continues
<1>3. n \in 1 .. Len(t) + 1 BY <1>1, <1>2
<1>4. HashBefore(s, n) = HashBefore(t, n) BY <1>1, <1>2 DEF HashBefore
<1>5. p = BuildProof(p.payload, HashBefore(s, n), n, Key) BY DEF Continues
<1> QED BY <1>3, <1>4, <1>5 DEF Continues

\* The proof after the last one continues the hash the chain ends in.
LEMMA HashAtEnd ==
    ASSUME NEW chain \in Seq(Proof)
    PROVE  HashBefore(chain, Len(chain) + 1) = LastHash(chain)
<1> DEFINE n == Len(chain) + 1
<1>1. CASE chain = <<>> BY <1>1 DEF HashBefore, LastHash
<1>2. CASE chain # <<>>
  <2>1. Len(chain) # 0 /\ n # 1 /\ n - 1 = Len(chain) BY <1>2
  <2> QED BY <2>1, <1>2 DEF HashBefore, LastHash
<1> QED BY <1>1, <1>2

\* The proof record_decision builds from a chain continues that chain.
LEMMA DraftContinues ==
    ASSUME NEW r \in DecisionRequest, NEW chain \in Seq(Proof)
    PROVE  Continues(DraftOf(r, chain), chain)
<1> DEFINE n == Len(chain) + 1
<1>1. n \in 1 .. Len(chain) + 1 /\ Len(chain) \in Nat OBVIOUS
<1>2. HashBefore(chain, n) = LastHash(chain) BY HashAtEnd
<1>3. DraftOf(r, chain).sequence_id = n BY DEF DraftOf, BuildProof
<1>4. DraftOf(r, chain) = BuildProof(DraftOf(r, chain).payload, LastHash(chain), n, Key)
  BY DEF DraftOf, BuildProof
<1> QED BY <1>1, <1>2, <1>3, <1>4 DEF Continues

\* A proof that continues a linked chain and repeats none of its sequence
\* numbers comes right after its end.
LEMMA FreshIsNext ==
    ASSUME NEW chain \in Seq(Proof), ChainLinked(chain),
           NEW p, Continues(p, chain), ~UniqueViolation(chain, p)
    PROVE  p.sequence_id = Len(chain) + 1
<1>1. p.sequence_id \in 1 .. Len(chain) + 1 BY DEF Continues
<1>2. \A n \in 1 .. Len(chain) : chain[n].sequence_id = n
  BY DEF ChainLinked, LinkVerifies
<1>3. \A n \in 1 .. Len(chain) : chain[n].sequence_id # p.sequence_id
  BY DEF UniqueViolation
<1>4. Len(chain) \in Nat OBVIOUS
<1> QED BY <1>1, <1>2, <1>3, <1>4

\* A linked chain stays linked when a proof built on its end is appended.
LEMMA LinkedAppend ==
    ASSUME NEW chain \in Seq(Proof), ChainLinked(chain), NEW p \in Proof,
           Continues(p, chain), p.sequence_id = Len(chain) + 1
    PROVE  ChainLinked(Append(chain, p))
<1> DEFINE new == Append(chain, p)
           m   == Len(chain) + 1
<1>1. /\ Len(chain) \in Nat /\ new \in Seq(Proof) /\ Len(new) = m
      /\ \A k \in 1 .. Len(chain) : new[k] = chain[k]
      /\ new[m] = p
  BY AppendProperties
<1>2. DOMAIN new = 1 .. m /\ DOMAIN chain = 1 .. Len(chain) BY <1>1
<1>3. \A k \in 1 .. m : HashBefore(new, k) = HashBefore(chain, k)
  BY <1>1 DEF HashBefore
<1>4. ASSUME NEW k \in 1 .. Len(chain)
      PROVE  LinkVerifies(new[k], HashBefore(new, k), k)
  BY <1>1, <1>2, <1>3 DEF ChainLinked
<1>5. LinkVerifies(p, HashBefore(chain, m), m)
  <2>1. p = BuildProof(p.payload, HashBefore(chain, m), m, Key) BY DEF Continues
  <2>2. m = 1 => HashBefore(chain, m) = genesis_hash BY DEF HashBefore
  <2> QED BY <2>1, <2>2 DEF BuildProof, LinkVerifies, verify_ed25519, sign_hash
<1>6. LinkVerifies(new[m], HashBefore(new, m), m) BY <1>1, <1>3, <1>5
<1>7. \A k \in 1 .. m : k \in 1 .. Len(chain) \/ k = m BY <1>1
<1> HIDE DEF new, m
<1> QED BY <1>2, <1>4, <1>6, <1>7 DEF ChainLinked, new

-----------------------------------------------------------------------------
(* LedgerInv is kept: one lemma for each kind of step a connection takes.  *)

\* The part of LedgerInv about one worker's request.
WorkerInv(w) ==
    /\ pc[w] \in Drafted => Continues(draft[w], db.ledger[req[w].instance])
    /\ pc[w] \in Deciding => db.governance \in inForce[w]
    /\ pc[w] \in Deciding \ {"governance"} /\ conn[w] # "stale" =>
         \E tables \in inForce[w] : GovernanceApproved(tables, req[w].governance)

OthersKeep(w) ==
    \A x \in Workers \ {w} : /\ pc'[x] = pc[x] /\ req'[x] = req[x]
                             /\ draft'[x] = draft[x] /\ inForce'[x] = inForce[x]

SameStale == \A x \in Workers : conn'[x] = "stale" <=> conn[x] = "stale"

\* The per-worker parts of the invariant, worker by worker.
LEMMA WorkersInv ==
    (\A w \in Workers : WorkerInv(w)) <=> DraftsContinue /\ ApprovalsRemembered
BY DEF WorkerInv, DraftsContinue, ApprovalsRemembered

\* A SELECT or a failed write changes nothing but its own connection.
LEMMA ReadEffect ==
    ASSUME TypeOK, NEW w \in Workers, Read(w) \/ WriteFails(w)
    PROVE  UNCHANGED <<db, lock, txn, snap>> /\ SameStale
BY DEF TypeOK, Read, WriteFails, SameStale

\* The lock as LockDiscipline has it of its holder w.
HolderInv(w) ==
    /\ pc[w] \in Committing \cup {"insert"}
    /\ conn[w] # "stale"
    /\ pc[w] # "approving" => txn.governance = db.governance
    /\ pc[w] # "commit" => txn.ledger = db.ledger
    /\ pc[w] = "commit" =>
         LET i == req[w].instance
         IN  /\ draft[w].sequence_id = Len(db.ledger[i]) + 1
             /\ txn.ledger = [db.ledger EXCEPT ![i] = Append(@, draft[w])]

\* A step of a worker without the lock that does not touch the database.
LEMMA QuietStep ==
    ASSUME TypeInv, LedgerInv, NEW w \in Workers, lock # w,
           UNCHANGED <<db, lock, txn, snap, acked>>, SameStale,
           OthersKeep(w), pc'[w] \notin Committing, WorkerInv(w)'
    PROVE  LedgerInv'
<1>1. StoredChainsLinked' /\ AckedIsDurable'
  BY DEF LedgerInv, StoredChainsLinked, AckedIsDurable
<1>2. SnapshotsAreOld'
  BY DEF LedgerInv, SnapshotsAreOld, SameStale
<1>3. LockDiscipline'
  <2>1. ASSUME NEW x \in Workers, pc'[x] \in Committing PROVE lock' = x
    BY <2>1 DEF LedgerInv, LockDiscipline, OthersKeep
  <2>2. ASSUME NEW x \in Workers, lock' = x PROVE HolderInv(x)'
    <3>1. x # w /\ lock = x BY <2>2
    <3>2. HolderInv(x) BY <3>1 DEF LedgerInv, LockDiscipline, HolderInv
    <3> QED BY <3>1, <3>2 DEF HolderInv, OthersKeep, SameStale
  <2> QED BY <2>1, <2>2 DEF LockDiscipline, HolderInv
<1>4. \A x \in Workers : WorkerInv(x)'
  <2>1. ASSUME NEW x \in Workers \ {w} PROVE WorkerInv(x)'
    BY WorkersInv, <2>1 DEF LedgerInv, WorkerInv, OthersKeep, SameStale
  <2> QED BY <2>1
<1>5. DraftsContinue' /\ ApprovalsRemembered'
  BY <1>4 DEF WorkerInv, DraftsContinue, ApprovalsRemembered
<1> QED BY <1>1, <1>2, <1>3, <1>5 DEF LedgerInv

\* A write statement: w has the lock afterwards.
LEMMA WriteStep ==
    ASSUME TypeInv, LedgerInv, NEW w \in Workers, NEW new, Write(w, new),
           UNCHANGED acked, OthersKeep(w), HolderInv(w)', WorkerInv(w)'
    PROVE  LedgerInv'
<1>0. lock' = w /\ UNCHANGED <<db, conn, snap>> /\ lock \in {NoWorker, w}
  BY DEF Write, CanWrite
<1>1. StoredChainsLinked' /\ AckedIsDurable'
  BY <1>0 DEF LedgerInv, StoredChainsLinked, AckedIsDurable
<1>2. SnapshotsAreOld'
  BY <1>0 DEF LedgerInv, SnapshotsAreOld
<1>3. LockDiscipline'
  <2>1. ASSUME NEW x \in Workers, pc'[x] \in Committing PROVE lock' = x
    BY <1>0, <2>1, LedgerAssumption DEF LedgerInv, LockDiscipline, OthersKeep
  <2> QED BY <2>1, <1>0 DEF LockDiscipline, HolderInv
<1>4. \A x \in Workers : WorkerInv(x)'
  <2>1. ASSUME NEW x \in Workers \ {w} PROVE WorkerInv(x)'
    BY WorkersInv, <2>1, <1>0 DEF LedgerInv, WorkerInv, OthersKeep
  <2> QED BY <2>1
<1>5. DraftsContinue' /\ ApprovalsRemembered'
  BY <1>4 DEF WorkerInv, DraftsContinue, ApprovalsRemembered
<1> QED BY <1>1, <1>2, <1>3, <1>5 DEF LedgerInv

\* A rollback: the request of w is over.
LEMMA RollbackStep ==
    ASSUME TypeInv, LedgerInv, NEW w \in Workers, Rollback(w),
           UNCHANGED acked, OthersKeep(w), pc'[w] = "idle"
    PROVE  LedgerInv'
<1>0. /\ UNCHANGED db /\ lock' = IF lock = w THEN NoWorker ELSE lock
      /\ txn' = IF lock = w THEN EmptyDb ELSE txn
      /\ \A x \in Workers \ {w} : conn'[x] = conn[x] /\ snap'[x] = snap[x]
      /\ conn'[w] = "closed"
  BY DEF Rollback, Release, TypeInv, TypeOK
<1>1. StoredChainsLinked' /\ AckedIsDurable'
  BY <1>0 DEF LedgerInv, StoredChainsLinked, AckedIsDurable
<1>2. SnapshotsAreOld'
  BY <1>0 DEF LedgerInv, SnapshotsAreOld
<1>3. LockDiscipline'
  <2>1. ASSUME NEW x \in Workers, pc'[x] \in Committing PROVE lock' = x
    <3>1. x # w BY <2>1 DEF Committing
    <3>2. lock = x BY <2>1, <3>1 DEF LedgerInv, LockDiscipline, OthersKeep
    <3> QED BY <3>1, <3>2, <1>0
  <2>2. ASSUME NEW x \in Workers, lock' = x PROVE HolderInv(x)'
    <3>1. x # w /\ lock = x BY <2>2, <1>0, LedgerAssumption
    <3>2. HolderInv(x) BY <3>1 DEF LedgerInv, LockDiscipline, HolderInv
    <3>3. txn' = txn /\ db' = db /\ conn'[x] = conn[x] BY <3>1, <1>0
    <3> QED BY <3>1, <3>2, <3>3 DEF HolderInv, OthersKeep
  <2> QED BY <2>1, <2>2 DEF LockDiscipline, HolderInv
<1>4. \A x \in Workers : WorkerInv(x)'
  <2>1. ASSUME NEW x \in Workers \ {w} PROVE WorkerInv(x)'
    BY WorkersInv, <2>1, <1>0 DEF LedgerInv, WorkerInv, OthersKeep
  <2>2. WorkerInv(w)' BY DEF WorkerInv, Drafted, Deciding
  <2> QED BY <2>1, <2>2
<1>5. DraftsContinue' /\ ApprovalsRemembered'
  BY <1>4 DEF WorkerInv, DraftsContinue, ApprovalsRemembered
<1> QED BY <1>1, <1>2, <1>3, <1>5 DEF LedgerInv

\* What a commit does to the chains: nothing, or one proof at the end of one.
LEMMA CommitLedger ==
    ASSUME TypeInv, LedgerInv, NEW w \in Workers, Commit(w)
    PROVE  /\ HolderInv(w)
           /\ \A i \in Instances :
                /\ db.ledger[i] \in Seq(Proof) /\ db'.ledger[i] \in Seq(Proof)
                /\ IsPrefix(db.ledger[i], db'.ledger[i])
                /\ ChainLinked(db'.ledger[i])
<1>1. lock = w /\ db' = txn BY DEF Commit
<1>2. HolderInv(w) BY <1>1 DEF LedgerInv, LockDiscipline, HolderInv
<1>3. ASSUME NEW i \in Instances
      PROVE  db.ledger[i] \in Seq(Proof) /\ db'.ledger[i] \in Seq(Proof)
  BY <1>1 DEF TypeInv, TypeOK, Database
<1>4. ASSUME NEW i \in Instances
      PROVE  ChainLinked(db.ledger[i])
  BY DEF LedgerInv, StoredChainsLinked
<1>5. CASE pc[w] # "commit"
  <2>1. db'.ledger = db.ledger BY <1>1, <1>2, <1>5 DEF HolderInv
  <2>2. \A i \in Instances : IsPrefix(db.ledger[i], db'.ledger[i])
    BY <2>1, <1>3, PrefixReflexive
  <2> QED BY <2>1, <2>2, <1>2, <1>3, <1>4
<1>6. CASE pc[w] = "commit"
  <2> DEFINE j == req[w].instance
  <2>1. req[w] \in DecisionRequest /\ draft[w] \in Proof
    BY <1>6 DEF TypeInv, ShapeOK
  <2>2. j \in Instances BY <2>1 DEF DecisionRequest
  <2>3. db'.ledger = [db.ledger EXCEPT ![j] = Append(@, draft[w])]
    BY <1>1, <1>2, <1>6 DEF HolderInv
  <2>4. DOMAIN db.ledger = Instances BY DEF TypeInv, TypeOK, Database
  <2>5. ASSUME NEW i \in Instances, i # j PROVE db'.ledger[i] = db.ledger[i]
    BY <2>3, <2>4, <2>5
  <2>6. db'.ledger[j] = Append(db.ledger[j], draft[w]) BY <2>2, <2>3, <2>4
  <2>7. Continues(draft[w], db.ledger[j]) /\ draft[w].sequence_id = Len(db.ledger[j]) + 1
    BY <1>2, <1>6 DEF LedgerInv, DraftsContinue, Drafted, HolderInv
  <2>8. IsPrefix(db.ledger[j], db'.ledger[j]) BY <1>3, <2>1, <2>2, <2>6, AppendPrefix
  <2>9. ChainLinked(db'.ledger[j]) BY <1>3, <1>4, <2>1, <2>2, <2>6, <2>7, LinkedAppend
  <2>10. \A i \in Instances : i # j => IsPrefix(db.ledger[i], db'.ledger[i])
    BY <1>3, <2>5, PrefixReflexive
  <2>11. \A i \in Instances : i # j => ChainLinked(db'.ledger[i])
    BY <1>4, <2>5
  <2> QED BY <1>2, <1>3, <2>8, <2>9, <2>10, <2>11
<1> QED BY <1>5, <1>6

\* HashChain and Ledger have the same proof format.
LEMMA ChainFormat ==
    /\ Chain!Payload = Payload
    /\ \A chain : Chain!LastHash(chain) = LastHash(chain)
    /\ \A payload, h, n, key :
          Chain!BuildProof(payload, h, n, key) = BuildProof(payload, h, n, key)
<1>1. Chain!Payload = Payload
  BY DEF Chain!Payload, Payload, Chain!Governance, Governance,
         Chain!Determinism, Determinism, Chain!DeterminismModes, DeterminismModes,
         Chain!STRICT, STRICT, Chain!SEEDED, SEEDED, Chain!RECORDED, RECORDED
<1>2. \A chain : Chain!LastHash(chain) = LastHash(chain)
  BY DEF Chain!LastHash, LastHash, Chain!genesis_hash, genesis_hash
<1>3. \A payload, h, n, key :
          Chain!BuildProof(payload, h, n, key) = BuildProof(payload, h, n, key)
  BY DEF Chain!BuildProof, BuildProof, Chain!canonical_hash, canonical_hash,
         Chain!sign_hash, sign_hash
<1> QED BY <1>1, <1>2, <1>3

\* The commit of an entry is one atomic append of HashChain; the commits of
\* freezes and approvals leave the chains as they are.
LEMMA CommitIsRecord ==
    ASSUME TypeInv, LedgerInv, NEW w \in Workers, Commit(w)
    PROVE  Chain!Next \/ UNCHANGED db.ledger
<1>1. lock = w /\ db' = txn /\ HolderInv(w) BY CommitLedger DEF Commit
<1>2. CASE pc[w] # "commit" BY <1>1, <1>2 DEF HolderInv
<1>3. CASE pc[w] = "commit"
  <2> DEFINE j == req[w].instance
             n == Len(db.ledger[j]) + 1
  <2>1. req[w] \in DecisionRequest /\ draft[w] \in Proof
    BY <1>3 DEF TypeInv, ShapeOK
  <2>2. j \in Instances /\ draft[w].payload \in Payload
    BY <2>1 DEF DecisionRequest, Proof
  <2>3. db.ledger[j] \in Seq(Proof) BY <2>2 DEF TypeInv, TypeOK, Database
  <2>4. Continues(draft[w], db.ledger[j]) /\ draft[w].sequence_id = n
    BY <1>1, <1>3 DEF LedgerInv, DraftsContinue, Drafted, HolderInv
  <2>5. draft[w] = BuildProof(draft[w].payload, LastHash(db.ledger[j]), n, Key)
    BY <2>3, <2>4, HashAtEnd DEF Continues
  <2>6. db'.ledger = [db.ledger EXCEPT ![j] = Append(@, draft[w])]
    BY <1>1, <1>3 DEF HolderInv
  <2>7. Chain!Record(j, draft[w].payload) BY <2>5, <2>6, ChainFormat DEF Chain!Record
  <2> QED BY <2>2, <2>7, ChainFormat DEF Chain!Next
<1> QED BY <1>2, <1>3

\* A commit: every other request keeps its local state, and learns of the
\* governance tables that are now in force.
LEMMA CommitStep ==
    ASSUME TypeInv, LedgerInv, NEW w \in Workers, Commit(w),
           \A x \in Workers \ {w} :
               /\ pc'[x] = pc[x] /\ req'[x] = req[x] /\ draft'[x] = draft[x]
               /\ inForce[x] \subseteq inForce'[x]
               /\ pc[x] \in Deciding => db'.governance \in inForce'[x],
           pc'[w] = "idle",
           \A a \in acked' \ acked :
               /\ pc[w] = "commit" /\ a.instance = req[w].instance
               /\ a.proof = draft[w],
           acked \subseteq [instance : Instances, proof : Proof]
    PROVE  LedgerInv'
<1> DEFINE Grows(i) == /\ db.ledger[i] \in Seq(Proof) /\ db'.ledger[i] \in Seq(Proof)
                       /\ IsPrefix(db.ledger[i], db'.ledger[i])
                       /\ ChainLinked(db'.ledger[i])
<1>0. HolderInv(w) /\ \A i \in Instances : Grows(i) BY CommitLedger
<1>a. /\ lock = w /\ lock' = NoWorker /\ db' = txn
      /\ conn'[w] = "closed"
      /\ \A x \in Workers \ {w} :
           /\ conn'[x] = IF conn[x] = "pinned" THEN "stale" ELSE conn[x]
           /\ snap'[x] = IF conn[x] = "pinned" THEN db ELSE snap[x]
  BY DEF Commit, Release
<1>b. ASSUME NEW i \in Instances
      PROVE  /\ Len(db.ledger[i]) <= Len(db'.ledger[i])
             /\ DOMAIN db.ledger[i] = 1 .. Len(db.ledger[i])
             /\ DOMAIN db'.ledger[i] = 1 .. Len(db'.ledger[i])
             /\ Len(db.ledger[i]) \in Nat /\ Len(db'.ledger[i]) \in Nat
             /\ \A k \in DOMAIN db.ledger[i] : db'.ledger[i][k] = db.ledger[i][k]
  <2>1. /\ db.ledger[i] \in Seq(Proof) /\ db'.ledger[i] \in Seq(Proof)
        /\ IsPrefix(db.ledger[i], db'.ledger[i])
    BY <1>0
  <2> QED BY ONLY <2>1, PrefixElements
<1>1. StoredChainsLinked' BY <1>0 DEF StoredChainsLinked
<1>2. AckedIsDurable'
  <2>1. ASSUME NEW a \in acked
        PROVE  /\ a.proof.sequence_id \in DOMAIN db'.ledger[a.instance]
               /\ db'.ledger[a.instance][a.proof.sequence_id] = a.proof
    <3>1. a.instance \in Instances OBVIOUS
    <3>2. /\ a.proof.sequence_id \in DOMAIN db.ledger[a.instance]
          /\ db.ledger[a.instance][a.proof.sequence_id] = a.proof
      BY DEF LedgerInv, AckedIsDurable
    <3> QED BY <3>1, <3>2, <1>b
  <2>2. ASSUME NEW a \in acked' \ acked
        PROVE  /\ a.proof.sequence_id \in DOMAIN db'.ledger[a.instance]
               /\ db'.ledger[a.instance][a.proof.sequence_id] = a.proof
    <3> DEFINE j == req[w].instance
    <3>1. pc[w] = "commit" /\ a.instance = j /\ a.proof = draft[w] OBVIOUS
    <3>2. req[w] \in DecisionRequest /\ draft[w] \in Proof
      BY <3>1 DEF TypeInv, ShapeOK
    <3>3. j \in Instances /\ db.ledger[j] \in Seq(Proof)
      BY <3>2, <1>0 DEF DecisionRequest
    <3>4. db'.ledger[j] = Append(db.ledger[j], draft[w])
      BY <1>0, <1>a, <3>1, <3>3 DEF HolderInv, TypeInv, TypeOK, Database
    <3>5. draft[w].sequence_id = Len(db.ledger[j]) + 1 BY <1>0, <3>1 DEF HolderInv
    <3>6. /\ Len(Append(db.ledger[j], draft[w])) = Len(db.ledger[j]) + 1
          /\ Append(db.ledger[j], draft[w])[Len(db.ledger[j]) + 1] = draft[w]
      BY ONLY <3>2, <3>3, AppendLast
    <3>7. DOMAIN db'.ledger[j] = 1 .. Len(db.ledger[j]) + 1 BY <3>3, <3>4, <3>6, <1>b
    <3>8. Len(db.ledger[j]) + 1 \in 1 .. Len(db.ledger[j]) + 1 BY <3>3
    <3> QED BY <3>1, <3>4, <3>5, <3>6, <3>7, <3>8, Zenon
  <2> QED BY <2>1, <2>2 DEF AckedIsDurable
<1>3. SnapshotsAreOld'
  <2>1. ASSUME NEW x \in Workers, conn'[x] = "stale", NEW i \in Instances
        PROVE  IsPrefix(snap'[x].ledger[i], db'.ledger[i])
    <3>1. x # w BY <1>a, <2>1
    <3>2. CASE conn[x] = "pinned" BY <3>1, <3>2, <1>0, <1>a
    <3>3. CASE conn[x] # "pinned"
      <4>1. conn[x] = "stale" /\ snap'[x] = snap[x] BY <3>1, <3>3, <1>a, <2>1
      <4>2. IsPrefix(snap[x].ledger[i], db.ledger[i])
        BY <4>1 DEF LedgerInv, SnapshotsAreOld
      <4>3. snap[x].ledger[i] \in Seq(Proof) BY DEF TypeInv, TypeOK, Database
      <4> QED BY <4>1, <4>2, <4>3, <1>0, PrefixTransitive
    <3> QED BY <3>2, <3>3
  <2> QED BY <2>1 DEF SnapshotsAreOld
<1>4. LockDiscipline'
  <2>1. \A x \in Workers : pc'[x] \notin Committing
    BY <1>a DEF LedgerInv, LockDiscipline, Committing
  <2> QED BY <2>1, <1>a, LedgerAssumption DEF LockDiscipline
<1>5. \A x \in Workers : WorkerInv(x)'
  <2>1. ASSUME NEW x \in Workers \ {w} PROVE WorkerInv(x)'
    <3>1. WorkerInv(x) BY WorkersInv DEF LedgerInv
    <3>2. ASSUME pc[x] \in Drafted
          PROVE  Continues(draft[x], db'.ledger[req[x].instance])
      <4>1. req[x] \in DecisionRequest BY <3>2 DEF TypeInv, ShapeOK, Drafted
      <4>2. req[x].instance \in Instances BY <4>1 DEF DecisionRequest
      <4>3. Continues(draft[x], db.ledger[req[x].instance]) BY <3>1, <3>2 DEF WorkerInv
      <4> QED BY <4>2, <4>3, <1>0, ContinuesExtension
    <3>3. conn'[x] # "stale" => conn[x] # "stale" BY <1>a
    <3> QED BY <3>1, <3>2, <3>3 DEF WorkerInv
  <2>2. WorkerInv(w)' BY DEF WorkerInv, Drafted, Deciding
  <2> QED BY <2>1, <2>2
<1>6. DraftsContinue' /\ ApprovalsRemembered'
  BY <1>5 DEF WorkerInv, DraftsContinue, ApprovalsRemembered
<1> QED BY <1>1, <1>2, <1>3, <1>4, <1>6 DEF LedgerInv

-----------------------------------------------------------------------------
(* The actions.                                                            *)

\* The end of a request leaves the other workers alone.
LEMMA FinishEffect ==
    ASSUME TypeOK, NEW w \in Workers, Finish(w)
    PROVE  OthersKeep(w) /\ pc'[w] = "idle"
BY DEF Finish, Goto, OthersKeep, TypeOK

\* A request that is over has nothing to say about itself.
LEMMA IdleInv ==
    ASSUME NEW w \in Workers, pc'[w] \notin Deciding
    PROVE  WorkerInv(w)'
BY DEF WorkerInv, Drafted, Deciding

\* A worker that has not written, or cannot, does not hold the lock.
LEMMA NotHolder ==
    ASSUME LedgerInv, NEW w \in Workers,
           pc[w] \notin Committing \cup {"insert"} \/ ~CanWrite(w)
    PROVE  lock # w
BY DEF LedgerInv, LockDiscipline, CanWrite

\* Unless w is stale, what it reads is the committed database.
LEMMA ViewLedger ==
    ASSUME TypeInv, LedgerInv, NEW w \in Workers, NEW i \in Instances
    PROVE  /\ View(w).ledger[i] \in Seq(Proof) /\ db.ledger[i] \in Seq(Proof)
           /\ IsPrefix(View(w).ledger[i], db.ledger[i])
<1>1. /\ snap[w].ledger[i] \in Seq(Proof) /\ db.ledger[i] \in Seq(Proof)
  BY DEF TypeInv, TypeOK, Database
<1>2. CASE conn[w] = "stale"
  BY <1>1, <1>2 DEF LedgerInv, SnapshotsAreOld, View
<1>3. CASE conn[w] # "stale"
  BY <1>1, <1>3, PrefixReflexive DEF View
<1> QED BY <1>2, <1>3

\* The steps of record_decision and append_ledger_entry keep the invariant.
LEMMA DecideInv ==
    ASSUME TypeInv, LedgerInv, NEW w \in Workers, Decide(w)
    PROVE  LedgerInv'
<1>0. TypeOK /\ ShapeOK /\ WorkerInv(w) BY WorkersInv DEF TypeInv, LedgerInv
<1>1. CASE StartDecision(w)
  <2>1. lock # w BY <1>1, NotHolder DEF StartDecision, StartRequest, Committing
  <2>2. UNCHANGED <<db, lock, txn, snap>> /\ SameStale
    BY <1>0, <1>1, ReadEffect DEF StartDecision
  <2>3. OthersKeep(w) /\ pc'[w] = "governance" /\ db.governance \in inForce'[w]
    BY <1>0, <1>1 DEF StartDecision, Goto, OthersKeep, TypeOK
  <2>4. WorkerInv(w)' BY <2>2, <2>3 DEF WorkerInv, Drafted, Deciding
  <2> QED BY <2>1, <2>2, <2>3, <2>4, <1>1, QuietStep DEF StartDecision, Committing
<1>2. CASE ValidateGovernance(w)
  <2>1. lock # w BY <1>2, NotHolder DEF ValidateGovernance, Committing
  <2>2. UNCHANGED <<db, lock, txn, snap>> /\ SameStale
    BY <1>0, <1>2, ReadEffect DEF ValidateGovernance
  <2>3. OthersKeep(w) /\ pc'[w] = "latest" /\ UNCHANGED <<req, inForce>>
    BY <1>0, <1>2 DEF ValidateGovernance, Goto, OthersKeep, TypeOK
  <2>4. db.governance \in inForce[w] BY <1>0, <1>2 DEF WorkerInv, ValidateGovernance, Deciding
  <2>5. conn[w] # "stale" => GovernanceApproved(db.governance, req[w].governance)
    BY <1>2 DEF ValidateGovernance, View
  <2>6. WorkerInv(w)' BY <2>2, <2>3, <2>4, <2>5 DEF WorkerInv, Drafted, SameStale
  <2> QED BY <2>1, <2>2, <2>3, <2>6, <1>2, QuietStep DEF ValidateGovernance, Committing
<1>3. CASE RejectDecision(w)
  <2>1. lock # w BY <1>3, NotHolder DEF RejectDecision, Committing
  <2>2. UNCHANGED <<db, lock, txn, snap>> /\ SameStale
    BY <1>0, <1>3, ReadEffect DEF RejectDecision
  <2>3. OthersKeep(w) /\ pc'[w] = "idle" BY <1>0, <1>3, FinishEffect DEF RejectDecision
  <2>4. WorkerInv(w)' BY <2>3, IdleInv DEF Deciding
  <2> QED BY <2>1, <2>2, <2>3, <2>4, <1>3, QuietStep DEF RejectDecision, Committing
<1>4. CASE ReadLatest(w)
  <2> DEFINE i     == req[w].instance
             chain == View(w).ledger[i]
  <2>1. lock # w BY <1>4, NotHolder DEF ReadLatest, Committing
  <2>2. UNCHANGED <<db, lock, txn, snap>> /\ SameStale
    BY <1>0, <1>4, ReadEffect DEF ReadLatest
  <2>3. /\ OthersKeep(w) /\ pc'[w] = "validate" /\ UNCHANGED <<req, inForce>>
        /\ draft'[w] = DraftOf(req[w], chain)
    BY <1>0, <1>4 DEF ReadLatest, Goto, OthersKeep, TypeOK
  <2>4. req[w] \in DecisionRequest BY <1>0, <1>4 DEF ShapeOK, ReadLatest
  <2>5. i \in Instances BY <2>4 DEF DecisionRequest
  <2>6. /\ chain \in Seq(Proof) /\ db.ledger[i] \in Seq(Proof)
        /\ IsPrefix(chain, db.ledger[i])
    BY <2>5, ViewLedger
  <2>7. Continues(draft'[w], db.ledger[i])
    BY <2>3, <2>4, <2>6, DraftContinues, ContinuesExtension
  <2>8. WorkerInv(w)' BY <1>0, <1>4, <2>2, <2>3, <2>7 DEF WorkerInv, SameStale, ReadLatest, Deciding
  <2> QED BY <2>1, <2>2, <2>3, <2>8, <1>4, QuietStep DEF ReadLatest, Committing
<1>5. CASE ValidateChain(w)
  <2>1. lock # w BY <1>5, NotHolder DEF ValidateChain, Committing
  <2>2. UNCHANGED <<db, lock, txn, snap>> /\ SameStale
    BY <1>0, <1>5, ReadEffect DEF ValidateChain
  <2>3. CASE ChainAccepts(View(w).ledger[req[w].instance], draft[w])
    <3>1. OthersKeep(w) /\ pc'[w] = "ensure" /\ UNCHANGED <<req, draft, inForce>>
      BY <2>3, <1>0, <1>5 DEF ValidateChain, Goto, OthersKeep, TypeOK
    <3>2. WorkerInv(w)'
      BY <1>0, <1>5, <2>2, <3>1 DEF WorkerInv, SameStale, ValidateChain, Deciding, Drafted
    <3> QED BY <2>1, <2>2, <3>1, <3>2, <1>5, QuietStep DEF ValidateChain, Committing
  <2>4. CASE ~ChainAccepts(View(w).ledger[req[w].instance], draft[w])
    <3>1. OthersKeep(w) /\ pc'[w] = "idle"
      BY <2>4, <1>0, <1>5, FinishEffect DEF ValidateChain
    <3>2. WorkerInv(w)' BY <3>1, IdleInv DEF Deciding
    <3> QED BY <2>1, <2>2, <3>1, <3>2, <1>5, QuietStep DEF ValidateChain, Committing
  <2> QED BY <2>3, <2>4
<1>6. CASE EnsureInstance(w)
  <2>1. OthersKeep(w) /\ pc'[w] = "insert" /\ UNCHANGED <<req, draft, inForce>>
    BY <1>0, <1>6 DEF EnsureInstance, Goto, OthersKeep, TypeOK
  <2>2. lock # w BY <1>6, NotHolder DEF EnsureInstance, Committing
  <2>3. CASE ~InstanceMissing(w)
    <3>1. UNCHANGED <<db, lock, txn, snap>> /\ SameStale
      BY <2>3, <1>0, <1>6, ReadEffect DEF EnsureInstance
    <3>2. WorkerInv(w)'
      BY <1>0, <1>6, <2>1, <3>1 DEF WorkerInv, SameStale, EnsureInstance, Deciding, Drafted
    <3> QED BY <2>1, <2>2, <3>1, <3>2, <1>6, QuietStep DEF EnsureInstance, Committing
  <2>4. CASE InstanceMissing(w)
    <3> DEFINE new == [Base(w) EXCEPT !.instances[req[w].instance] =
                                         IF @ = "absent" THEN "live" ELSE @]
    <3>1. Write(w, new) BY <2>4, <1>6 DEF EnsureInstance
    <3>2. Base(w) = db BY <2>2 DEF Base
    <3>3. txn'.ledger = db.ledger /\ txn'.governance = db.governance
      BY <3>1, <3>2, <1>0 DEF Write, TypeOK, Database
    <3>4. HolderInv(w)'
      BY <2>1, <3>1, <3>3 DEF HolderInv, Write, CanWrite
    <3>5. WorkerInv(w)'
      BY <1>0, <1>6, <2>1, <3>1 DEF WorkerInv, Write, EnsureInstance, Deciding, Drafted
    <3> QED BY <2>1, <3>1, <3>4, <3>5, <1>6, WriteStep DEF EnsureInstance
  <2> QED BY <2>3, <2>4
<1>7. CASE InsertEntry(w)
  <2> DEFINE i   == req[w].instance
             new == [Base(w) EXCEPT !.ledger[i] = Append(@, draft[w])]
  <2>1. OthersKeep(w) /\ pc'[w] = "commit" /\ UNCHANGED <<req, draft, inForce>>
    BY <1>0, <1>7 DEF InsertEntry, Goto, OthersKeep, TypeOK
  <2>2. Write(w, new) BY <1>7 DEF InsertEntry
  <2>3. Base(w).ledger = db.ledger /\ Base(w).governance = db.governance
    BY <1>7 DEF InsertEntry, Base, LedgerInv, LockDiscipline
  <2>4. i \in Instances BY <1>0, <1>7 DEF ShapeOK, InsertEntry, DecisionRequest
  <2>5. db.ledger[i] \in Seq(Proof) BY <2>4, <1>0 DEF TypeOK, Database
  <2>6. draft[w].sequence_id = Len(db.ledger[i]) + 1
    <3>1. ~UniqueViolation(db.ledger[i], draft[w]) BY <1>7, <2>3 DEF InsertEntry
    <3>2. ChainLinked(db.ledger[i]) BY <2>4 DEF LedgerInv, StoredChainsLinked
    <3>3. Continues(draft[w], db.ledger[i]) BY <1>0, <1>7 DEF WorkerInv, InsertEntry, Drafted
    <3> QED BY <3>1, <3>2, <3>3, <2>5, FreshIsNext
  <2>7. Base(w) \in Database BY <1>0, ViewType
  <2>8. /\ txn'.ledger = [db.ledger EXCEPT ![i] = Append(@, draft[w])]
        /\ txn'.governance = db.governance
    BY <2>2, <2>3, <2>7 DEF Write, Database
  <2>9. HolderInv(w)'
    BY <2>1, <2>2, <2>6, <2>8 DEF HolderInv, Write, CanWrite, Committing
  <2>10. WorkerInv(w)'
    BY <1>0, <1>7, <2>1, <2>2 DEF WorkerInv, Write, InsertEntry, Deciding, Drafted
  <2> QED BY <2>1, <2>2, <2>9, <2>10, <1>7, WriteStep DEF InsertEntry
<1>8. CASE InsertRefused(w)
  BY <1>0, <1>8, FinishEffect, RollbackStep DEF InsertRefused
<1>9. CASE CommitEntry(w)
  <2>1. OthersKeep(w) /\ pc'[w] = "idle" BY <1>0, <1>9, FinishEffect DEF CommitEntry
  <2>2. lock = w /\ pc[w] = "commit" /\ db' = txn BY <1>9 DEF CommitEntry, Commit
  <2>3. db'.governance = db.governance BY <2>2 DEF LedgerInv, LockDiscipline
  <2>4. \A x \in Workers \ {w} : pc[x] \in Deciding => db'.governance \in inForce'[x]
    BY <2>1, <2>3 DEF LedgerInv, ApprovalsRemembered, OthersKeep
  <2>5. \A a \in acked' \ acked :
          a.instance = req[w].instance /\ a.proof = draft[w]
    BY <1>9 DEF CommitEntry
  <2>6. acked \subseteq [instance : Instances, proof : Proof] BY <1>0 DEF TypeOK
  <2> QED BY <2>1, <2>2, <2>4, <2>5, <2>6, <1>9, CommitStep DEF CommitEntry, OthersKeep
<1>10. CASE DecisionWriteFails(w)
  <2>1. lock # w BY <1>10, NotHolder DEF DecisionWriteFails, WriteFails
  <2>2. UNCHANGED <<db, lock, txn, snap>> /\ SameStale
    BY <1>0, <1>10, ReadEffect DEF DecisionWriteFails
  <2>3. OthersKeep(w) /\ pc'[w] = "idle" BY <1>0, <1>10, FinishEffect DEF DecisionWriteFails
  <2>4. WorkerInv(w)' BY <2>3, IdleInv DEF Deciding
  <2> QED BY <2>1, <2>2, <2>3, <2>4, <1>10, QuietStep DEF DecisionWriteFails, Committing
<1> QED BY <1>1, <1>2, <1>3, <1>4, <1>5, <1>6, <1>7, <1>8, <1>9, <1>10 DEF Decide

\* The steps of export_proof keep the invariant.
LEMMA ExportInv ==
    ASSUME TypeInv, LedgerInv, NEW w \in Workers, Export(w)
    PROVE  LedgerInv'
<1>0. TypeOK BY DEF TypeInv
<1>1. CASE StartExport(w)
  <2>1. lock # w BY <1>1, NotHolder DEF StartExport, StartRequest, Committing
  <2>2. UNCHANGED <<db, lock, txn, snap>> /\ SameStale
    BY <1>0, <1>1, ReadEffect DEF StartExport
  <2>3. OthersKeep(w) /\ pc'[w] = "root"
    BY <1>0, <1>1 DEF StartExport, Goto, OthersKeep, TypeOK
  <2>4. WorkerInv(w)' BY <2>3, IdleInv DEF Deciding
  <2> QED BY <2>1, <2>2, <2>3, <2>4, <1>1, QuietStep DEF StartExport, Committing
<1>2. CASE ComputeRoot(w)
  <2>1. lock # w BY <1>2, NotHolder DEF ComputeRoot, Committing
  <2>2. UNCHANGED <<db, lock, txn, snap>> /\ SameStale
    BY <1>0, <1>2, ReadEffect DEF ComputeRoot
  <2>3. OthersKeep(w) /\ pc'[w] = "freeze"
    BY <1>0, <1>2 DEF ComputeRoot, Goto, OthersKeep, TypeOK
  <2>4. WorkerInv(w)' BY <2>3, IdleInv DEF Deciding
  <2> QED BY <2>1, <2>2, <2>3, <2>4, <1>2, QuietStep DEF ComputeRoot, Committing
<1>3. CASE freeze_instance(w)
  <2>1. OthersKeep(w) /\ pc'[w] = "freezing"
    BY <1>0, <1>3 DEF freeze_instance, Goto, OthersKeep, TypeOK
  <2>2. PICK new : Write(w, new) /\ new = [Base(w) EXCEPT !.instances[package[w].instance] =
                                             IF @ = "absent" THEN @ ELSE "frozen"]
    BY <1>3 DEF freeze_instance
  <2>3. lock # w BY <1>3, NotHolder DEF freeze_instance, Committing
  <2>4. new.ledger = db.ledger /\ new.governance = db.governance
    BY <2>2, <2>3, <1>0 DEF Base, TypeOK, Database
  <2>5. HolderInv(w)' BY <2>1, <2>2, <2>4 DEF HolderInv, Write, CanWrite, Committing
  <2>6. WorkerInv(w)' BY <2>1, IdleInv DEF Deciding
  <2> QED BY <2>1, <2>2, <2>5, <2>6, <1>3, WriteStep DEF freeze_instance
<1>4. CASE CommitFreeze(w)
  <2>1. OthersKeep(w) /\ pc'[w] = "idle" /\ UNCHANGED acked
    BY <1>0, <1>4, FinishEffect DEF CommitFreeze, ReturnPackage
  <2>2. lock = w /\ pc[w] = "freezing" /\ db' = txn BY <1>4 DEF CommitFreeze, Commit
  <2>3. db'.governance = db.governance BY <2>2 DEF LedgerInv, LockDiscipline
  <2>4. \A x \in Workers \ {w} : pc[x] \in Deciding => db'.governance \in inForce'[x]
    BY <2>1, <2>3 DEF LedgerInv, ApprovalsRemembered, OthersKeep
  <2>5. acked \subseteq [instance : Instances, proof : Proof] BY <1>0 DEF TypeOK
  <2> QED BY <2>1, <2>2, <2>4, <2>5, <1>4, CommitStep DEF CommitFreeze, OthersKeep
<1>5. CASE FreezeFails(w)
  <2>1. lock # w BY <1>5, NotHolder DEF FreezeFails, Committing
  <2>2. UNCHANGED <<db, lock, txn, snap>> /\ SameStale
    BY <1>0, <1>5, ReadEffect DEF FreezeFails
  <2>3. OthersKeep(w) /\ pc'[w] = "idle" /\ UNCHANGED acked
    BY <1>0, <1>5, FinishEffect DEF FreezeFails, ReturnPackage
  <2>4. WorkerInv(w)' BY <2>3, IdleInv DEF Deciding
  <2> QED BY <2>1, <2>2, <2>3, <2>4, QuietStep DEF Committing
<1>6. CASE ExportRaises(w)
  <2>1. lock # w BY <1>6, NotHolder DEF ExportRaises, Committing
  <2>2. UNCHANGED <<db, lock, txn, snap>> /\ SameStale
    BY <1>0, <1>6, ReadEffect DEF ExportRaises
  <2>3. OthersKeep(w) /\ pc'[w] = "idle" BY <1>0, <1>6, FinishEffect DEF ExportRaises
  <2>4. WorkerInv(w)' BY <2>3, IdleInv DEF Deciding
  <2> QED BY <2>1, <2>2, <2>3, <2>4, <1>6, QuietStep DEF ExportRaises, Committing
<1> QED BY <1>1, <1>2, <1>3, <1>4, <1>5, <1>6 DEF Export

\* The governance endpoints keep the invariant.
LEMMA GovernInv ==
    ASSUME TypeInv, LedgerInv, NEW w \in Workers, Govern(w)
    PROVE  LedgerInv'
<1>0. TypeOK BY DEF TypeInv
<1>1. ASSUME NEW tables, pc[w] = "idle",
             Write(w, [Base(w) EXCEPT !.governance = tables]), Goto(w, "approving"),
             UNCHANGED <<req, draft, acked, inForce>>
      PROVE  LedgerInv'
  <2>1. OthersKeep(w) /\ pc'[w] = "approving"
    BY <1>0, <1>1 DEF Goto, OthersKeep, TypeOK
  <2>2. lock # w BY <1>1, NotHolder DEF Committing
  <2>3. txn'.ledger = db.ledger BY <1>1, <2>2, <1>0 DEF Write, Base, TypeOK, Database
  <2>4. HolderInv(w)' BY <1>1, <2>1, <2>3 DEF HolderInv, Write, CanWrite, Committing
  <2>5. WorkerInv(w)' BY <2>1, IdleInv DEF Deciding
  <2> QED BY <1>1, <2>1, <2>4, <2>5, WriteStep
<1>2. CASE Approve(w)
  BY <1>1, <1>2 DEF Approve, StartRequest
<1>3. ASSUME NEW v \in Policies, deactivate_policy(w, v) PROVE LedgerInv'
  <2> DEFINE tables == [Base(w).governance EXCEPT !.policies[UnnamedRow(v)] = "inactive"]
  <2>1. [Base(w) EXCEPT !.governance.policies[UnnamedRow(v)] = "inactive"]
          = [Base(w) EXCEPT !.governance = tables]
    OBVIOUS
  <2> HIDE DEF tables
  <2> QED BY <1>1, <1>3, <2>1 DEF deactivate_policy, StartRequest
<1>4. ASSUME NEW v \in Policies, DeactivateNothing(w, v) PROVE LedgerInv'
  <2>1. OthersKeep(w) /\ pc'[w] = "idle"
    BY <1>4 DEF DeactivateNothing, StartRequest, OthersKeep
  <2> QED BY <2>1, <1>4, RollbackStep DEF DeactivateNothing
<1>5. CASE CommitGovernance(w)
  <2>1. pc'[w] = "idle" /\ lock = w /\ db' = txn /\ UNCHANGED acked
    BY <1>0, <1>5 DEF CommitGovernance, Goto, Commit, TypeOK
  <2>2. ASSUME NEW x \in Workers \ {w}
        PROVE  /\ pc'[x] = pc[x] /\ req'[x] = req[x] /\ draft'[x] = draft[x]
               /\ inForce[x] \subseteq inForce'[x]
               /\ pc[x] \in Deciding => db'.governance \in inForce'[x]
    <3>1. /\ pc'[x] = pc[x] /\ req'[x] = req[x] /\ draft'[x] = draft[x]
          /\ inForce'[x] = IF inForce[x] = {} THEN {} ELSE inForce[x] \cup {db'.governance}
      BY <1>0, <1>5, <2>1 DEF CommitGovernance, Goto, TypeOK
    <3>2. pc[x] \in Deciding => inForce[x] # {} BY DEF LedgerInv, ApprovalsRemembered
    <3> QED BY <3>1, <3>2
  <2>3. acked \subseteq [instance : Instances, proof : Proof] BY <1>0 DEF TypeOK
  <2> QED BY <2>1, <2>2, <2>3, <1>5, CommitStep DEF CommitGovernance
<1>6. CASE GovernanceWriteFails(w)
  <2>1. lock # w BY <1>6, NotHolder DEF GovernanceWriteFails, WriteFails
  <2>2. UNCHANGED <<db, lock, txn, snap>> /\ SameStale
    BY <1>0, <1>6, ReadEffect DEF GovernanceWriteFails
  <2>3. OthersKeep(w) /\ pc'[w] = "idle"
    BY <1>6 DEF GovernanceWriteFails, StartRequest, OthersKeep
  <2>4. WorkerInv(w)' BY <2>3, IdleInv DEF Deciding
  <2> QED BY <2>1, <2>2, <2>3, <2>4, <1>6, QuietStep DEF GovernanceWriteFails, Committing
<1> QED BY <1>2, <1>3, <1>4, <1>5, <1>6 DEF Govern

\* The invariant holds of the seeded database and idle workers.
LEMMA InitInv == Init => LedgerInv
<1> SUFFICES ASSUME Init PROVE LedgerInv OBVIOUS
<1>1. StoredChainsLinked BY DEF Init, EmptyDb, StoredChainsLinked, ChainLinked
<1>2. AckedIsDurable BY DEF Init, AckedIsDurable
<1>3. DraftsContinue /\ SnapshotsAreOld /\ ApprovalsRemembered
  BY DEF Init, DraftsContinue, SnapshotsAreOld, ApprovalsRemembered, Drafted, Deciding
<1>4. LockDiscipline BY LedgerAssumption DEF Init, LockDiscipline, Committing
<1> QED BY <1>1, <1>2, <1>3, <1>4 DEF LedgerInv

\* Every step keeps the invariant.
LEMMA NextInv == TypeInv /\ LedgerInv /\ [Next]_vars => LedgerInv'
<1> SUFFICES ASSUME TypeInv, LedgerInv, [Next]_vars PROVE LedgerInv' OBVIOUS
<1>1. CASE UNCHANGED vars
  BY <1>1 DEF vars, LedgerInv, StoredChainsLinked, AckedIsDurable, DraftsContinue,
              SnapshotsAreOld, LockDiscipline, ApprovalsRemembered
<1>2. ASSUME NEW w \in Workers, Crash(w) PROVE LedgerInv'
  <2>1. OthersKeep(w) /\ pc'[w] = "idle" BY <1>2, FinishEffect DEF Crash, TypeInv
  <2> QED BY <2>1, <1>2, RollbackStep DEF Crash
<1>3. ASSUME NEW w \in Workers, Query(w) PROVE LedgerInv'
  <2>1. lock # w BY <1>3, NotHolder DEF Query, Committing
  <2>2. UNCHANGED <<db, lock, txn, snap>> /\ SameStale
    BY <1>3, ReadEffect DEF Query, TypeInv
  <2>3. OthersKeep(w) /\ pc'[w] = "idle" BY <1>3 DEF Query, OthersKeep
  <2>4. WorkerInv(w)' BY <2>3, IdleInv DEF Deciding
  <2> QED BY <2>1, <2>2, <2>3, <2>4, <1>3, QuietStep DEF Query, Committing
<1> QED BY <1>1, <1>2, <1>3, DecideInv, ExportInv, GovernInv DEF Next

-----------------------------------------------------------------------------
(* Theorems.                                                               *)

\* The inductive invariant holds of the workers of record_decision,
\* export_proof and the governance endpoints, however many there are.
THEOREM LedgerInvariant == Spec => [](TypeInv /\ LedgerInv)
BY InitType, InitInv, NextType, NextInv, PTL DEF Spec

\* Every stored chain is linked: whatever workers append, race, time out or die,
\* get_ledger_chain returns proofs that pass the hash, signature, linkage and
\* sequence steps of verify_chain.
THEOREM ChainsLinked == Spec => []StoredChainsLinked
<1>1. LedgerInv => StoredChainsLinked BY DEF LedgerInv
<1> QED BY <1>1, LedgerInvariant, PTL

\* A proof record_decision has returned stays in the ledger where it was.
THEOREM AckedDurable == Spec => []AckedIsDurable
<1>1. LedgerInv => AckedIsDurable BY DEF LedgerInv
<1> QED BY <1>1, LedgerInvariant, PTL

\* A decision that append_ledger_entry commits was approved, all versions at
\* once, at some moment of its request, stale connections included.
THEOREM GovernanceHolds == Spec => []GovernanceCurrent
<1>1. LedgerInv => GovernanceCurrent
  BY DEF LedgerInv, LockDiscipline, ApprovalsRemembered, GovernanceCurrent, Committing, Deciding
<1> QED BY <1>1, LedgerInvariant, PTL

\* Only a commit changes the committed database.
LEMMA OnlyCommits ==
    ASSUME [Next]_vars
    PROVE  UNCHANGED db \/ \E w \in Workers : Commit(w)
<1>1. ASSUME NEW w \in Workers, Decide(w) PROVE UNCHANGED db \/ Commit(w)
  BY <1>1 DEF Decide, StartDecision, ValidateGovernance, RejectDecision, ReadLatest,
     ValidateChain, EnsureInstance, InsertEntry, InsertRefused, CommitEntry,
     DecisionWriteFails, Read, Write, WriteFails, Rollback
<1>2. ASSUME NEW w \in Workers, Export(w) PROVE UNCHANGED db \/ Commit(w)
  BY <1>2 DEF Export, StartExport, ComputeRoot, freeze_instance, CommitFreeze,
     FreezeFails, ExportRaises, Read, Write, WriteFails
<1>3. ASSUME NEW w \in Workers, Govern(w) PROVE UNCHANGED db \/ Commit(w)
  BY <1>3 DEF Govern, Approve, CommitGovernance, GovernanceWriteFails,
     deactivate_policy, DeactivateNothing, Write, WriteFails, Rollback
<1>4. ASSUME NEW w \in Workers, Query(w) \/ Crash(w) PROVE UNCHANGED db
  BY <1>4 DEF Query, Crash, Read, Rollback
<1>5. CASE UNCHANGED vars BY <1>5 DEF vars
<1> QED BY <1>1, <1>2, <1>3, <1>4, <1>5 DEF Next

\* No step of any worker rewrites or removes a ledger row.
THEOREM AppendOnly == Spec => LedgerAppendOnly
<1>1. ASSUME TypeInv, LedgerInv, [Next]_vars
      PROVE  [\A i \in Instances : IsPrefix(db.ledger[i], db'.ledger[i])]_db
  BY <1>1, OnlyCommits, CommitLedger
<1> QED BY <1>1, LedgerInvariant, PTL DEF Spec, LedgerAppendOnly

\* The workers and their database implement HashChain: one atomic append of a
\* signed proof per recorded decision, and nothing else.
THEOREM Refinement == Spec => ImplementsHashChain
<1>1. Init => Chain!Init BY DEF Init, EmptyDb, Chain!Init
<1>2. ASSUME TypeInv, LedgerInv, [Next]_vars
      PROVE  [Chain!Next]_(db.ledger)
  <2>1. CASE UNCHANGED db BY <2>1
  <2>2. CASE \E w \in Workers : Commit(w) BY <1>2, <2>2, CommitIsRecord
  <2> QED BY <1>2, <2>1, <2>2, OnlyCommits
<1> QED BY <1>1, <1>2, LedgerInvariant, PTL DEF Spec, ImplementsHashChain, Chain!Spec

-----------------------------------------------------------------------------
(* Exported packages.                                                      *)

\* A package of a chain that was read, and read again to be signed: the list it
\* holds is the start of the one under its root, and that one of the ledger.
Covers(p, ledger) ==
    /\ p.ledger # <<>>
    /\ p.public_key = Key
    /\ p.signature = sign_hash(Key, p.instance_root)
    /\ \E chain \in Seq(Proof) : /\ IsPrefix(p.ledger, chain)
                                 /\ IsPrefix(chain, ledger)
                                 /\ p.instance_root = instance_root(chain)

\* What a worker in the middle of an export relies on: the chain it has read is
\* still the start of what its connection reads, however stale it is by now.
ExportsCover ==
    \A w \in Workers :
        /\ pc[w] = "root" =>
              /\ package[w].ledger # <<>>
              /\ IsPrefix(package[w].ledger, View(w).ledger[package[w].instance])
        /\ pc[w] \in {"freeze", "freezing"} =>
              Covers(package[w], db.ledger[package[w].instance])

PackagesInv ==
    /\ ExportsCover
    /\ \A p \in packages : Covers(p, db.ledger[p.instance])

\* A step changes nothing of what the connections read, or it is a commit or a
\* rollback and its worker's request is over.
LEMMA ConnectionSteps ==
    ASSUME TypeInv, LedgerInv, [Next]_vars
    PROVE  \/ UNCHANGED <<db, snap>> /\ SameStale
           \/ \E w \in Workers : Commit(w) /\ pc'[w] = "idle"
           \/ \E w \in Workers : Rollback(w) /\ pc'[w] = "idle"
<1>0. TypeOK BY DEF TypeInv
<1>1. ASSUME NEW w \in Workers, Read(w) \/ WriteFails(w)
      PROVE  UNCHANGED <<db, snap>> /\ SameStale
  BY <1>0, <1>1, ReadEffect
<1>2. ASSUME NEW w \in Workers, NEW new, Write(w, new)
      PROVE  UNCHANGED <<db, snap>> /\ SameStale
  BY <1>2 DEF Write, SameStale
<1>3. ASSUME NEW w \in Workers, Finish(w) \/ Goto(w, "idle") PROVE pc'[w] = "idle"
  BY <1>0, <1>3 DEF Finish, Goto, TypeOK
<1>4. CASE UNCHANGED vars BY <1>4 DEF vars, SameStale
<1>5. ASSUME NEW w \in Workers, Decide(w)
      PROVE  \/ UNCHANGED <<db, snap>> /\ SameStale
             \/ Commit(w) /\ pc'[w] = "idle"
             \/ Rollback(w) /\ pc'[w] = "idle"
  <2>1. CASE InsertRefused(w) BY <2>1, <1>3 DEF InsertRefused
  <2>2. CASE CommitEntry(w) BY <2>2, <1>3 DEF CommitEntry
  <2>3. CASE EnsureInstance(w) BY <2>3, <1>1, <1>2 DEF EnsureInstance
  <2>4. CASE InsertEntry(w) BY <2>4, <1>2 DEF InsertEntry
  <2> QED BY <1>5, <2>1, <2>2, <2>3, <2>4, <1>1 DEF Decide, StartDecision,
             ValidateGovernance, RejectDecision, ReadLatest, ValidateChain,
             DecisionWriteFails
<1>6. ASSUME NEW w \in Workers, Export(w)
      PROVE  \/ UNCHANGED <<db, snap>> /\ SameStale
             \/ Commit(w) /\ pc'[w] = "idle"
  <2>1. CASE CommitFreeze(w) BY <2>1, <1>3 DEF CommitFreeze, ReturnPackage
  <2>2. CASE freeze_instance(w) BY <2>2, <1>2 DEF freeze_instance
  <2> QED BY <1>6, <2>1, <2>2, <1>1 DEF Export, StartExport, ComputeRoot,
             FreezeFails, ExportRaises
<1>7. ASSUME NEW w \in Workers, Govern(w)
      PROVE  \/ UNCHANGED <<db, snap>> /\ SameStale
             \/ Commit(w) /\ pc'[w] = "idle"
             \/ Rollback(w) /\ pc'[w] = "idle"
  <2>1. CASE Approve(w) BY <2>1, <1>2 DEF Approve
  <2>2. CASE CommitGovernance(w) BY <2>2, <1>3 DEF CommitGovernance
  <2>3. ASSUME NEW v \in Policies, deactivate_policy(w, v)
        PROVE  UNCHANGED <<db, snap>> /\ SameStale
    BY <2>3, <1>2 DEF deactivate_policy
  <2>4. ASSUME NEW v \in Policies, DeactivateNothing(w, v)
        PROVE  Rollback(w) /\ pc'[w] = "idle"
    BY <2>4 DEF DeactivateNothing, StartRequest
  <2>5. CASE GovernanceWriteFails(w) BY <2>5, <1>1 DEF GovernanceWriteFails
  <2> QED BY <1>7, <2>1, <2>2, <2>3, <2>4, <2>5 DEF Govern
<1>8. ASSUME NEW w \in Workers, Query(w)
      PROVE  UNCHANGED <<db, snap>> /\ SameStale
  BY <1>8, <1>1 DEF Query
<1>9. ASSUME NEW w \in Workers, Crash(w) PROVE Rollback(w) /\ pc'[w] = "idle"
  BY <1>9, <1>3 DEF Crash
<1> QED BY <1>4, <1>5, <1>6, <1>7, <1>8, <1>9 DEF Next

\* The chain a worker reads, in two SELECTs of one request, only grows.
LEMMA ViewGrows ==
    ASSUME TypeInv, LedgerInv, [Next]_vars, NEW x \in Workers, pc'[x] # "idle",
           NEW i \in Instances
    PROVE  IsPrefix(View(x).ledger[i], View(x)'.ledger[i])
<1>0. View(x).ledger[i] \in Seq(Proof) /\ db.ledger[i] \in Seq(Proof) BY ViewLedger
<1>1. CASE UNCHANGED <<db, snap>> /\ SameStale
  <2>1. View(x)' = View(x) BY <1>1 DEF View, SameStale
  <2> QED BY <2>1, <1>0, PrefixReflexive
<1>2. ASSUME NEW w \in Workers, Commit(w), pc'[w] = "idle"
      PROVE  IsPrefix(View(x).ledger[i], View(x)'.ledger[i])
  <2>1. x # w BY <1>2
  <2>2. /\ conn'[x] = IF conn[x] = "pinned" THEN "stale" ELSE conn[x]
        /\ snap'[x] = IF conn[x] = "pinned" THEN db ELSE snap[x]
    BY <1>2, <2>1 DEF Commit
  <2>3. CASE conn[x] \in {"pinned", "stale"}
    <3>1. View(x)' = View(x) BY <2>2, <2>3 DEF View
    <3> QED BY <3>1, <1>0, PrefixReflexive
  <2>4. CASE conn[x] \notin {"pinned", "stale"}
    <3>1. View(x) = db /\ View(x)' = db' BY <2>2, <2>4 DEF View
    <3> QED BY <3>1, <1>2, CommitLedger
  <2> QED BY <2>3, <2>4
<1>3. ASSUME NEW w \in Workers, Rollback(w), pc'[w] = "idle"
      PROVE  IsPrefix(View(x).ledger[i], View(x)'.ledger[i])
  <2>1. x # w BY <1>3
  <2>2. conn'[x] = conn[x] /\ snap'[x] = snap[x] /\ db' = db
    BY <1>3, <2>1 DEF Rollback, TypeInv, TypeOK
  <2>3. View(x)' = View(x) BY <2>2 DEF View
  <2> QED BY <2>3, <1>0, PrefixReflexive
<1> QED BY <1>1, <1>2, <1>3, ConnectionSteps

\* What a step does to the export of a worker.
LEMMA ExportSteps ==
    ASSUME TypeInv, [Next]_vars, NEW x \in Workers
    PROVE  \/ pc'[x] \notin {"root", "freeze", "freezing"}
           \/ package'[x] = package[x] /\ pc'[x] = pc[x]
           \/ package'[x] = package[x] /\ pc[x] = "freeze" /\ pc'[x] = "freezing"
           \/ StartExport(x) \/ ComputeRoot(x)
<1>0. TypeOK BY DEF TypeInv
<1>1. CASE UNCHANGED vars BY <1>1 DEF vars
<1> DEFINE Moved(w) == \/ pc'[w] \notin {"root", "freeze", "freezing"}
                       \/ package'[w] = package[w] /\ pc'[w] = pc[w]
                       \/ package'[w] = package[w] /\ pc[w] = "freeze" /\ pc'[w] = "freezing"
                       \/ StartExport(w) \/ ComputeRoot(w)
           Kept(w) == \A y \in Workers \ {w} : package'[y] = package[y] /\ pc'[y] = pc[y]
<1>2. ASSUME NEW w \in Workers, NEW step, Goto(w, step)
      PROVE  pc'[w] = step /\ \A y \in Workers \ {w} : pc'[y] = pc[y]
  BY <1>0, <1>2 DEF Goto, TypeOK
<1>3. ASSUME NEW w \in Workers, Finish(w)
      PROVE  pc'[w] = "idle" /\ Kept(w)
  BY <1>0, <1>3 DEF Finish, Goto, TypeOK
<1>4. ASSUME NEW w \in Workers, Decide(w) PROVE Moved(w) /\ Kept(w)
  <2>1. CASE ValidateChain(w)
    BY <1>2, <1>3, <2>1 DEF ValidateChain
  <2> QED BY <1>4, <1>2, <1>3, <2>1 DEF Decide, StartDecision, ValidateGovernance,
             RejectDecision, ReadLatest, EnsureInstance, InsertEntry, InsertRefused,
             CommitEntry, DecisionWriteFails
<1>5. ASSUME NEW w \in Workers, Export(w) PROVE Moved(w) /\ Kept(w)
  <2>1. CASE StartExport(w)
    BY <1>0, <1>2, <2>1 DEF StartExport, TypeOK
  <2>2. CASE ComputeRoot(w)
    BY <1>0, <1>2, <2>2 DEF ComputeRoot, TypeOK
  <2> QED BY <1>5, <1>2, <1>3, <2>1, <2>2 DEF Export, freeze_instance, CommitFreeze,
             FreezeFails, ExportRaises, ReturnPackage
<1>6. ASSUME NEW w \in Workers, Govern(w) PROVE Moved(w) /\ Kept(w)
  <2>1. CASE Approve(w) BY <2>1, <1>2 DEF Approve
  <2>2. CASE CommitGovernance(w) BY <2>2, <1>2 DEF CommitGovernance
  <2>3. ASSUME NEW v \in Policies, deactivate_policy(w, v) PROVE Moved(w) /\ Kept(w)
    BY <2>3, <1>2 DEF deactivate_policy
  <2>4. ASSUME NEW v \in Policies, DeactivateNothing(w, v) PROVE Moved(w) /\ Kept(w)
    BY <2>4 DEF DeactivateNothing
  <2>5. CASE GovernanceWriteFails(w) BY <2>5 DEF GovernanceWriteFails
  <2> HIDE DEF Moved, Kept
  <2> QED BY <1>6, <2>1, <2>2, <2>3, <2>4, <2>5 DEF Govern
<1>7. ASSUME NEW w \in Workers, Query(w) \/ Crash(w) PROVE Moved(w) /\ Kept(w)
  BY <1>7, <1>3 DEF Query, Crash
<1>8. ASSUME NEW w \in Workers, Moved(w), Kept(w)
      PROVE  Moved(x)
  BY <1>8
<1> HIDE DEF Moved, Kept
<1>9. [Next]_vars => UNCHANGED vars \/ Moved(x)
  BY <1>4, <1>5, <1>6, <1>7, <1>8 DEF Next
<1> QED BY <1>1, <1>9 DEF Moved

\* A package is returned at the end of its export, as it is by then.
LEMMA ReturnSteps ==
    ASSUME [Next]_vars
    PROVE  \/ UNCHANGED packages
           \/ \E w \in Workers : /\ pc[w] \in {"freeze", "freezing"}
                                 /\ packages' = packages \cup {package[w]}
BY DEF Next, vars, Decide, Export, Govern, Crash, StartDecision, ValidateGovernance,
       RejectDecision, ReadLatest, ValidateChain, EnsureInstance, InsertEntry,
       InsertRefused, CommitEntry, DecisionWriteFails, StartExport, ComputeRoot,
       freeze_instance, CommitFreeze, FreezeFails, ExportRaises, ReturnPackage, Query,
       Approve, CommitGovernance, GovernanceWriteFails, deactivate_policy,
       DeactivateNothing

\* What covers a chain covers every chain that extends it.
LEMMA CoversExtension ==
    ASSUME NEW p, NEW s \in Seq(Proof), NEW t \in Seq(Proof), IsPrefix(s, t),
           Covers(p, s)
    PROVE  Covers(p, t)
<1>1. PICK chain \in Seq(Proof) : /\ IsPrefix(p.ledger, chain)
                                  /\ IsPrefix(chain, s)
                                  /\ p.instance_root = instance_root(chain)
  BY DEF Covers
<1>2. IsPrefix(chain, t) BY <1>1, PrefixTransitive
<1> QED BY <1>1, <1>2 DEF Covers

\* Every step leaves the chains of the ledger as they are or longer.
LEMMA LedgerGrows ==
    ASSUME TypeInv, LedgerInv, [Next]_vars, NEW i \in Instances
    PROVE  /\ db.ledger[i] \in Seq(Proof) /\ db'.ledger[i] \in Seq(Proof)
           /\ IsPrefix(db.ledger[i], db'.ledger[i])
<1>1. db.ledger[i] \in Seq(Proof) BY DEF TypeInv, TypeOK, Database
<1>2. CASE UNCHANGED db BY <1>1, <1>2, PrefixReflexive
<1>3. CASE \E w \in Workers : Commit(w) BY <1>3, CommitLedger
<1> QED BY <1>2, <1>3, OnlyCommits

\* Every step keeps the packages, returned and in the making, covered.
LEMMA NextPackages ==
    ASSUME TypeInv, LedgerInv, PackagesInv, [Next]_vars
    PROVE  PackagesInv'
<1>1. ASSUME NEW p, p.instance \in Instances, Covers(p, db.ledger[p.instance])
      PROVE  Covers(p, db'.ledger[p.instance])
  BY <1>1, LedgerGrows, CoversExtension
<1>2. ASSUME NEW w \in Workers, pc[w] \in {"freeze", "freezing"}
      PROVE  /\ package[w].instance \in Instances
             /\ Covers(package[w], db.ledger[package[w].instance])
  BY <1>2 DEF TypeInv, ShapeOK, Package, PackagesInv, ExportsCover
<1>3. ASSUME NEW p \in packages' PROVE Covers(p, db'.ledger[p.instance])
  <2>1. CASE p \in packages
    <3>1. p.instance \in Instances BY <2>1 DEF TypeInv, TypeOK, Package
    <3> QED BY <3>1, <2>1, <1>1 DEF PackagesInv
  <2>2. CASE p \notin packages
    <3>1. PICK w \in Workers : pc[w] \in {"freeze", "freezing"} /\ p = package[w]
      BY <2>2, ReturnSteps
    <3> QED BY <3>1, <1>1, <1>2
  <2> QED BY <2>1, <2>2
<1>4. ASSUME NEW x \in Workers, pc'[x] = "root"
      PROVE  /\ package'[x].ledger # <<>>
             /\ IsPrefix(package'[x].ledger, View(x)'.ledger[package'[x].instance])
  <2>1. CASE package'[x] = package[x] /\ pc'[x] = pc[x]
    <3> DEFINE i == package[x].instance
    <3>1. /\ package[x].ledger # <<>> /\ IsPrefix(package[x].ledger, View(x).ledger[i])
      BY <1>4, <2>1 DEF PackagesInv, ExportsCover
    <3>2. i \in Instances /\ package[x].ledger \in Seq(Proof)
      BY <1>4, <2>1 DEF TypeInv, ShapeOK, PartialPackage
    <3>3. View(x).ledger[i] \in Seq(Proof) BY <3>2, ViewLedger
    <3>4. IsPrefix(View(x).ledger[i], View(x)'.ledger[i]) BY <1>4, <3>2, ViewGrows
    <3>5. View(x)'.ledger[i] \in Seq(Proof)
      <4>1. snap'[x] \in Database /\ db' \in Database BY NextType DEF TypeInv, TypeOK
      <4>2. View(x)' \in Database BY <4>1 DEF View
      <4> QED BY <3>2, <4>2 DEF Database
    <3> QED BY <2>1, <3>1, <3>2, <3>3, <3>4, <3>5, PrefixTransitive
  <2>2. CASE StartExport(x)
    <3>1. PICK i \in Instances :
             /\ View(x).ledger[i] # <<>>
             /\ package'[x] = [instance |-> i, ledger |-> View(x).ledger[i]]
      BY <2>2 DEF StartExport, TypeInv, TypeOK
    <3>2. View(x)' = View(x)
      <4>1. UNCHANGED <<db, snap>> /\ SameStale
        BY <2>2, ReadEffect DEF StartExport, TypeInv
      <4> QED BY <4>1 DEF View, SameStale
    <3>3. View(x).ledger[i] \in Seq(Proof) BY ViewLedger
    <3> QED BY <3>1, <3>2, <3>3, PrefixReflexive
  <2>3. CASE ComputeRoot(x)
    BY <1>4, <2>3 DEF ComputeRoot, Goto, TypeInv, TypeOK
  <2> QED BY <1>4, <2>1, <2>2, <2>3, ExportSteps
<1>5. ASSUME NEW x \in Workers, pc'[x] \in {"freeze", "freezing"}
      PROVE  Covers(package'[x], db'.ledger[package'[x].instance])
  <2>1. CASE package'[x] = package[x] /\ pc[x] \in {"freeze", "freezing"}
    BY <2>1, <1>1, <1>2
  <2>2. CASE StartExport(x)
    BY <1>5, <2>2 DEF StartExport, Goto, TypeInv, TypeOK
  <2>3. CASE ComputeRoot(x)
    <3> DEFINE i    == package[x].instance
               root == instance_root(View(x).ledger[i])
    <3>1. /\ package'[x] = [instance      |-> i,
                            ledger        |-> package[x].ledger,
                            instance_root |-> root,
                            public_key    |-> Key,
                            signature     |-> sign_hash(Key, root)]
          /\ pc[x] = "root"
      BY <2>3 DEF ComputeRoot, TypeInv, TypeOK
    <3>2. /\ package[x].ledger # <<>> /\ IsPrefix(package[x].ledger, View(x).ledger[i])
      BY <3>1 DEF PackagesInv, ExportsCover
    <3>3. i \in Instances BY <3>1 DEF TypeInv, ShapeOK, PartialPackage
    <3>4. View(x).ledger[i] \in Seq(Proof) /\ IsPrefix(View(x).ledger[i], db.ledger[i])
      BY <3>3, ViewLedger
    <3>5. db' = db BY <2>3 DEF ComputeRoot, Read
    <3>6. /\ package'[x].instance = i /\ package'[x].ledger = package[x].ledger
          /\ package'[x].instance_root = root /\ package'[x].public_key = Key
          /\ package'[x].signature = sign_hash(Key, root)
      BY <3>1
    <3>7. Covers(package'[x], db.ledger[i]) BY <3>2, <3>4, <3>6 DEF Covers
    <3> QED BY <3>5, <3>6, <3>7
  <2> QED BY <1>5, <2>1, <2>2, <2>3, ExportSteps
<1> QED BY <1>3, <1>4, <1>5 DEF PackagesInv, ExportsCover

\* A package that covers a linked chain is a linked chain, and its root covers it.
LEMMA CoveredPackage ==
    ASSUME NEW ledger \in Seq(Proof), ChainLinked(ledger),
           NEW p \in Package, Covers(p, ledger)
    PROVE  /\ ChainLinked(p.ledger)
           /\ IsPrefix(instance_root(p.ledger), p.instance_root)
           /\ IsPrefix(p.instance_root, instance_root(ledger))
           /\ verify_package(p) <=> Len(p.instance_root) = Len(p.ledger)
<1>1. p.ledger \in Seq(Proof) BY DEF Package
<1>2. PICK chain \in Seq(Proof) : /\ IsPrefix(p.ledger, chain)
                                  /\ IsPrefix(chain, ledger)
                                  /\ p.instance_root = instance_root(chain)
  BY DEF Covers
<1>3. ASSUME NEW s \in Seq(Proof)
      PROVE  /\ instance_root(s) \in Seq(Hash) /\ Len(instance_root(s)) = Len(s)
             /\ \A n \in 1 .. Len(s) : instance_root(s)[n] = s[n].current_hash
             /\ DOMAIN s = 1 .. Len(s) /\ Len(s) \in Nat
  <2>1. instance_root(s) \in Seq(Hash) BY RootType
  <2>2. DOMAIN instance_root(s) = 1 .. Len(s) /\ Len(s) \in Nat BY DEF instance_root
  <2>3. Len(instance_root(s)) = Len(s)
    BY <2>1, <2>2
  <2>4. \A n \in 1 .. Len(s) : instance_root(s)[n] = s[n].current_hash
    BY DEF instance_root
  <2> QED BY <2>1, <2>2, <2>3, <2>4
<1>4. ASSUME NEW s \in Seq(Proof), NEW t \in Seq(Proof), IsPrefix(s, t)
      PROVE  IsPrefix(instance_root(s), instance_root(t))
  <2>1. Len(s) <= Len(t) /\ \A k \in 1 .. Len(s) : s[k] = t[k] BY <1>4, PrefixElements
  <2>2. Len(instance_root(s)) <= Len(instance_root(t)) BY <2>1, <1>3
  <2>3. ASSUME NEW k \in 1 .. Len(instance_root(s))
        PROVE  instance_root(s)[k] = instance_root(t)[k]
    <3>1. k \in 1 .. Len(s) /\ k \in 1 .. Len(t) BY <2>1, <1>3
    <3> QED BY <3>1, <2>1, <1>3
  <2>4. instance_root(s) \in Seq(Hash) /\ instance_root(t) \in Seq(Hash) BY <1>3
  <2> QED BY <2>2, <2>3, <2>4, PrefixElements
<1>5. Len(p.ledger) <= Len(ledger) /\ \A k \in 1 .. Len(p.ledger) : p.ledger[k] = ledger[k]
  <2>1. IsPrefix(p.ledger, ledger) BY <1>1, <1>2, PrefixTransitive
  <2> QED BY <2>1, <1>1, PrefixElements
<1>6. ChainLinked(p.ledger)
  <2>1. ASSUME NEW n \in DOMAIN p.ledger
        PROVE  LinkVerifies(p.ledger[n], HashBefore(p.ledger, n), n)
    <3>1. n \in 1 .. Len(p.ledger) /\ n \in DOMAIN ledger BY <1>1, <1>5
    <3>2. p.ledger[n] = ledger[n] BY <3>1, <1>5
    <3>3. n # 1 => p.ledger[n - 1] = ledger[n - 1] BY <3>1, <1>5, <1>1
    <3>4. HashBefore(p.ledger, n) = HashBefore(ledger, n) BY <3>3 DEF HashBefore
    <3>5. LinkVerifies(ledger[n], HashBefore(ledger, n), n) BY <3>1 DEF ChainLinked
    <3> QED BY <3>2, <3>4, <3>5
  <2> QED BY <2>1 DEF ChainLinked
<1>7. ASSUME verify_package(p) PROVE Len(p.instance_root) = Len(p.ledger)
  BY <1>7, <1>1, <1>3 DEF verify_package, PackageSignerVerified
<1>8. ASSUME Len(p.instance_root) = Len(p.ledger) PROVE verify_package(p)
  <2>1. Len(chain) = Len(p.ledger) BY <1>8, <1>2, <1>3
  <2>2. \A k \in 1 .. Len(p.ledger) : p.ledger[k] = chain[k] BY <1>1, <1>2, PrefixElements
  <2>3. p.ledger = chain BY <1>1, <2>1, <2>2, SeqEqual
  <2>4. PackageSignerVerified(p)
    BY <2>3, <1>2 DEF PackageSignerVerified, Covers, sign_hash, verify_ed25519
  <2>5. PackageChainValid(p.ledger)
    BY <1>6 DEF ChainLinked, LinkVerifies, PackageChainValid
  <2> QED BY <2>4, <2>5 DEF verify_package, Covers
<1>9. /\ IsPrefix(instance_root(p.ledger), p.instance_root)
      /\ IsPrefix(p.instance_root, instance_root(ledger))
  BY <1>1, <1>2, <1>4
<1> QED BY <1>6, <1>7, <1>8, <1>9

\* The invariant of the exports holds on top of the one of the ledger.
LEMMA PackagesInvariant == Spec => []PackagesInv
<1>1. Init => PackagesInv BY DEF Init, PackagesInv, ExportsCover
<1>2. TypeInv /\ LedgerInv /\ PackagesInv /\ [Next]_vars => PackagesInv'
  BY NextPackages
<1> QED BY <1>1, <1>2, LedgerInvariant, PTL DEF Spec

\* Every package export_proof returns lists a linked chain that its signed root
\* covers, and the root covers what the ledger holds or held, although the chain
\* is read twice, other workers commit in between and the connection may be stale.
THEOREM PackagesSound == Spec => []PackagesCoverLedgerPrefix
<1>1. ASSUME TypeInv, LedgerInv, PackagesInv PROVE PackagesCoverLedgerPrefix
  <2>1. ASSUME NEW p \in packages
        PROVE  /\ ChainLinked(p.ledger)
               /\ IsPrefix(instance_root(p.ledger), p.instance_root)
               /\ IsPrefix(p.instance_root, instance_root(db.ledger[p.instance]))
    <3>1. p \in Package /\ p.instance \in Instances BY <1>1 DEF TypeInv, TypeOK, Package
    <3>2. db.ledger[p.instance] \in Seq(Proof) BY <1>1, <3>1 DEF TypeInv, TypeOK, Database
    <3>3. ChainLinked(db.ledger[p.instance]) BY <1>1, <3>1 DEF LedgerInv, StoredChainsLinked
    <3>4. Covers(p, db.ledger[p.instance]) BY <1>1 DEF PackagesInv
    <3> QED BY <3>1, <3>2, <3>3, <3>4, CoveredPackage
  <2> QED BY <2>1 DEF PackagesCoverLedgerPrefix
<1> QED BY <1>1, LedgerInvariant, PackagesInvariant, PTL

-----------------------------------------------------------------------------
(* What the verifiers reject.                                              *)

\* verify_proof has no objection to the determinism block but the known one.
KnownObjection(p) ==
    DeterminismConsistent(p.payload.determinism) <=> ~StrictWithSeed(p)

\* Requests past the governance step are not refused ones, so the proofs drafted
\* from them and then stored have a block that is consistent with its mode.
RecordedInv ==
    /\ \A w \in Workers :
          /\ pc[w] \in Deciding \ {"governance"} => ~DeterminismRefused(req[w].determinism)
          /\ pc[w] \in Drafted => KnownObjection(draft[w])
    /\ \A i \in Instances : \A n \in DOMAIN db.ledger[i] : KnownObjection(db.ledger[i][n])

\* record_decision's own checks leave verify_proof one objection.
LEMMA DraftObjection ==
    ASSUME NEW r \in DecisionRequest, ~DeterminismRefused(r.determinism),
           NEW chain
    PROVE  KnownObjection(DraftOf(r, chain))
<1>1. r.determinism \in [mode : DeterminismModes, seed : BOOLEAN, calls : BOOLEAN]
  BY DeterminismInputsAssumption DEF DecisionRequest
<1>2. DraftOf(r, chain).payload.determinism = DeterminismOf(r.determinism)
  BY DEF DraftOf, BuildProof
<1>3. PICK m \in DeterminismModes, b \in BOOLEAN, c \in BOOLEAN :
         r.determinism = [mode |-> m, seed |-> b, calls |-> c]
  BY <1>1
<1>4. /\ DeterminismOf(r.determinism).mode = m
      /\ DeterminismOf(r.determinism).seed = b
      /\ DeterminismOf(r.determinism).ext = (m = RECORDED /\ c)
  BY <1>3 DEF DeterminismOf
<1>5. ~(m = SEEDED /\ ~b) /\ ~(m = RECORDED /\ ~c) BY <1>3 DEF DeterminismRefused
<1>6. m \in {STRICT, SEEDED, RECORDED} /\ STRICT # SEEDED /\ STRICT # RECORDED
      /\ SEEDED # RECORDED
  BY DEF DeterminismModes, STRICT, SEEDED, RECORDED
<1>7. DeterminismConsistent(DeterminismOf(r.determinism)) <=> ~(m = STRICT /\ b)
  BY <1>4, <1>5, <1>6 DEF DeterminismConsistent
<1> QED BY <1>2, <1>4, <1>7 DEF KnownObjection, StrictWithSeed

\* What a step does to the decision of a worker.
LEMMA DecisionSteps ==
    ASSUME TypeInv, [Next]_vars, NEW x \in Workers,
           pc'[x] \in Deciding \ {"governance"}
    PROVE  /\ req'[x] = req[x]
           /\ \/ /\ pc[x] \in Deciding \ {"governance"}
                 /\ pc'[x] \in Drafted => pc[x] \in Drafted /\ draft'[x] = draft[x]
              \/ ValidateGovernance(x) /\ pc'[x] = "latest"
              \/ ReadLatest(x)
<1>0. TypeOK BY DEF TypeInv
<1> USE DEF Deciding, Drafted
<1> DEFINE Same(y) == pc'[y] = pc[y] /\ req'[y] = req[y] /\ draft'[y] = draft[y]
           Kept(w) == \A y \in Workers \ {w} : Same(y)
           Moved(w) == \/ Same(w)
                       \/ pc'[w] \notin Deciding \ {"governance"}
                       \/ /\ req'[w] = req[w]
                          /\ \/ pc[w] \in Drafted /\ draft'[w] = draft[w]
                             \/ ValidateGovernance(w) /\ pc'[w] = "latest"
                             \/ ReadLatest(w)
<1>1. ASSUME NEW w \in Workers, NEW step, Goto(w, step)
      PROVE  pc'[w] = step /\ \A y \in Workers \ {w} : pc'[y] = pc[y]
  BY <1>0, <1>1 DEF Goto, TypeOK
<1>2. ASSUME NEW w \in Workers, Finish(w) PROVE Moved(w) /\ Kept(w)
  BY <1>0, <1>2 DEF Finish, Goto, TypeOK
<1>3. ASSUME NEW w \in Workers, Decide(w) PROVE Moved(w) /\ Kept(w)
  <2>1. CASE StartDecision(w) BY <1>0, <1>1, <2>1 DEF StartDecision, TypeOK
  <2>2. CASE ValidateGovernance(w)
    <3>1. Kept(w) /\ req' = req /\ pc'[w] = "latest"
      BY <1>1, <2>2 DEF ValidateGovernance
    <3> QED BY <2>2, <3>1
  <2>3. CASE ReadLatest(w)
    <3>1. Kept(w) /\ req' = req BY <1>0, <1>1, <2>3 DEF ReadLatest, TypeOK
    <3> QED BY <2>3, <3>1
  <2>4. CASE ValidateChain(w)
    <3>1. CASE Finish(w) BY <3>1, <1>2
    <3>2. CASE Goto(w, "ensure") /\ UNCHANGED <<req, draft>>
      BY <3>2, <1>1, <2>4 DEF ValidateChain
    <3> QED BY <2>4, <3>1, <3>2 DEF ValidateChain
  <2>5. CASE EnsureInstance(w) BY <1>1, <2>5 DEF EnsureInstance
  <2>6. CASE InsertEntry(w) BY <1>1, <2>6 DEF InsertEntry
  <2> HIDE DEF Moved, Kept
  <2> QED BY <1>3, <1>2, <2>1, <2>2, <2>3, <2>4, <2>5, <2>6
          DEF Decide, RejectDecision, InsertRefused, CommitEntry, DecisionWriteFails
<1>4. ASSUME NEW w \in Workers, Export(w) PROVE Moved(w) /\ Kept(w)
  <2>1. CASE StartExport(w) BY <1>1, <2>1 DEF StartExport
  <2>2. CASE ComputeRoot(w) BY <1>1, <2>2 DEF ComputeRoot
  <2>3. CASE freeze_instance(w) BY <1>1, <2>3 DEF freeze_instance
  <2> HIDE DEF Moved, Kept
  <2> QED BY <1>4, <1>2, <2>1, <2>2, <2>3
          DEF Export, CommitFreeze, FreezeFails, ExportRaises, ReturnPackage
<1>5. ASSUME NEW w \in Workers, Govern(w) PROVE Moved(w) /\ Kept(w)
  <2>1. CASE Approve(w) BY <2>1, <1>1 DEF Approve
  <2>2. CASE CommitGovernance(w) BY <2>2, <1>1 DEF CommitGovernance
  <2>3. ASSUME NEW v \in Policies, deactivate_policy(w, v) PROVE Moved(w) /\ Kept(w)
    BY <2>3, <1>1 DEF deactivate_policy
  <2>4. ASSUME NEW v \in Policies, DeactivateNothing(w, v) PROVE Moved(w) /\ Kept(w)
    BY <2>4 DEF DeactivateNothing
  <2>5. CASE GovernanceWriteFails(w) BY <2>5 DEF GovernanceWriteFails
  <2> HIDE DEF Moved, Kept
  <2> QED BY <1>5, <2>1, <2>2, <2>3, <2>4, <2>5 DEF Govern
<1>6. ASSUME NEW w \in Workers, Query(w) PROVE Moved(w) /\ Kept(w)
  BY <1>6 DEF Query
<1>7. ASSUME NEW w \in Workers, Crash(w) PROVE Moved(w) /\ Kept(w)
  BY <1>7, <1>2 DEF Crash
<1>8. ASSUME NEW w \in Workers, Moved(w), Kept(w) PROVE Moved(x)
  BY <1>8
<1>10. Moved(x)
  <2> HIDE DEF Moved, Kept
  <2>1. UNCHANGED vars => Moved(x) BY DEF vars, Moved
  <2> QED BY <1>3, <1>4, <1>5, <1>6, <1>7, <1>8, <2>1 DEF Next
<1>11. ReadLatest(x) => req'[x] = req[x] BY DEF ReadLatest
<1> QED BY <1>10, <1>11

\* Every step keeps the stored and the drafted proofs free of other objections.
LEMMA NextRecorded ==
    ASSUME TypeInv, LedgerInv, RecordedInv, [Next]_vars
    PROVE  RecordedInv'
<1>1. ASSUME NEW x \in Workers, pc'[x] \in Deciding \ {"governance"}
      PROVE  /\ ~DeterminismRefused(req'[x].determinism)
             /\ pc'[x] \in Drafted => KnownObjection(draft'[x])
  <2>1. req'[x] = req[x] BY <1>1, DecisionSteps
  <2>2. CASE /\ pc[x] \in Deciding \ {"governance"}
             /\ pc'[x] \in Drafted => pc[x] \in Drafted /\ draft'[x] = draft[x]
    BY <2>1, <2>2 DEF RecordedInv
  <2>3. CASE ValidateGovernance(x) /\ pc'[x] = "latest"
    BY <2>1, <2>3 DEF ValidateGovernance, Drafted
  <2>4. CASE ReadLatest(x)
    <3>1. /\ pc[x] = "latest"
          /\ draft'[x] = DraftOf(req[x], View(x).ledger[req[x].instance])
      BY <2>4 DEF ReadLatest, TypeInv, TypeOK
    <3>2. req[x] \in DecisionRequest BY <3>1 DEF TypeInv, ShapeOK
    <3>3. ~DeterminismRefused(req[x].determinism) BY <3>1 DEF RecordedInv, Deciding
    <3>4. KnownObjection(draft'[x]) BY <3>1, <3>2, <3>3, DraftObjection
    <3> QED BY <2>1, <3>3, <3>4
  <2> QED BY <1>1, <2>2, <2>3, <2>4, DecisionSteps
<1>2. ASSUME NEW i \in Instances, NEW n \in DOMAIN db'.ledger[i]
      PROVE  KnownObjection(db'.ledger[i][n])
  <2>1. CASE UNCHANGED db BY <1>2, <2>1 DEF RecordedInv
  <2>2. ASSUME NEW w \in Workers, Commit(w) PROVE KnownObjection(db'.ledger[i][n])
    <3>1. HolderInv(w) /\ db' = txn BY <2>2, CommitLedger DEF Commit
    <3>2. CASE pc[w] # "commit"
      <4>1. db'.ledger = db.ledger BY <3>1, <3>2 DEF HolderInv
      <4> QED BY <4>1 DEF RecordedInv
    <3>3. CASE pc[w] = "commit"
      <4> DEFINE j == req[w].instance
      <4>1. db'.ledger = [db.ledger EXCEPT ![j] = Append(@, draft[w])]
        BY <3>1, <3>3 DEF HolderInv
      <4>2. DOMAIN db.ledger = Instances /\ db.ledger[i] \in Seq(Proof)
        BY DEF TypeInv, TypeOK, Database
      <4>3. CASE i # j
        <5>1. db'.ledger[i] = db.ledger[i] BY <4>1, <4>2, <4>3
        <5> QED BY <5>1 DEF RecordedInv
      <4>4. CASE i = j
        <5>1. db'.ledger[i] = Append(db.ledger[i], draft[w]) BY <4>1, <4>2, <4>4
        <5>2. draft[w] \in Proof BY <3>3 DEF TypeInv, ShapeOK
        <5>3. /\ DOMAIN db'.ledger[i] = 1 .. Len(db.ledger[i]) + 1
              /\ DOMAIN db.ledger[i] = 1 .. Len(db.ledger[i]) /\ Len(db.ledger[i]) \in Nat
              /\ \A k \in 1 .. Len(db.ledger[i]) : db'.ledger[i][k] = db.ledger[i][k]
              /\ db'.ledger[i][Len(db.ledger[i]) + 1] = draft[w]
          BY <4>2, <5>1, <5>2
        <5>4. KnownObjection(draft[w]) BY <3>3 DEF RecordedInv, Drafted
        <5>5. CASE n = Len(db.ledger[i]) + 1 BY <5>3, <5>4, <5>5
        <5>6. CASE n # Len(db.ledger[i]) + 1
          <6>1. n \in DOMAIN db.ledger[i] BY <5>3, <5>6, <1>2
          <6>2. db'.ledger[i][n] = db.ledger[i][n] BY <5>3, <6>1
          <6> QED BY <6>1, <6>2 DEF RecordedInv
        <5> QED BY <5>5, <5>6
      <4> QED BY <4>3, <4>4
    <3> QED BY <3>2, <3>3
  <2> QED BY <2>1, <2>2, OnlyCommits
<1>3. Drafted \subseteq Deciding \ {"governance"} BY DEF Drafted, Deciding
<1>4. \A x \in Workers :
         /\ pc'[x] \in Deciding \ {"governance"} => ~DeterminismRefused(req'[x].determinism)
         /\ pc'[x] \in Drafted => KnownObjection(draft'[x])
  BY <1>1, <1>3
<1>5. RecordedInv' <=>
        /\ \A x \in Workers :
             /\ pc'[x] \in Deciding \ {"governance"} => ~DeterminismRefused(req'[x].determinism)
             /\ pc'[x] \in Drafted => KnownObjection(draft'[x])
        /\ \A i \in Instances : \A n \in DOMAIN db'.ledger[i] : KnownObjection(db'.ledger[i][n])
  BY DEF RecordedInv, KnownObjection, StrictWithSeed
<1> QED BY <1>2, <1>4, <1>5

\* The invariant of the determinism blocks holds on top of the one of the ledger.
LEMMA RecordedInvariant == Spec => []RecordedInv
<1>1. Init => RecordedInv
  BY DEF Init, EmptyDb, RecordedInv, Deciding, Drafted
<1>2. TypeInv /\ LedgerInv /\ RecordedInv /\ [Next]_vars => RecordedInv'
  BY NextRecorded
<1> QED BY <1>1, <1>2, LedgerInvariant, PTL DEF Spec

\* Of what record_decision stored, verify_chain refuses the chains with a strict
\* decision that came with a seed and no other; of what export_proof returned,
\* verify_package refuses the packages whose chain grew between its two SELECTs
\* and no other.
THEOREM RejectionsExplained == Spec => []RejectionsAreExplained
<1>1. ASSUME TypeInv, LedgerInv, PackagesInv, RecordedInv PROVE RejectionsAreExplained
  <2>1. ASSUME NEW i \in Instances, db.ledger[i] # <<>>
        PROVE  verify_chain(db.ledger[i])
                 <=> \A n \in DOMAIN db.ledger[i] : ~StrictWithSeed(db.ledger[i][n])
    <3>1. \A n \in DOMAIN db.ledger[i] :
             /\ LinkVerifies(db.ledger[i][n], HashBefore(db.ledger[i], n), n)
             /\ KnownObjection(db.ledger[i][n])
      BY <1>1 DEF LedgerInv, StoredChainsLinked, ChainLinked, RecordedInv
    <3> QED BY <2>1, <3>1 DEF verify_chain, verify_proof, KnownObjection
  <2>2. ASSUME NEW p \in packages
        PROVE  verify_package(p) <=> Len(p.instance_root) = Len(p.ledger)
    <3>1. p \in Package /\ p.instance \in Instances BY <1>1 DEF TypeInv, TypeOK, Package
    <3>2. db.ledger[p.instance] \in Seq(Proof) BY <1>1, <3>1 DEF TypeInv, TypeOK, Database
    <3>3. ChainLinked(db.ledger[p.instance]) BY <1>1, <3>1 DEF LedgerInv, StoredChainsLinked
    <3>4. Covers(p, db.ledger[p.instance]) BY <1>1 DEF PackagesInv
    <3> QED BY <3>1, <3>2, <3>3, <3>4, CoveredPackage
  <2> QED BY <2>1, <2>2 DEF RejectionsAreExplained
<1> QED BY <1>1, LedgerInvariant, PackagesInvariant, RecordedInvariant, PTL
=============================================================================
