----------------------------- MODULE MerkleBatch ----------------------------
(***************************************************************************)
(* Signed batch exports and Merkle inclusion proofs                        *)
(* (provable_ai/audit_batch.py, the /audit/inclusion-proof endpoint of     *)
(* server/main.py) and the standalone verifier verify/verify_batch.py.     *)
(*                                                                         *)
(* SHA-256 is a free constructor: the hash of a proof id is a leaf, the    *)
(* hash of two hashes is a node, and a current_hash is a number that codes *)
(* the list of decisions under it, so that ids have an order (the order of *)
(* hex digits is as arbitrary).  The instance id is not in a current_hash. *)
(***************************************************************************)
EXTENDS Naturals, Sequences, SequencesExt, FiniteSetsExt

CONSTANTS Instances,     \* decision instances of the tenant
          NoDate,        \* None for from_date or to_date
          Contents,      \* decisions, numbered from 1
          MaxTime,       \* bound: the last timestamp
          MaxDecisions   \* bound: decisions of the tenant

ASSUME BatchAssumption ==
    /\ IsFiniteSet(Contents) /\ Contents = 1 .. Cardinality(Contents)
    /\ IsFiniteSet(Instances)
    /\ MaxTime \in Nat /\ MaxDecisions \in Nat

VARIABLES
    ledger,     \* per instance: the decisions recorded, in order
    time,      \* the current timestamp
    batch,      \* the batch file as it is now
    delivered   \* ghost: the batch file as it was exported

batchVars == <<ledger, time, batch, delivered>>

Times == 0 .. MaxTime
Dates == Times \cup {NoDate}
ZERO == [kind |-> "zero"]      \* "0" * 64
NoBatch == [type |-> "none"]
SigningKey == "key"

-----------------------------------------------------------------------------
(* Proof ids and Merkle trees.                                             *)

Leaf(id) == [kind |-> "leaf", id |-> id]
Node(left, right) == [kind |-> "node", left |-> left, right |-> right]

\* sorted(proof_ids): where the n-th id goes, equal ids in their order.
Rank(proof_ids, n) ==
    LET key(m) == proof_ids[m].current_hash
    IN  Cardinality({m \in DOMAIN proof_ids :
            key(m) < key(n) \/ (key(m) = key(n) /\ m <= n)})

\* The hashed ids in the order of the ids; a single leaf is doubled.
Leaves(proof_ids) ==
    LET hashed == [k \in DOMAIN proof_ids |-> Leaf(proof_ids[
                     CHOOSE n \in DOMAIN proof_ids : Rank(proof_ids, n) = k])]
    IN  hashed \o (IF Len(hashed) = 1 THEN hashed ELSE <<>>)

\* Mutant: an odd last hash is left out of the next level.
PaddedNot(level) ==
    IF Len(level) % 2 = 1 THEN Front(level) ELSE level

\* An odd level repeats its last hash.
Padded(level) == level \o (IF Len(level) % 2 = 1 THEN <<Last(level)>> ELSE <<>>)

NextLevel(level) ==
    LET padded == Padded(level)
    IN  [n \in 1 .. Len(padded) \div 2 |-> Node(padded[2 * n - 1], padded[2 * n])]

\* The levels of the while loop: more rounds than it takes any level to shrink to
\* one hash, which then stays.
Levels(leaves) ==
    LET level[n \in 0 .. Len(leaves)] ==
          IF n = 0 THEN leaves
          ELSE LET below == level[n - 1]
               IN  IF Len(below) = 1 THEN below ELSE NextLevel(below)
    IN  level

\* build_merkle_tree without the list of levels it also returns.
merkle_root(proof_ids) ==
    LET leaves == Leaves(proof_ids)
    IN  IF proof_ids = <<>> THEN ZERO ELSE Head(Levels(leaves)[Len(leaves)])

\* Mutant: the sibling is looked up before the level is padded.
SiblingIndexUnpadded(index, level) ==
    IF index % 2 = 1 THEN Min({index + 1, Len(level) - 1}) ELSE index - 1

\* idx ^ 1, with the indices counted from 1.
SiblingIndex(index, level) == IF index % 2 = 1 THEN index + 1 ELSE index - 1

\* One round of compute_inclusion_proof: a step of the path, and one level up.
Climb(at) ==
    LET step == [hash     |-> Padded(at.level)[SiblingIndex(at.index, Padded(at.level))],
                 position |-> IF at.index % 2 = 1 THEN "right" ELSE "left"]
    IN  [path  |-> Append(at.path, step),
         level |-> NextLevel(at.level),
         index |-> (at.index + 1) \div 2]

\* The path from the first leaf of target up, and the root it ends in.
InclusionPath(leaves, target) ==
    LET climbed[n \in 0 .. Len(leaves)] ==
          IF n = 0
          THEN [path |-> <<>>, level |-> leaves,
                index |-> Min({k \in DOMAIN leaves : leaves[k] = Leaf(target)})]
          ELSE LET at == climbed[n - 1]
               IN  IF Len(at.level) = 1 THEN at ELSE Climb(at)
    IN  climbed[Len(leaves)]

compute_inclusion_proof(proof_ids, target, b) ==
    LET top == InclusionPath(Leaves(proof_ids), target)
    IN  [leaf_hash   |-> Leaf(target),
         path        |-> top.path,
         root        |-> Head(top.level),
         signed_root |-> b.merkle_root,
         signature   |-> b.merkle_signature.value,
         public_key  |-> b.merkle_signature.public_key]

\* The hashes from h up along a path.
Joined(h, step) == IF step.position = "left" THEN Node(step.hash, h) ELSE Node(h, step.hash)
WalkFrom(h, path) ==
    LET walked[n \in 0 .. Len(path)] ==
          IF n = 0 THEN h ELSE Joined(walked[n - 1], path[n])
    IN  walked[Len(path)]

\* Mutant: the walk starts at the first sibling.
WalkSkipsLeaf(leaf_hash, path) == WalkFrom(path[1].hash, path)

Walk(leaf_hash, path) == WalkFrom(leaf_hash, path)

-----------------------------------------------------------------------------
(* Signatures and verification.                                            *)

\* Ed25519: a signature is what was signed and by which key.
sign_hash(h) == [signed |-> h, key |-> SigningKey]
SignatureVerifies(h, signature, public_key) ==
    signature = [signed |-> h, key |-> public_key]

verify_inclusion_proof(p) ==
    /\ Walk(p.leaf_hash, p.path) = p.root
    /\ p.root = p.signed_root
    /\ SignatureVerifies(p.root, p.signature, p.public_key)

_derive_proof_id(proof) == proof.ledger

\* A stored proof is ProofV1.model_dump(): it has no proof_id of its own.
HasProofId(proof) == "proof_id" \in DOMAIN proof

\* p.get("proof_id") or _derive_proof_id(p)
ProofIds(proofs) ==
    [n \in DOMAIN proofs |-> IF HasProofId(proofs[n]) THEN proofs[n].proof_id
                             ELSE _derive_proof_id(proofs[n])]

verify_batch_signature(b) ==
    LET computed_root == merkle_root(ProofIds(b.proofs))
    IN  /\ computed_root = b.merkle_root
        /\ SignatureVerifies(b.merkle_root, b.merkle_signature.value,
                             b.merkle_signature.public_key)

\* [p.get("proof_id") for p in proofs if p.get("proof_id")]: the ids the
\* inclusion endpoint and the standalone verifier see.
all_proof_ids(b) ==
    LET named == SelectSeq(b.proofs, HasProofId)
    IN  [n \in DOMAIN named |-> named[n].proof_id]

\* POST /audit/inclusion-proof: 404 or the proof and its own verification.
audit_inclusion_proof_endpoint(b, target) ==
    IF target \notin Range(all_proof_ids(b)) THEN [status |-> 404]
    ELSE [status |-> 200,
          self_verified |-> verify_inclusion_proof(
              compute_inclusion_proof(all_proof_ids(b), target, b))]

\* verify_batch.py
verify_batch(b) ==
    /\ merkle_root(all_proof_ids(b)) = b.merkle_root
    /\ SignatureVerifies(b.merkle_root, b.merkle_signature.value,
                         b.merkle_signature.public_key)

\* verify_batch.py --proof-id: the path is built here, the root is the batch's.
verify_proof_in_batch(b, target) ==
    /\ target \in Range(all_proof_ids(b))
    /\ verify_inclusion_proof(
          [compute_inclusion_proof(all_proof_ids(b), target, b)
             EXCEPT !.root = b.merkle_root])

-----------------------------------------------------------------------------
(* Recording, exporting, and what may happen to the file.                  *)

\* The n-th proof of an instance, as the ledger stores it.
StoredProof(entries, n) ==
    [decision |-> entries[n].content,
     ledger   |-> [current_hash |-> entries[n].current_hash, sequence_id |-> n]]

Recorded == {r \in Instances \X (1 .. MaxDecisions) : r[2] \in DOMAIN ledger[r[1]]}

\* External: a hash of the hash before and the decision; different lists of
\* decisions have different hashes.
ChainHash(previous_hash, c) == previous_hash * (Max(Contents) + 1) + c

\* External: Engine.decide appends to the instance's chain (see Ledger).
Decide(i, c) ==
    /\ Cardinality(Recorded) < MaxDecisions
    /\ batch = NoBatch
    /\ ledger' = [ledger EXCEPT ![i] = Append(@,
          [content      |-> c,
           timestamp    |-> time,
           current_hash |-> ChainHash(IF @ = <<>> THEN 0 ELSE Last(@).current_hash, c)])]
    /\ UNCHANGED <<time, batch, delivered>>

TimePasses ==
    /\ time < MaxTime
    /\ batch = NoBatch
    /\ time' = time + 1
    /\ UNCHANGED <<ledger, batch, delivered>>

\* timestamp >= from_date AND timestamp <= to_date, each if it is given.
InRange(timestamp, from_date, to_date) ==
    /\ from_date = NoDate \/ timestamp >= from_date
    /\ to_date = NoDate \/ timestamp <= to_date

\* The stored proofs of one instance in the range, by sequence_id.
Selected(entries, from_date, to_date) ==
    LET chosen[n \in 0 .. Len(entries)] ==
          IF n = 0 THEN <<>>
          ELSE IF InRange(entries[n].timestamp, from_date, to_date)
               THEN Append(chosen[n - 1], StoredProof(entries, n))
               ELSE chosen[n - 1]
    IN  chosen[Len(entries)]

\* Those of all instances, by instance_id and sequence_id.
_fetch_proofs(from_date, to_date) ==
    FlattenSeq([m \in 1 .. Cardinality(Instances) |->
        Selected(ledger[SetToSeq(Instances)[m]], from_date, to_date)])

build_batch_export(from_date, to_date) ==
    LET proofs == _fetch_proofs(from_date, to_date)
        root   == merkle_root(ProofIds(proofs))
    IN  [type             |-> "zorynex-batch-v1",
         proofs           |-> proofs,
         merkle_root      |-> root,
         merkle_signature |-> [value |-> sign_hash(root), public_key |-> SigningKey]]

\* GET /audit/export answers 500, and changes nothing, while the tenant's audit chain
\* does not verify (see AuditLog).  One export ends a behaviour: it reads the ledger
\* and changes nothing in it.
Export ==
    /\ batch = NoBatch
    /\ \E from_date \in Dates, to_date \in Dates :
          /\ batch' = build_batch_export(from_date, to_date)
          /\ delivered' = batch'
    /\ UNCHANGED <<ledger, time>>

StoredProofs == {StoredProof(ledger[r[1]], r[2]) : r \in Recorded}

\* The proofs of a file that was changed once on its way: a proof lost, repeated,
\* exchanged for another recorded one, or its decision overwritten.
Alterations(proofs) ==
    UNION {{RemoveAt(proofs, n), InsertAt(proofs, n, proofs[n])}
           \cup {ReplaceAt(proofs, n, p) : p \in StoredProofs}
           \cup {ReplaceAt(proofs, n, [proofs[n] EXCEPT !.decision = c]) : c \in Contents}
           : n \in DOMAIN proofs}

Alter ==
    /\ batch # NoBatch
    /\ batch = delivered
    /\ \E proofs \in Alterations(batch.proofs) : batch' = [batch EXCEPT !.proofs = proofs]
    /\ UNCHANGED <<ledger, time, delivered>>

BatchInit ==
    /\ ledger = [i \in Instances |-> <<>>]
    /\ time = 0
    /\ batch = NoBatch
    /\ delivered = NoBatch

BatchNext == (\E i \in Instances, c \in Contents : Decide(i, c)) \/ TimePasses \/ Export \/ Alter

BatchSpec == BatchInit /\ [][BatchNext]_batchVars

-----------------------------------------------------------------------------
(* Properties.                                                             *)

ProofId == [current_hash : Nat, sequence_id : Nat]
StoredProofType == [decision : Contents, ledger : ProofId]

\* Every variable has its type.
BatchTypeOK ==
    /\ ledger \in [Instances -> Seq([content : Contents, timestamp : Times,
                                  current_hash : Nat])]
    /\ time \in Times
    /\ \A b \in {batch, delivered} :
          b # NoBatch => b.proofs \in Seq(StoredProofType)

\* Reference: the tree read from the top.  Node n of a level is the pair of nodes
\* 2n-1 and 2n below it; a level has half as many nodes as the one below it, rounded
\* up, and asking for one past the end gives the last one.
Width(k, level) ==
    LET width[l \in 0 .. level] == IF l = 0 THEN k ELSE (width[l - 1] + 1) \div 2
    IN  width[level]
ReferenceNode(leaves, level, n) ==
    LET at[l \in 0 .. level] ==
          [m \in 1 .. 2 * Len(leaves) |->
              LET p == Min({m, Width(Len(leaves), l)})
              IN  IF l = 0 THEN leaves[p] ELSE Node(at[l - 1][2 * p - 1], at[l - 1][2 * p])]
    IN  at[level][n]
Height(k) == CHOOSE h \in 0 .. k : Width(k, h) = 1 /\ (h > 0 => Width(k, h - 1) > 1)

Ids(b) == ProofIds(b.proofs)
Unaltered == batch # NoBatch /\ batch = delivered

\* "Merkle root commits to every proof_id in the export": for every number of
\* proofs and every duplicate id, the loop over padded levels computes the root of
\* the reference tree, whatever order the proofs are in.
RootMatchesReference ==
    (batch # NoBatch /\ Ids(batch) # <<>>) =>
        LET leaves == Leaves(Ids(batch))
        IN  /\ merkle_root(Ids(batch)) = ReferenceNode(leaves, Height(Len(leaves)), 1)
            /\ merkle_root(Reverse(Ids(batch))) = merkle_root(Ids(batch))

\* What holds of ledger and file at every moment: the types, and roots that agree
\* with the reference.
BatchInv == BatchTypeOK /\ RootMatchesReference

\* A delivered batch verifies, and every proof in it has an inclusion proof that
\* reaches the signed root, also at the odd end of a level.
DeliveredBatchesVerify ==
    Unaltered =>
        /\ verify_batch_signature(delivered)
        /\ \A id \in Range(Ids(delivered)) :
              verify_inclusion_proof(compute_inclusion_proof(Ids(delivered), id, delivered))

\* The root commits to the proof ids, as a set: an altered batch that still verifies
\* holds exactly the delivered ids, each at least once.  So no recorded proof of another
\* id comes in, and none of the ids gets lost.  No more than that: the rest of a proof
\* may change unnoticed, and so may how often an id stands in the batch, although
\* audit_batch.py says "Any modification to any proof" makes the signature invalid.
ValidBatchesHoldDeliveredIds ==
    (batch # NoBatch /\ verify_batch_signature(batch)) =>
        Range(Ids(batch)) = Range(Ids(delivered))

\* audit_batch.py, of inclusion proofs: "a valid path cannot be reused with a different
\* root or a different signed batch".  With the leaf of any other recorded proof, in
\* the batch or not, no inclusion proof of the batch verifies.
PathsProveOneProof ==
    Unaltered =>
        \A id \in Range(Ids(delivered)) : \A p \in StoredProofs :
            LET proof == compute_inclusion_proof(Ids(delivered), id, delivered)
            IN  verify_inclusion_proof([proof EXCEPT !.leaf_hash = Leaf(_derive_proof_id(p))])
                    => _derive_proof_id(p) = id

\* verify/verify_batch.py: "Algorithm (matches audit_batch.py exactly)".  A batch
\* the server exported and nobody altered verifies offline too, and each of its
\* proofs is found in it, there and by POST /audit/inclusion-proof.
DeliveredBatchesVerifyOffline ==
    Unaltered =>
        /\ verify_batch(delivered)
        /\ \A id \in Range(Ids(delivered)) :
              /\ verify_proof_in_batch(delivered, id)
              /\ audit_inclusion_proof_endpoint(delivered, id).status = 200
=============================================================================
