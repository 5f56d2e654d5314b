----------------------------- MODULE ProofFormat -----------------------------
(***************************************************************************)
(* The proof artifact of provable_ai (schema.py, canonical.py), the two    *)
(* verifiers that read it (provable_ai/verifier.py for proofs and chains,  *)
(* verify/verify_package.py for exported packages) and nothing that has    *)
(* state.                                                                  *)
(*                                                                         *)
(* SHA-256 is taken to be collision free.  A current_hash covers the       *)
(* decision payload, the sequence number and the previous hash, and the    *)
(* previous hash covers its own, so a hash is represented by the list of   *)
(* what it commits to: <<>> is the genesis constant, which no payload      *)
(* hashes to, and hashing appends one commitment.  Two hashes are equal    *)
(* exactly when everything under them is.                                  *)
(*                                                                         *)
(* An Ed25519 signature is the pair of the signing key and the message; it *)
(* verifies under a public key exactly when both agree.                    *)
(***************************************************************************)
EXTENDS Naturals, Sequences

CONSTANTS Decisions,          \* decision + decision_context of a request
          Models,             \* model versions
          Agents,             \* agent versions
          Policies,           \* policy versions
          DeterminismInputs,  \* (mode, random_seed given, external_calls given)
          Keys                \* signing keys

STRICT   == "strict_deterministic"
SEEDED   == "replay_with_seed"
RECORDED == "replay_with_recorded_io"
DeterminismModes == {STRICT, SEEDED, RECORDED}

ASSUME DeterminismInputsAssumption ==
    DeterminismInputs \subseteq
        [mode : DeterminismModes, seed : BOOLEAN, calls : BOOLEAN]

Governance  == [model : Models, agent : Agents, policy : Policies]
Determinism == [mode : DeterminismModes, seed : BOOLEAN, ext : BOOLEAN]
Payload     == [decision : Decisions, governance : Governance,
                determinism : Determinism]
Hash        == Seq([payload : Payload, sequence_id : Nat])

-----------------------------------------------------------------------------
(* Hashing and signing                                                     *)

genesis_hash == <<>>

\* instance_id, tenant_id and timestamp are outside the hash.
canonical_hash(payload, previous_hash, sequence_id) ==
    Append(previous_hash, [payload |-> payload, sequence_id |-> sequence_id])

sign_hash(key, message) == [by |-> key, over |-> message]

verify_ed25519(public_key, message, signature) ==
    /\ signature.by = public_key
    /\ signature.over = message

Proof == [payload : Payload, sequence_id : Nat, previous_hash : Hash,
          current_hash : Hash, public_key : Keys,
          signature : [by : Keys, over : Hash]]

\* previous_hash of the proof that continues a chain.
LastHash(chain) ==
    IF chain = <<>> THEN genesis_hash ELSE chain[Len(chain)].current_hash

\* Steps 5 to 8 of record_decision, with one signer whose key does not change.
BuildProof(payload, previous_hash, sequence_id, key) ==
    LET h == canonical_hash(payload, previous_hash, sequence_id)
    IN  [payload       |-> payload,
         sequence_id   |-> sequence_id,
         previous_hash |-> previous_hash,
         current_hash  |-> h,
         public_key    |-> key,
         signature     |-> sign_hash(key, h)]

-----------------------------------------------------------------------------
(* Determinism block                                                       *)

\* Mutant: a seeded decision without its seed is let through.
DeterminismRefusedRecorded(d) == d.mode = RECORDED /\ ~d.calls

\* What record_decision refuses before it hashes anything.
DeterminismRefused(d) ==
    \/ d.mode = SEEDED /\ ~d.seed
    \/ d.mode = RECORDED /\ ~d.calls

\* The seed is recorded whatever the mode; the calls only in recorded mode.
DeterminismOf(d) == [mode |-> d.mode, seed |-> d.seed,
                     ext |-> d.mode = RECORDED /\ d.calls]

DeterminismConsistent(d) ==
    /\ d.mode = STRICT   => ~d.seed /\ ~d.ext
    /\ d.mode = SEEDED   => d.seed
    /\ d.mode = RECORDED => d.ext

-----------------------------------------------------------------------------
(* Verifiers                                                               *)

\* The hash, signature, chain and sequence steps of verify_proof.
LinkVerifies(p, expected_previous_hash, expected_sequence_id) ==
    /\ p.current_hash = canonical_hash(p.payload, p.previous_hash, p.sequence_id)
    /\ verify_ed25519(p.public_key, p.current_hash, p.signature)
    /\ p.previous_hash = expected_previous_hash
    /\ p.sequence_id = 1 => p.previous_hash = genesis_hash
    /\ p.sequence_id = expected_sequence_id

verify_proof(p, expected_previous_hash, expected_sequence_id) ==
    /\ LinkVerifies(p, expected_previous_hash, expected_sequence_id)
    /\ DeterminismConsistent(p.payload.determinism)

\* last_hash of verify_chain's loop when it reaches the n-th proof.
HashBefore(chain, n) ==
    IF n = 1 THEN genesis_hash ELSE chain[n - 1].current_hash

ChainLinked(chain) ==
    \A n \in DOMAIN chain : LinkVerifies(chain[n], HashBefore(chain, n), n)

verify_chain(chain) ==
    /\ chain # <<>>
    /\ \A n \in DOMAIN chain : verify_proof(chain[n], HashBefore(chain, n), n)

instance_root(chain) == [n \in DOMAIN chain |-> chain[n].current_hash]

\* The checks of an exported package, the same in POST /verify-package and in the
\* standalone verifier: the per-proof signatures and the sequence numbers are not
\* looked at, and package_hash, which export_proof computes from the list it
\* exports, holds for every package it returns.
PackageChainValid(ledger) ==
    \A n \in DOMAIN ledger :
        /\ ledger[n].current_hash = canonical_hash(ledger[n].payload,
                                       ledger[n].previous_hash, ledger[n].sequence_id)
        /\ ledger[n].previous_hash = HashBefore(ledger, n)

PackageSignerVerified(package) ==
    /\ package.instance_root = instance_root(package.ledger)
    /\ verify_ed25519(package.public_key, instance_root(package.ledger),
                      package.signature)

verify_package(package) ==
    /\ package.ledger # <<>>
    /\ PackageChainValid(package.ledger)
    /\ PackageSignerVerified(package)
=============================================================================
