--------------------------- MODULE FailoverSigner ---------------------------
(***************************************************************************)
(* The failover signer (provable_ai/signer_failover.py): caller threads    *)
(* that sign a proof, background health-probe threads and an operator who  *)
(* forces failover and failback, over one shared state.  A step is what    *)
(* happens under one acquisition of the signer's or the metrics' lock, or  *)
(* one call to a key service.                                              *)
(*                                                                         *)
(* A caller is record_decision: sign_hash, then get_key_id, then           *)
(* get_public_key, all three stored in the proof.  The counters that only  *)
(* /metrics reads are left out.                                            *)
(***************************************************************************)
EXTENDS Integers

CONSTANTS Callers,           \* threads that sign
          Probes,            \* bound: probe threads alive at once
          NoProbe,
          max_consecutive,   \* ZORYNEX_KMS_MAX_CONSECUTIVE_FAILURES
          MaxOutages         \* bound: times the primary KMS goes down

ASSUME FailoverAssumption ==
    /\ NoProbe \notin Probes
    /\ max_consecutive \in Nat \ {0}
    /\ MaxOutages \in Nat

VARIABLES
    primary_healthy,   \* FailoverSigner._primary_healthy
    consecutive,       \* FailoverMetrics.consecutive_failures
    probe_thread,      \* FailoverSigner._probe_thread
    probe,             \* per probe thread: its next step, "dead" if it has ended
    primary_up,        \* whether the primary KMS answers
    outages,           \* outages so far
    cached,            \* AWSKmsSigner._public_key_cache of the primary is set
    pc,                \* per caller: its next step
    proof,             \* per caller: what its proof says so far
    quiet,             \* per caller: no failover event since it began
    operator           \* the operator's next step

signerVars == <<primary_healthy, consecutive, probe_thread, probe, primary_up, outages,
          cached, pc, proof, quiet, operator>>

PRIMARY  == "primary"
FALLBACK == "fallback"
NoKey    == "none"
Signers  == {PRIMARY, FALLBACK, NoKey}
NoProof  == [signed_by |-> NoKey, key_id |-> NoKey, public_key |-> NoKey]

Active == IF primary_healthy THEN PRIMARY ELSE FALLBACK

\* Assigning _primary_healthy; every caller in the middle of a proof is affected.
SetHealthy(value) ==
    /\ primary_healthy' = value
    /\ quiet' = [c \in Callers |-> quiet[c] /\ (value = primary_healthy)]

-----------------------------------------------------------------------------
(* Probe threads.                                                          *)

\* Thread.is_alive(): from start() until the thread has really ended.
is_alive(p) == p # NoProbe /\ probe[p] # "dead"

CreateProbe ==
    \E p \in Probes :
        /\ probe[p] = "dead"
        /\ probe' = [probe EXCEPT ![p] = "sleep"]
        /\ probe_thread' = p

\* _start_health_probe, called with the lock held.
StartHealthProbe ==
    IF is_alive(probe_thread)
    THEN UNCHANGED <<probe, probe_thread>>
    ELSE CreateProbe

ProbeGoto(p, step) == probe' = [probe EXCEPT ![p] = step]

\* time.sleep is over: look at the state under the lock.
ProbeWakes(p) ==
    /\ probe[p] = "sleep"
    /\ ProbeGoto(p, IF primary_healthy THEN "return" ELSE "call")
    /\ UNCHANGED <<primary_healthy, consecutive, probe_thread, primary_up, outages,
                   cached, pc, proof, quiet, operator>>

\* get_public_key of the primary answers from its cache once it has one.
KeyAnswers == cached \/ primary_up

ProbeCalls(p) ==
    /\ probe[p] = "call"
    /\ ProbeGoto(p, IF KeyAnswers THEN "restore" ELSE "sleep")
    /\ cached' = (cached \/ KeyAnswers)
    /\ UNCHANGED <<primary_healthy, consecutive, probe_thread, primary_up, outages,
                   pc, proof, quiet, operator>>

\* Mutant: the loop goes on without restoring the primary.
ProbeForgets(p) ==
    /\ probe[p] = "restore"
    /\ ProbeGoto(p, "record")
    /\ UNCHANGED <<primary_healthy, consecutive, probe_thread, primary_up, outages,
                   cached, pc, proof, quiet, operator>>

ProbeRestores(p) ==
    /\ probe[p] = "restore"
    /\ SetHealthy(TRUE)
    /\ ProbeGoto(p, "record")
    /\ UNCHANGED <<consecutive, probe_thread, primary_up, outages, cached, pc, proof,
                   operator>>

\* record_failback, after the lock is released.
ProbeRecords(p) ==
    /\ probe[p] = "record"
    /\ consecutive' = 0
    /\ ProbeGoto(p, "return")
    /\ UNCHANGED <<primary_healthy, probe_thread, primary_up, outages, cached, pc,
                   proof, quiet, operator>>

ProbeEnds(p) ==
    /\ probe[p] = "return"
    /\ ProbeGoto(p, "dead")
    /\ UNCHANGED <<primary_healthy, consecutive, probe_thread, primary_up, outages,
                   cached, pc, proof, quiet, operator>>

ProbeStep(p) == \/ ProbeWakes(p) \/ ProbeCalls(p) \/ ProbeRestores(p)
                \/ ProbeRecords(p) \/ ProbeEnds(p)

-----------------------------------------------------------------------------
(* Callers.                                                                *)

Goto(c, step) == pc' = [pc EXCEPT ![c] = step]

SignWith(c, key) == proof' = [proof EXCEPT ![c].signed_by = key]

\* sign_hash reads _primary_healthy under the lock.
BeginSign(c) ==
    /\ pc[c] = "idle"
    /\ Goto(c, IF primary_healthy THEN "primary" ELSE "fallback")
    /\ quiet' = [quiet EXCEPT ![c] = TRUE]
    /\ UNCHANGED <<primary_healthy, consecutive, probe_thread, probe, primary_up,
                   outages, cached, proof, operator>>

PrimarySigns(c) ==
    /\ pc[c] = "primary"
    /\ primary_up
    /\ SignWith(c, PRIMARY)
    /\ Goto(c, "reset")
    /\ UNCHANGED <<primary_healthy, consecutive, probe_thread, probe, primary_up,
                   outages, cached, quiet, operator>>

\* reset_consecutive
ResetConsecutive(c) ==
    /\ pc[c] = "reset"
    /\ consecutive' = 0
    /\ Goto(c, "key_id")
    /\ UNCHANGED <<primary_healthy, probe_thread, probe, primary_up, outages, cached,
                   proof, quiet, operator>>

\* KMSUnavailable or InvalidKeyId, and record_primary_error.
PrimaryFails(c) ==
    /\ pc[c] = "primary"
    /\ ~primary_up
    /\ consecutive' = consecutive + 1
    /\ quiet' = [quiet EXCEPT ![c] = FALSE]
    /\ Goto(c, "threshold")
    /\ UNCHANGED <<primary_healthy, probe_thread, probe, primary_up, outages, cached,
                   proof, operator>>

\* The rest of _handle_primary_failure, under the lock.
HandlePrimaryFailure(c) ==
    /\ pc[c] = "threshold"
    /\ IF consecutive >= max_consecutive /\ primary_healthy
       THEN SetHealthy(FALSE) /\ StartHealthProbe
       ELSE UNCHANGED <<primary_healthy, quiet, probe, probe_thread>>
    /\ Goto(c, "fallback")
    /\ UNCHANGED <<consecutive, primary_up, outages, cached, proof, operator>>

FallbackSigns(c) ==
    /\ pc[c] = "fallback"
    /\ SignWith(c, FALLBACK)
    /\ Goto(c, "key_id")
    /\ UNCHANGED <<primary_healthy, consecutive, probe_thread, probe, primary_up,
                   outages, cached, quiet, operator>>

\* Mutant: the key id is the primary's whatever the mode.
get_key_id_primary(c) ==
    /\ pc[c] = "key_id"
    /\ proof' = [proof EXCEPT ![c].key_id = PRIMARY]
    /\ Goto(c, "public_key")
    /\ UNCHANGED <<primary_healthy, consecutive, probe_thread, probe, primary_up,
                   outages, cached, quiet, operator>>

get_key_id(c) ==
    /\ pc[c] = "key_id"
    /\ proof' = [proof EXCEPT ![c].key_id = Active]
    /\ Goto(c, "public_key")
    /\ UNCHANGED <<primary_healthy, consecutive, probe_thread, probe, primary_up,
                   outages, cached, quiet, operator>>

\* The lock is only held to choose the signer; the primary's key comes from its
\* cache or from KMS.
get_public_key(c) ==
    /\ pc[c] = "public_key"
    /\ Active = PRIMARY => KeyAnswers
    /\ proof' = [proof EXCEPT ![c].public_key = Active]
    /\ cached' = (cached \/ Active = PRIMARY)
    /\ Goto(c, "done")
    /\ UNCHANGED <<primary_healthy, consecutive, probe_thread, probe, primary_up,
                   outages, quiet, operator>>

\* The proof is assembled and leaves the signer.
Done(c) ==
    /\ pc[c] = "done"
    /\ Goto(c, "idle")
    /\ proof' = [proof EXCEPT ![c] = NoProof]
    /\ quiet' = [quiet EXCEPT ![c] = TRUE]
    /\ UNCHANGED <<primary_healthy, consecutive, probe_thread, probe, primary_up,
                   outages, cached, operator>>

\* SigningFailed from the primary, from the fallback, or KMSUnavailable from
\* get_public_key: record_decision raises and there is no proof.
Raise(c) ==
    /\ \/ pc[c] \in {"primary", "fallback"}
       \/ pc[c] = "public_key" /\ Active = PRIMARY /\ ~KeyAnswers
    /\ Goto(c, "idle")
    /\ proof' = [proof EXCEPT ![c] = NoProof]
    /\ quiet' = [quiet EXCEPT ![c] = TRUE]
    /\ UNCHANGED <<primary_healthy, consecutive, probe_thread, probe, primary_up,
                   outages, cached, operator>>

CallerStep(c) ==
    \/ PrimarySigns(c) \/ ResetConsecutive(c) \/ PrimaryFails(c)
    \/ HandlePrimaryFailure(c) \/ FallbackSigns(c) \/ get_key_id(c)
    \/ get_public_key(c) \/ Done(c)

-----------------------------------------------------------------------------
(* The operator and the key service.                                       *)

ForceFailover ==
    /\ operator = "idle"
    /\ primary_healthy
    /\ SetHealthy(FALSE)
    /\ operator' = "check"
    /\ UNCHANGED <<consecutive, probe_thread, probe, primary_up, outages, cached, pc,
                   proof>>

\* _start_health_probe once more, but outside the lock: the test of is_alive and
\* the creation of the thread are two steps.
ForceCheckProbe ==
    /\ operator = "check"
    /\ operator' = IF is_alive(probe_thread) THEN "idle" ELSE "create"
    /\ UNCHANGED <<primary_healthy, consecutive, probe_thread, probe, primary_up,
                   outages, cached, pc, proof, quiet>>

ForceCreateProbe ==
    /\ operator = "create"
    /\ CreateProbe
    /\ operator' = "idle"
    /\ UNCHANGED <<primary_healthy, consecutive, primary_up, outages, cached, pc,
                   proof, quiet>>

ForceFailback ==
    /\ operator = "idle"
    /\ SetHealthy(TRUE)
    /\ operator' = "record"
    /\ UNCHANGED <<consecutive, probe_thread, probe, primary_up, outages, cached, pc,
                   proof>>

ForceRecord ==
    /\ operator = "record"
    /\ consecutive' = 0
    /\ operator' = "idle"
    /\ UNCHANGED <<primary_healthy, probe_thread, probe, primary_up, outages, cached,
                   pc, proof, quiet>>

OperatorStep == ForceCheckProbe \/ ForceCreateProbe \/ ForceRecord

KmsDown ==
    /\ primary_up
    /\ outages < MaxOutages
    /\ primary_up' = FALSE
    /\ outages' = outages + 1
    /\ UNCHANGED <<primary_healthy, consecutive, probe_thread, probe, cached, pc, proof,
                   quiet, operator>>

KmsUp ==
    /\ ~primary_up
    /\ primary_up' = TRUE
    /\ UNCHANGED <<primary_healthy, consecutive, probe_thread, probe, outages, cached,
                   pc, proof, quiet, operator>>

-----------------------------------------------------------------------------
SignerInit ==
    /\ primary_healthy = TRUE
    /\ consecutive = 0
    /\ probe_thread = NoProbe
    /\ probe = [p \in Probes |-> "dead"]
    /\ primary_up = TRUE
    /\ outages = 0
    /\ cached = FALSE
    /\ pc = [c \in Callers |-> "idle"]
    /\ proof = [c \in Callers |-> NoProof]
    /\ quiet = [c \in Callers |-> TRUE]
    /\ operator = "idle"

SignerNext ==
    \/ \E c \in Callers : BeginSign(c) \/ CallerStep(c) \/ Raise(c)
    \/ \E p \in Probes : ProbeStep(p)
    \/ ForceFailover \/ ForceFailback \/ OperatorStep
    \/ KmsDown \/ KmsUp

\* A probe thread that can run does run, and an operator's call that has begun
\* goes on.  Nothing makes callers sign or go on, the operator act or the key
\* service come back.
SignerFairness ==
    /\ \A p \in Probes : WF_signerVars(ProbeStep(p))
    /\ WF_signerVars(OperatorStep)

SignerSpec == SignerInit /\ [][SignerNext]_signerVars /\ SignerFairness

-----------------------------------------------------------------------------
(* Properties.                                                             *)

\* Every variable has its type, and a proof names a key as soon as the call that
\* fills it in has returned.
SignerTypeOK ==
    /\ primary_healthy \in BOOLEAN /\ primary_up \in BOOLEAN /\ cached \in BOOLEAN
    /\ consecutive \in Nat /\ outages \in 0 .. MaxOutages
    /\ probe_thread \in Probes \cup {NoProbe}
    /\ probe \in [Probes -> {"dead", "sleep", "call", "restore", "record", "return"}]
    /\ pc \in [Callers -> {"idle", "primary", "reset", "threshold", "fallback",
                           "key_id", "public_key", "done"}]
    /\ proof \in [Callers -> [signed_by : Signers, key_id : Signers, public_key : Signers]]
    /\ quiet \in [Callers -> BOOLEAN]
    /\ operator \in {"idle", "check", "create", "record"}

NamesItsSigner(c) ==
    /\ proof[c].key_id = proof[c].signed_by
    /\ proof[c].public_key = proof[c].signed_by

\* A proof names the key that signed it unless the primary failed its own
\* signature or the mode changed between its sign_hash and its get_public_key.
QuietProofsNameTheirSigner ==
    \A c \in Callers : pc[c] = "done" /\ quiet[c] => NamesItsSigner(c)

\* What holds of the signer at every moment: the types, and proofs that name their
\* signer unless the failover code was at work while they were made.
SignerInv == SignerTypeOK /\ QuietProofsNameTheirSigner

\* A probe that is in its loop brings the primary back once KMS stays up.
ProbeFailsBack ==
    <>[]primary_up => ((\E p \in Probes : probe[p] = "sleep") ~> primary_healthy)
=============================================================================
