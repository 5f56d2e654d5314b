----------------------------- MODULE ProcessProofs --------------------------
(***************************************************************************)
(* Proofs about the parts that a server process keeps in memory and its    *)
(* threads share: FailoverSigner, RateLimiter and SiemRouter.  They share  *)
(* no variable; each has its own specification and its own theorems.       *)
(***************************************************************************)
EXTENDS FailoverSigner, RateLimiter, SiemRouter, FiniteSetTheorems, SequenceTheorems,
        WellFoundedInduction, TLAPS

-----------------------------------------------------------------------------
(* FailoverSigner, for every set of callers and probe threads, every       *)
(* failure threshold and any number of outages.                            *)

\* What the proof of an undisturbed caller says so far: the mode is still the
\* one sign_hash read, and the names it has are the names of that mode's signer.
CallerInv(c) ==
    quiet[c] =>
        /\ pc[c] # "threshold"
        /\ pc[c] \in {"primary", "reset"} => Active = PRIMARY
        /\ pc[c] = "fallback" => Active = FALLBACK
        /\ pc[c] = "reset" => proof[c].signed_by = PRIMARY
        /\ pc[c] \in {"key_id", "public_key"} => proof[c].signed_by = Active
        /\ pc[c] = "public_key" => proof[c].key_id = Active
        /\ pc[c] = "done" => NamesItsSigner(c)

SignerIInv == \A c \in Callers : CallerInv(c)

\* The step leaves every caller where it is.
CallersStay == UNCHANGED <<pc, proof>>

\* The step is caller c's; the others and the mode stay as they are.
OthersStay(c) ==
    /\ primary_healthy' = primary_healthy
    /\ \A d \in Callers \ {c} :
          pc'[d] = pc[d] /\ proof'[d] = proof[d] /\ quiet'[d] = quiet[d]

-----------------------------------------------------------------------------
(* Types.                                                                  *)

\* The initial state has the types.
LEMMA SignerInitType == SignerInit => SignerTypeOK
<1>1. NoProof \in [signed_by : Signers, key_id : Signers, public_key : Signers]
  BY DEF NoProof, Signers
<1>2. 0 \in 0 .. MaxOutages BY FailoverAssumption
<1> SUFFICES ASSUME SignerInit PROVE SignerTypeOK OBVIOUS
<1>3. proof \in [Callers -> [signed_by : Signers, key_id : Signers, public_key : Signers]]
  BY <1>1 DEF SignerInit
<1>4. /\ probe \in [Probes -> {"dead", "sleep", "call", "restore", "record", "return"}]
      /\ pc \in [Callers -> {"idle", "primary", "reset", "threshold", "fallback",
                             "key_id", "public_key", "done"}]
      /\ quiet \in [Callers -> BOOLEAN]
  BY DEF SignerInit
<1> QED BY <1>2, <1>3, <1>4 DEF SignerInit, SignerTypeOK

\* Assigning the mode keeps its types.
LEMMA SetHealthyType ==
    ASSUME SignerTypeOK, NEW value \in BOOLEAN, SetHealthy(value)
    PROVE  primary_healthy' \in BOOLEAN /\ quiet' \in [Callers -> BOOLEAN]
<1>1. ASSUME NEW c \in Callers PROVE (quiet[c] /\ (value = primary_healthy)) \in BOOLEAN
  OBVIOUS
<1> QED BY <1>1 DEF SetHealthy, SignerTypeOK

\* Starting a probe thread keeps its types.
LEMMA ProbeType ==
    ASSUME SignerTypeOK, CreateProbe \/ StartHealthProbe
    PROVE  /\ probe' \in [Probes -> {"dead", "sleep", "call", "restore", "record", "return"}]
           /\ probe_thread' \in Probes \cup {NoProbe}
BY DEF SignerTypeOK, CreateProbe, StartHealthProbe

\* The signer of the mode is a signer.
LEMMA ActiveType == Active \in Signers
BY DEF Active, Signers, PRIMARY, FALLBACK

\* The steps of a caller keep the types.
LEMMA CallerType ==
    ASSUME SignerTypeOK, NEW c \in Callers, BeginSign(c) \/ CallerStep(c) \/ Raise(c)
    PROVE  SignerTypeOK'
<1>1. PRIMARY \in Signers /\ FALLBACK \in Signers /\ Active \in Signers
  BY ActiveType DEF Signers
<1>2. NoProof \in [signed_by : Signers, key_id : Signers, public_key : Signers]
  BY DEF NoProof, Signers
<1>3. CASE BeginSign(c) BY <1>3 DEF BeginSign, Goto, SignerTypeOK
<1>4. CASE PrimarySigns(c) BY <1>1, <1>4 DEF PrimarySigns, SignWith, Goto, SignerTypeOK
<1>5. CASE ResetConsecutive(c) BY <1>5 DEF ResetConsecutive, Goto, SignerTypeOK
<1>6. CASE PrimaryFails(c) BY <1>6 DEF PrimaryFails, Goto, SignerTypeOK
<1>7. CASE HandlePrimaryFailure(c)
  <2>1. /\ primary_healthy' \in BOOLEAN /\ quiet' \in [Callers -> BOOLEAN]
        /\ probe' \in [Probes -> {"dead", "sleep", "call", "restore", "record", "return"}]
        /\ probe_thread' \in Probes \cup {NoProbe}
    <3>1. CASE consecutive >= max_consecutive /\ primary_healthy
      BY <3>1, <1>7, SetHealthyType, ProbeType DEF HandlePrimaryFailure
    <3>2. CASE ~(consecutive >= max_consecutive /\ primary_healthy)
      BY <3>2, <1>7 DEF HandlePrimaryFailure, SignerTypeOK
    <3> QED BY <3>1, <3>2
  <2> QED BY <2>1, <1>7 DEF HandlePrimaryFailure, Goto, SignerTypeOK
<1>8. CASE FallbackSigns(c) BY <1>1, <1>8 DEF FallbackSigns, SignWith, Goto, SignerTypeOK
<1>9. CASE get_key_id(c) BY <1>1, <1>9 DEF get_key_id, Goto, SignerTypeOK
<1>10. CASE get_public_key(c)
  <2>1. cached' \in BOOLEAN BY <1>10 DEF get_public_key
  <2> QED BY <2>1, <1>1, <1>10 DEF get_public_key, Goto, SignerTypeOK
<1>11. CASE Done(c) BY <1>2, <1>11 DEF Done, Goto, SignerTypeOK
<1>12. CASE Raise(c) BY <1>2, <1>12 DEF Raise, Goto, SignerTypeOK
<1> QED BY <1>3, <1>4, <1>5, <1>6, <1>7, <1>8, <1>9, <1>10, <1>11, <1>12 DEF CallerStep

\* The steps of the probe threads, the operator and the key service keep the types.
LEMMA OtherType ==
    ASSUME SignerTypeOK,
           \/ \E p \in Probes : ProbeStep(p)
           \/ ForceFailover \/ ForceFailback \/ OperatorStep \/ KmsDown \/ KmsUp
    PROVE  SignerTypeOK'
<1>1. ASSUME NEW p \in Probes, ProbeStep(p) PROVE SignerTypeOK'
  <2>1. CASE ProbeWakes(p) BY <2>1 DEF ProbeWakes, ProbeGoto, SignerTypeOK
  <2>2. CASE ProbeCalls(p)
    <3>1. cached' \in BOOLEAN BY <2>2 DEF ProbeCalls
    <3> QED BY <3>1, <2>2 DEF ProbeCalls, ProbeGoto, SignerTypeOK
  <2>3. CASE ProbeRestores(p)
    <3>1. primary_healthy' \in BOOLEAN /\ quiet' \in [Callers -> BOOLEAN]
      BY <2>3, SetHealthyType DEF ProbeRestores
    <3> QED BY <3>1, <2>3 DEF ProbeRestores, ProbeGoto, SignerTypeOK
  <2>4. CASE ProbeRecords(p) BY <2>4 DEF ProbeRecords, ProbeGoto, SignerTypeOK
  <2>5. CASE ProbeEnds(p) BY <2>5 DEF ProbeEnds, ProbeGoto, SignerTypeOK
  <2> QED BY <1>1, <2>1, <2>2, <2>3, <2>4, <2>5 DEF ProbeStep
<1>2. CASE ForceFailover \/ ForceFailback
  <2>1. primary_healthy' \in BOOLEAN /\ quiet' \in [Callers -> BOOLEAN]
    BY <1>2, SetHealthyType DEF ForceFailover, ForceFailback
  <2> QED BY <2>1, <1>2 DEF ForceFailover, ForceFailback, SignerTypeOK
<1>3. CASE ForceCheckProbe BY <1>3 DEF ForceCheckProbe, SignerTypeOK
<1>4. CASE ForceCreateProbe
  <2>1. /\ probe' \in [Probes -> {"dead", "sleep", "call", "restore", "record", "return"}]
        /\ probe_thread' \in Probes \cup {NoProbe}
    BY <1>4, ProbeType DEF ForceCreateProbe
  <2> QED BY <2>1, <1>4 DEF ForceCreateProbe, SignerTypeOK
<1>5. CASE ForceRecord BY <1>5 DEF ForceRecord, SignerTypeOK
<1>6. CASE KmsDown
  <2>1. outages' \in 0 .. MaxOutages BY <1>6, FailoverAssumption DEF KmsDown, SignerTypeOK
  <2> QED BY <2>1, <1>6 DEF KmsDown, SignerTypeOK
<1>7. CASE KmsUp BY <1>7 DEF KmsUp, SignerTypeOK
<1> QED BY <1>1, <1>2, <1>3, <1>4, <1>5, <1>6, <1>7 DEF OperatorStep

-----------------------------------------------------------------------------
(* Proofs under way.                                                       *)

\* Whoever changes the mode disturbs every caller; who sets it to what it is,
\* nobody.
LEMMA SetHealthyInv ==
    ASSUME SignerTypeOK, SignerIInv, NEW value \in BOOLEAN, SetHealthy(value), CallersStay
    PROVE  SignerIInv'
<1> SUFFICES ASSUME NEW c \in Callers, quiet'[c] PROVE CallerInv(c)'
  BY DEF SignerIInv, CallerInv
<1>1. quiet[c] /\ primary_healthy' = primary_healthy BY DEF SetHealthy, SignerTypeOK
<1>2. CallerInv(c) BY DEF SignerIInv
<1> QED BY <1>1, <1>2 DEF CallerInv, CallersStay, Active, NamesItsSigner

\* A step that neither moves a caller nor sets the mode.
LEMMA StillInv ==
    ASSUME SignerIInv, UNCHANGED <<primary_healthy, pc, proof, quiet>>
    PROVE  SignerIInv'
<1> SUFFICES ASSUME NEW c \in Callers PROVE CallerInv(c)' BY DEF SignerIInv
<1>1. CallerInv(c) BY DEF SignerIInv
<1> QED BY <1>1 DEF CallerInv, Active, NamesItsSigner

\* A step of one caller is the business of that caller.
LEMMA OneCallerInv ==
    ASSUME SignerIInv, NEW c \in Callers, OthersStay(c), CallerInv(c)'
    PROVE  SignerIInv'
<1> SUFFICES ASSUME NEW d \in Callers, d # c PROVE CallerInv(d)' BY DEF SignerIInv
<1>1. CallerInv(d) BY DEF SignerIInv
<1> QED BY <1>1 DEF CallerInv, OthersStay, Active, NamesItsSigner

\* The steps of a caller keep its proof right.
LEMMA CallerStepInv ==
    ASSUME SignerTypeOK, SignerIInv, NEW c \in Callers, BeginSign(c) \/ CallerStep(c) \/ Raise(c)
    PROVE  SignerIInv'
<1>0. CallerInv(c) BY DEF SignerIInv
<1>1. CASE BeginSign(c)
  <2>1. OthersStay(c) BY <1>1 DEF BeginSign, Goto, OthersStay, SignerTypeOK
  <2>2. CallerInv(c)' BY <1>1 DEF BeginSign, Goto, CallerInv, Active, SignerTypeOK
  <2> QED BY <2>1, <2>2, OneCallerInv
<1>2. CASE PrimarySigns(c)
  <2>1. OthersStay(c) BY <1>2 DEF PrimarySigns, SignWith, Goto, OthersStay, SignerTypeOK
  <2>2. CallerInv(c)'
    BY <1>0, <1>2 DEF PrimarySigns, SignWith, Goto, CallerInv, Active, SignerTypeOK
  <2> QED BY <2>1, <2>2, OneCallerInv
<1>3. CASE ResetConsecutive(c)
  <2>1. OthersStay(c) BY <1>3 DEF ResetConsecutive, Goto, OthersStay, SignerTypeOK
  <2>2. CallerInv(c)' BY <1>0, <1>3 DEF ResetConsecutive, Goto, CallerInv, Active, SignerTypeOK
  <2> QED BY <2>1, <2>2, OneCallerInv
<1>4. CASE PrimaryFails(c)
  <2>1. OthersStay(c) BY <1>4 DEF PrimaryFails, Goto, OthersStay, SignerTypeOK
  <2>2. CallerInv(c)' BY <1>4 DEF PrimaryFails, CallerInv, SignerTypeOK
  <2> QED BY <2>1, <2>2, OneCallerInv
<1>5. CASE HandlePrimaryFailure(c)
  <2>1. ~quiet[c] /\ proof' = proof BY <1>0, <1>5 DEF HandlePrimaryFailure, CallerInv
  <2>2. \A d \in Callers : quiet'[d] =>
            quiet[d] /\ primary_healthy' = primary_healthy
    BY <1>5 DEF HandlePrimaryFailure, SetHealthy, SignerTypeOK
  <2>3. \A d \in Callers \ {c} : pc'[d] = pc[d]
    BY <1>5 DEF HandlePrimaryFailure, Goto, SignerTypeOK
  <2> SUFFICES ASSUME NEW d \in Callers, quiet'[d] PROVE CallerInv(d)'
    BY DEF SignerIInv, CallerInv
  <2>4. d # c /\ CallerInv(d) BY <2>1, <2>2 DEF SignerIInv
  <2> QED BY <2>1, <2>2, <2>3, <2>4 DEF CallerInv, Active, NamesItsSigner
<1>6. CASE FallbackSigns(c)
  <2>1. OthersStay(c) BY <1>6 DEF FallbackSigns, SignWith, Goto, OthersStay, SignerTypeOK
  <2>2. CallerInv(c)'
    BY <1>0, <1>6 DEF FallbackSigns, SignWith, Goto, CallerInv, Active, SignerTypeOK
  <2> QED BY <2>1, <2>2, OneCallerInv
<1>7. CASE get_key_id(c)
  <2>1. OthersStay(c) BY <1>7 DEF get_key_id, Goto, OthersStay, SignerTypeOK
  <2>2. CallerInv(c)' BY <1>0, <1>7 DEF get_key_id, Goto, CallerInv, Active, SignerTypeOK
  <2> QED BY <2>1, <2>2, OneCallerInv
<1>8. CASE get_public_key(c)
  <2>1. OthersStay(c) BY <1>8 DEF get_public_key, Goto, OthersStay, SignerTypeOK
  <2>2. CallerInv(c)'
    BY <1>0, <1>8 DEF get_public_key, Goto, CallerInv, Active, NamesItsSigner, SignerTypeOK
  <2> QED BY <2>1, <2>2, OneCallerInv
<1>9. CASE Done(c) \/ Raise(c)
  <2>1. OthersStay(c) BY <1>9 DEF Done, Raise, Goto, OthersStay, SignerTypeOK
  <2>2. CallerInv(c)' BY <1>9 DEF Done, Raise, Goto, CallerInv, SignerTypeOK
  <2> QED BY <2>1, <2>2, OneCallerInv
<1> QED BY <1>1, <1>2, <1>3, <1>4, <1>5, <1>6, <1>7, <1>8, <1>9 DEF CallerStep

\* So does every other step.
LEMMA OtherInv ==
    ASSUME SignerTypeOK, SignerIInv,
           \/ \E p \in Probes : ProbeStep(p)
           \/ ForceFailover \/ ForceFailback \/ OperatorStep \/ KmsDown \/ KmsUp
    PROVE  SignerIInv'
<1>1. ASSUME NEW p \in Probes, ProbeStep(p) PROVE SignerIInv'
  <2>1. CASE ProbeRestores(p) BY <2>1, SetHealthyInv DEF ProbeRestores, CallersStay
  <2>2. CASE ProbeWakes(p) \/ ProbeCalls(p) \/ ProbeRecords(p) \/ ProbeEnds(p)
    BY <2>2, StillInv DEF ProbeWakes, ProbeCalls, ProbeRecords, ProbeEnds
  <2> QED BY <1>1, <2>1, <2>2 DEF ProbeStep
<1>2. CASE ForceFailover \/ ForceFailback
  BY <1>2, SetHealthyInv DEF ForceFailover, ForceFailback, CallersStay
<1>3. CASE OperatorStep \/ KmsDown \/ KmsUp
  BY <1>3, StillInv
     DEF OperatorStep, ForceCheckProbe, ForceCreateProbe, ForceRecord, KmsDown, KmsUp
<1> QED BY <1>1, <1>2, <1>3

\* Every step keeps the types and the proofs.
LEMMA SignerNextInv == SignerTypeOK /\ SignerIInv /\ [SignerNext]_signerVars => SignerTypeOK' /\ SignerIInv'
<1> SUFFICES ASSUME SignerTypeOK, SignerIInv, [SignerNext]_signerVars PROVE SignerTypeOK' /\ SignerIInv' OBVIOUS
<1>1. CASE UNCHANGED signerVars
  <2>1. SignerTypeOK' BY <1>1 DEF signerVars, SignerTypeOK
  <2>2. SignerIInv' BY <1>1, StillInv DEF signerVars
  <2> QED BY <2>1, <2>2
<1>2. CASE SignerNext
  BY <1>2, CallerType, OtherType, CallerStepInv, OtherInv DEF SignerNext
<1> QED BY <1>1, <1>2

\* However callers, probe threads and the operator interleave, a proof whose
\* making saw neither a failed primary signature nor a change of mode names, in
\* key_id and public_key, the key that signed it.
THEOREM ProofsNameTheirSigner == SignerSpec => []SignerInv
<1>1. SignerInit => SignerTypeOK /\ SignerIInv BY SignerInitType DEF SignerInit, SignerIInv, CallerInv
<1>2. SignerTypeOK /\ SignerIInv => SignerInv
  BY DEF SignerIInv, CallerInv, SignerInv, QuietProofsNameTheirSigner
<1> QED BY <1>1, <1>2, SignerNextInv, PTL DEF SignerSpec

-----------------------------------------------------------------------------
(* RateLimiter, for every number of tenants, threads and requests, and for *)
(* all limits.                                                             *)

-----------------------------------------------------------------------------
(* What Fresh keeps.  The prover has no induction over sequences: a set of *)
(* numbers without a least number outside it is all of Nat.                *)

\* Induction, as a statement about a set.
LEMMA AllNumbers ==
    ASSUME NEW S \in SUBSET Nat, 0 \in S, \A n \in S : n + 1 \in S
    PROVE  S = Nat
<1> SUFFICES ASSUME Nat \ S # {} PROVE FALSE OBVIOUS
<1>1. PICK x \in Nat \ S : \A y \in Nat \ S : ~(<<y, x>> \in OpToRel(<, Nat))
  BY NatLessThanWellFounded, WFMin
<1>0. x \in Nat /\ x \notin S OBVIOUS
<1>2. x # 0 /\ x - 1 \in Nat /\ x - 1 < x /\ (x - 1) + 1 = x
  <2>1. x # 0 BY <1>0
  <2> QED BY <2>1, <1>0
<1>3. CASE x - 1 \in S
  <2>1. (x - 1) + 1 \in S BY <1>3
  <2> QED BY <2>1, <1>0, <1>2
<1>4. CASE x - 1 \notin S
  <2>1. <<x - 1, x>> \in {ss \in Nat \X Nat : ss[1] < ss[2]} BY <1>1, <1>2
  <2> QED BY <2>1, <1>1, <1>2, <1>4 DEF OpToRel
<1> QED BY <1>3, <1>4

\* The list comprehension, element by element, as far as n.
Keeps(kept, ts, now, n) ==
    /\ kept[0] = <<>>
    /\ \A k \in 1 .. n : kept[k] = IF ts[k] + Window > now THEN Append(kept[k - 1], ts[k])
                                   ELSE kept[k - 1]

\* There is such a function.
LEMMA KeepsExists ==
    ASSUME NEW ts \in Seq(Nat), NEW now \in Nat
    PROVE  \E kept \in [0 .. Len(ts) -> Seq(Nat)] : Keeps(kept, ts, now, Len(ts))
<1> DEFINE P(n) == \E kept \in [0 .. n -> Seq(Nat)] : Keeps(kept, ts, now, n)
           S == {n \in Nat : n <= Len(ts) => P(n)}
<1>1. 0 \in S
  <2>1. [k \in 0 .. 0 |-> <<>>] \in [0 .. 0 -> Seq(Nat)] OBVIOUS
  <2>2. Keeps([k \in 0 .. 0 |-> <<>>], ts, now, 0) BY DEF Keeps
  <2> QED BY <2>1, <2>2
<1>2. ASSUME NEW n \in S PROVE n + 1 \in S
  <2> SUFFICES ASSUME n + 1 <= Len(ts) PROVE P(n + 1) OBVIOUS
  <2>0. n \in Nat /\ Len(ts) \in Nat /\ n + 1 \in 1 .. Len(ts) OBVIOUS
  <2>1. PICK old \in [0 .. n -> Seq(Nat)] : Keeps(old, ts, now, n) BY <1>2, <2>0
  <2> DEFINE last == IF ts[n + 1] + Window > now THEN Append(old[n], ts[n + 1]) ELSE old[n]
             new == [k \in 0 .. n + 1 |-> IF k = n + 1 THEN last ELSE old[k]]
  <2>2. old[n] \in Seq(Nat) /\ ts[n + 1] \in Nat BY <2>0, <2>1
  <2>3. last \in Seq(Nat) BY <2>2
  <2> HIDE DEF last
  <2>4. new \in [0 .. n + 1 -> Seq(Nat)]
    <3>1. \A k \in 0 .. n + 1 : k # n + 1 => k \in 0 .. n BY <2>0
    <3> QED BY <3>1, <2>1, <2>3
  <2>5. /\ new[n + 1] = last /\ \A k \in 0 .. n : new[k] = old[k]
    BY <2>0
  <2> HIDE DEF new
  <2>6. ASSUME NEW k \in 1 .. n + 1
        PROVE  new[k] = IF ts[k] + Window > now THEN Append(new[k - 1], ts[k]) ELSE new[k - 1]
    <3>1. CASE k = n + 1
      <4>1. k - 1 = n /\ n \in 0 .. n BY <3>1, <2>0
      <4> QED BY <4>1, <3>1, <2>5 DEF last
    <3>2. CASE k # n + 1
      <4>1. k \in 1 .. n /\ k \in 0 .. n /\ k - 1 \in 0 .. n BY <3>2, <2>0
      <4> QED BY <4>1, <2>1, <2>5 DEF Keeps
    <3> QED BY <3>1, <3>2
  <2>7. new[0] = <<>>
    <3>1. 0 \in 0 .. n BY <2>0
    <3> QED BY <3>1, <2>1, <2>5 DEF Keeps
  <2>8. Keeps(new, ts, now, n + 1) BY <2>6, <2>7 DEF Keeps
  <2> QED BY <2>4, <2>8
<1> HIDE DEF P
<1>3. S = Nat
  <2>1. S \in SUBSET Nat OBVIOUS
  <2> HIDE DEF S
  <2> QED BY <2>1, <1>1, <1>2, AllNumbers
<1>4. Len(ts) \in Nat OBVIOUS
<1>5. P(Len(ts)) BY <1>3, <1>4
<1> QED BY <1>5 DEF P

\* Fresh is the last value of one.
LEMMA FreshKeeps ==
    ASSUME NEW ts \in Seq(Nat), NEW now \in Nat
    PROVE  \E kept : Keeps(kept, ts, now, Len(ts)) /\ Fresh(ts, now) = kept[Len(ts)]
<1> DEFINE kept[n \in 0 .. Len(ts)] ==
             IF n = 0 THEN <<>>
             ELSE IF ts[n] + Window > now THEN Append(kept[n - 1], ts[n])
             ELSE kept[n - 1]
           R(f) == f = [n \in 0 .. Len(ts) |->
                          IF n = 0 THEN <<>>
                          ELSE IF ts[n] + Window > now THEN Append(f[n - 1], ts[n])
                          ELSE f[n - 1]]
<1>1. Fresh(ts, now) = kept[Len(ts)] BY DEF Fresh
<1>2. kept = CHOOSE f : R(f) OBVIOUS
<1> HIDE DEF kept
<1>3. \E f : R(f)
  <2>1. PICK f \in [0 .. Len(ts) -> Seq(Nat)] : Keeps(f, ts, now, Len(ts)) BY KeepsExists
  <2>2. \A n \in 0 .. Len(ts) : n # 0 => n \in 1 .. Len(ts) OBVIOUS
  <2>3. R(f) BY <2>1, <2>2 DEF Keeps
  <2> HIDE DEF R
  <2> QED BY <2>3
<1>4. R(kept)
  <2> HIDE DEF R
  <2> QED BY <1>2, <1>3
<1>5. Keeps(kept, ts, now, Len(ts))
  <2>1. 0 \in 0 .. Len(ts) /\ \A n \in 1 .. Len(ts) : n \in 0 .. Len(ts) /\ n # 0 OBVIOUS
  <2> QED BY <2>1, <1>4 DEF Keeps
<1> QED BY <1>1, <1>5

\* f says where each element of s stands in the first n elements of ts: s holds,
\* in their order, the elements that are still fresh, and no others.
Selection(f, s, ts, now, n) ==
    /\ s \in Seq(Nat)
    /\ f \in [1 .. Len(s) -> 1 .. n]
    /\ \A j, k \in 1 .. Len(s) : j < k => f[j] < f[k]
    /\ \A k \in 1 .. Len(s) : s[k] = ts[f[k]] /\ ts[f[k]] + Window > now
    /\ \A m \in 1 .. n : ts[m] + Window > now => \E k \in 1 .. Len(s) : f[k] = m

\* The next element is fresh.
LEMMA SelectionGrows ==
    ASSUME NEW ts \in Seq(Nat), NEW now \in Nat, NEW n \in Nat, n + 1 <= Len(ts),
           NEW s, NEW f, Selection(f, s, ts, now, n), ts[n + 1] + Window > now
    PROVE  \E g : Selection(g, Append(s, ts[n + 1]), ts, now, n + 1)
<1> DEFINE len == Len(s)
           t == Append(s, ts[n + 1])
           g == [k \in 1 .. len + 1 |-> IF k = len + 1 THEN n + 1 ELSE f[k]]
<1>0. s \in Seq(Nat) /\ len \in Nat /\ ts[n + 1] \in Nat BY DEF Selection
<1>1. /\ t \in Seq(Nat) /\ Len(t) = len + 1 /\ t[len + 1] = ts[n + 1]
      /\ \A k \in 1 .. len : t[k] = s[k]
  BY <1>0
<1>2. \A k \in 1 .. len : f[k] \in 1 .. n BY DEF Selection
<1>3. /\ g[len + 1] = n + 1 /\ \A k \in 1 .. len : g[k] = f[k]
  BY <1>0
<1>4. ASSUME NEW k \in 1 .. len + 1, k # len + 1 PROVE k \in 1 .. len
  <2> HIDE DEF len
  <2> QED BY <1>0, <1>4
<1>5. g \in [1 .. len + 1 -> 1 .. n + 1]
  <2>1. n + 1 \in 1 .. n + 1 /\ \A k \in 1 .. n : k \in 1 .. n + 1 OBVIOUS
  <2> QED BY <2>1, <1>2, <1>4
<1> HIDE DEF len, t, g
<1>6. ASSUME NEW j \in 1 .. len + 1, NEW k \in 1 .. len + 1, j < k PROVE g[j] < g[k]
  <2>1. j \in 1 .. len BY <1>6, <1>0
  <2>2. CASE k = len + 1 BY <2>1, <2>2, <1>2, <1>3
  <2>3. CASE k # len + 1
    <3>1. k \in 1 .. len BY <2>3, <1>4
    <3> QED BY <3>1, <2>1, <1>6, <1>3 DEF Selection, len
  <2> QED BY <2>2, <2>3
<1>7. ASSUME NEW k \in 1 .. len + 1 PROVE t[k] = ts[g[k]] /\ ts[g[k]] + Window > now
  <2>1. CASE k = len + 1 BY <2>1, <1>1, <1>3
  <2>2. CASE k # len + 1
    <3>1. k \in 1 .. len BY <2>2, <1>4
    <3> QED BY <3>1, <1>1, <1>3 DEF Selection, len
  <2> QED BY <2>1, <2>2
<1>8. ASSUME NEW m \in 1 .. n + 1, ts[m] + Window > now
      PROVE  \E k \in 1 .. len + 1 : g[k] = m
  <2>0. len + 1 \in 1 .. len + 1 /\ \A k \in 1 .. len : k \in 1 .. len + 1 BY <1>0
  <2>1. CASE m = n + 1 BY <2>0, <2>1, <1>3
  <2>2. CASE m # n + 1
    <3>1. m \in 1 .. n BY <2>2
    <3>2. PICK k \in 1 .. len : f[k] = m BY <3>1, <1>8 DEF Selection, len
    <3> QED BY <3>2, <2>0, <1>3
  <2> QED BY <2>1, <2>2
<1>9. Selection(g, t, ts, now, n + 1) BY <1>1, <1>5, <1>6, <1>7, <1>8 DEF Selection
<1> QED BY <1>9 DEF t

\* The next element is not.
LEMMA SelectionStays ==
    ASSUME NEW ts \in Seq(Nat), NEW now \in Nat, NEW n \in Nat, n + 1 <= Len(ts),
           NEW s, NEW f, Selection(f, s, ts, now, n), ~(ts[n + 1] + Window > now)
    PROVE  Selection(f, s, ts, now, n + 1)
<1>1. \A k \in 1 .. n : k \in 1 .. n + 1 OBVIOUS
<1>2. \A m \in 1 .. n + 1 : ts[m] + Window > now => m \in 1 .. n
  <2>1. \A m \in 1 .. n + 1 : m # n + 1 => m \in 1 .. n OBVIOUS
  <2> QED BY <2>1
<1> QED BY <1>1, <1>2 DEF Selection

\* What Fresh returns.
LEMMA FreshSelects ==
    ASSUME NEW ts \in Seq(Nat), NEW now \in Nat
    PROVE  \E f : Selection(f, Fresh(ts, now), ts, now, Len(ts))
<1>1. PICK kept : Keeps(kept, ts, now, Len(ts)) /\ Fresh(ts, now) = kept[Len(ts)]
  BY FreshKeeps
<1> DEFINE P(n) == \E f : Selection(f, kept[n], ts, now, n)
           S == {n \in Nat : n <= Len(ts) => P(n)}
<1>2. 0 \in S
  <2>1. kept[0] = <<>> BY <1>1 DEF Keeps
  <2>2. [k \in 1 .. 0 |-> 1] \in [1 .. 0 -> 1 .. 0] OBVIOUS
  <2>3. Selection([k \in 1 .. 0 |-> 1], <<>>, ts, now, 0) BY <2>2 DEF Selection
  <2> QED BY <2>1, <2>3
<1>3. ASSUME NEW n \in S PROVE n + 1 \in S
  <2> SUFFICES ASSUME n + 1 <= Len(ts) PROVE P(n + 1) OBVIOUS
  <2>0. n \in Nat /\ Len(ts) \in Nat /\ n + 1 \in 1 .. Len(ts) /\ (n + 1) - 1 = n OBVIOUS
  <2>1. PICK f : Selection(f, kept[n], ts, now, n) BY <2>0, <1>3
  <2>2. kept[n + 1] = IF ts[n + 1] + Window > now THEN Append(kept[n], ts[n + 1]) ELSE kept[n]
    BY <2>0, <1>1 DEF Keeps
  <2>3. CASE ts[n + 1] + Window > now BY <2>0, <2>1, <2>2, <2>3, SelectionGrows
  <2>4. CASE ~(ts[n + 1] + Window > now) BY <2>0, <2>1, <2>2, <2>4, SelectionStays
  <2> QED BY <2>3, <2>4
<1> HIDE DEF P
<1>4. S = Nat
  <2>1. S \in SUBSET Nat OBVIOUS
  <2> HIDE DEF S
  <2> QED BY <2>1, <1>2, <1>3, AllNumbers
<1>5. Len(ts) \in Nat OBVIOUS
<1>6. P(Len(ts)) BY <1>4, <1>5
<1> QED BY <1>1, <1>6 DEF P

-----------------------------------------------------------------------------
(* Counting.                                                               *)

\* The pigeonhole principle, for functions given without Injection.
LEMMA Injected ==
    ASSUME NEW S, NEW T, IsFiniteSet(T), NEW f \in [S -> T],
           \A a, b \in S : f[a] = f[b] => a = b
    PROVE  /\ IsFiniteSet(S) /\ Cardinality(S) <= Cardinality(T)
           /\ Cardinality(S) = Cardinality(T) => \A t \in T : \E s \in S : f[s] = t
<1>1. f \in Injection(S, T) BY DEF Injection, IsInjective
<1>2. f \in Surjection(S, T) => \A t \in T : \E s \in S : f[s] = t BY DEF Surjection
<1> QED BY <1>1, <1>2, FS_Injection

\* The elements of a sequence.
LEMMA Counting ==
    ASSUME NEW n \in Nat
    PROVE  IsFiniteSet(1 .. n) /\ Cardinality(1 .. n) = n
<1>1. 1 > n => n = 0 OBVIOUS
<1> QED BY <1>1, FS_Interval

\* An order that a function keeps makes it an injection.
LEMMA IncreasingInjective ==
    ASSUME NEW f, NEW n \in Nat, NEW m \in Nat, f \in [1 .. n -> 1 .. m],
           \A j, k \in 1 .. n : j < k => f[j] < f[k]
    PROVE  \A j, k \in 1 .. n : f[j] = f[k] => j = k
<1> SUFFICES ASSUME NEW j \in 1 .. n, NEW k \in 1 .. n, f[j] = f[k], j # k PROVE FALSE
  OBVIOUS
<1>1. f[j] \in Nat /\ f[k] \in Nat OBVIOUS
<1>2. j < k \/ k < j OBVIOUS
<1> QED BY <1>1, <1>2

\* What Fresh keeps of a window's times: no more of them, and fewer when one is old.
LEMMA FreshShrinks ==
    ASSUME NEW T \in SUBSET Nat, NEW ts \in Seq(T), NEW now \in Nat
    PROVE  /\ Fresh(ts, now) \in Seq(T)
           /\ Len(Fresh(ts, now)) <= Len(ts)
           /\ (\E m \in 1 .. Len(ts) : ~(ts[m] + Window > now)) => Len(Fresh(ts, now)) < Len(ts)
<1>0. ts \in Seq(Nat) /\ Len(ts) \in Nat /\ \A m \in 1 .. Len(ts) : ts[m] \in T
  <2>1. Len(ts) \in Nat /\ \A m \in 1 .. Len(ts) : ts[m] \in T OBVIOUS
  <2>2. \A m \in 1 .. Len(ts) : ts[m] \in Nat BY <2>1
  <2> QED BY <2>1, <2>2
<1>1. PICK f : Selection(f, Fresh(ts, now), ts, now, Len(ts)) BY <1>0, FreshSelects
<1> DEFINE s == Fresh(ts, now)
<1>2. /\ s \in Seq(Nat) /\ Len(s) \in Nat /\ f \in [1 .. Len(s) -> 1 .. Len(ts)]
      /\ \A j, k \in 1 .. Len(s) : j < k => f[j] < f[k]
      /\ \A k \in 1 .. Len(s) : s[k] = ts[f[k]] /\ ts[f[k]] + Window > now
  BY <1>1 DEF Selection
<1> HIDE DEF s
<1>3. \A j, k \in 1 .. Len(s) : f[j] = f[k] => j = k
  BY <1>0, <1>2, IncreasingInjective
<1>4. /\ Cardinality(1 .. Len(s)) = Len(s) /\ Cardinality(1 .. Len(ts)) = Len(ts)
      /\ IsFiniteSet(1 .. Len(ts))
  BY <1>0, <1>2, Counting
<1>5. /\ Cardinality(1 .. Len(s)) <= Cardinality(1 .. Len(ts))
      /\ Cardinality(1 .. Len(s)) = Cardinality(1 .. Len(ts)) =>
            \A t \in 1 .. Len(ts) : \E k \in 1 .. Len(s) : f[k] = t
  <2> DEFINE A == 1 .. Len(s)
             B == 1 .. Len(ts)
  <2>1. IsFiniteSet(B) /\ f \in [A -> B] /\ \A j, k \in A : f[j] = f[k] => j = k
    BY <1>2, <1>3, <1>4
  <2> HIDE DEF A, B
  <2>2. /\ Cardinality(A) <= Cardinality(B)
        /\ Cardinality(A) = Cardinality(B) => \A t \in B : \E k \in A : f[k] = t
    BY <2>1, Injected
  <2> QED BY <2>2 DEF A, B
<1>6. s \in Seq(T)
  <2>1. \A k \in 1 .. Len(s) : s[k] \in T BY <1>0, <1>2
  <2> QED BY <2>1, <1>2
<1>7. ASSUME NEW m \in 1 .. Len(ts), ~(ts[m] + Window > now) PROVE Len(s) # Len(ts)
  BY <1>7, <1>2, <1>4, <1>5
<1>8. Len(s) <= Len(ts) BY <1>4, <1>5
<1>9. (\E m \in 1 .. Len(ts) : ~(ts[m] + Window > now)) => Len(s) < Len(ts)
  BY <1>0, <1>2, <1>7, <1>8
<1> QED BY <1>6, <1>8, <1>9 DEF s

-----------------------------------------------------------------------------
(* One window: the times ts it holds, the times adm at which requests really *)
(* passed it.                                                              *)

\* A request counts until 60 seconds less the time of a check have passed.
Span == Window - MaxDelay

\* The requests that passed and count at the time clk.
RecentOf(adm, clk) == {m \in 1 .. Len(adm) : adm[m] + Span > clk}

\* Each of them has a timestamp of its own in the window, at most the time of a
\* check earlier than the moment it passed.
RememberedBy(ts, adm, clk) ==
    \E g \in [RecentOf(adm, clk) -> 1 .. Len(ts)] :
        /\ \A m, n \in RecentOf(adm, clk) : g[m] = g[n] => m = n
        /\ \A m \in RecentOf(adm, clk) : ts[g[m]] + MaxDelay >= adm[m]

\* The requests up to the n-th that count when the n-th passes.
Before(adm, n) == {m \in 1 .. n : adm[m] + Span > adm[n]}

\* Never more than the limit.
LimitOver(adm, lim) == \A n \in 1 .. Len(adm) : Cardinality(Before(adm, n)) <= lim

LEMMA Spans == Window \in Nat /\ MaxDelay \in Nat /\ Span \in Nat /\ Span + MaxDelay = Window
<1>1. Window \in Nat /\ MaxDelay \in Nat /\ MaxDelay < Window BY RateLimiterAssumption
<1> QED BY <1>1 DEF Span

\* The window holds as many times as requests count.
LEMMA RecentCounted ==
    ASSUME NEW ts \in Seq(Nat), NEW adm \in Seq(Nat), NEW clk \in Nat, RememberedBy(ts, adm, clk)
    PROVE  /\ IsFiniteSet(RecentOf(adm, clk))
           /\ Cardinality(RecentOf(adm, clk)) \in Nat
           /\ Cardinality(RecentOf(adm, clk)) <= Len(ts)
<1> DEFINE A == RecentOf(adm, clk)
           B == 1 .. Len(ts)
<1>1. Len(ts) \in Nat OBVIOUS
<1>2. IsFiniteSet(B) /\ Cardinality(B) = Len(ts) BY <1>1, Counting
<1>3. PICK g \in [A -> B] : \A m, n \in A : g[m] = g[n] => m = n BY DEF RememberedBy
<1> HIDE DEF A, B
<1>4. IsFiniteSet(A) /\ Cardinality(A) <= Cardinality(B) BY <1>2, <1>3, Injected
<1>5. Cardinality(A) \in Nat BY <1>4, FS_CardinalityType
<1> QED BY <1>2, <1>4, <1>5 DEF A

\* Time passes: fewer requests count.
LEMMA RememberedLater ==
    ASSUME NEW ts \in Seq(Nat), NEW adm \in Seq(Nat), NEW clk \in Nat, RememberedBy(ts, adm, clk)
    PROVE  RememberedBy(ts, adm, clk + 1)
<1> DEFINE A == RecentOf(adm, clk)
           B == RecentOf(adm, clk + 1)
<1>1. PICK g \in [A -> 1 .. Len(ts)] :
        /\ \A m, n \in A : g[m] = g[n] => m = n
        /\ \A m \in A : ts[g[m]] + MaxDelay >= adm[m]
  BY DEF RememberedBy
<1>2. B \subseteq A
  <2> SUFFICES ASSUME NEW m \in 1 .. Len(adm), adm[m] + Span > clk + 1
               PROVE  adm[m] + Span > clk
    BY DEF RecentOf
  <2>1. adm[m] \in Nat OBVIOUS
  <2> QED BY <2>1, Spans
<1> DEFINE h == [m \in B |-> g[m]]
<1> HIDE DEF A, B
<1>3. h \in [B -> 1 .. Len(ts)] BY <1>1, <1>2
<1>4. /\ \A m, n \in B : h[m] = h[n] => m = n
      /\ \A m \in B : ts[h[m]] + MaxDelay >= adm[m]
  BY <1>1, <1>2
<1> HIDE DEF h
<1> QED BY <1>3, <1>4 DEF B, RememberedBy

\* What a check drops from the window, its time taken at most the time of a check
\* ago, is the time of no request that counts.
LEMMA RememberedFiltered ==
    ASSUME NEW ts \in Seq(Nat), NEW adm \in Seq(Nat), NEW clk \in Nat, NEW now \in Nat,
           now <= clk, RememberedBy(ts, adm, clk)
    PROVE  RememberedBy(Fresh(ts, now), adm, clk)
<1> DEFINE A == RecentOf(adm, clk)
           s == Fresh(ts, now)
<1>0. \A k \in 1 .. Len(adm) : adm[k] \in Nat OBVIOUS
<1>1. PICK g \in [A -> 1 .. Len(ts)] :
        /\ \A m, n \in A : g[m] = g[n] => m = n
        /\ \A m \in A : ts[g[m]] + MaxDelay >= adm[m]
  BY DEF RememberedBy
<1>2. PICK f : Selection(f, s, ts, now, Len(ts)) BY FreshSelects
<1>3. ASSUME NEW m \in A PROVE \E k \in 1 .. Len(s) : f[k] = g[m]
  <2>1. m \in 1 .. Len(adm) /\ adm[m] + Span > clk BY DEF RecentOf
  <2>2. g[m] \in 1 .. Len(ts) /\ ts[g[m]] + MaxDelay >= adm[m] BY <1>1
  <2> DEFINE x == ts[g[m]]
             y == adm[m]
  <2>3. y \in Nat /\ x \in Nat
    <3>1. y \in Nat BY <1>0, <2>1
    <3>2. \A k \in 1 .. Len(ts) : ts[k] \in Nat OBVIOUS
    <3>3. x \in Nat BY <3>2, <2>2
    <3> QED BY <3>1, <3>3
  <2>5. y + Span > clk /\ x + MaxDelay >= y BY <2>1, <2>2
  <2> HIDE DEF x, y
  <2>6. x + Window > now BY <2>3, <2>5, Spans
  <2>4. ts[g[m]] + Window > now BY <2>6 DEF x
  <2> QED BY <1>2, <2>2, <2>4 DEF Selection
<1> DEFINE h == [m \in A |-> CHOOSE k \in 1 .. Len(s) : f[k] = g[m]]
<1> HIDE DEF A
<1>4. \A m \in A : h[m] \in 1 .. Len(s) /\ f[h[m]] = g[m] BY <1>3
<1>5. h \in [A -> 1 .. Len(s)] BY <1>4
<1> HIDE DEF h
<1>6. \A m \in A : s[h[m]] = ts[g[m]] BY <1>2, <1>4 DEF Selection
<1>7. \A m, n \in A : h[m] = h[n] => m = n BY <1>1, <1>4
<1>8. \A m \in A : s[h[m]] + MaxDelay >= adm[m] BY <1>1, <1>6
<1> HIDE DEF s
<1>9. RememberedBy(s, adm, clk) BY <1>5, <1>7, <1>8 DEF RememberedBy, A
<1> QED BY <1>9 DEF s

\* The record of what passed forgets requests that no longer count.
LEMMA RememberedForgets ==
    ASSUME NEW ts \in Seq(Nat), NEW adm \in Seq(Nat), NEW clk \in Nat, RememberedBy(ts, adm, clk)
    PROVE  RememberedBy(ts, Fresh(adm, clk), clk)
<1> DEFINE A == RecentOf(adm, clk)
           s == Fresh(adm, clk)
           B == RecentOf(s, clk)
<1>1. PICK g \in [A -> 1 .. Len(ts)] :
        /\ \A m, n \in A : g[m] = g[n] => m = n
        /\ \A m \in A : ts[g[m]] + MaxDelay >= adm[m]
  BY DEF RememberedBy
<1>2. PICK f : Selection(f, s, adm, clk, Len(adm)) BY FreshSelects
<1>3. /\ s \in Seq(Nat) /\ Len(s) \in Nat /\ Len(adm) \in Nat /\ f \in [1 .. Len(s) -> 1 .. Len(adm)]
      /\ \A j, k \in 1 .. Len(s) : j < k => f[j] < f[k]
      /\ \A k \in 1 .. Len(s) : s[k] = adm[f[k]]
  BY <1>2 DEF Selection
<1> HIDE DEF s
<1>4. \A j, k \in 1 .. Len(s) : f[j] = f[k] => j = k BY <1>3, IncreasingInjective
<1>5. \A k \in B : k \in 1 .. Len(s) /\ f[k] \in A /\ s[k] = adm[f[k]] BY <1>3 DEF RecentOf
<1> HIDE DEF A, B
<1> DEFINE h == [k \in B |-> g[f[k]]]
<1>6. h \in [B -> 1 .. Len(ts)] BY <1>1, <1>5
<1>7. \A k \in B : h[k] = g[f[k]] OBVIOUS
<1> HIDE DEF h
<1>8. ASSUME NEW j \in B, NEW k \in B, h[j] = h[k] PROVE j = k
  <2>1. f[j] \in A /\ f[k] \in A /\ g[f[j]] = g[f[k]] BY <1>5, <1>7, <1>8
  <2>2. f[j] = f[k] BY <2>1, <1>1
  <2> QED BY <2>2, <1>4, <1>5
<1>9. \A k \in B : ts[h[k]] + MaxDelay >= s[k] BY <1>1, <1>5, <1>7
<1>10. RememberedBy(ts, s, clk) BY <1>6, <1>8, <1>9 DEF RememberedBy, B
<1> QED BY <1>10 DEF s

\* A request passes.
LEMMA RememberedPass ==
    ASSUME NEW ts \in Seq(Nat), NEW adm \in Seq(Nat), NEW clk \in Nat, NEW now \in Nat,
           clk <= now + MaxDelay, RememberedBy(ts, adm, clk)
    PROVE  RememberedBy(Append(ts, now), Append(adm, clk), clk)
<1> DEFINE A == RecentOf(adm, clk)
           t == Append(ts, now)
           a == Append(adm, clk)
           B == RecentOf(a, clk)
           l == Len(ts) + 1
           p == Len(adm) + 1
<1>1. PICK g \in [A -> 1 .. Len(ts)] :
        /\ \A m, n \in A : g[m] = g[n] => m = n
        /\ \A m \in A : ts[g[m]] + MaxDelay >= adm[m]
  BY DEF RememberedBy
<1>2. /\ Len(ts) \in Nat /\ Len(t) = l /\ t[l] = now /\ \A k \in 1 .. Len(ts) : t[k] = ts[k]
  OBVIOUS
<1>3. /\ Len(adm) \in Nat /\ Len(a) = p /\ a[p] = clk /\ \A k \in 1 .. Len(adm) : a[k] = adm[k]
  OBVIOUS
<1>4. \A k \in 1 .. Len(ts) : k \in 1 .. l /\ k # l BY <1>2
<1>5. l \in 1 .. l BY <1>2
<1> HIDE DEF t, a
<1>6. \A m \in B : m = p \/ (m \in A /\ a[m] = adm[m])
  <2> SUFFICES ASSUME NEW m \in 1 .. p, a[m] + Span > clk, m # p PROVE m \in A /\ a[m] = adm[m]
    BY <1>3 DEF RecentOf
  <2>1. m \in 1 .. Len(adm) BY <1>3
  <2> QED BY <2>1, <1>3 DEF RecentOf
<1>7. p \notin A
  <2>1. p \notin 1 .. Len(adm) BY <1>3
  <2> QED BY <2>1 DEF RecentOf
<1> HIDE DEF A, B, l, p
<1> DEFINE h == [m \in B |-> IF m = p THEN l ELSE g[m]]
<1>8. h \in [B -> 1 .. l] BY <1>1, <1>4, <1>5, <1>6
<1>9. \A m \in B : h[m] = IF m = p THEN l ELSE g[m] OBVIOUS
<1> HIDE DEF h
<1>10. ASSUME NEW m \in B, NEW n \in B, h[m] = h[n] PROVE m = n
  <2>1. \A k \in B : k # p => k \in A /\ h[k] = g[k] /\ h[k] # l BY <1>1, <1>4, <1>6, <1>9
  <2>2. \A k \in B : k = p => h[k] = l BY <1>9
  <2>3. CASE m = p BY <2>1, <2>2, <2>3, <1>10
  <2>4. CASE n = p BY <2>1, <2>2, <2>4, <1>10
  <2>5. CASE m # p /\ n # p BY <2>1, <2>5, <1>1, <1>10
  <2> QED BY <2>3, <2>4, <2>5
<1>11. ASSUME NEW m \in B PROVE t[h[m]] + MaxDelay >= a[m]
  <2>1. CASE m = p BY <2>1, <1>2, <1>3, <1>9, Spans
  <2>2. CASE m # p
    <3>1. m \in A /\ a[m] = adm[m] /\ h[m] = g[m] BY <2>2, <1>6, <1>9
    <3>2. t[h[m]] = ts[g[m]] BY <3>1, <1>1, <1>2
    <3> QED BY <3>1, <3>2, <1>1
  <2> QED BY <2>1, <2>2
<1>12. RememberedBy(t, a, clk) BY <1>2, <1>8, <1>10, <1>11 DEF RememberedBy, B
<1> QED BY <1>12 DEF t, a

\* Forgetting old requests leaves the limit kept: what counts among the rest counted before.
LEMMA LimitForgets ==
    ASSUME NEW adm \in Seq(Nat), NEW clk \in Nat, NEW lim \in Nat, LimitOver(adm, lim)
    PROVE  LimitOver(Fresh(adm, clk), lim)
<1> DEFINE s == Fresh(adm, clk)
<1>1. PICK f : Selection(f, s, adm, clk, Len(adm)) BY FreshSelects
<1>2. /\ s \in Seq(Nat) /\ Len(s) \in Nat /\ Len(adm) \in Nat /\ f \in [1 .. Len(s) -> 1 .. Len(adm)]
      /\ \A j, k \in 1 .. Len(s) : j < k => f[j] < f[k]
      /\ \A k \in 1 .. Len(s) : s[k] = adm[f[k]]
  BY <1>1 DEF Selection
<1> HIDE DEF s
<1>3. \A j, k \in 1 .. Len(s) : f[j] = f[k] => j = k BY <1>2, IncreasingInjective
<1> SUFFICES ASSUME NEW n \in 1 .. Len(s) PROVE Cardinality(Before(s, n)) <= lim
  BY DEF LimitOver, s
<1> DEFINE A == Before(s, n)
           B == Before(adm, f[n])
           g == [k \in A |-> f[k]]
<1>4. f[n] \in 1 .. Len(adm) BY <1>2
<1>5. IsFiniteSet(B) /\ Cardinality(B) \in Nat
  <2>1. f[n] \in Nat BY <1>4
  <2>2. IsFiniteSet(1 .. f[n]) BY <2>1, Counting
  <2>3. B \in SUBSET (1 .. f[n]) BY DEF Before
  <2> HIDE DEF B
  <2>4. IsFiniteSet(B) BY <2>2, <2>3, FS_Subset
  <2> QED BY <2>4, FS_CardinalityType
<1>6. ASSUME NEW k \in A PROVE k \in 1 .. Len(s) /\ f[k] \in B
  <2>1. k \in 1 .. n /\ s[k] + Span > s[n] BY DEF Before
  <2>2. k \in 1 .. Len(s) /\ (k < n \/ k = n) BY <2>1, <1>2
  <2>3. f[k] \in 1 .. f[n]
    <3>1. f[k] \in 1 .. Len(adm) BY <2>2, <1>2
    <3>2. f[k] < f[n] \/ f[k] = f[n] BY <2>2, <1>2
    <3> QED BY <3>1, <3>2, <1>4, <1>2
  <2>4. adm[f[k]] + Span > adm[f[n]] BY <2>1, <2>2, <1>2
  <2> QED BY <2>2, <2>3, <2>4 DEF Before
<1> HIDE DEF A, B
<1>7. g \in [A -> B] BY <1>6
<1>8. \A j, k \in A : g[j] = g[k] => j = k BY <1>3, <1>6
<1> HIDE DEF g
<1>9. IsFiniteSet(A) /\ Cardinality(A) <= Cardinality(B) BY <1>5, <1>7, <1>8, Injected
<1>10. Cardinality(A) \in Nat BY <1>9, FS_CardinalityType
<1>11. Cardinality(B) <= lim BY <1>4 DEF LimitOver, B
<1> QED BY <1>5, <1>9, <1>10, <1>11 DEF A

\* A request passes while less than the limit of them count.
LEMMA LimitPass ==
    ASSUME NEW adm \in Seq(Nat), NEW clk \in Nat, NEW lim \in Nat, LimitOver(adm, lim),
           IsFiniteSet(RecentOf(adm, clk)), Cardinality(RecentOf(adm, clk)) < lim
    PROVE  LimitOver(Append(adm, clk), lim)
<1> DEFINE a == Append(adm, clk)
           p == Len(adm) + 1
<1>1. /\ Len(adm) \in Nat /\ Len(a) = p /\ a[p] = clk /\ \A k \in 1 .. Len(adm) : a[k] = adm[k]
  OBVIOUS
<1> HIDE DEF a
<1> SUFFICES ASSUME NEW n \in 1 .. p PROVE Cardinality(Before(a, n)) <= lim
  BY <1>1 DEF LimitOver, a
<1>2. CASE n # p
  <2>1. n \in 1 .. Len(adm) /\ \A m \in 1 .. n : m \in 1 .. Len(adm) BY <1>1, <1>2
  <2>2. a[n] = adm[n] /\ \A m \in 1 .. n : a[m] = adm[m] BY <2>1, <1>1
  <2>3. Before(a, n) = Before(adm, n) BY <2>2 DEF Before
  <2> QED BY <2>1, <2>3 DEF LimitOver
<1>3. CASE n = p
  <2> DEFINE R == RecentOf(adm, clk)
  <2>1. Before(a, p) \subseteq R \cup {p}
    <3> SUFFICES ASSUME NEW m \in 1 .. p, a[m] + Span > clk, m # p PROVE m \in R
      BY <1>1 DEF Before
    <3>1. m \in 1 .. Len(adm) BY <1>1
    <3> QED BY <3>1, <1>1 DEF RecentOf
  <2> HIDE DEF R
  <2>2. /\ IsFiniteSet(R \cup {p})
        /\ Cardinality(R \cup {p}) = IF p \in R THEN Cardinality(R) ELSE Cardinality(R) + 1
    BY FS_AddElement DEF R
  <2>3. Cardinality(R) \in Nat /\ Cardinality(R) < lim BY FS_CardinalityType DEF R
  <2>4. Cardinality(R \cup {p}) <= lim BY <2>2, <2>3
  <2> DEFINE B == Before(a, p)
             C == R \cup {p}
  <2>5. IsFiniteSet(C) /\ B \in SUBSET C BY <2>1, <2>2
  <2> HIDE DEF B, C
  <2>6. Cardinality(B) <= Cardinality(C) /\ IsFiniteSet(B) BY <2>5, FS_Subset
  <2>7. Cardinality(B) \in Nat /\ Cardinality(C) \in Nat BY <2>5, <2>6, FS_CardinalityType
  <2>8. Cardinality(C) <= lim BY <2>4 DEF C
  <2>9. Cardinality(B) <= lim BY <2>6, <2>7, <2>8
  <2> QED BY <2>9, <1>3 DEF B
<1> QED BY <1>2, <1>3

\* The seconds a refused client waits outlast the timestamp it is told about.
LEMMA RetryOutlasts ==
    ASSUME NEW oldest \in Nat, NEW now \in Nat, oldest + Window > now
    PROVE  now + retry_after(oldest, now) \in Nat /\ oldest + Window < now + retry_after(oldest, now)
<1>1. TicksPerSecond \in Nat /\ TicksPerSecond > 0 BY RateLimiterAssumption
<1> DEFINE x == Window + oldest - now
           T == TicksPerSecond
           q == x \div T
<1>2. x \in Nat /\ oldest + Window = now + x BY Spans
<1> HIDE DEF x
<1>3. q \in Nat /\ x < (q + 1) * T /\ (q + 1) * T \in Nat BY <1>1, <1>2
<1>4. retry_after(oldest, now) = (q + 1) * T BY DEF retry_after, x
<1> HIDE DEF q, T
<1> DEFINE r == (q + 1) * T
<1>5. r \in Nat /\ x < r BY <1>3
<1> HIDE DEF r
<1>6. now + r \in Nat /\ now + x < now + r BY <1>5, <1>2
<1> QED BY <1>2, <1>4, <1>6 DEF r

-----------------------------------------------------------------------------
(* The inductive invariant.                                                *)

Times == 0 .. MaxClock

\* A check that has got hold of a limiter, and one that has come to the tenant's windows.
Holding(c) == c.layer \in {"global", "tenant", "write"}
Tenanted(c) == c.layer \in {"tenant", "write"}

\* The window that the thread m made for an entry.
WindowFor(e, m) == [limiter |-> e.limiter, layer |-> e.layer, tenant |-> e.tenant, maker |-> m]

\* When requests passed a window; nothing has happened to it yet.
Passed(w) == {admitted[w][n] : n \in 1 .. Len(admitted[w])}
Untouched(w) == timestamps[w] = <<>> /\ admitted[w] = <<>> /\ retryAt[w] = 0

LimiterShape ==
    /\ clock \in Times /\ requests \in 0 .. MaxRequests
    /\ limiter \in Threads \cup {NoThread}
    /\ windows \in [Entries -> Threads \cup {NoThread}]
    /\ timestamps \in [WindowIds -> Seq(Times)]
    /\ admitted \in [WindowIds -> Seq(Times)]
    /\ retryAt \in [WindowIds -> Nat]
    /\ thread \in [Threads -> Check \cup {NoCheck}]

\* A check is not older than it may be, it has got hold of a limiter or a window only
\* when there is one, and then it makes none.
CheckOK(th) ==
    LET c == thread[th]
    IN  c # NoCheck =>
          /\ c.since <= clock /\ clock <= c.since + MaxDelay
          /\ c.layer = "get" => c.maker = NoThread /\ (c.creating \/ limiter # NoThread)
          /\ Holding(c) => c.limiter \in Threads /\ limiter # NoThread
          /\ c.layer = "global" => c.maker = c.limiter
          /\ c.maker # NoThread => ~c.creating
          /\ Tenanted(c) /\ c.maker # NoThread => windows[EntryOf(c)] # NoThread

\* A window is within its limit, every request that counts has a timestamp in it, and
\* the limit has been kept.  A client it refused comes back when the timestamp it was
\* told about is gone.
WindowOK(w) ==
    /\ Len(timestamps[w]) <= Limit(w)
    /\ RememberedBy(timestamps[w], admitted[w], clock)
    /\ LimitOver(admitted[w], Limit(w))
    /\ retryAt[w] # 0 => timestamps[w] # <<>> /\ timestamps[w][1] + Window < retryAt[w]
    /\ \A x \in Passed(w) : x <= clock

\* The limiter that a thread is about to make is made for the first time.
NewLimiterOK(th) ==
    thread[th].layer = "get" /\ thread[th].creating =>
        /\ limiter # th /\ Untouched(GlobalWindow(th))
        /\ \A t \in Threads : Holding(thread[t]) => thread[t].limiter # th

\* So is the window.
NewWindowOK(th) ==
    LET e == EntryOf(thread[th])
    IN  Tenanted(thread[th]) /\ thread[th].creating =>
          /\ windows[e] # th /\ Untouched(WindowFor(e, th))
          /\ \A t \in Threads :
                Tenanted(thread[t]) /\ EntryOf(thread[t]) = e => thread[t].maker # th

\* Nothing is counted before there is a limiter and a window.
NotYet ==
    /\ limiter = NoThread => \A w \in WindowIds : Untouched(w)
    /\ \A e \in Entries, m \in Threads : windows[e] = NoThread => Untouched(WindowFor(e, m))

\* A check that holds a replaced limiter, or a replaced window, began before anything
\* passed the one that stays.
HeldOK(th) ==
    LET c == thread[th]
        e == EntryOf(c)
    IN  /\ Holding(c) /\ c.limiter # limiter =>
              \A y \in Passed(GlobalWindow(limiter)) : c.since <= y
        /\ Tenanted(c) /\ c.maker # NoThread /\ c.maker # windows[e] =>
              \A y \in Passed(WindowFor(e, windows[e])) : c.since <= y

\* v stays in the place of w.
Replaces(v, w) ==
    \/ w.limiter # limiter /\ v = GlobalWindow(limiter)
    \/ /\ w.layer # "global" /\ w.maker # windows[EntryOf(w)]
       /\ v = WindowFor(EntryOf(w), windows[EntryOf(w)])

Fading ==
    \A v, w \in WindowIds : Replaces(v, w) =>
        \A x \in Passed(w), y \in Passed(v) : x <= y + MaxDelay

LimiterIInv ==
    /\ LimiterShape
    /\ \A th \in Threads : CheckOK(th)
    /\ \A w \in WindowIds : WindowOK(w)
    /\ \A th \in Threads : NewLimiterOK(th)
    /\ \A th \in Threads : NewWindowOK(th)
    /\ NotYet
    /\ \A th \in Threads : HeldOK(th)
    /\ Fading

-----------------------------------------------------------------------------
(* Windows and their names.                                                *)

LEMMA NoThreadIsNone == NoThread \notin Threads
BY RateLimiterAssumption

LEMMA GlobalNames ==
    /\ \A l \in Threads : /\ GlobalWindow(l) \in WindowIds /\ GlobalWindow(l).limiter = l
                          /\ GlobalWindow(l).layer = "global"
    /\ \A l, k \in Threads : GlobalWindow(l) = GlobalWindow(k) => l = k
<1>1. ASSUME NEW l \in Threads
      PROVE  GlobalWindow(l) \in WindowIds /\ GlobalWindow(l).limiter = l /\ GlobalWindow(l).layer = "global"
  BY DEF GlobalWindow, WindowIds
<1>2. ASSUME NEW l \in Threads, NEW k \in Threads, GlobalWindow(l) = GlobalWindow(k) PROVE l = k
  BY <1>1, <1>2
<1> QED BY <1>1, <1>2

LEMMA EntryNames ==
    /\ \A e \in Entries, m \in Threads :
          LET w == WindowFor(e, m)
          IN  /\ w \in WindowIds /\ w.limiter = e.limiter /\ w.layer # "global" /\ w.maker = m
              /\ EntryOf(w) = e /\ e.limiter \in Threads
    /\ \A e, f \in Entries, m, k \in Threads : WindowFor(e, m) = WindowFor(f, k) => e = f /\ m = k
    /\ \A e \in Entries, m, l \in Threads : WindowFor(e, m) # GlobalWindow(l)
<1>1. ASSUME NEW e \in Entries, NEW m \in Threads
      PROVE  /\ WindowFor(e, m) \in WindowIds /\ WindowFor(e, m).limiter = e.limiter
             /\ WindowFor(e, m).layer # "global" /\ WindowFor(e, m).maker = m
             /\ EntryOf(WindowFor(e, m)) = e /\ e.limiter \in Threads
  <2>1. /\ e.limiter \in Threads /\ e.layer \in {"tenant", "write"} /\ e.tenant \in Tenants
        /\ e = [limiter |-> e.limiter, layer |-> e.layer, tenant |-> e.tenant]
    BY DEF Entries
  <2>2. WindowFor(e, m) \in WindowIds BY <2>1 DEF WindowFor, WindowIds
  <2>3. /\ WindowFor(e, m).limiter = e.limiter /\ WindowFor(e, m).layer = e.layer
        /\ WindowFor(e, m).tenant = e.tenant /\ WindowFor(e, m).maker = m
    BY DEF WindowFor
  <2>4. EntryOf(WindowFor(e, m)) = e BY <2>1, <2>3 DEF EntryOf
  <2> QED BY <2>1, <2>2, <2>3, <2>4
<1>2. ASSUME NEW e \in Entries, NEW f \in Entries, NEW m \in Threads, NEW k \in Threads,
             WindowFor(e, m) = WindowFor(f, k)
      PROVE  e = f /\ m = k
  BY <1>1, <1>2
<1>3. ASSUME NEW e \in Entries, NEW m \in Threads, NEW l \in Threads PROVE WindowFor(e, m) # GlobalWindow(l)
  BY <1>1, GlobalNames
<1> QED BY <1>1, <1>2, <1>3

\* Every window is a limiter's global one or one for an entry.
LEMMA WindowNames ==
    ASSUME NEW w \in WindowIds
    PROVE  \/ w.limiter \in Threads /\ w = GlobalWindow(w.limiter) /\ w.layer = "global"
           \/ /\ EntryOf(w) \in Entries /\ w.maker \in Threads /\ w = WindowFor(EntryOf(w), w.maker)
              /\ w.layer # "global"
<1>1. CASE \E l \in Threads : w = GlobalWindow(l) BY <1>1, GlobalNames
<1>2. CASE w \in [limiter : Threads, layer : {"tenant", "write"}, tenant : Tenants, maker : Threads]
  <2>1. /\ w.limiter \in Threads /\ w.layer \in {"tenant", "write"} /\ w.tenant \in Tenants
        /\ w.maker \in Threads
        /\ w = [limiter |-> w.limiter, layer |-> w.layer, tenant |-> w.tenant, maker |-> w.maker]
    BY <1>2
  <2>2. EntryOf(w) \in Entries BY <2>1 DEF EntryOf, Entries
  <2>3. w = WindowFor(EntryOf(w), w.maker) BY <2>1 DEF WindowFor, EntryOf
  <2> QED BY <2>1, <2>2, <2>3
<1> QED BY <1>1, <1>2 DEF WindowIds

LEMMA LimitsArePositive == \A w \in WindowIds : Limit(w) \in Nat /\ Limit(w) > 0
<1> SUFFICES ASSUME NEW w \in WindowIds PROVE Limit(w) \in Nat /\ Limit(w) > 0 OBVIOUS
<1>1. w.layer = "global" \/ w.layer = "tenant" \/ w.layer = "write"
  <2>1. CASE \E l \in Threads : w = GlobalWindow(l) BY <2>1 DEF GlobalWindow
  <2>2. CASE w \in [limiter : Threads, layer : {"tenant", "write"}, tenant : Tenants, maker : Threads]
    BY <2>2
  <2> QED BY <2>1, <2>2 DEF WindowIds
<1>2. {global_rpm, tenant_rpm, decision_rpm} \subseteq Nat \ {0} BY RateLimiterAssumption
<1>3. CASE w.layer = "global" BY <1>3, <1>2 DEF Limit
<1>4. CASE w.layer = "tenant" BY <1>4, <1>2 DEF Limit
<1>5. CASE w.layer = "write" BY <1>5, <1>2 DEF Limit
<1> QED BY <1>1, <1>3, <1>4, <1>5

\* What a check is about.
LEMMA CheckNames ==
    ASSUME NEW c \in Check
    PROVE  /\ c.since \in Times /\ c.creating \in BOOLEAN /\ c # NoCheck
           /\ c.maker \in Threads \cup {NoThread} /\ c.limiter \in Threads \cup {NoThread}
           /\ Tenanted(c) => Holding(c) /\ c.layer # "global" /\ c.layer # "get"
           /\ c.layer = "global" => Holding(c) /\ WindowOf(c) = GlobalWindow(c.limiter)
           /\ Holding(c) => c.layer # "get" /\ (c.layer = "global" \/ Tenanted(c))
           /\ Tenanted(c) /\ c.limiter \in Threads =>
                 EntryOf(c) \in Entries /\ WindowOf(c) = WindowFor(EntryOf(c), c.maker)
<1>1. /\ c.since \in Times /\ c.creating \in BOOLEAN /\ c.tenant \in Tenants
      /\ c.maker \in Threads \cup {NoThread} /\ c.limiter \in Threads \cup {NoThread}
      /\ c.layer \in {"get", "global", "tenant", "write"}
  BY DEF Check, Times
<1>2. c # NoCheck BY <1>1 DEF NoCheck
<1>3. c.layer = "global" => WindowOf(c) = GlobalWindow(c.limiter) BY DEF WindowOf
<1>4. ASSUME Tenanted(c), c.limiter \in Threads
      PROVE  EntryOf(c) \in Entries /\ WindowOf(c) = WindowFor(EntryOf(c), c.maker)
  BY <1>1, <1>4 DEF Tenanted, EntryOf, Entries, WindowOf, WindowFor
<1> QED BY <1>1, <1>2, <1>3, <1>4 DEF Holding, Tenanted

\* No check is none of them.
LEMMA NoCheckHolds == ~Holding(NoCheck) /\ ~Tenanted(NoCheck) /\ NoCheck.layer # "get"
BY DEF NoCheck, Holding, Tenanted

\* Times are numbers.
LEMMA TimesAreNumbers ==
    /\ MaxClock \in Nat /\ Times \in SUBSET Nat
    /\ \A s \in Seq(Times) : s \in Seq(Nat)
<1>1. MaxClock \in Nat BY RateLimiterAssumption
<1>2. Times \in SUBSET Nat BY <1>1 DEF Times
<1>3. ASSUME NEW s \in Seq(Times) PROVE s \in Seq(Nat)
  <2>1. Len(s) \in Nat /\ \A k \in 1 .. Len(s) : s[k] \in Times OBVIOUS
  <2>2. \A k \in 1 .. Len(s) : s[k] \in Nat BY <2>1, <1>2
  <2> QED BY <2>1, <2>2
<1> QED BY <1>1, <1>2, <1>3

\* Nothing has passed an untouched window.
LEMMA UntouchedPassed == \A w : Untouched(w) => Passed(w) = {}
<1> SUFFICES ASSUME NEW w, admitted[w] = <<>> PROVE Passed(w) = {} BY DEF Untouched
<1>1. Len(<<>>) = 0 /\ 1 .. 0 = {} OBVIOUS
<1> QED BY <1>1 DEF Passed

\* A window that nothing happens to.
LEMMA WindowStays ==
    ASSUME NEW w \in WindowIds, WindowOK(w), clock' = clock,
           timestamps'[w] = timestamps[w], admitted'[w] = admitted[w], retryAt'[w] = retryAt[w]
    PROVE  WindowOK(w)'
<1>1. Passed(w)' = Passed(w) BY DEF Passed
<1> QED BY <1>1 DEF WindowOK

\* A window with nothing in it.
LEMMA Nothing ==
    ASSUME NEW clk \in Nat, NEW lim \in Nat
    PROVE  RememberedBy(<<>>, <<>>, clk) /\ LimitOver(<<>>, lim)
<1>1. Len(<<>>) = 0 /\ 1 .. 0 = {} OBVIOUS
<1>2. RecentOf(<<>>, clk) = {} BY <1>1 DEF RecentOf
<1>3. [m \in {} |-> 1] \in [{} -> 1 .. Len(<<>>)] OBVIOUS
<1>4. RememberedBy(<<>>, <<>>, clk) BY <1>2, <1>3 DEF RememberedBy
<1>5. LimitOver(<<>>, lim) BY <1>1 DEF LimitOver
<1> QED BY <1>4, <1>5

LEMMA LimiterStarts ==
    ASSUME LimiterInit PROVE LimiterIInv
<1>1. LimiterShape
  <2>1. 0 \in Times /\ 0 \in 0 .. MaxRequests BY RateLimiterAssumption DEF Times
  <2>2. <<>> \in Seq(Times) OBVIOUS
  <2> QED BY <2>1, <2>2 DEF LimiterInit, LimiterShape
<1>2. \A th \in Threads : thread[th] = NoCheck BY DEF LimiterInit
<1>3. \A w \in WindowIds : Untouched(w) /\ Passed(w) = {}
  BY UntouchedPassed DEF LimiterInit, Untouched
<1>4. \A th \in Threads : CheckOK(th) BY <1>2 DEF CheckOK
<1>5. ASSUME NEW w \in WindowIds PROVE WindowOK(w)
  <2>1. Limit(w) \in Nat BY LimitsArePositive
  <2>2. clock = 0 /\ timestamps[w] = <<>> /\ admitted[w] = <<>> /\ retryAt[w] = 0 BY DEF LimiterInit
  <2>3. RememberedBy(<<>>, <<>>, 0) /\ LimitOver(<<>>, Limit(w)) BY <2>1, Nothing
  <2> QED BY <2>1, <2>2, <2>3, <1>3 DEF WindowOK
<1>6. \A th \in Threads : NewLimiterOK(th) BY <1>2, NoCheckHolds DEF NewLimiterOK
<1>7. \A th \in Threads : NewWindowOK(th) BY <1>2, NoCheckHolds DEF NewWindowOK
<1>8. NotYet BY <1>3, EntryNames DEF NotYet
<1>9. \A th \in Threads : HeldOK(th) BY <1>2, NoCheckHolds DEF HeldOK
<1>10. Fading BY <1>3 DEF Fading
<1> QED BY <1>1, <1>4, <1>5, <1>6, <1>7, <1>8, <1>9, <1>10 DEF LimiterIInv

-----------------------------------------------------------------------------
(* Steps that count nothing.                                               *)

\* The windows stay as they are.
Idle == UNCHANGED <<clock, timestamps, admitted, retryAt>>

LEMMA IdleStep ==
    ASSUME LimiterIInv, Idle
    PROVE  /\ \A w : Passed(w)' = Passed(w) /\ (Untouched(w)' <=> Untouched(w))
           /\ \A w \in WindowIds : WindowOK(w)'
<1>1. ASSUME NEW w PROVE Passed(w)' = Passed(w) /\ (Untouched(w)' <=> Untouched(w))
  BY DEF Idle, Passed, Untouched
<1>2. \A w \in WindowIds : WindowOK(w)' BY WindowStays DEF Idle, LimiterIInv
<1> QED BY <1>1, <1>2

\* A window that is made was untouched before, so that making it changes nothing in it.
LEMMA MadeFresh ==
    ASSUME LimiterShape, NEW w \in WindowIds, Untouched(w),
           timestamps' = [timestamps EXCEPT ![w] = <<>>]
    PROVE  timestamps' = timestamps
BY DEF LimiterShape, Untouched

LEMMA StartStep ==
    ASSUME LimiterIInv, NEW th \in Threads, NEW tenant \in Tenants,
           NEW action \in {"read", "write"}, StartCheck(th, tenant, action)
    PROVE  LimiterIInv'
<1> DEFINE c == [layer |-> "get", tenant |-> tenant, action |-> action, since |-> clock,
                 limiter |-> NoThread, maker |-> NoThread, creating |-> limiter = NoThread]
<1>1. LimiterShape BY DEF LimiterIInv
<1>2. c \in Check BY <1>1 DEF Check, LimiterShape, Times
<1>3. /\ thread' = [thread EXCEPT ![th] = c] /\ requests < MaxRequests /\ requests' = requests + 1
      /\ limiter' = limiter /\ windows' = windows /\ Idle
  BY DEF StartCheck, made, Idle
<1>4. /\ c.since = clock /\ c.layer = "get" /\ c.maker = NoThread
      /\ c.creating => limiter = NoThread
      /\ ~c.creating => limiter # NoThread
  OBVIOUS
<1> HIDE DEF c
<1>5. ~Holding(c) /\ ~Tenanted(c) BY <1>4 DEF Holding, Tenanted
<1>6. /\ thread'[th] = c
      /\ \A t \in Threads : t # th => thread'[t] = thread[t]
  BY <1>1, <1>3 DEF LimiterShape
<1>7. LimiterShape'
  <2>1. thread' \in [Threads -> Check \cup {NoCheck}] BY <1>1, <1>2, <1>3 DEF LimiterShape
  <2>2. requests' \in 0 .. MaxRequests BY <1>1, <1>3, RateLimiterAssumption DEF LimiterShape
  <2> QED BY <1>1, <1>3, <2>1, <2>2 DEF LimiterShape, Idle
<1>8. ASSUME NEW t \in Threads PROVE CheckOK(t)'
  <2>1. CASE t = th
    <3>1. clock \in Nat BY <1>1, TimesAreNumbers DEF LimiterShape
    <3> QED BY <2>1, <3>1, <1>3, <1>4, <1>5, <1>6, Spans DEF CheckOK, Idle
  <2>2. CASE t # th BY <2>2, <1>3, <1>6 DEF CheckOK, LimiterIInv, Idle
  <2> QED BY <2>1, <2>2
<1>9. ASSUME NEW t \in Threads PROVE NewLimiterOK(t)'
  <2>1. CASE t = th
    <3> SUFFICES ASSUME c.creating
                 PROVE  /\ limiter # th /\ Untouched(GlobalWindow(th))
                        /\ \A s \in Threads : Holding(thread'[s]) => thread'[s].limiter # th
      BY <2>1, <1>3, <1>6, IdleStep DEF NewLimiterOK
    <3>1. limiter = NoThread BY <1>4
    <3>2. limiter # th BY <3>1, NoThreadIsNone
    <3>3. Untouched(GlobalWindow(th)) BY <3>1, GlobalNames DEF LimiterIInv, NotYet
    <3>4. ASSUME NEW s \in Threads PROVE ~Holding(thread'[s])
      <4>1. CheckOK(s) /\ (thread[s] \in Check \/ thread[s] = NoCheck)
        BY <1>1 DEF LimiterIInv, LimiterShape
      <4>2. ~Holding(thread[s]) BY <4>1, <3>1, NoCheckHolds DEF CheckOK
      <4> QED BY <4>2, <1>5, <1>6
    <3> QED BY <3>2, <3>3, <3>4
  <2>2. CASE t # th
    <3>1. NewLimiterOK(t) BY DEF LimiterIInv
    <3> QED BY <3>1, <2>2, <1>3, <1>5, <1>6, IdleStep DEF NewLimiterOK
  <2> QED BY <2>1, <2>2
<1>10. ASSUME NEW t \in Threads PROVE NewWindowOK(t)'
  <2>1. CASE t = th BY <2>1, <1>5, <1>6 DEF NewWindowOK
  <2>2. CASE t # th
    <3>1. NewWindowOK(t) BY DEF LimiterIInv
    <3> QED BY <3>1, <2>2, <1>3, <1>5, <1>6, IdleStep DEF NewWindowOK
  <2> QED BY <2>1, <2>2
<1>11. NotYet' BY <1>3, IdleStep DEF NotYet, LimiterIInv
<1>12. ASSUME NEW t \in Threads PROVE HeldOK(t)'
  <2>1. CASE t = th BY <2>1, <1>5, <1>6 DEF HeldOK
  <2>2. CASE t # th
    <3>1. HeldOK(t) BY DEF LimiterIInv
    <3> QED BY <3>1, <2>2, <1>3, <1>6, IdleStep DEF HeldOK
  <2> QED BY <2>1, <2>2
<1>13. Fading' BY <1>3, IdleStep DEF Fading, Replaces, LimiterIInv
<1> QED BY <1>3, <1>7, <1>8, <1>9, <1>10, <1>11, <1>12, <1>13, IdleStep DEF LimiterIInv

LEMMA MakeLimiterStep ==
    ASSUME LimiterIInv, NEW th \in Threads, MakeLimiter(th)
    PROVE  LimiterIInv'
<1> DEFINE c == thread[th]
           d == [c EXCEPT !.creating = FALSE]
<1>1. LimiterShape /\ CheckOK(th) /\ NewLimiterOK(th) BY DEF LimiterIInv
<1>2. c.layer = "get" /\ c.creating BY DEF MakeLimiter
<1>3. c \in Check BY <1>1, <1>2, NoCheckHolds DEF LimiterShape
<1>4. Untouched(GlobalWindow(th)) /\ GlobalWindow(th) \in WindowIds /\ limiter # th
  BY <1>1, <1>2, GlobalNames DEF NewLimiterOK
<1>5. timestamps' = timestamps BY <1>1, <1>4, MadeFresh DEF MakeLimiter
<1>6. /\ thread' = [thread EXCEPT ![th] = d] /\ requests' = requests /\ limiter' = th
      /\ windows' = windows /\ Idle
  BY <1>5 DEF MakeLimiter, Idle
<1>7. /\ d \in Check /\ d.since = c.since /\ d.layer = "get" /\ d.maker = c.maker
      /\ ~d.creating
  BY <1>2, <1>3 DEF Check
<1> HIDE DEF d
<1>8. ~Holding(d) /\ ~Tenanted(d) BY <1>7 DEF Holding, Tenanted
<1>9. thread'[th] = d /\ \A t \in Threads : t # th => thread'[t] = thread[t]
  BY <1>1, <1>6 DEF LimiterShape
<1>10. LimiterShape'
  <2>1. thread' \in [Threads -> Check \cup {NoCheck}] BY <1>1, <1>6, <1>7 DEF LimiterShape
  <2> QED BY <1>1, <1>6, <2>1 DEF LimiterShape, Idle
<1>11. limiter' # NoThread BY <1>6, NoThreadIsNone
<1>12. ASSUME NEW t \in Threads PROVE CheckOK(t)'
  <2>1. CASE t = th
    <3>1. c # NoCheck BY <1>3, CheckNames
    <3>2. c.since <= clock /\ clock <= c.since + MaxDelay /\ c.maker = NoThread
      BY <3>1, <1>1, <1>2 DEF CheckOK
    <3> QED BY <2>1, <3>2, <1>6, <1>7, <1>8, <1>9, <1>11 DEF CheckOK, Idle
  <2>2. CASE t # th
    <3>1. CheckOK(t) BY DEF LimiterIInv
    <3> QED BY <3>1, <2>2, <1>6, <1>9, <1>11 DEF CheckOK, Idle
  <2> QED BY <2>1, <2>2
<1>13. ASSUME NEW t \in Threads PROVE NewLimiterOK(t)'
  <2>1. CASE t = th BY <2>1, <1>7, <1>9 DEF NewLimiterOK
  <2>2. CASE t # th
    <3>1. NewLimiterOK(t) BY DEF LimiterIInv
    <3> QED BY <3>1, <2>2, <1>6, <1>8, <1>9, IdleStep DEF NewLimiterOK
  <2> QED BY <2>1, <2>2
<1>14. ASSUME NEW t \in Threads PROVE NewWindowOK(t)'
  <2>1. CASE t = th BY <2>1, <1>8, <1>9 DEF NewWindowOK
  <2>2. CASE t # th
    <3>1. NewWindowOK(t) BY DEF LimiterIInv
    <3> QED BY <3>1, <2>2, <1>6, <1>8, <1>9, IdleStep DEF NewWindowOK
  <2> QED BY <2>1, <2>2
<1>15. NotYet' BY <1>6, <1>11, IdleStep DEF NotYet, LimiterIInv
<1>16. Passed(GlobalWindow(th)) = {} BY <1>4, UntouchedPassed
<1>17. ASSUME NEW t \in Threads PROVE HeldOK(t)'
  <2>1. CASE t = th BY <2>1, <1>8, <1>9 DEF HeldOK
  <2>2. CASE t # th
    <3>1. HeldOK(t) BY DEF LimiterIInv
    <3> QED BY <3>1, <2>2, <1>6, <1>9, <1>16, IdleStep DEF HeldOK
  <2> QED BY <2>1, <2>2
<1>18. Fading'
  <2>1. Fading BY DEF LimiterIInv
  <2> QED BY <2>1, <1>6, <1>16, IdleStep DEF Fading, Replaces
<1> QED BY <1>6, <1>10, <1>12, <1>13, <1>14, <1>15, <1>17, <1>18, IdleStep DEF LimiterIInv

LEMMA GetLimiterStep ==
    ASSUME LimiterIInv, NEW th \in Threads, GetLimiter(th)
    PROVE  LimiterIInv'
<1> DEFINE c == thread[th]
           d == [c EXCEPT !.layer = "global", !.limiter = limiter, !.maker = limiter]
<1>1. LimiterShape /\ CheckOK(th) BY DEF LimiterIInv
<1>2. c.layer = "get" /\ ~c.creating BY DEF GetLimiter
<1>3. c \in Check BY <1>1, <1>2, NoCheckHolds DEF LimiterShape
<1>4. /\ thread' = [thread EXCEPT ![th] = d] /\ requests' = requests
      /\ limiter' = limiter /\ windows' = windows /\ Idle
  BY DEF GetLimiter, made, Idle
<1>5. /\ d \in Check /\ d.since = c.since /\ d.layer = "global" /\ d.maker = limiter
      /\ d.limiter = limiter /\ ~d.creating
  BY <1>1, <1>2, <1>3 DEF Check, LimiterShape
<1> HIDE DEF d
<1>6. Holding(d) /\ ~Tenanted(d) BY <1>5 DEF Holding, Tenanted
<1>7. thread'[th] = d /\ \A t \in Threads : t # th => thread'[t] = thread[t]
  BY <1>1, <1>4 DEF LimiterShape
<1>8. LimiterShape'
  <2>1. thread' \in [Threads -> Check \cup {NoCheck}] BY <1>1, <1>4, <1>5 DEF LimiterShape
  <2> QED BY <1>1, <1>4, <2>1 DEF LimiterShape, Idle
<1>9. c # NoCheck BY <1>3, CheckNames
<1>10. limiter # NoThread /\ limiter \in Threads BY <1>1, <1>2, <1>9 DEF CheckOK, LimiterShape
<1>11. ASSUME NEW t \in Threads PROVE CheckOK(t)'
  <2>1. CASE t = th
    <3>1. c.since <= clock /\ clock <= c.since + MaxDelay BY <1>1, <1>9 DEF CheckOK
    <3> QED BY <2>1, <3>1, <1>4, <1>5, <1>6, <1>7, <1>10 DEF CheckOK, Idle
  <2>2. CASE t # th
    <3>1. CheckOK(t) BY DEF LimiterIInv
    <3> QED BY <3>1, <2>2, <1>4, <1>7 DEF CheckOK, Idle
  <2> QED BY <2>1, <2>2
<1>12. ASSUME NEW t \in Threads PROVE NewLimiterOK(t)'
  <2>1. CASE t = th BY <2>1, <1>5, <1>7 DEF NewLimiterOK
  <2>2. CASE t # th
    <3>1. NewLimiterOK(t) BY DEF LimiterIInv
    <3> QED BY <3>1, <2>2, <1>4, <1>5, <1>7, IdleStep DEF NewLimiterOK
  <2> QED BY <2>1, <2>2
<1>13. ASSUME NEW t \in Threads PROVE NewWindowOK(t)'
  <2>1. CASE t = th BY <2>1, <1>6, <1>7 DEF NewWindowOK
  <2>2. CASE t # th
    <3>1. NewWindowOK(t) BY DEF LimiterIInv
    <3> QED BY <3>1, <2>2, <1>4, <1>6, <1>7, IdleStep DEF NewWindowOK
  <2> QED BY <2>1, <2>2
<1>14. NotYet' BY <1>4, IdleStep DEF NotYet, LimiterIInv
<1>15. ASSUME NEW t \in Threads PROVE HeldOK(t)'
  <2>1. CASE t = th BY <2>1, <1>4, <1>5, <1>6, <1>7 DEF HeldOK
  <2>2. CASE t # th
    <3>1. HeldOK(t) BY DEF LimiterIInv
    <3> QED BY <3>1, <2>2, <1>4, <1>7, IdleStep DEF HeldOK
  <2> QED BY <2>1, <2>2
<1>16. Fading' BY <1>4, IdleStep DEF Fading, Replaces, LimiterIInv
<1> QED BY <1>4, <1>8, <1>11, <1>12, <1>13, <1>14, <1>15, <1>16, IdleStep DEF LimiterIInv

LEMMA FindWindowStep ==
    ASSUME LimiterIInv, NEW th \in Threads, FindWindow(th)
    PROVE  LimiterIInv'
<1> DEFINE c == thread[th]
           e == EntryOf(c)
           d == [c EXCEPT !.maker = windows[e], !.creating = windows[e] = NoThread]
<1>1. LimiterShape /\ CheckOK(th) BY DEF LimiterIInv
<1>2. Tenanted(c) BY DEF FindWindow, Tenanted
<1>3. c \in Check BY <1>1, <1>2, NoCheckHolds DEF LimiterShape
<1>4. /\ thread' = [thread EXCEPT ![th] = d] /\ requests' = requests
      /\ limiter' = limiter /\ windows' = windows /\ Idle
  BY DEF FindWindow, made, Idle
<1>5. c # NoCheck /\ Holding(c) BY <1>2, <1>3, CheckNames
<1>6. /\ c.since <= clock /\ clock <= c.since + MaxDelay
      /\ c.limiter \in Threads /\ limiter # NoThread
  BY <1>1, <1>5 DEF CheckOK
<1>7. e \in Entries BY <1>2, <1>3, <1>6, CheckNames
<1>8. windows[e] \in Threads \cup {NoThread} BY <1>1, <1>7 DEF LimiterShape
<1>9. /\ d \in Check /\ d.since = c.since /\ d.layer = c.layer /\ d.limiter = c.limiter
      /\ d.tenant = c.tenant /\ d.maker = windows[e]
      /\ d.creating => windows[e] = NoThread
      /\ windows[e] = NoThread => d.creating
  <2> DEFINE b == windows[e] = NoThread
  <2>1. b \in BOOLEAN OBVIOUS
  <2> HIDE DEF b, e
  <2>2. /\ [c EXCEPT !.maker = windows[e], !.creating = b] \in Check
        /\ [c EXCEPT !.maker = windows[e], !.creating = b].since = c.since
        /\ [c EXCEPT !.maker = windows[e], !.creating = b].layer = c.layer
        /\ [c EXCEPT !.maker = windows[e], !.creating = b].limiter = c.limiter
        /\ [c EXCEPT !.maker = windows[e], !.creating = b].tenant = c.tenant
        /\ [c EXCEPT !.maker = windows[e], !.creating = b].maker = windows[e]
        /\ [c EXCEPT !.maker = windows[e], !.creating = b].creating = b
    BY <2>1, <1>3, <1>8 DEF Check
  <2> QED BY <2>2 DEF b
<1> HIDE DEF d
<1>10. Holding(d) /\ Tenanted(d) /\ d.layer # "get" /\ d.layer # "global" /\ EntryOf(d) = e
  <2>1. EntryOf(d) = e BY <1>9 DEF EntryOf
  <2>2. Holding(d) /\ Tenanted(d) BY <1>2, <1>5, <1>9 DEF Holding, Tenanted
  <2> QED BY <2>1, <2>2, <1>9, CheckNames
<1>11. thread'[th] = d /\ \A t \in Threads : t # th => thread'[t] = thread[t]
  BY <1>1, <1>4 DEF LimiterShape
<1>12. LimiterShape'
  <2>1. thread' \in [Threads -> Check \cup {NoCheck}] BY <1>1, <1>4, <1>9 DEF LimiterShape
  <2> QED BY <1>1, <1>4, <2>1 DEF LimiterShape, Idle
<1> HIDE DEF e
<1>13. ASSUME NEW t \in Threads PROVE CheckOK(t)'
  <2>1. CASE t = th
    BY <2>1, <1>4, <1>6, <1>9, <1>10, <1>11 DEF CheckOK, Idle
  <2>2. CASE t # th
    <3>1. CheckOK(t) BY DEF LimiterIInv
    <3> QED BY <3>1, <2>2, <1>4, <1>11 DEF CheckOK, Idle
  <2> QED BY <2>1, <2>2
<1>14. ASSUME NEW t \in Threads PROVE NewLimiterOK(t)'
  <2>1. CASE t = th BY <2>1, <1>10, <1>11 DEF NewLimiterOK
  <2>2. CASE t # th
    <3>1. NewLimiterOK(t) BY DEF LimiterIInv
    <3>2. \A s \in Threads : Holding(thread'[s]) =>
             Holding(thread[s]) /\ thread'[s].limiter = thread[s].limiter
      BY <1>5, <1>9, <1>11
    <3> QED BY <3>1, <3>2, <2>2, <1>4, <1>11, IdleStep DEF NewLimiterOK
  <2> QED BY <2>1, <2>2
<1>15. ASSUME NEW t \in Threads PROVE NewWindowOK(t)'
  <2>1. CASE t = th
    <3> SUFFICES ASSUME d.creating
                 PROVE  /\ windows[e] # th /\ Untouched(WindowFor(e, th))
                        /\ \A s \in Threads :
                              Tenanted(thread'[s]) /\ EntryOf(thread'[s]) = e => thread'[s].maker # th
      BY <2>1, <1>4, <1>10, <1>11, IdleStep DEF NewWindowOK
    <3>1. windows[e] = NoThread /\ windows[e] # th BY <1>9, NoThreadIsNone
    <3>2. Untouched(WindowFor(e, th)) BY <3>1, <1>7 DEF LimiterIInv, NotYet
    <3>3. ASSUME NEW s \in Threads, Tenanted(thread'[s]), EntryOf(thread'[s]) = e
          PROVE  thread'[s].maker # th
      <4>1. CASE s = th BY <4>1, <3>1, <1>9, <1>11
      <4>2. CASE s # th
        <5>1. thread'[s] = thread[s] /\ CheckOK(s) BY <4>2, <1>11 DEF LimiterIInv
        <5>2. thread[s] # NoCheck BY <5>1, <3>3, NoCheckHolds
        <5>3. thread[s].maker = NoThread BY <5>1, <5>2, <3>1, <3>3 DEF CheckOK
        <5> QED BY <5>1, <5>3, NoThreadIsNone
      <4> QED BY <4>1, <4>2
    <3> QED BY <3>1, <3>2, <3>3
  <2>2. CASE t # th
    <3>1. NewWindowOK(t) BY DEF LimiterIInv
    <3> SUFFICES ASSUME Tenanted(thread[t]), thread[t].creating
                 PROVE  \A s \in Threads :
                            Tenanted(thread'[s]) /\ EntryOf(thread'[s]) = EntryOf(thread[t])
                                => thread'[s].maker # t
      BY <3>1, <2>2, <1>4, <1>11, IdleStep DEF NewWindowOK
    <3>2. ASSUME NEW s \in Threads, Tenanted(thread'[s]), EntryOf(thread'[s]) = EntryOf(thread[t])
          PROVE  thread'[s].maker # t
      <4>1. CASE s = th
        <5>1. EntryOf(thread[t]) = e BY <4>1, <3>2, <1>10, <1>11
        <5>2. windows[e] # t BY <5>1, <3>1 DEF NewWindowOK
        <5> QED BY <4>1, <5>2, <1>9, <1>11
      <4>2. CASE s # th BY <4>2, <3>1, <3>2, <1>11 DEF NewWindowOK
      <4> QED BY <4>1, <4>2
    <3> QED BY <3>2
  <2> QED BY <2>1, <2>2
<1>16. NotYet' BY <1>4, IdleStep DEF NotYet, LimiterIInv
<1>17. ASSUME NEW t \in Threads PROVE HeldOK(t)'
  <2>0. HeldOK(t) BY DEF LimiterIInv
  <2>1. CASE t = th
    <3>1. c.limiter # limiter => \A y \in Passed(GlobalWindow(limiter)) : c.since <= y
      BY <2>0, <2>1, <1>5 DEF HeldOK
    <3> QED BY <2>1, <3>1, <1>4, <1>9, <1>10, <1>11, IdleStep DEF HeldOK
  <2>2. CASE t # th BY <2>0, <2>2, <1>4, <1>11, IdleStep DEF HeldOK
  <2> QED BY <2>1, <2>2
<1>18. Fading' BY <1>4, IdleStep DEF Fading, Replaces, LimiterIInv
<1> QED BY <1>4, <1>12, <1>13, <1>14, <1>15, <1>16, <1>17, <1>18, IdleStep DEF LimiterIInv

LEMMA StoreWindowStep ==
    ASSUME LimiterIInv, NEW th \in Threads, StoreWindow(th)
    PROVE  LimiterIInv'
<1> DEFINE c == thread[th]
           e == EntryOf(c)
           d == [c EXCEPT !.maker = th, !.creating = FALSE]
           u == WindowFor(e, th)
<1>1. LimiterShape /\ CheckOK(th) /\ NewWindowOK(th) BY DEF LimiterIInv
<1>2. Tenanted(c) /\ c.creating BY DEF StoreWindow, Tenanted
<1>3. c \in Check BY <1>1, <1>2, NoCheckHolds DEF LimiterShape
<1>4. c # NoCheck /\ Holding(c) BY <1>2, <1>3, CheckNames
<1>5. /\ c.since <= clock /\ clock <= c.since + MaxDelay
      /\ c.limiter \in Threads /\ limiter # NoThread
  BY <1>1, <1>4 DEF CheckOK
<1>6. e \in Entries BY <1>2, <1>3, <1>5, CheckNames
<1>7. Untouched(u) /\ u \in WindowIds /\ windows[e] # th
  BY <1>1, <1>2, <1>6, EntryNames DEF NewWindowOK
<1>8. WindowOf([c EXCEPT !.maker = th]) = u
  <2> DEFINE b == [c EXCEPT !.maker = th]
  <2>1. /\ b.layer = c.layer /\ b.limiter = c.limiter /\ b.tenant = c.tenant /\ b.maker = th
    BY <1>3 DEF Check
  <2> HIDE DEF b
  <2>2. b.layer # "global" BY <2>1, <1>2, <1>3, CheckNames
  <2>3. WindowOf(b) = u BY <2>1, <2>2 DEF WindowOf, WindowFor, EntryOf
  <2> QED BY <2>3 DEF b
<1>9. timestamps' = timestamps BY <1>1, <1>7, <1>8, MadeFresh DEF StoreWindow
<1>10. /\ thread' = [thread EXCEPT ![th] = d] /\ requests' = requests /\ limiter' = limiter
       /\ windows' = [windows EXCEPT ![e] = th] /\ Idle
  BY <1>9 DEF StoreWindow, Idle
<1>11. /\ d \in Check /\ d.since = c.since /\ d.layer = c.layer /\ d.limiter = c.limiter
       /\ d.tenant = c.tenant /\ d.maker = th /\ ~d.creating
  BY <1>3 DEF Check
<1> HIDE DEF d
<1>12. Holding(d) /\ Tenanted(d) /\ d.layer # "get" /\ d.layer # "global" /\ EntryOf(d) = e
  <2>1. EntryOf(d) = e BY <1>11 DEF EntryOf
  <2>2. Holding(d) /\ Tenanted(d) BY <1>2, <1>4, <1>11 DEF Holding, Tenanted
  <2> QED BY <2>1, <2>2, <1>11, CheckNames
<1>13. thread'[th] = d /\ \A t \in Threads : t # th => thread'[t] = thread[t]
  BY <1>1, <1>10 DEF LimiterShape
<1>14. windows'[e] = th /\ \A f \in Entries : f # e => windows'[f] = windows[f]
  BY <1>1, <1>6, <1>10 DEF LimiterShape
<1>15. LimiterShape'
  <2>1. thread' \in [Threads -> Check \cup {NoCheck}] BY <1>1, <1>10, <1>11 DEF LimiterShape
  <2>2. windows' \in [Entries -> Threads \cup {NoThread}] BY <1>1, <1>10 DEF LimiterShape
  <2> QED BY <1>1, <1>10, <2>1, <2>2 DEF LimiterShape, Idle
<1> HIDE DEF e, u
<1>16. \A t \in Threads : Tenanted(thread[t]) => EntryOf(thread[t]) \in Entries
  <2> SUFFICES ASSUME NEW t \in Threads, Tenanted(thread[t]) PROVE EntryOf(thread[t]) \in Entries
    OBVIOUS
  <2>1. thread[t] \in Check BY <1>1, NoCheckHolds DEF LimiterShape
  <2>2. CheckOK(t) /\ thread[t] # NoCheck /\ Holding(thread[t]) BY <2>1, CheckNames DEF LimiterIInv
  <2> QED BY <2>1, <2>2, CheckNames DEF CheckOK
<1>17. ASSUME NEW t \in Threads PROVE CheckOK(t)'
  <2>1. CASE t = th
    BY <2>1, <1>5, <1>10, <1>11, <1>12, <1>13, <1>14, NoThreadIsNone DEF CheckOK, Idle
  <2>2. CASE t # th
    <3>1. CheckOK(t) BY DEF LimiterIInv
    <3>2. Tenanted(thread[t]) /\ thread[t].maker # NoThread /\ thread[t] # NoCheck =>
             windows'[EntryOf(thread[t])] # NoThread
      BY <3>1, <1>14, <1>16, NoThreadIsNone DEF CheckOK
    <3> QED BY <3>1, <3>2, <2>2, <1>10, <1>13 DEF CheckOK, Idle
  <2> QED BY <2>1, <2>2
<1>18. ASSUME NEW t \in Threads PROVE NewLimiterOK(t)'
  <2>1. CASE t = th BY <2>1, <1>12, <1>13 DEF NewLimiterOK
  <2>2. CASE t # th
    <3>1. NewLimiterOK(t) BY DEF LimiterIInv
    <3>2. \A s \in Threads : Holding(thread'[s]) =>
             Holding(thread[s]) /\ thread'[s].limiter = thread[s].limiter
      BY <1>4, <1>11, <1>13
    <3> QED BY <3>1, <3>2, <2>2, <1>10, <1>13, IdleStep DEF NewLimiterOK
  <2> QED BY <2>1, <2>2
<1>19. ASSUME NEW t \in Threads PROVE NewWindowOK(t)'
  <2>1. CASE t = th BY <2>1, <1>11, <1>13 DEF NewWindowOK
  <2>2. CASE t # th
    <3>1. NewWindowOK(t) BY DEF LimiterIInv
    <3> SUFFICES ASSUME Tenanted(thread[t]), thread[t].creating
                 PROVE  /\ windows'[EntryOf(thread[t])] # t
                        /\ \A s \in Threads :
                               Tenanted(thread'[s]) /\ EntryOf(thread'[s]) = EntryOf(thread[t])
                                  => thread'[s].maker # t
      BY <3>1, <2>2, <1>10, <1>13, IdleStep DEF NewWindowOK
    <3>2. windows'[EntryOf(thread[t])] # t BY <3>1, <2>2, <1>14, <1>16 DEF NewWindowOK
    <3>3. ASSUME NEW s \in Threads, Tenanted(thread'[s]), EntryOf(thread'[s]) = EntryOf(thread[t])
          PROVE  thread'[s].maker # t
      <4>1. CASE s = th BY <4>1, <2>2, <1>11, <1>13
      <4>2. CASE s # th BY <4>2, <3>1, <3>3, <1>13 DEF NewWindowOK
      <4> QED BY <4>1, <4>2
    <3> QED BY <3>2, <3>3
  <2> QED BY <2>1, <2>2
<1>20. NotYet'
  <2>1. NotYet BY DEF LimiterIInv
  <2>2. ASSUME NEW f \in Entries, NEW m \in Threads, windows'[f] = NoThread
        PROVE  Untouched(WindowFor(f, m))
    BY <2>1, <2>2, <1>14, NoThreadIsNone DEF NotYet
  <2> QED BY <2>2, <1>5, <1>10, IdleStep DEF NotYet
<1>21. Passed(u) = {} BY <1>7, UntouchedPassed
<1>22. ASSUME NEW t \in Threads PROVE HeldOK(t)'
  <2>0. HeldOK(t) BY DEF LimiterIInv
  <2>1. CASE t = th
    <3>1. c.limiter # limiter => \A y \in Passed(GlobalWindow(limiter)) : c.since <= y
      BY <2>0, <2>1, <1>4 DEF HeldOK
    <3> QED BY <2>1, <3>1, <1>10, <1>11, <1>12, <1>13, <1>14, IdleStep DEF HeldOK
  <2>2. CASE t # th
    <3>1. CASE Tenanted(thread[t]) /\ EntryOf(thread[t]) = e
      <4>1. WindowFor(EntryOf(thread[t]), windows'[EntryOf(thread[t])]) = u BY <3>1, <1>14 DEF u
      <4> QED BY <2>0, <2>2, <3>1, <4>1, <1>10, <1>13, <1>21, IdleStep DEF HeldOK
    <3>2. CASE ~(Tenanted(thread[t]) /\ EntryOf(thread[t]) = e)
      <4>1. Tenanted(thread[t]) => windows'[EntryOf(thread[t])] = windows[EntryOf(thread[t])]
        BY <3>2, <1>14, <1>16
      <4> QED BY <2>0, <2>2, <4>1, <1>10, <1>13, IdleStep DEF HeldOK
    <3> QED BY <3>1, <3>2
  <2> QED BY <2>1, <2>2
<1>23. Fading'
  <2>1. Fading BY DEF LimiterIInv
  <2> SUFFICES ASSUME NEW v \in WindowIds, NEW w \in WindowIds, Replaces(v, w)',
                      NEW x \in Passed(w), NEW y \in Passed(v)
               PROVE  x <= y + MaxDelay
    BY IdleStep, <1>10 DEF Fading
  <2>2. CASE w.limiter # limiter /\ v = GlobalWindow(limiter)
    BY <2>1, <2>2 DEF Fading, Replaces
  <2>3. CASE /\ w.layer # "global" /\ w.maker # windows'[EntryOf(w)]
             /\ v = WindowFor(EntryOf(w), windows'[EntryOf(w)])
    <3>1. EntryOf(w) \in Entries BY <2>3, WindowNames
    <3>2. EntryOf(w) # e BY <2>3, <1>14, <1>21 DEF u
    <3>3. windows'[EntryOf(w)] = windows[EntryOf(w)] BY <3>1, <3>2, <1>14
    <3> QED BY <2>1, <2>3, <3>3 DEF Fading, Replaces
  <2> QED BY <2>2, <2>3, <1>10 DEF Replaces
<1> QED BY <1>10, <1>15, <1>17, <1>18, <1>19, <1>20, <1>22, <1>23, IdleStep DEF LimiterIInv

LEMMA TickStep ==
    ASSUME LimiterIInv, Tick
    PROVE  LimiterIInv'
<1>1. LimiterShape BY DEF LimiterIInv
<1>2. /\ clock < MaxClock /\ clock' = clock + 1
      /\ limiter' = limiter /\ windows' = windows
      /\ UNCHANGED <<requests, timestamps, thread, admitted, retryAt>>
  BY DEF Tick, made
<1>3. clock \in Nat /\ clock' \in Times
  BY <1>1, <1>2, TimesAreNumbers DEF LimiterShape, Times
<1>4. LimiterShape' BY <1>1, <1>2, <1>3 DEF LimiterShape
<1>5. \A w : Passed(w)' = Passed(w) /\ (Untouched(w)' <=> Untouched(w))
  BY <1>2 DEF Passed, Untouched
<1>6. ASSUME NEW t \in Threads PROVE CheckOK(t)'
  <2>0. CheckOK(t) BY DEF LimiterIInv
  <2>1. CASE thread[t] = NoCheck BY <2>1, <1>2 DEF CheckOK
  <2>2. CASE thread[t] # NoCheck
    <3>1. thread[t] \in Check BY <2>2, <1>1 DEF LimiterShape
    <3>2. thread[t].since \in Nat BY <3>1, CheckNames, TimesAreNumbers
    <3>3. thread[t].since <= clock BY <2>0, <2>2 DEF CheckOK
    <3>4. clock < thread[t].since + MaxDelay BY <2>2 DEF Tick
    <3>5. thread[t].since <= clock' /\ clock' <= thread[t].since + MaxDelay
      BY <3>2, <3>3, <3>4, <1>2, <1>3, Spans
    <3> QED BY <2>0, <2>2, <3>5, <1>2 DEF CheckOK
  <2> QED BY <2>1, <2>2
<1>7. ASSUME NEW w \in WindowIds PROVE WindowOK(w)'
  <2>1. WindowOK(w) BY DEF LimiterIInv
  <2>2. timestamps[w] \in Seq(Nat) /\ admitted[w] \in Seq(Nat)
    BY <1>1, TimesAreNumbers DEF LimiterShape
  <2>3. RememberedBy(timestamps[w], admitted[w], clock + 1)
    BY <2>1, <2>2, <1>3, RememberedLater DEF WindowOK
  <2>4. \A x \in Passed(w) : x \in Nat BY <2>2 DEF Passed
  <2>5. \A x \in Passed(w) : x <= clock + 1 BY <2>1, <2>4, <1>3 DEF WindowOK
  <2> QED BY <2>1, <2>3, <2>5, <1>2, <1>5 DEF WindowOK
<1>8. ASSUME NEW t \in Threads PROVE NewLimiterOK(t)' /\ NewWindowOK(t)' /\ HeldOK(t)'
  <2>1. NewLimiterOK(t) /\ NewWindowOK(t) /\ HeldOK(t) BY DEF LimiterIInv
  <2>2. NewLimiterOK(t)' BY <2>1, <1>2, <1>5 DEF NewLimiterOK
  <2>3. NewWindowOK(t)' BY <2>1, <1>2, <1>5 DEF NewWindowOK
  <2>4. HeldOK(t)' BY <2>1, <1>2, <1>5 DEF HeldOK
  <2> QED BY <2>2, <2>3, <2>4
<1>9. NotYet' BY <1>2, <1>5 DEF NotYet, LimiterIInv
<1>10. Fading' BY <1>2, <1>5 DEF Fading, Replaces, LimiterIInv
<1> QED BY <1>4, <1>6, <1>7, <1>8, <1>9, <1>10 DEF LimiterIInv

-----------------------------------------------------------------------------
(* The counting step.                                                      *)

\* The window that a check has locked, as it finds it: c is the check, now the time
\* it read, kept what is still fresh of what the window holds.
LEMMA CheckFinds ==
    ASSUME LimiterIInv, NEW th \in Threads, Holding(thread[th]), thread[th].maker # NoThread,
           NEW now \in thread[th].since .. clock
    PROVE  LET c == thread[th]
               w == WindowOf(c)
               kept == Fresh(timestamps[w], now)
           IN  /\ c \in Check /\ w \in WindowIds
               /\ now \in Times /\ now \in Nat /\ clock \in Nat /\ now <= clock /\ clock <= now + MaxDelay
               /\ kept \in Seq(Times) /\ kept \in Seq(Nat) /\ Len(kept) <= Limit(w)
               /\ kept # <<>> => kept[1] \in Nat /\ kept[1] + Window > now
               /\ RememberedBy(kept, admitted[w], clock)
               /\ LimitOver(admitted[w], Limit(w))
<1> DEFINE c == thread[th]
           w == WindowOf(c)
           ts == timestamps[w]
           kept == Fresh(ts, now)
<1>1. LimiterShape /\ CheckOK(th) BY DEF LimiterIInv
<1>2. c \in Check /\ c # NoCheck BY <1>1, NoCheckHolds DEF LimiterShape
<1>3. w \in WindowIds /\ c.since \in Times /\ Limit(w) \in Nat
  <2>1. c.limiter \in Threads /\ c.maker \in Threads BY <1>1, <1>2, CheckNames DEF CheckOK
  <2>2. w \in WindowIds
    <3>1. CASE c.layer = "global" BY <2>1, <3>1, <1>2, CheckNames, GlobalNames
    <3>2. CASE Tenanted(c) BY <2>1, <3>2, <1>2, CheckNames, EntryNames
    <3> QED BY <3>1, <3>2, <1>2, CheckNames
  <2> QED BY <2>2, <1>2, CheckNames, LimitsArePositive
<1>4. c.since <= clock /\ clock <= c.since + MaxDelay BY <1>1, <1>2 DEF CheckOK
<1>5. clock \in Times /\ clock \in Nat /\ c.since \in Nat
  BY <1>1, <1>3, TimesAreNumbers DEF LimiterShape
<1>6. now \in Times /\ now \in Nat /\ now <= clock /\ clock <= now + MaxDelay
  <2> DEFINE s == c.since
  <2>1. now \in s .. clock /\ s \in Nat /\ clock <= s + MaxDelay BY <1>4, <1>5
  <2> HIDE DEF s
  <2>2. now \in Nat /\ now <= clock /\ now >= s BY <2>1, <1>5
  <2> QED BY <2>1, <2>2, <1>5, TimesAreNumbers, Spans DEF Times
<1>7. WindowOK(w) BY <1>3 DEF LimiterIInv
<1>8. ts \in Seq(Times) /\ admitted[w] \in Seq(Times) /\ admitted[w] \in Seq(Nat)
  BY <1>1, <1>3, TimesAreNumbers DEF LimiterShape
<1>9. Len(ts) \in Nat /\ Len(ts) <= Limit(w) BY <1>7, <1>8 DEF WindowOK
<1>10. RememberedBy(ts, admitted[w], clock) /\ LimitOver(admitted[w], Limit(w)) BY <1>7 DEF WindowOK
<1> HIDE DEF c, w, ts
<1>11. ts \in Seq(Nat) BY <1>8, TimesAreNumbers
<1>12. kept \in Seq(Times) /\ Len(kept) <= Len(ts) BY <1>6, <1>8, TimesAreNumbers, FreshShrinks
<1>13. PICK f : Selection(f, kept, ts, now, Len(ts)) BY <1>6, <1>11, FreshSelects
<1>14. kept \in Seq(Nat) BY <1>12, TimesAreNumbers
<1>15. RememberedBy(kept, admitted[w], clock)
  BY <1>5, <1>6, <1>8, <1>10, <1>11, RememberedFiltered
<1> HIDE DEF kept
<1>16. kept # <<>> => kept[1] \in Nat /\ kept[1] + Window > now
  <2> SUFFICES ASSUME kept # <<>> PROVE kept[1] \in Nat /\ kept[1] + Window > now OBVIOUS
  <2>1. 1 \in 1 .. Len(kept) /\ kept[1] \in Nat BY <1>14
  <2> QED BY <2>1, <1>13 DEF Selection
<1>17. Len(kept) <= Limit(w)
  <2>1. Len(kept) \in Nat BY <1>14
  <2> QED BY <2>1, <1>3, <1>9, <1>12
<1> QED BY <1>2, <1>3, <1>5, <1>6, <1>10, <1>12, <1>14, <1>15, <1>16, <1>17 DEF c, w, ts, kept

\* A window that lets a request pass.
LEMMA PassWindow ==
    ASSUME NEW kept \in Seq(Nat), NEW adm \in Seq(Nat), NEW now \in Nat, NEW clk \in Nat,
           NEW lim \in Nat, clk <= now + MaxDelay, Len(kept) < lim,
           RememberedBy(kept, adm, clk), LimitOver(adm, lim)
    PROVE  /\ RememberedBy(Append(kept, now), Append(Fresh(adm, clk), clk), clk)
           /\ LimitOver(Append(Fresh(adm, clk), clk), lim)
<1> DEFINE a == Fresh(adm, clk)
<1>1. a \in Seq(Nat) /\ Nat \in SUBSET Nat BY FreshShrinks
<1>2. RememberedBy(kept, a, clk) BY RememberedForgets
<1>3. LimitOver(a, lim) BY LimitForgets
<1> HIDE DEF a
<1>4. /\ IsFiniteSet(RecentOf(a, clk)) /\ Cardinality(RecentOf(a, clk)) \in Nat
      /\ Cardinality(RecentOf(a, clk)) <= Len(kept)
  BY <1>1, <1>2, RecentCounted
<1>5. Len(kept) \in Nat OBVIOUS
<1>6. Cardinality(RecentOf(a, clk)) < lim BY <1>4, <1>5
<1>7. LimitOver(Append(a, clk), lim) BY <1>1, <1>3, <1>4, <1>6, LimitPass
<1>8. RememberedBy(Append(kept, now), Append(a, clk), clk) BY <1>1, <1>2, RememberedPass
<1> QED BY <1>7, <1>8 DEF a

\* Afterwards the times at which requests passed it are some of those before, and now.
LEMMA PassTimes ==
    ASSUME NEW adm \in Seq(Nat), NEW clk \in Nat
    PROVE  LET a == Append(Fresh(adm, clk), clk)
           IN  \A n \in 1 .. Len(a) : a[n] = clk \/ \E k \in 1 .. Len(adm) : a[n] = adm[k]
<1> DEFINE s == Fresh(adm, clk)
           a == Append(s, clk)
<1>1. PICK f : Selection(f, s, adm, clk, Len(adm)) BY FreshSelects
<1>2. /\ s \in Seq(Nat) /\ Len(s) \in Nat /\ f \in [1 .. Len(s) -> 1 .. Len(adm)]
      /\ \A k \in 1 .. Len(s) : s[k] = adm[f[k]]
  BY <1>1 DEF Selection
<1> HIDE DEF s
<1>3. Len(a) = Len(s) + 1 /\ a[Len(s) + 1] = clk /\ \A k \in 1 .. Len(s) : a[k] = s[k] BY <1>2
<1> HIDE DEF a
<1>4. ASSUME NEW n \in 1 .. Len(a) PROVE a[n] = clk \/ \E k \in 1 .. Len(adm) : a[n] = adm[k]
  <2>1. CASE n = Len(s) + 1 BY <2>1, <1>3
  <2>2. CASE n # Len(s) + 1
    <3>1. n \in 1 .. Len(s) BY <2>2, <1>2, <1>3
    <3> QED BY <3>1, <1>2, <1>3
  <2> QED BY <2>1, <2>2
<1> QED BY <1>4 DEF a, s

\* What counting in the window u leaves to show: the check c of the thread th is over or
\* goes on to the next layer as d, the window stays sound, and what has passed u is some
\* of what had, and this request if it passes.
LEMMA Counted ==
    ASSUME LimiterIInv, NEW th \in Threads, Holding(thread[th]), thread[th].maker # NoThread,
           NEW d, thread' = [thread EXCEPT ![th] = d],
           \/ d = NoCheck
           \/ /\ d \in Check /\ Tenanted(d) /\ d.since = thread[th].since
              /\ d.limiter = thread[th].limiter /\ d.maker = NoThread /\ ~d.creating,
           NEW u, u = WindowOf(thread[th]),
           timestamps' \in [WindowIds -> Seq(Times)], admitted' \in [WindowIds -> Seq(Times)],
           retryAt' \in [WindowIds -> Nat],
           \A v \in WindowIds : v # u => /\ timestamps'[v] = timestamps[v]
                                         /\ admitted'[v] = admitted[v] /\ retryAt'[v] = retryAt[v],
           WindowOK(u)', \A x \in Passed(u)' : x \in Passed(u) \/ x = clock,
           UNCHANGED <<clock, requests, made>>
    PROVE  LimiterIInv'
<1> DEFINE c == thread[th]
<1>1. LimiterShape /\ CheckOK(th) BY DEF LimiterIInv
<1>2. c \in Check /\ c # NoCheck BY <1>1, NoCheckHolds DEF LimiterShape
<1>3. /\ c.since <= clock /\ clock <= c.since + MaxDelay /\ limiter # NoThread
      /\ c.limiter \in Threads /\ c.maker \in Threads /\ limiter \in Threads
  BY <1>1, <1>2, CheckNames DEF CheckOK, LimiterShape
<1>4. clock' = clock /\ requests' = requests /\ limiter' = limiter /\ windows' = windows BY DEF made
<1>5. thread'[th] = d /\ \A t \in Threads : t # th => thread'[t] = thread[t]
  BY <1>1 DEF LimiterShape
<1>6. Tenanted(d) => /\ d \in Check /\ Holding(d) /\ d.since = c.since /\ d.limiter = c.limiter
                     /\ d.maker = NoThread /\ ~d.creating /\ d.layer # "get" /\ d.layer # "global"
  BY NoCheckHolds, CheckNames
<1>7. d = NoCheck \/ Tenanted(d) OBVIOUS
<1>8. ~Tenanted(d) => ~Holding(d) /\ d.layer # "get" BY <1>7, NoCheckHolds
<1>9. /\ c.layer = "global" => u = GlobalWindow(c.limiter)
      /\ Tenanted(c) => /\ EntryOf(c) \in Entries /\ u = WindowFor(EntryOf(c), c.maker)
                        /\ windows[EntryOf(c)] # NoThread
      /\ c.layer = "global" \/ Tenanted(c)
  BY <1>1, <1>2, <1>3, CheckNames DEF CheckOK
<1>10. /\ u \in WindowIds /\ u.limiter = c.limiter
       /\ c.layer = "global" => u.layer = "global"
       /\ Tenanted(c) => /\ u.layer # "global" /\ u.maker = c.maker /\ EntryOf(u) = EntryOf(c)
                         /\ \A l \in Threads : GlobalWindow(l) # u
  <2>1. CASE c.layer = "global"
    <3>1. ~Tenanted(c) BY <2>1 DEF Tenanted
    <3> QED BY <2>1, <3>1, <1>3, <1>9, GlobalNames
  <2>2. CASE Tenanted(c)
    <3>1. u = WindowFor(EntryOf(c), c.maker) /\ EntryOf(c) \in Entries /\ c.maker \in Threads
      BY <2>2, <1>3, <1>9
    <3>2. EntryOf(c).limiter = c.limiter BY DEF EntryOf
    <3>3. c.layer # "global" BY <2>2, <1>2, CheckNames
    <3> QED BY <3>1, <3>2, <3>3, EntryNames
  <2> QED BY <2>1, <2>2, <1>9
<1>11. ASSUME NEW v \in WindowIds, v # u
       PROVE  Passed(v)' = Passed(v) /\ (Untouched(v)' <=> Untouched(v)) /\ WindowOK(v)'
  <2>1. timestamps'[v] = timestamps[v] /\ admitted'[v] = admitted[v] /\ retryAt'[v] = retryAt[v]
    BY <1>11
  <2>2. WindowOK(v)' BY <2>1, <1>4, WindowStays DEF LimiterIInv
  <2> QED BY <2>1, <2>2 DEF Passed, Untouched
<1>12. LimiterShape'
  <2>1. thread' \in [Threads -> Check \cup {NoCheck}] BY <1>1, <1>6, <1>7 DEF LimiterShape
  <2> QED BY <1>1, <1>4, <2>1 DEF LimiterShape
<1>13. ASSUME NEW t \in Threads PROVE CheckOK(t)'
  <2>1. CASE t = th BY <2>1, <1>3, <1>4, <1>5, <1>6, <1>7 DEF CheckOK
  <2>2. CASE t # th
    <3>1. CheckOK(t) BY DEF LimiterIInv
    <3> QED BY <3>1, <2>2, <1>4, <1>5 DEF CheckOK
  <2> QED BY <2>1, <2>2
<1>14. \A w \in WindowIds : WindowOK(w)' BY <1>11
<1>15. ASSUME NEW t \in Threads PROVE NewLimiterOK(t)'
  <2>1. CASE t = th BY <2>1, <1>5, <1>6, <1>8 DEF NewLimiterOK
  <2>2. CASE t # th
    <3>1. NewLimiterOK(t) BY DEF LimiterIInv
    <3> SUFFICES ASSUME thread[t].layer = "get", thread[t].creating
                 PROVE  /\ limiter # t /\ Untouched(GlobalWindow(t))'
                        /\ \A s \in Threads : Holding(thread'[s]) => thread'[s].limiter # t
      BY <2>2, <1>4, <1>5 DEF NewLimiterOK
    <3>2. /\ limiter # t /\ Untouched(GlobalWindow(t)) /\ GlobalWindow(t) \in WindowIds
          /\ \A s \in Threads : Holding(thread[s]) => thread[s].limiter # t
      BY <3>1, GlobalNames DEF NewLimiterOK
    <3>3. c.limiter # t BY <3>2
    <3>4. GlobalWindow(t) # u BY <3>3, <1>10, GlobalNames
    <3>5. \A s \in Threads : Holding(thread'[s]) => thread'[s].limiter # t
      BY <3>2, <1>5, <1>6, <1>8
    <3> QED BY <3>2, <3>4, <3>5, <1>11
  <2> QED BY <2>1, <2>2
<1>16. \A t \in Threads : Tenanted(thread[t]) => EntryOf(thread[t]) \in Entries
  <2> SUFFICES ASSUME NEW t \in Threads, Tenanted(thread[t]) PROVE EntryOf(thread[t]) \in Entries
    OBVIOUS
  <2>1. thread[t] \in Check BY <1>1, NoCheckHolds DEF LimiterShape
  <2>2. CheckOK(t) /\ thread[t] # NoCheck /\ Holding(thread[t]) BY <2>1, CheckNames DEF LimiterIInv
  <2> QED BY <2>1, <2>2, CheckNames DEF CheckOK
<1>17. ASSUME NEW t \in Threads PROVE NewWindowOK(t)'
  <2>1. CASE t = th BY <2>1, <1>5, <1>6 DEF NewWindowOK
  <2>2. CASE t # th
    <3>1. NewWindowOK(t) BY DEF LimiterIInv
    <3>0. PICK e : e = EntryOf(thread[t]) OBVIOUS
    <3> SUFFICES ASSUME Tenanted(thread[t]), thread[t].creating
                 PROVE  /\ windows[e] # t /\ Untouched(WindowFor(e, t))'
                        /\ \A s \in Threads :
                              Tenanted(thread'[s]) /\ EntryOf(thread'[s]) = e => thread'[s].maker # t
      BY <3>0, <2>2, <1>4, <1>5 DEF NewWindowOK
    <3>2. /\ windows[e] # t /\ Untouched(WindowFor(e, t))
          /\ \A s \in Threads : Tenanted(thread[s]) /\ EntryOf(thread[s]) = e => thread[s].maker # t
      BY <3>0, <3>1 DEF NewWindowOK
    <3>3. /\ e \in Entries /\ WindowFor(e, t) \in WindowIds /\ WindowFor(e, t).layer # "global"
          /\ EntryOf(WindowFor(e, t)) = e /\ WindowFor(e, t).maker = t
      BY <3>0, <1>16, EntryNames
    <3>4. WindowFor(e, t) # u
      <4>1. CASE Tenanted(c)
        <5>1. EntryOf(c) = e => c.maker # t BY <4>1, <3>2
        <5> QED BY <4>1, <5>1, <3>3, <1>10
      <4>2. CASE c.layer = "global" BY <4>2, <3>3, <1>10
      <4> QED BY <4>1, <4>2, <1>9
    <3>5. ASSUME NEW s \in Threads, Tenanted(thread'[s]), EntryOf(thread'[s]) = e
          PROVE  thread'[s].maker # t
      <4>1. CASE s = th BY <4>1, <3>5, <1>5, <1>6, NoThreadIsNone
      <4>2. CASE s # th BY <4>2, <3>2, <3>5, <1>5
      <4> QED BY <4>1, <4>2
    <3> QED BY <3>2, <3>3, <3>4, <3>5, <1>11
  <2> QED BY <2>1, <2>2
<1>18. NotYet'
  <2>1. NotYet BY DEF LimiterIInv
  <2>2. ASSUME NEW e \in Entries, NEW m \in Threads, windows[e] = NoThread
        PROVE  Untouched(WindowFor(e, m))'
    <3>1. Untouched(WindowFor(e, m)) /\ WindowFor(e, m) \in WindowIds
      BY <2>1, <2>2, EntryNames DEF NotYet
    <3>2. EntryOf(WindowFor(e, m)) = e /\ WindowFor(e, m).layer # "global" BY EntryNames
    <3>3. WindowFor(e, m) # u
      <4>1. CASE Tenanted(c) BY <4>1, <3>2, <2>2, <1>9, <1>10
      <4>2. CASE c.layer = "global" BY <4>2, <3>2, <1>10
      <4> QED BY <4>1, <4>2, <1>9
    <3> QED BY <3>1, <3>3, <1>11
  <2> QED BY <2>2, <1>3, <1>4 DEF NotYet
<1>19. c.since \in Nat /\ clock \in Nat
  BY <1>1, <1>2, CheckNames, TimesAreNumbers DEF LimiterShape
<1>20. \A v \in WindowIds : \A x \in Passed(v)' : x \in Passed(v) \/ (v = u /\ x = clock) BY <1>11
<1>21. ASSUME NEW t \in Threads PROVE HeldOK(t)'
  <2>0. HeldOK(t) /\ HeldOK(th) BY DEF LimiterIInv
  <2>1. CASE t = th
    <3>1. ASSUME Tenanted(d), d.limiter # limiter, NEW y \in Passed(GlobalWindow(limiter))'
          PROVE  d.since <= y
      <4>1. y \in Passed(GlobalWindow(limiter)) \/ y = clock BY <1>3, <1>4, <1>20, GlobalNames
      <4>2. CASE y \in Passed(GlobalWindow(limiter)) BY <4>2, <3>1, <2>0, <1>6 DEF HeldOK
      <4>3. CASE y = clock BY <4>3, <3>1, <1>3, <1>6
      <4> QED BY <4>1, <4>2, <4>3
    <3> QED BY <2>1, <3>1, <1>4, <1>5, <1>6, <1>8 DEF HeldOK
  <2>2. CASE t # th
    <3>0. PICK b, e : b = thread[t] /\ e = EntryOf(b) OBVIOUS
    <3>1. thread'[t] = b BY <3>0, <2>2, <1>5
    <3>2. CASE ~Holding(b)
      <4>1. ~Tenanted(b) BY <3>2 DEF Holding, Tenanted
      <4> QED BY <3>0, <3>1, <3>2, <4>1 DEF HeldOK
    <3>3. CASE Holding(b)
      <4>1. b \in Check /\ b # NoCheck BY <3>0, <3>3, <1>1, NoCheckHolds DEF LimiterShape
      <4>2. CheckOK(t) BY DEF LimiterIInv
      <4>3. b.since <= clock BY <3>0, <4>1, <4>2 DEF CheckOK
      <4>4. ASSUME b.limiter # limiter, NEW y \in Passed(GlobalWindow(limiter))' PROVE b.since <= y
        <5>1. y \in Passed(GlobalWindow(limiter)) \/ y = clock BY <1>3, <1>4, <1>20, GlobalNames
        <5> QED BY <5>1, <4>3, <4>4, <3>0, <3>3, <2>0 DEF HeldOK
      <4>5. ASSUME Tenanted(b), b.maker # NoThread, b.maker # windows[e],
                   NEW y \in Passed(WindowFor(e, windows[e]))'
            PROVE  b.since <= y
        <5>1. e \in Entries /\ windows[e] \in Threads
          BY <3>0, <4>1, <4>2, <4>5, <1>1, <1>16 DEF CheckOK, LimiterShape
        <5>2. WindowFor(e, windows[e]) \in WindowIds BY <5>1, EntryNames
        <5>3. y \in Passed(WindowFor(e, windows[e])) \/ y = clock BY <5>2, <1>4, <1>20
        <5> QED BY <5>3, <4>3, <4>5, <3>0, <2>0 DEF HeldOK
      <4> QED BY <3>0, <3>1, <4>4, <4>5, <1>4 DEF HeldOK
    <3> QED BY <3>2, <3>3
  <2> QED BY <2>1, <2>2
<1>22. Fading'
  <2>1. Fading BY DEF LimiterIInv
  <2>0. \A v, w : Replaces(v, w)' <=> Replaces(v, w) BY <1>4 DEF Replaces
  <2> SUFFICES ASSUME NEW v \in WindowIds, NEW w \in WindowIds, Replaces(v, w),
                      NEW x \in Passed(w)', NEW y \in Passed(v)'
               PROVE  x <= y + MaxDelay
    BY <2>0 DEF Fading
  <2>2. v # w
    <3>1. CASE w.limiter # limiter /\ v = GlobalWindow(limiter) BY <3>1, <1>3, GlobalNames
    <3>2. CASE /\ w.layer # "global" /\ w.maker # windows[EntryOf(w)]
               /\ v = WindowFor(EntryOf(w), windows[EntryOf(w)])
      BY <3>2 DEF WindowFor
    <3> QED BY <3>1, <3>2 DEF Replaces
  <2>3. /\ x \in Passed(w) \/ (w = u /\ x = clock)
        /\ y \in Passed(v) \/ (v = u /\ y = clock)
    BY <1>20
  <2>4. ASSUME NEW r \in WindowIds, NEW z \in Passed(r) PROVE z \in Nat /\ z <= clock
    <3>1. admitted[r] \in Seq(Nat) BY <1>1, TimesAreNumbers DEF LimiterShape
    <3>2. \A k \in 1 .. Len(admitted[r]) : admitted[r][k] \in Nat
      <4>1. PICK s : s = admitted[r] OBVIOUS
      <4>2. s \in Seq(Nat) BY <3>1, <4>1
      <4>3. \A k \in 1 .. Len(s) : s[k] \in Nat BY <4>2
      <4> QED BY <4>1, <4>3
    <3>3. z \in {admitted[r][k] : k \in 1 .. Len(admitted[r])} BY DEF Passed
    <3>4. z \in Nat BY <3>2, <3>3
    <3>5. WindowOK(r) BY DEF LimiterIInv
    <3> QED BY <3>4, <3>5 DEF WindowOK
  <2>5. CASE x \in Passed(w) /\ y \in Passed(v) BY <2>1, <2>5 DEF Fading
  <2>6. CASE x \in Passed(w) /\ y = clock BY <2>4, <2>6, <1>19, Spans
  <2>7. CASE w = u /\ x = clock /\ y \in Passed(v)
    <3>1. c.since <= y
      <4>0. HeldOK(th) BY DEF LimiterIInv
      <4>1. CASE w.limiter # limiter /\ v = GlobalWindow(limiter)
        <5>1. w.limiter = c.limiter BY <2>7, <1>10
        <5> QED BY <5>1, <4>0, <4>1, <2>7 DEF HeldOK
      <4>2. CASE /\ w.layer # "global" /\ w.maker # windows[EntryOf(w)]
                 /\ v = WindowFor(EntryOf(w), windows[EntryOf(w)])
        <5>1. Tenanted(c) BY <4>2, <2>7, <1>9, <1>10
        <5>2. EntryOf(w) = EntryOf(c) /\ w.maker = c.maker BY <5>1, <2>7, <1>10
        <5> QED BY <5>1, <5>2, <4>0, <4>2, <2>7 DEF HeldOK
      <4> QED BY <4>1, <4>2 DEF Replaces
    <3>2. y \in Nat BY <2>4, <2>7
    <3> QED BY <3>1, <3>2, <2>7, <1>3, <1>19, Spans
  <2> QED BY <2>2, <2>3, <2>5, <2>6, <2>7
<1> QED BY <1>12, <1>13, <1>14, <1>15, <1>17, <1>18, <1>21, <1>22 DEF LimiterIInv

LEMMA CountStep ==
    ASSUME LimiterIInv, NEW th \in Threads, count_and_check(th)
    PROVE  LimiterIInv'
<1> DEFINE c == thread[th]
<1>0. PICK w : w = WindowOf(thread[th]) OBVIOUS
<1>1. LimiterShape BY DEF LimiterIInv
<1>2. Holding(c) /\ c.maker # NoThread /\ UNCHANGED <<clock, requests, made>>
  BY DEF count_and_check, Holding
<1>3. PICK now \in c.since .. clock :
         IF Full(Fresh(timestamps[w], now), w) THEN Reject(th, now, Fresh(timestamps[w], now))
                                               ELSE Pass(th, now, Fresh(timestamps[w], now))
  BY <1>0 DEF count_and_check
<1> DEFINE kept == Fresh(timestamps[w], now)
<1>4. /\ c \in Check /\ w \in WindowIds
      /\ now \in Times /\ now \in Nat /\ clock \in Nat /\ now <= clock /\ clock <= now + MaxDelay
      /\ kept \in Seq(Times) /\ kept \in Seq(Nat) /\ Len(kept) <= Limit(w)
      /\ kept # <<>> => kept[1] \in Nat /\ kept[1] + Window > now
      /\ RememberedBy(kept, admitted[w], clock)
      /\ LimitOver(admitted[w], Limit(w))
  BY <1>0, <1>2, CheckFinds
<1>5. Limit(w) \in Nat /\ Limit(w) > 0 BY <1>4, LimitsArePositive
<1>6. Len(kept) \in Nat BY <1>4
<1>7. clock' = clock BY <1>2
<1>8. WindowOK(w) BY <1>4 DEF LimiterIInv
<1> HIDE DEF kept
<1>20. CASE Full(kept, w)
  <2>1. Reject(th, now, kept) BY <1>3, <1>20 DEF kept
  <2> DEFINE r == now + retry_after(kept[1], now)
  <2>2. /\ timestamps' = [timestamps EXCEPT ![w] = kept] /\ admitted' = admitted
        /\ retryAt' = [retryAt EXCEPT ![w] = r]
        /\ thread' = [thread EXCEPT ![th] = NoCheck]
    BY <1>0, <2>1 DEF Reject
  <2>3. kept # <<>> BY <1>5, <1>6, <1>20 DEF Full
  <2>4. r \in Nat /\ kept[1] + Window < r BY <2>3, <1>4, RetryOutlasts
  <2> HIDE DEF r
  <2>5. /\ timestamps' \in [WindowIds -> Seq(Times)] /\ admitted' \in [WindowIds -> Seq(Times)]
        /\ retryAt' \in [WindowIds -> Nat]
    BY <2>2, <2>4, <1>1, <1>4 DEF LimiterShape
  <2>6. timestamps'[w] = kept /\ admitted'[w] = admitted[w] /\ retryAt'[w] = r
    BY <2>2, <1>1, <1>4 DEF LimiterShape
  <2>7. Passed(w)' = Passed(w) BY <2>6 DEF Passed
  <2>8. WindowOK(w)' BY <2>3, <2>4, <2>6, <2>7, <1>4, <1>7, <1>8 DEF WindowOK
  <2>9. \A v \in WindowIds : v # w => /\ timestamps'[v] = timestamps[v]
                                      /\ admitted'[v] = admitted[v] /\ retryAt'[v] = retryAt[v]
    BY <2>2, <1>1 DEF LimiterShape
  <2> QED BY <2>2, <2>5, <2>7, <2>8, <2>9, <1>0, <1>2, Counted
<1>21. CASE ~Full(kept, w)
  <2>1. Pass(th, now, kept) BY <1>3, <1>21 DEF kept
  <2> DEFINE d == IF NextLayer(c) = "served" THEN NoCheck
                  ELSE [c EXCEPT !.layer = NextLayer(c), !.maker = NoThread]
             t1 == Append(kept, now)
             a1 == Append(Fresh(admitted[w], clock), clock)
  <2>2. /\ timestamps' = [timestamps EXCEPT ![w] = t1]
        /\ admitted' = [admitted EXCEPT ![w] = a1]
        /\ retryAt' = [retryAt EXCEPT ![w] = 0]
        /\ thread' = [thread EXCEPT ![th] = d]
    <3>1. w \in DOMAIN admitted BY <1>1, <1>4 DEF LimiterShape
    <3> QED BY <1>0, <3>1, <2>1 DEF Pass
  <2>3. Len(kept) < Limit(w) BY <1>5, <1>6, <1>21 DEF Full
  <2>4. t1 \in Seq(Times) /\ Len(t1) = Len(kept) + 1 BY <1>4
  <2>5. admitted[w] \in Seq(Times) /\ admitted[w] \in Seq(Nat)
    BY <1>1, <1>4, TimesAreNumbers DEF LimiterShape
  <2>6. a1 \in Seq(Times)
    <3>1. Fresh(admitted[w], clock) \in Seq(Times) BY <2>5, <1>4, TimesAreNumbers, FreshShrinks
    <3>2. clock \in Times BY <1>1 DEF LimiterShape
    <3> QED BY <3>1, <3>2
  <2>7. \/ d = NoCheck
        \/ /\ d \in Check /\ Tenanted(d) /\ d.since = c.since
           /\ d.limiter = c.limiter /\ d.maker = NoThread /\ ~d.creating
    <3> SUFFICES ASSUME NextLayer(c) # "served"
                 PROVE  /\ d \in Check /\ Tenanted(d) /\ d.since = c.since
                        /\ d.limiter = c.limiter /\ d.maker = NoThread /\ ~d.creating
      OBVIOUS
    <3>1. NextLayer(c) \in {"tenant", "write"} BY DEF NextLayer
    <3>2. CheckOK(th) /\ c # NoCheck BY <1>4, CheckNames DEF LimiterIInv
    <3>3. ~c.creating BY <3>2, <1>2 DEF CheckOK
    <3>4. /\ d \in Check /\ d.since = c.since /\ d.layer = NextLayer(c)
          /\ d.limiter = c.limiter /\ d.maker = NoThread /\ d.creating = c.creating
      BY <3>1, <1>4 DEF Check
    <3> HIDE DEF d
    <3> QED BY <3>1, <3>3, <3>4 DEF Tenanted
  <2>8. RememberedBy(t1, a1, clock) /\ LimitOver(a1, Limit(w))
    BY <2>3, <2>5, <1>4, <1>5, PassWindow
  <2>9. \A n \in 1 .. Len(a1) : a1[n] = clock \/ \E k \in 1 .. Len(admitted[w]) : a1[n] = admitted[w][k]
    BY <2>5, <1>4, PassTimes
  <2> HIDE DEF d, t1, a1
  <2>10. /\ timestamps' \in [WindowIds -> Seq(Times)] /\ admitted' \in [WindowIds -> Seq(Times)]
         /\ retryAt' \in [WindowIds -> Nat]
    BY <2>2, <2>4, <2>6, <1>1, <1>4 DEF LimiterShape
  <2>11. timestamps'[w] = t1 /\ admitted'[w] = a1 /\ retryAt'[w] = 0
    BY <2>2, <1>1, <1>4 DEF LimiterShape
  <2>12. \A x \in Passed(w)' : x \in Passed(w) \/ x = clock BY <2>9, <2>11 DEF Passed
  <2>13. WindowOK(w)'
    <3>1. Len(t1) <= Limit(w) BY <2>3, <2>4, <1>5, <1>6
    <3>2. \A x \in Passed(w)' : x <= clock BY <2>12, <1>4, <1>8 DEF WindowOK
    <3> QED BY <3>1, <3>2, <2>8, <2>11, <1>7 DEF WindowOK
  <2>14. \A v \in WindowIds : v # w => /\ timestamps'[v] = timestamps[v]
                                       /\ admitted'[v] = admitted[v] /\ retryAt'[v] = retryAt[v]
    BY <2>2, <1>1 DEF LimiterShape
  <2> QED BY <2>2, <2>7, <2>10, <2>12, <2>13, <2>14, <1>0, <1>2, Counted
<1> QED BY <1>20, <1>21

-----------------------------------------------------------------------------
(* Theorems.                                                               *)

LEMMA LimiterSteps ==
    ASSUME LimiterIInv, [LimiterNext]_limiterVars PROVE LimiterIInv'
<1>1. CASE UNCHANGED limiterVars
  <2>0. Idle /\ limiter' = limiter /\ windows' = windows /\ thread' = thread /\ requests' = requests
    BY <1>1 DEF limiterVars, made, Idle
  <2>1. LimiterShape' BY <2>0 DEF Idle, LimiterShape, LimiterIInv
  <2>2. ASSUME NEW t \in Threads PROVE CheckOK(t)' /\ NewLimiterOK(t)' /\ NewWindowOK(t)' /\ HeldOK(t)'
    <3>1. CheckOK(t) /\ NewLimiterOK(t) /\ NewWindowOK(t) /\ HeldOK(t) BY DEF LimiterIInv
    <3>2. CheckOK(t)' BY <3>1, <2>0 DEF CheckOK, Idle
    <3>3. NewLimiterOK(t)' BY <3>1, <2>0, IdleStep DEF NewLimiterOK
    <3>4. NewWindowOK(t)' BY <3>1, <2>0, IdleStep DEF NewWindowOK
    <3>5. HeldOK(t)' BY <3>1, <2>0, IdleStep DEF HeldOK
    <3> QED BY <3>2, <3>3, <3>4, <3>5
  <2>3. NotYet' BY <2>0, IdleStep DEF NotYet, LimiterIInv
  <2>4. Fading' BY <2>0, IdleStep DEF Fading, Replaces, LimiterIInv
  <2> QED BY <2>0, <2>1, <2>2, <2>3, <2>4, IdleStep DEF LimiterIInv
<1>2. CASE LimiterNext
  <2>1. CASE \E th \in Threads, tenant \in Tenants, action \in {"read", "write"} :
                StartCheck(th, tenant, action)
    BY <2>1, StartStep
  <2>2. CASE \E th \in Threads : MakeLimiter(th) BY <2>2, MakeLimiterStep
  <2>3. CASE \E th \in Threads : GetLimiter(th) BY <2>3, GetLimiterStep
  <2>4. CASE \E th \in Threads : FindWindow(th) BY <2>4, FindWindowStep
  <2>5. CASE \E th \in Threads : StoreWindow(th) BY <2>5, StoreWindowStep
  <2>6. CASE \E th \in Threads : count_and_check(th) BY <2>6, CountStep
  <2>7. CASE Tick BY <2>7, TickStep
  <2> QED BY <2>1, <2>2, <2>3, <2>4, <2>5, <2>6, <2>7, <1>2 DEF LimiterNext
<1> QED BY <1>1, <1>2

LEMMA LimiterAlways == LimiterSpec => []LimiterIInv
<1>1. LimiterInit => LimiterIInv BY LimiterStarts
<1>2. LimiterIInv /\ [LimiterNext]_limiterVars => LimiterIInv' BY LimiterSteps
<1> QED BY <1>1, <1>2, PTL DEF LimiterSpec

\* For all limits, tenants and threads, and however they race to make the limiter and
\* its windows (rate_limit.py:95-99, 182-186): no window ever holds more timestamps than
\* its limit or lets more requests pass in 60 seconds less the time of a check, though
\* checks read the clock before they take the lock; and what a lost race left behind
\* lets nothing pass later than the time of a check after the winner is in use.
THEOREM LimiterCorrect == LimiterSpec => []LimiterInv
<1>1. ASSUME LimiterIInv PROVE LimiterTypeOK
  <2>1. LimiterShape BY <1>1 DEF LimiterIInv
  <2>2. ASSUME NEW w \in WindowIds
        PROVE  timestamps[w] \in Seq(0 .. MaxClock) /\ Len(timestamps[w]) <= Limit(w)
    BY <1>1, <2>1 DEF LimiterIInv, LimiterShape, WindowOK, Times
  <2> QED BY <2>1, <2>2 DEF LimiterShape, LimiterTypeOK, Times
<1>2. ASSUME LimiterIInv PROVE LimitsHold
  <2> SUFFICES ASSUME NEW w \in WindowIds, NEW n \in DOMAIN admitted[w]
               PROVE  Cardinality({m \in 1 .. n :
                         admitted[w][m] + (Window - MaxDelay) > admitted[w][n]}) <= Limit(w)
    BY DEF LimitsHold
  <2>1. LimitOver(admitted[w], Limit(w)) BY <1>2 DEF LimiterIInv, WindowOK
  <2>2. admitted[w] \in Seq(Times) BY <1>2 DEF LimiterIInv, LimiterShape
  <2>3. n \in 1 .. Len(admitted[w]) BY <2>2
  <2>4. Cardinality(Before(admitted[w], n)) <= Limit(w) BY <2>1, <2>3 DEF LimitOver
  <2> QED BY <2>4 DEF Before, Span
<1>3. ASSUME LimiterIInv PROVE ReplacedWindowsFade
  <2> SUFFICES ASSUME NEW w \in WindowIds, NEW n \in DOMAIN admitted[w]
               PROVE  /\ w.limiter # limiter =>
                            \A m \in DOMAIN admitted[GlobalWindow(limiter)] :
                                admitted[w][n] <= admitted[GlobalWindow(limiter)][m] + MaxDelay
                      /\ (w.layer # "global" /\ w.maker # windows[EntryOf(w)]) =>
                            \A m \in DOMAIN admitted[Current(w)] :
                                admitted[w][n] <= admitted[Current(w)][m] + MaxDelay
    BY DEF ReplacedWindowsFade
  <2>1. LimiterShape /\ NotYet /\ Fading BY <1>3 DEF LimiterIInv
  <2>2. ASSUME NEW v \in WindowIds, NEW m \in DOMAIN admitted[v] PROVE admitted[v][m] \in Passed(v)
    <3>1. admitted[v] \in Seq(Times) BY <2>1 DEF LimiterShape
    <3>2. m \in 1 .. Len(admitted[v]) BY <3>1, <2>2
    <3> QED BY <3>2 DEF Passed
  <2>3. admitted[w][n] \in Passed(w) /\ ~Untouched(w) BY <2>2, UntouchedPassed
  <2>4. ASSUME w.limiter # limiter, NEW m \in DOMAIN admitted[GlobalWindow(limiter)]
        PROVE  admitted[w][n] <= admitted[GlobalWindow(limiter)][m] + MaxDelay
    <3>1. limiter \in Threads BY <2>1, <2>3 DEF LimiterShape, NotYet
    <3>2. GlobalWindow(limiter) \in WindowIds BY <3>1, GlobalNames
    <3>3. admitted[GlobalWindow(limiter)][m] \in Passed(GlobalWindow(limiter)) BY <3>2, <2>2, <2>4
    <3> QED BY <3>2, <3>3, <2>1, <2>3, <2>4 DEF Fading, Replaces
  <2>5. ASSUME w.layer # "global", w.maker # windows[EntryOf(w)], NEW m \in DOMAIN admitted[Current(w)]
        PROVE  admitted[w][n] <= admitted[Current(w)][m] + MaxDelay
    <3> DEFINE e == EntryOf(w)
    <3>1. e \in Entries /\ w.maker \in Threads /\ w = WindowFor(e, w.maker) BY <2>5, WindowNames
    <3>2. windows[e] \in Threads BY <3>1, <2>1, <2>3 DEF LimiterShape, NotYet
    <3>3. Current(w) = WindowFor(e, windows[e])
      <4>1. w \in [limiter : Threads, layer : {"tenant", "write"}, tenant : Tenants, maker : Threads]
        BY <2>5, GlobalNames DEF WindowIds
      <4> QED BY <4>1 DEF Current, WindowFor, EntryOf
    <3>4. Current(w) \in WindowIds BY <3>1, <3>2, <3>3, EntryNames
    <3>5. admitted[Current(w)][m] \in Passed(Current(w)) BY <3>4, <2>2, <2>5
    <3> QED BY <3>3, <3>4, <3>5, <2>1, <2>3, <2>5 DEF Fading, Replaces
  <2> QED BY <2>4, <2>5
<1>4. LimiterIInv => LimiterInv BY <1>1, <1>2, <1>3 DEF LimiterInv
<1> QED BY <1>4, LimiterAlways, PTL

\* Whatever the limits, the Retry-After of a 429 is long enough: when it has passed
\* and the window has let nobody else pass, a check finds room, because the timestamp
\* that retry_after was computed from is no longer fresh.
THEOREM RetrySuffices == LimiterSpec => []RetryAfterSuffices
<1>1. ASSUME LimiterIInv PROVE RetryAfterSuffices
  <2> SUFFICES ASSUME NEW w \in WindowIds, retryAt[w] # 0, clock >= retryAt[w]
               PROVE  ~Full(Fresh(timestamps[w], clock), w)
    BY DEF RetryAfterSuffices
  <2> DEFINE ts == timestamps[w]
             s == Fresh(ts, clock)
  <2>1. ts \in Seq(Times) /\ clock \in Nat /\ retryAt[w] \in Nat
    BY <1>1, TimesAreNumbers DEF LimiterIInv, LimiterShape
  <2>2. Len(ts) <= Limit(w) /\ ts # <<>> /\ ts[1] + Window < retryAt[w]
    BY <1>1 DEF LimiterIInv, WindowOK
  <2> HIDE DEF ts
  <2>3. 1 \in 1 .. Len(ts) /\ ts[1] \in Nat /\ Len(ts) \in Nat BY <2>1, <2>2, TimesAreNumbers
  <2>4. ~(ts[1] + Window > clock) BY <2>1, <2>2, <2>3, Spans
  <2>5. s \in Seq(Times) /\ Len(s) < Len(ts) BY <2>1, <2>3, <2>4, TimesAreNumbers, FreshShrinks
  <2>6. Len(s) \in Nat BY <2>5
  <2>7. Limit(w) \in Nat BY LimitsArePositive
  <2>8. Len(s) < Limit(w) BY <2>2, <2>3, <2>5, <2>6, <2>7
  <2> QED BY <2>6, <2>7, <2>8 DEF Full, ts
<1> QED BY <1>1, LimiterAlways, PTL

-----------------------------------------------------------------------------
(* SiemRouter, for any number of emitters and workers, any list of         *)
(* transports and any size of the queue and of Splunk's batches.           *)

-----------------------------------------------------------------------------
(* The inductive invariant.                                                *)

MainStates == {"serving", "transports", "flushed", "timed_out", "exited"}

RouterTypeInv ==
    /\ RouterTypeOK
    /\ main \in [at : MainStates, next : Nat]

\* Where an event can be.
Emitting(e) == \E c \in Emitters : emitter[c] = e
Queued(e) == \E n \in 1 .. Len(queue) : queue[n] = e
Held(e) == \E w \in Workers : worker[w].event = e

\* No two of the places are the same.
OnePlace(e) ==
    /\ \A c, d \in Emitters : emitter[c] = e /\ emitter[d] = e => c = d
    /\ \A m, n \in 1 .. Len(queue) : queue[m] = e /\ queue[n] = e => m = n
    /\ \A v, w \in Workers : worker[v].event = e /\ worker[w].event = e => v = w
    /\ ~(Emitting(e) /\ Queued(e))
    /\ ~(Emitting(e) /\ Held(e))
    /\ ~(Queued(e) /\ Held(e))
    /\ e \in dropped => ~Emitting(e) /\ ~Queued(e) /\ ~Held(e)

\* A worker has handed its event to the transports before the next one.
Reached(k, e) == \E w \in Workers : worker[w].event = e /\ worker[w].next > k

\* The workers are done with the event.
HandedOn(e) == e \notin dropped /\ ~Emitting(e) /\ ~Queued(e) /\ ~Held(e)

HandedInOrder(e) ==
    \A k \in 1 .. Len(Transports) : Handed(k, e) <=> HandedOn(e) \/ Reached(k, e)

PlacesInv ==
    \A e \in 1 .. emitted : OnePlace(e) /\ HandedInOrder(e)

\* The transports have not heard of an event that has not been emitted.
FutureInv ==
    \A e \in Events : e > emitted =>
        \A k \in 1 .. Len(Transports) : ~Handed(k, e)

\* Only Splunk keeps events, and less than a batch of them.
BufferInv ==
    /\ \A t \in ToSet(Transports) : \A e \in Events :
          fate[t][e] = "buffered" => t = "splunk"
    /\ Cardinality(Buffer) < BatchSize

\* What flush() has to account for was in the queue or past it.
BeforeInv ==
    \A e \in before :
        /\ e \notin dropped /\ ~Emitting(e)
        /\ main.at = "flushed" => ~Queued(e)

RouterIInv == RouterTypeInv /\ PlacesInv /\ FutureInv /\ BufferInv /\ BeforeInv

-----------------------------------------------------------------------------
(* The transports.                                                         *)

Names == {"webhook", "syslog", "splunk", "datadog"}

\* The transports are a list without repetitions.
LEMMA TransportsAreNamed ==
    /\ Len(Transports) \in Nat /\ DOMAIN Transports = 1 .. Len(Transports)
    /\ \A k \in 1 .. Len(Transports) : Transports[k] \in ToSet(Transports)
    /\ \A t \in ToSet(Transports) : \E k \in 1 .. Len(Transports) : t = Transports[k]
    /\ \A j, k \in 1 .. Len(Transports) : Transports[j] = Transports[k] => j = k
<1>1. Transports \in Seq(Names) /\ IsInjective(Transports)
  BY SiemRouterAssumption DEF Names
<1>2. Len(Transports) \in Nat /\ DOMAIN Transports = 1 .. Len(Transports)
  BY <1>1, LenProperties
<1> QED BY <1>1, <1>2 DEF IsInjective, ToSet

\* The types, one by one.
LEMMA Types ==
    ASSUME RouterTypeInv
    PROVE  /\ MaxEvents \in Nat /\ emitted \in Nat /\ emitted <= MaxEvents
           /\ 1 .. emitted \subseteq Events
           /\ dropped \subseteq 1 .. emitted /\ before \subseteq 1 .. emitted
           /\ \A c \in Emitters : emitter[c] \in 0 .. emitted
           /\ queue \in Seq(1 .. emitted) /\ Len(queue) \in Nat
           /\ \A n \in 1 .. Len(queue) : queue[n] \in 1 .. emitted
           /\ \A w \in Workers : /\ worker[w].event \in 0 .. emitted
                                 /\ worker[w].next \in 1 .. Len(Transports) + 1
           /\ fate \in [ToSet(Transports) -> [Events -> Fates]]
<1>1. MaxEvents \in Nat BY SiemRouterAssumption
<1>2. queue \in Seq(1 .. emitted) BY DEF RouterTypeInv, RouterTypeOK
<1>3. Len(queue) \in Nat /\ \A n \in 1 .. Len(queue) : queue[n] \in 1 .. emitted
  BY <1>2, LenProperties, ElementOfSeq
<1> QED BY <1>1, <1>2, <1>3 DEF RouterTypeInv, RouterTypeOK, Events

\* A buffer is a finite set of events.
LEMMA BufferIsFinite ==
    ASSUME RouterTypeInv
    PROVE  /\ IsFiniteSet(Buffer) /\ Cardinality(Buffer) \in Nat
           /\ Buffer \subseteq Events
           /\ \A e \in Buffer : "splunk" \in ToSet(Transports) /\ fate["splunk"][e] = "buffered"
<1>1. MaxEvents \in Nat /\ fate \in [ToSet(Transports) -> [Events -> Fates]]
  BY Types
<1>2. IsFiniteSet(Events) BY <1>1, FS_Interval DEF Events
<1>3. Buffer \subseteq Events BY DEF Buffer
<1>4. IsFiniteSet(Buffer) BY <1>2, <1>3, FS_Subset
<1>5. Cardinality(Buffer) \in Nat BY <1>4, FS_CardinalityType
<1> QED BY <1>1, <1>3, <1>4, <1>5 DEF Buffer

\* What a step of a transport may do: events that are kept are posted, and event e,
\* if there is one, becomes known to transport t.
Touches(t, es) ==
    /\ fate' \in [ToSet(Transports) -> [Events -> Fates]]
    /\ \A u \in ToSet(Transports), e \in Events :
          /\ (fate'[u][e] # "none") <=> (fate[u][e] # "none" \/ (u = t /\ e \in es))
          /\ fate'[u][e] = "buffered" => u = "splunk"
    /\ Cardinality(Buffer') < BatchSize

\* A batch that is posted leaves the buffer empty.
LEMMA PostedStep ==
    ASSUME RouterTypeInv, BufferInv, NEW outcome \in {"delivered", "failed"},
           "splunk" \in ToSet(Transports), NEW es \in SUBSET Events,
           fate' = Posted(Buffer \cup es, outcome)
    PROVE  Touches("splunk", es)
<1>1. fate \in [ToSet(Transports) -> [Events -> Fates]] BY Types
<1>2. fate' = [fate EXCEPT !["splunk"] =
                 [e \in Events |-> IF e \in Buffer \cup es THEN outcome
                                   ELSE fate["splunk"][e]]]
  BY DEF Posted
<1>3. outcome \in Fates /\ outcome # "none" /\ outcome # "buffered" BY DEF Fates
<1>4. [e \in Events |-> IF e \in Buffer \cup es THEN outcome ELSE fate["splunk"][e]]
         \in [Events -> Fates]
  BY <1>1, <1>3
<1>5. fate' \in [ToSet(Transports) -> [Events -> Fates]] BY <1>1, <1>2, <1>4
<1>6. \A e \in Events : fate'["splunk"][e] =
         IF e \in Buffer \cup es THEN outcome ELSE fate["splunk"][e]
  BY <1>1, <1>2
<1>7. \A u \in ToSet(Transports) : u # "splunk" => fate'[u] = fate[u] BY <1>1, <1>2
<1>8. \A e \in Events : e \in Buffer <=> fate["splunk"][e] = "buffered"
  BY <1>1 DEF Buffer
<1>9. \A e \in Events : fate'["splunk"][e] # "buffered" BY <1>3, <1>6, <1>8
<1>10. Buffer' = {} BY <1>9 DEF Buffer
<1>11. Cardinality(Buffer') < BatchSize BY <1>10, FS_EmptySet, SiemRouterAssumption
<1>12. \A u \in ToSet(Transports), e \in Events :
          (fate'[u][e] # "none") <=> (fate[u][e] # "none" \/ (u = "splunk" /\ e \in es))
  BY <1>3, <1>6, <1>7, <1>8
<1>13. \A u \in ToSet(Transports), e \in Events : fate'[u][e] = "buffered" => u = "splunk"
  BY <1>7 DEF BufferInv
<1> QED BY <1>5, <1>11, <1>12, <1>13 DEF Touches

\* A send hands its event to its transport and to no other.
LEMMA SentStep ==
    ASSUME RouterTypeInv, BufferInv, NEW outcome \in {"delivered", "failed"},
           NEW t \in ToSet(Transports), NEW e \in Events, fate' = Sent(t, e, outcome)
    PROVE  Touches(t, {e})
<1>1. fate \in [ToSet(Transports) -> [Events -> Fates]] BY Types
<1>2. CASE t = "splunk" /\ Cardinality(Buffer) + 1 >= BatchSize
  <2>1. fate' = Posted(Buffer \cup {e}, outcome) BY <1>2 DEF Sent
  <2> QED BY <2>1, <1>2, PostedStep
<1>3. ASSUME NEW f \in Fates, f # "none", fate' = [fate EXCEPT ![t][e] = f]
      PROVE  /\ fate' \in [ToSet(Transports) -> [Events -> Fates]]
             /\ fate'[t][e] = f
             /\ \A u \in ToSet(Transports), d \in Events :
                   u # t \/ d # e => fate'[u][d] = fate[u][d]
  BY <1>1, <1>3
<1>4. CASE t # "splunk"
  <2>1. fate' = [fate EXCEPT ![t][e] = outcome] BY <1>4 DEF Sent, SentAlone
  <2>2. outcome \in Fates /\ outcome # "none" /\ outcome # "buffered" BY DEF Fates
  <2>3. /\ fate' \in [ToSet(Transports) -> [Events -> Fates]]
        /\ fate'[t][e] = outcome
        /\ \A u \in ToSet(Transports), d \in Events :
              u # t \/ d # e => fate'[u][d] = fate[u][d]
    BY <2>1, <2>2, <1>3
  <2>4. Buffer' = Buffer
    <3>1. DOMAIN fate = ToSet(Transports) /\ DOMAIN fate' = ToSet(Transports) BY <1>1, <2>3
    <3>2. CASE "splunk" \in ToSet(Transports)
      <4>1. \A d \in Events : fate'["splunk"][d] = fate["splunk"][d] BY <2>3, <1>4, <3>2
      <4> QED BY <3>1, <3>2, <4>1 DEF Buffer
    <3>3. CASE "splunk" \notin ToSet(Transports) BY <3>1, <3>3 DEF Buffer
    <3> QED BY <3>2, <3>3
  <2>5. Cardinality(Buffer') < BatchSize BY <2>4 DEF BufferInv
  <2>6. \A u \in ToSet(Transports), d \in Events :
           /\ (fate'[u][d] # "none") <=> (fate[u][d] # "none" \/ (u = t /\ d \in {e}))
           /\ fate'[u][d] = "buffered" => u = "splunk"
    BY <2>2, <2>3 DEF BufferInv
  <2> QED BY <2>3, <2>5, <2>6 DEF Touches
<1>5. CASE t = "splunk" /\ ~(Cardinality(Buffer) + 1 >= BatchSize)
  <2>1. fate' = [fate EXCEPT ![t][e] = "buffered"] BY <1>5 DEF Sent
  <2>2. "buffered" \in Fates BY DEF Fates
  <2>3. /\ fate' \in [ToSet(Transports) -> [Events -> Fates]]
        /\ fate'[t][e] = "buffered"
        /\ \A u \in ToSet(Transports), d \in Events :
              u # t \/ d # e => fate'[u][d] = fate[u][d]
    BY <2>1, <2>2, <1>3
  <2>4. Buffer' = Buffer \cup {e}
    <3>1. "splunk" \in DOMAIN fate /\ "splunk" \in DOMAIN fate' BY <1>1, <1>5, <2>3
    <3>2. Buffer = {d \in Events : fate["splunk"][d] = "buffered"} BY <3>1 DEF Buffer
    <3>3. Buffer' = {d \in Events : fate'["splunk"][d] = "buffered"} BY <3>1 DEF Buffer
    <3> QED BY <3>2, <3>3, <2>3, <1>5
  <2>5. Cardinality(Buffer') \in Nat /\ Cardinality(Buffer') <= Cardinality(Buffer) + 1
    <3>1. IsFiniteSet(Buffer) /\ Cardinality(Buffer) \in Nat BY BufferIsFinite
    <3>2. Cardinality(Buffer \cup {e}) = Cardinality(Buffer)
            \/ Cardinality(Buffer \cup {e}) = Cardinality(Buffer) + 1
      BY <3>1, FS_AddElement
    <3>3. Cardinality(Buffer') = Cardinality(Buffer \cup {e}) BY <2>4
    <3> QED BY <3>1, <3>2, <3>3
  <2>6. Cardinality(Buffer') < BatchSize
    BY <2>5, <1>5, BufferIsFinite, SiemRouterAssumption
  <2>7. \A u \in ToSet(Transports), d \in Events :
           /\ (fate'[u][d] # "none") <=> (fate[u][d] # "none" \/ (u = t /\ d \in {e}))
           /\ fate'[u][d] = "buffered" => u = "splunk"
    BY <2>3, <1>5 DEF BufferInv
  <2> QED BY <2>3, <2>6, <2>7 DEF Touches
<1> QED BY <1>2, <1>4, <1>5


-----------------------------------------------------------------------------
(* One lemma per kind of step: the places of the events.                   *)

\* A step of a transport, or of the main thread, leaves every event in its place.
LEMMA PlacesStay ==
    ASSUME RouterTypeInv, BufferInv, BeforeInv, UNCHANGED <<emitted, dropped, emitter, queue, worker>>,
           NEW t, Touches(t, {}), UNCHANGED before, main' \in [at : MainStates, next : Nat],
           main'.at = "flushed" => main.at = "flushed" \/ queue = <<>>,
           PlacesInv, FutureInv
    PROVE  RouterIInv'
<1>1. RouterTypeInv' BY DEF RouterTypeInv, RouterTypeOK, Touches, MainStates
<1>2. \A k \in 1 .. Len(Transports), e \in Events : Handed(k, e)' <=> Handed(k, e)
  BY TransportsAreNamed DEF Touches, Handed
<1>3. PlacesInv'
  <2> SUFFICES ASSUME NEW e \in 1 .. emitted PROVE (OnePlace(e) /\ HandedInOrder(e))'
    BY DEF PlacesInv
  <2>1. e \in Events BY Types
  <2>2. OnePlace(e) /\ HandedInOrder(e) BY DEF PlacesInv
  <2>3. OnePlace(e)' BY <2>2 DEF OnePlace, Emitting, Queued, Held
  <2>4. /\ HandedOn(e)' <=> HandedOn(e)
        /\ \A k \in 1 .. Len(Transports) : Reached(k, e)' <=> Reached(k, e)
    BY DEF HandedOn, Reached, Emitting, Queued, Held
  <2>5. HandedInOrder(e)' BY <1>2, <2>1, <2>2, <2>4 DEF HandedInOrder
  <2> QED BY <2>3, <2>5
<1>4. FutureInv' BY <1>2 DEF FutureInv
<1>5. BufferInv' BY DEF BufferInv, Touches
<1>6. BeforeInv'
  <2>1. queue = <<>> => Len(queue) = 0 OBVIOUS
  <2> QED BY <2>1 DEF BeforeInv, Emitting, Queued
<1> QED BY <1>1, <1>3, <1>4, <1>5, <1>6 DEF RouterIInv

\* A step that leaves the transports alone.
LEMMA FateStays ==
    ASSUME RouterTypeInv, BufferInv, UNCHANGED fate
    PROVE  /\ \A t : Touches(t, {})
           /\ BufferInv'
           /\ \A k \in 1 .. Len(Transports), e \in Events : Handed(k, e)' <=> Handed(k, e)
<1>1. fate \in [ToSet(Transports) -> [Events -> Fates]] BY Types
<1>2. Buffer' = Buffer BY DEF Buffer
<1> QED BY <1>1, <1>2 DEF BufferInv, Touches, Handed

\* emit counts an event that nobody has yet.
LEMMA EmitStep ==
    ASSUME RouterIInv, NEW c \in Emitters, NEW level, Emit(c, level)
    PROVE  RouterIInv'
<1> DEFINE new == emitted + 1
<1>1. RouterTypeInv /\ PlacesInv /\ FutureInv /\ BufferInv /\ BeforeInv BY DEF RouterIInv
<1>2. /\ emitter[c] = 0 /\ emitted < MaxEvents
      /\ emitted' = new /\ emitter' = [emitter EXCEPT ![c] = new]
      /\ UNCHANGED <<dropped, queue, worker, fate, main, before>>
  BY DEF Emit
<1>3. emitter \in [Emitters -> 0 .. emitted] BY <1>1 DEF RouterTypeInv, RouterTypeOK
<1>4. emitter'[c] = new /\ \A d \in Emitters : d # c => emitter'[d] = emitter[d]
  BY <1>2, <1>3
<1>5. new \in Nat /\ new \in Events /\ new > emitted /\ 1 .. emitted \subseteq 1 .. new
  BY <1>1, <1>2, Types DEF Events
<1>6. \A e \in 1 .. new : e \in 1 .. emitted \/ e = new BY <1>1, Types
<1>7. RouterTypeInv'
  <2>1. queue' \in Seq(1 .. new) BY <1>1, <1>2, <1>5, Types, SeqMonotonic
  <2>2. emitter' \in [Emitters -> 0 .. new] BY <1>2, <1>3, <1>5
  <2>3. worker' \in [Workers -> [event : 0 .. new, next : 1 .. (Len(Transports) + 1)]]
    <3>1. worker \in [Workers -> [event : 0 .. emitted, next : 1 .. (Len(Transports) + 1)]]
      BY <1>1 DEF RouterTypeInv, RouterTypeOK
    <3>2. 0 .. emitted \subseteq 0 .. new BY <1>1, <1>5, Types
    <3> HIDE DEF new
    <3> QED BY <3>1, <3>2, <1>2
  <2>4. dropped' \subseteq 1 .. new /\ before' \subseteq 1 .. new
    BY <1>1, <1>2, <1>5, Types
  <2>5. emitted' \in 0 .. MaxEvents BY <1>1, <1>2, Types
  <2> HIDE DEF new
  <2> QED BY <2>1, <2>2, <2>3, <2>4, <2>5, <1>1, <1>2 DEF RouterTypeInv, RouterTypeOK
<1>8. BufferInv' /\ \A k \in 1 .. Len(Transports), e \in Events : Handed(k, e)' <=> Handed(k, e)
  BY <1>1, <1>2, FateStays
<1>9. \A e \in 1 .. emitted : Emitting(e)' <=> Emitting(e)
  <2>1. \A e \in 1 .. emitted : e # 0 /\ e # new BY <1>1, <1>5, Types
  <2> HIDE DEF new
  <2> QED BY <2>1, <1>2, <1>4 DEF Emitting
<1>10. ASSUME NEW e \in 1 .. emitted PROVE OnePlace(e)' /\ HandedInOrder(e)'
  <2>1. OnePlace(e) /\ HandedInOrder(e) BY <1>1 DEF PlacesInv
  <2>2. e # 0 /\ e # new /\ e \in Events BY <1>1, <1>5, Types
  <2> HIDE DEF new
  <2>3. OnePlace(e)' BY <2>1, <2>2, <1>2, <1>4, <1>9 DEF OnePlace, Queued, Held
  <2>4. HandedInOrder(e)'
    BY <2>1, <2>2, <1>2, <1>8, <1>9 DEF HandedInOrder, HandedOn, Reached, Queued, Held
  <2> QED BY <2>3, <2>4
<1>11. ASSUME NEW e, e = new PROVE OnePlace(e)' /\ HandedInOrder(e)'
  <2>1. \A d \in Emitters : emitter[d] # e BY <1>1, <1>5, <1>11, Types
  <2>2. \A n \in 1 .. Len(queue) : queue[n] # e BY <1>1, <1>5, <1>11, Types
  <2>3. \A w \in Workers : worker[w].event # e BY <1>1, <1>5, <1>11, Types
  <2>4. e \notin dropped BY <1>1, <1>5, <1>11, Types
  <2>5. \A k \in 1 .. Len(Transports) : ~Handed(k, e) BY <1>1, <1>5, <1>11 DEF FutureInv
  <2> HIDE DEF new
  <2>6. \A k \in 1 .. Len(Transports) : ~Handed(k, e)' BY <2>5, <1>5, <1>8, <1>11
  <2>7. OnePlace(e)'
    BY <2>1, <2>2, <2>3, <2>4, <1>2, <1>4, <1>11 DEF OnePlace, Queued, Held, Emitting
  <2>8. Emitting(e)' BY <1>4, <1>11 DEF Emitting
  <2>9. ~HandedOn(e)' BY <2>8 DEF HandedOn
  <2>10. \A k : ~Reached(k, e)' BY <2>3, <1>2 DEF Reached
  <2>11. HandedInOrder(e)' BY <2>6, <2>9, <2>10 DEF HandedInOrder
  <2> QED BY <2>7, <2>11
<1>12. PlacesInv'
  <2> HIDE DEF new
  <2>1. \A e \in 1 .. new : OnePlace(e)' /\ HandedInOrder(e)' BY <1>6, <1>10, <1>11
  <2> QED BY <2>1, <1>2 DEF PlacesInv
<1>13. FutureInv'
  <2>1. \A e \in Events : e > new => e > emitted BY <1>1, Types DEF Events
  <2> HIDE DEF new
  <2> QED BY <2>1, <1>1, <1>2, <1>8 DEF FutureInv
<1>14. BeforeInv'
  <2>1. before \subseteq 1 .. emitted BY <1>1, Types
  <2> QED BY <2>1, <1>1, <1>2, <1>9 DEF BeforeInv, Queued
<1> QED BY <1>7, <1>8, <1>12, <1>13, <1>14 DEF RouterIInv

\* put_nowait moves the event of an emitter into the queue, or drops it.
LEMMA PutStep ==
    ASSUME RouterIInv, NEW c \in Emitters, put_nowait(c)
    PROVE  RouterIInv'
<1>1. RouterTypeInv /\ PlacesInv /\ FutureInv /\ BufferInv /\ BeforeInv BY DEF RouterIInv
<1>2. /\ emitter[c] # 0 /\ emitter' = [emitter EXCEPT ![c] = 0]
      /\ UNCHANGED <<emitted, worker, fate, main, before>>
  BY DEF put_nowait
<1>3. emitter \in [Emitters -> 0 .. emitted] BY <1>1 DEF RouterTypeInv, RouterTypeOK
<1>4. emitter'[c] = 0 /\ \A d \in Emitters : d # c => emitter'[d] = emitter[d]
  BY <1>2, <1>3
<1>5. emitter[c] \in 1 .. emitted BY <1>1, <1>2, Types
<1>6. emitter' \in [Emitters -> 0 .. emitted] BY <1>1, <1>2, <1>3, Types
<1>7. BufferInv' /\ \A k \in 1 .. Len(Transports), e \in Events : Handed(k, e)' <=> Handed(k, e)
  BY <1>1, <1>2, FateStays
<1>8. FutureInv' BY <1>1, <1>2, <1>7 DEF FutureInv
<1>9. OnePlace(emitter[c]) /\ Emitting(emitter[c])
  BY <1>1, <1>5 DEF PlacesInv, Emitting
<1>10. \A e \in 1 .. emitted : Emitting(e)' <=> Emitting(e) /\ e # emitter[c]
  <2>1. \A e \in 1 .. emitted : e # 0 BY <1>1, Types
  <2> QED BY <2>1, <1>4, <1>9 DEF Emitting, OnePlace
<1>11. \A e : (Held(e)' <=> Held(e)) /\ \A k : Reached(k, e)' <=> Reached(k, e)
  BY <1>2 DEF Held, Reached
<1>12. CASE Len(queue) < QueueSize
  <2>1. queue' = Append(queue, emitter[c]) /\ dropped' = dropped
    BY <1>12 DEF put_nowait
  <2>2. /\ queue' \in Seq(1 .. emitted) /\ Len(queue') = Len(queue) + 1
        /\ queue'[Len(queue) + 1] = emitter[c]
        /\ \A n \in 1 .. Len(queue) : queue'[n] = queue[n]
    BY <2>1, <1>1, <1>5, Types, AppendProperties
  <2>3. Len(queue) \in Nat BY <1>1, Types
  <2>4. \A n \in 1 .. Len(queue') : n \in 1 .. Len(queue) \/ n = Len(queue) + 1
    BY <2>2, <2>3
  <2>5. \A e : Queued(e)' <=> Queued(e) \/ e = emitter[c]
    <3>1. Len(queue) + 1 \in 1 .. Len(queue') /\ 1 .. Len(queue) \subseteq 1 .. Len(queue')
      BY <2>2, <2>3
    <3> QED BY <3>1, <2>2, <2>4 DEF Queued
  <2>6. Len(queue') <= QueueSize BY <2>2, <2>3, <1>12, SiemRouterAssumption
  <2>7. RouterTypeInv' BY <2>1, <2>2, <2>6, <1>1, <1>2, <1>6 DEF RouterTypeInv, RouterTypeOK
  <2>8. ASSUME NEW e \in 1 .. emitted PROVE OnePlace(e)' /\ HandedInOrder(e)'
    <3>1. OnePlace(e) /\ HandedInOrder(e) /\ e \in Events BY <1>1, Types DEF PlacesInv
    <3>2. e # 0 BY <1>1, Types
    <3>3. \A a, b \in Emitters : emitter'[a] = e /\ emitter'[b] = e => a = b
      BY <3>1, <3>2, <1>4 DEF OnePlace
    <3>4. \A v, w \in Workers : worker'[v].event = e /\ worker'[w].event = e => v = w
      BY <3>1, <1>2 DEF OnePlace
    <3>5. \A m, n \in 1 .. Len(queue') : queue'[m] = e /\ queue'[n] = e => m = n
      <4>1. e = emitter[c] => \A n \in 1 .. Len(queue) : queue[n] # e
        BY <1>9 DEF OnePlace, Queued
      <4> QED BY <4>1, <2>2, <2>4, <3>1 DEF OnePlace
    <3>6. e = emitter[c] => Emitting(e) BY DEF Emitting
    <3>7. OnePlace(e)'
      BY <3>1, <3>3, <3>4, <3>5, <3>6, <1>10, <1>11, <2>1, <2>5 DEF OnePlace
    <3>8. HandedOn(e)' <=> HandedOn(e) BY <3>6, <1>10, <1>11, <2>1, <2>5 DEF HandedOn
    <3>9. HandedInOrder(e)' BY <3>1, <3>8, <1>7, <1>11 DEF HandedInOrder
    <3> QED BY <3>7, <3>9
  <2>9. PlacesInv' BY <2>8, <1>2 DEF PlacesInv
  <2>10. BeforeInv'
    <3>1. before \subseteq 1 .. emitted BY <1>1, Types
    <3> QED BY <3>1, <2>1, <2>5, <1>1, <1>2, <1>9, <1>10 DEF BeforeInv
  <2> QED BY <2>7, <2>9, <2>10, <1>7, <1>8 DEF RouterIInv
<1>13. CASE ~(Len(queue) < QueueSize)
  <2>1. queue' = queue /\ dropped' = dropped \cup {emitter[c]}
    BY <1>13 DEF put_nowait
  <2>2. \A e : Queued(e)' <=> Queued(e) BY <2>1 DEF Queued
  <2>3. RouterTypeInv'
    <3>1. dropped' \subseteq 1 .. emitted BY <2>1, <1>1, <1>5, Types
    <3> QED BY <3>1, <2>1, <1>1, <1>2, <1>6 DEF RouterTypeInv, RouterTypeOK
  <2>4. ASSUME NEW e \in 1 .. emitted PROVE OnePlace(e)' /\ HandedInOrder(e)'
    <3>1. OnePlace(e) /\ HandedInOrder(e) /\ e \in Events BY <1>1, Types DEF PlacesInv
    <3>2. e # 0 BY <1>1, Types
    <3>3. \A a, b \in Emitters : emitter'[a] = e /\ emitter'[b] = e => a = b
      BY <3>1, <3>2, <1>4 DEF OnePlace
    <3>4. \A v, w \in Workers : worker'[v].event = e /\ worker'[w].event = e => v = w
      BY <3>1, <1>2 DEF OnePlace
    <3>5. \A m, n \in 1 .. Len(queue') : queue'[m] = e /\ queue'[n] = e => m = n
      BY <2>1, <3>1 DEF OnePlace
    <3>6. e = emitter[c] => Emitting(e) BY DEF Emitting
    <3>7. OnePlace(e)'
      BY <3>1, <3>3, <3>4, <3>5, <3>6, <1>10, <1>11, <2>1, <2>2 DEF OnePlace
    <3>8. HandedOn(e)' <=> HandedOn(e) BY <3>6, <1>10, <1>11, <2>1, <2>2 DEF HandedOn
    <3>9. HandedInOrder(e)' BY <3>1, <3>8, <1>7, <1>11 DEF HandedInOrder
    <3> QED BY <3>7, <3>9
  <2>5. PlacesInv' BY <2>4, <1>2 DEF PlacesInv
  <2>6. BeforeInv'
    <3>1. before \subseteq 1 .. emitted BY <1>1, Types
    <3> QED BY <3>1, <2>1, <2>2, <1>1, <1>2, <1>9, <1>10 DEF BeforeInv
  <2> QED BY <2>3, <2>5, <2>6, <1>7, <1>8 DEF RouterIInv
<1> QED BY <1>12, <1>13

\* A worker that takes the head of the queue.
LEMMA GetStep ==
    ASSUME RouterIInv, NEW w0 \in Workers, Get(w0)
    PROVE  RouterIInv'
<1>1. RouterTypeInv /\ PlacesInv /\ FutureInv /\ BufferInv /\ BeforeInv BY DEF RouterIInv
<1>2. /\ worker[w0] = NoEvent /\ queue # <<>>
      /\ worker' = [worker EXCEPT ![w0] = [event |-> Head(queue), next |-> 1]]
      /\ queue' = Tail(queue)
      /\ UNCHANGED <<emitted, dropped, emitter, fate, main, before>>
  BY DEF Get
<1>3. /\ queue \in Seq(1 .. emitted) /\ Len(queue) \in Nat /\ Head(queue) = queue[1]
      /\ Len(queue) >= 1
  BY <1>1, <1>2, Types, EmptySeq
<1>4. /\ Head(queue) \in 1 .. emitted /\ queue' \in Seq(1 .. emitted)
      /\ Len(queue') = Len(queue) - 1
      /\ \A n \in 1 .. Len(queue') : queue'[n] = queue[n + 1]
  BY <1>2, <1>3, HeadTailProperties
<1>5. worker \in [Workers -> [event : 0 .. emitted, next : 1 .. (Len(Transports) + 1)]]
  BY <1>1 DEF RouterTypeInv, RouterTypeOK
<1>6. /\ worker'[w0] = [event |-> Head(queue), next |-> 1]
      /\ \A w \in Workers : w # w0 => worker'[w] = worker[w]
  BY <1>2, <1>5
<1>7. worker[w0].event = 0 /\ worker'[w0].event = Head(queue) /\ worker'[w0].next = 1
  BY <1>2, <1>6 DEF NoEvent
<1>8. RouterTypeInv'
  <2>1. [event |-> Head(queue), next |-> 1] \in
           [event : 0 .. emitted, next : 1 .. (Len(Transports) + 1)]
    BY <1>1, <1>4, Types, TransportsAreNamed
  <2>2. worker' \in [Workers -> [event : 0 .. emitted, next : 1 .. (Len(Transports) + 1)]]
    BY <2>1, <1>2, <1>5
  <2>3. Len(queue') <= QueueSize
    BY <1>1, <1>3, <1>4, SiemRouterAssumption DEF RouterTypeInv, RouterTypeOK
  <2> QED BY <2>2, <2>3, <1>1, <1>2, <1>4 DEF RouterTypeInv, RouterTypeOK
<1>9. BufferInv' /\ \A k \in 1 .. Len(Transports), e \in Events : Handed(k, e)' <=> Handed(k, e)
  BY <1>1, <1>2, FateStays
<1>10. FutureInv' BY <1>1, <1>2, <1>9 DEF FutureInv
<1>11. \A e : Emitting(e)' <=> Emitting(e) BY <1>2 DEF Emitting
<1>12. \A e \in 1 .. emitted : Held(e)' <=> Held(e) \/ e = Head(queue)
  <2>1. \A e \in 1 .. emitted : e # 0 BY <1>1, Types
  <2> QED BY <2>1, <1>6, <1>7 DEF Held
<1>13. Queued(Head(queue)) /\ OnePlace(Head(queue))
  BY <1>1, <1>3, <1>4 DEF Queued, PlacesInv
<1>14. \A n \in 1 .. Len(queue') : n + 1 \in 1 .. Len(queue) /\ n + 1 # 1
  BY <1>3, <1>4
<1>15. \A n \in 1 .. Len(queue) : n = 1 \/ (n - 1 \in 1 .. Len(queue') /\ (n - 1) + 1 = n)
  BY <1>3, <1>4
<1>16. \A e : Queued(e)' <=> Queued(e) /\ e # Head(queue)
  <2>1. \A n \in 1 .. Len(queue) : queue[n] = Head(queue) => n = 1
    <3>1. 1 \in 1 .. Len(queue) BY <1>3
    <3> QED BY <3>1, <1>3, <1>13 DEF OnePlace
  <2>2. ASSUME NEW e, NEW n \in 1 .. Len(queue'), queue'[n] = e
        PROVE  Queued(e) /\ e # Head(queue)
    <3>1. n + 1 \in 1 .. Len(queue) /\ n + 1 # 1 /\ queue[n + 1] = e BY <2>2, <1>4, <1>14
    <3> QED BY <3>1, <2>1 DEF Queued
  <2>3. ASSUME NEW e, NEW n \in 1 .. Len(queue), queue[n] = e, e # Head(queue)
        PROVE  \E m \in 1 .. Len(queue') : queue'[m] = e
    <3>1. n # 1 BY <2>3, <1>3
    <3>2. n - 1 \in 1 .. Len(queue') /\ (n - 1) + 1 = n BY <3>1, <1>15
    <3>3. queue'[n - 1] = queue[(n - 1) + 1] BY <3>2, <1>4
    <3> QED BY <3>2, <3>3, <2>3
  <2> QED BY <2>2, <2>3 DEF Queued
<1>17. ASSUME NEW e \in 1 .. emitted PROVE OnePlace(e)' /\ HandedInOrder(e)'
  <2>1. OnePlace(e) /\ HandedInOrder(e) /\ e \in Events /\ e # 0
    BY <1>1, Types DEF PlacesInv
  <2>2. \A a, b \in Emitters : emitter'[a] = e /\ emitter'[b] = e => a = b
    BY <2>1, <1>2 DEF OnePlace
  <2>3. \A m, n \in 1 .. Len(queue') : queue'[m] = e /\ queue'[n] = e => m = n
    <3> SUFFICES ASSUME NEW m \in 1 .. Len(queue'), NEW n \in 1 .. Len(queue'),
                        queue'[m] = e, queue'[n] = e
                 PROVE  m = n
      OBVIOUS
    <3>1. m + 1 = n + 1 BY <2>1, <1>4, <1>14 DEF OnePlace
    <3> QED BY <3>1
  <2>4. \A v, w \in Workers : worker'[v].event = e /\ worker'[w].event = e => v = w
    <3>1. e = Head(queue) => ~Held(e) BY <1>13 DEF OnePlace
    <3>2. \A w \in Workers : worker'[w].event = e =>
             (w = w0 /\ e = Head(queue)) \/ (w # w0 /\ worker[w].event = e)
      BY <1>6, <1>7
    <3> QED BY <3>1, <3>2, <2>1 DEF OnePlace, Held
  <2>5. e = Head(queue) => ~Held(e) /\ ~Emitting(e) /\ e \notin dropped
    BY <1>13 DEF OnePlace
  <2>6. OnePlace(e)'
    BY <2>1, <2>2, <2>3, <2>4, <2>5, <1>2, <1>11, <1>12, <1>16 DEF OnePlace
  <2>7. HandedOn(e)' <=> HandedOn(e) BY <1>2, <1>11, <1>12, <1>13, <1>16 DEF HandedOn
  <2>8. \A k \in 1 .. Len(Transports) : Reached(k, e)' <=> Reached(k, e)
    <3>1. \A k \in 1 .. Len(Transports) : ~(worker'[w0].next > k)
      BY <1>7, TransportsAreNamed
    <3> QED BY <3>1, <2>1, <1>6, <1>7 DEF Reached
  <2>9. HandedInOrder(e)' BY <2>1, <2>7, <2>8, <1>9 DEF HandedInOrder
  <2> QED BY <2>6, <2>9
<1>18. PlacesInv' BY <1>2, <1>17 DEF PlacesInv
<1>19. BeforeInv' BY <1>1, <1>2, <1>11, <1>16 DEF BeforeInv
<1> QED BY <1>8, <1>9, <1>10, <1>18, <1>19 DEF RouterIInv

\* A worker that hands its event to its next transport.
LEMMA SendStep ==
    ASSUME RouterIInv, NEW w0 \in Workers, Send(w0)
    PROVE  RouterIInv'
<1> DEFINE e0 == worker[w0].event
           k0 == worker[w0].next
           t0 == Transports[k0]
<1>1. RouterTypeInv /\ PlacesInv /\ FutureInv /\ BufferInv /\ BeforeInv BY DEF RouterIInv
<1>2. /\ e0 # 0 /\ k0 <= Len(Transports)
      /\ worker' = [worker EXCEPT ![w0].next = @ + 1]
      /\ UNCHANGED <<emitted, dropped, emitter, queue, main, before>>
  BY DEF Send
<1>3. k0 \in 1 .. Len(Transports) /\ t0 \in ToSet(Transports)
  BY <1>1, <1>2, Types, TransportsAreNamed
<1>4. e0 \in 1 .. emitted /\ e0 \in Events BY <1>1, <1>2, Types
<1>5. PICK outcome \in {"delivered", "failed"} : fate' = Sent(t0, e0, outcome)
  BY DEF Send
<1> HIDE DEF t0, e0
<1>6. Touches(t0, {e0}) BY <1>1, <1>3, <1>4, <1>5, SentStep
<1> USE DEF t0, e0
<1>7. worker \in [Workers -> [event : 0 .. emitted, next : 1 .. (Len(Transports) + 1)]]
  BY <1>1 DEF RouterTypeInv, RouterTypeOK
<1>8. worker' = [worker EXCEPT ![w0] = [event |-> e0, next |-> k0 + 1]]
  <2>1. [worker[w0] EXCEPT !.next = @ + 1] = [event |-> e0, next |-> k0 + 1] BY <1>7
  <2> QED BY <2>1, <1>2, <1>7
<1> HIDE DEF e0, k0, t0
<1>9. /\ worker'[w0] = [event |-> e0, next |-> k0 + 1]
      /\ \A w \in Workers : w # w0 => worker'[w] = worker[w]
  BY <1>7, <1>8
<1>10. /\ worker'[w0].event = e0 /\ worker'[w0].next = k0 + 1
       /\ \A w \in Workers : worker'[w].event = worker[w].event
  BY <1>9 DEF e0
<1>11. RouterTypeInv'
  <2>1. [event |-> e0, next |-> k0 + 1] \in
           [event : 0 .. emitted, next : 1 .. (Len(Transports) + 1)]
    BY <1>1, <1>3, <1>4, Types, TransportsAreNamed
  <2>2. worker' \in [Workers -> [event : 0 .. emitted, next : 1 .. (Len(Transports) + 1)]]
    BY <2>1, <1>7, <1>8
  <2> QED BY <2>2, <1>1, <1>2, <1>6 DEF RouterTypeInv, RouterTypeOK, Touches
<1>12. \A e : /\ Emitting(e)' <=> Emitting(e)
              /\ Queued(e)' <=> Queued(e)
              /\ Held(e)' <=> Held(e)
  BY <1>2, <1>10 DEF Emitting, Queued, Held
<1>13. \A k \in 1 .. Len(Transports), e \in Events :
          Handed(k, e)' <=> Handed(k, e) \/ (k = k0 /\ e = e0)
  <2>1. \A k \in 1 .. Len(Transports) : /\ Transports[k] \in ToSet(Transports)
                                        /\ Transports[k] = t0 <=> k = k0
    BY <1>3, TransportsAreNamed DEF t0
  <2> QED BY <2>1, <1>6 DEF Handed, Touches
<1>14. \A e : \A k \in 1 .. Len(Transports) :
          Reached(k, e)' <=> Reached(k, e) \/ (k = k0 /\ e = e0)
  <2>1. \A k \in 1 .. Len(Transports) : k0 + 1 > k <=> k0 > k \/ k = k0
    BY <1>3, TransportsAreNamed
  <2>2. worker[w0].event = e0 /\ worker[w0].next = k0 BY DEF e0, k0
  <2> QED BY <2>1, <2>2, <1>9, <1>10 DEF Reached
<1>15. ASSUME NEW e \in 1 .. emitted PROVE OnePlace(e)' /\ HandedInOrder(e)'
  <2>1. OnePlace(e) /\ HandedInOrder(e) /\ e \in Events BY <1>1, Types DEF PlacesInv
  <2>2. OnePlace(e)' BY <2>1, <1>2, <1>10, <1>12 DEF OnePlace
  <2>3. HandedOn(e)' <=> HandedOn(e) BY <1>2, <1>12 DEF HandedOn
  <2>4. HandedInOrder(e)' BY <2>1, <2>3, <1>13, <1>14 DEF HandedInOrder
  <2> QED BY <2>2, <2>4
<1>16. PlacesInv' BY <1>2, <1>15 DEF PlacesInv
<1>17. FutureInv'
  <2>1. ~(e0 > emitted) BY <1>1, <1>4, Types
  <2> QED BY <2>1, <1>1, <1>2, <1>13 DEF FutureInv
<1>18. BufferInv' BY <1>6 DEF BufferInv, Touches
<1>19. BeforeInv' BY <1>1, <1>2, <1>12 DEF BeforeInv
<1> QED BY <1>11, <1>16, <1>17, <1>18, <1>19 DEF RouterIInv

\* A worker that lets go of an event has handed it to every transport.
LEMMA TaskDoneStep ==
    ASSUME RouterIInv, NEW w0 \in Workers, task_done(w0)
    PROVE  RouterIInv'
<1> DEFINE e0 == worker[w0].event
<1>1. RouterTypeInv /\ PlacesInv /\ FutureInv /\ BufferInv /\ BeforeInv BY DEF RouterIInv
<1>2. /\ e0 # 0 /\ worker[w0].next > Len(Transports)
      /\ worker' = [worker EXCEPT ![w0] = NoEvent]
      /\ UNCHANGED <<emitted, dropped, emitter, queue, fate, main, before>>
  BY DEF task_done
<1>3. worker \in [Workers -> [event : 0 .. emitted, next : 1 .. (Len(Transports) + 1)]]
  BY <1>1 DEF RouterTypeInv, RouterTypeOK
<1>4. /\ worker'[w0] = NoEvent /\ worker'[w0].event = 0
      /\ \A w \in Workers : w # w0 => worker'[w] = worker[w]
  BY <1>2, <1>3 DEF NoEvent
<1>5. RouterTypeInv'
  <2>1. NoEvent \in [event : 0 .. emitted, next : 1 .. (Len(Transports) + 1)]
    BY <1>1, Types, TransportsAreNamed DEF NoEvent
  <2>2. worker' \in [Workers -> [event : 0 .. emitted, next : 1 .. (Len(Transports) + 1)]]
    BY <2>1, <1>2, <1>3
  <2> QED BY <2>2, <1>1, <1>2 DEF RouterTypeInv, RouterTypeOK
<1>6. BufferInv' /\ \A k \in 1 .. Len(Transports), e \in Events : Handed(k, e)' <=> Handed(k, e)
  BY <1>1, <1>2, FateStays
<1>7. FutureInv' BY <1>1, <1>2, <1>6 DEF FutureInv
<1>8. e0 \in 1 .. emitted BY <1>1, <1>2, Types
<1>9. OnePlace(e0) /\ Held(e0) BY <1>1, <1>8 DEF PlacesInv, Held
<1>10. \A e : (Emitting(e)' <=> Emitting(e)) /\ (Queued(e)' <=> Queued(e))
  BY <1>2 DEF Emitting, Queued
<1>11. ASSUME NEW e \in 1 .. emitted PROVE OnePlace(e)' /\ HandedInOrder(e)'
  <2>1. OnePlace(e) /\ HandedInOrder(e) /\ e \in Events /\ e # 0
    BY <1>1, Types DEF PlacesInv
  <2>2. \A w \in Workers : worker'[w].event = e <=> worker[w].event = e /\ w # w0
    BY <2>1, <1>4
  <2>3. Held(e)' => Held(e) BY <2>2 DEF Held
  <2>4. OnePlace(e)' BY <2>1, <2>2, <2>3, <1>2, <1>10 DEF OnePlace
  <2>5. CASE e # e0
    <3>1. Held(e)' <=> Held(e) BY <2>2, <2>5 DEF Held
    <3>2. HandedOn(e)' <=> HandedOn(e) BY <3>1, <1>2, <1>10 DEF HandedOn
    <3>3. \A k : Reached(k, e)' <=> Reached(k, e) BY <2>2, <2>5, <1>4 DEF Reached
    <3>4. HandedInOrder(e)' BY <2>1, <3>2, <3>3, <1>6 DEF HandedInOrder
    <3> QED BY <3>4, <2>4
  <2>6. CASE e = e0
    <3>1. ~Held(e)' BY <2>1, <2>2, <2>6 DEF Held, OnePlace
    <3>2. HandedOn(e)' BY <3>1, <2>6, <1>2, <1>9, <1>10 DEF HandedOn, OnePlace
    <3>3. \A k \in 1 .. Len(Transports) : worker[w0].next > k
      BY <1>1, <1>2, Types, TransportsAreNamed
    <3>4. \A k \in 1 .. Len(Transports) : Reached(k, e) BY <3>3, <2>6 DEF Reached
    <3>5. HandedInOrder(e)' BY <2>1, <3>2, <3>4, <1>6 DEF HandedInOrder
    <3> QED BY <3>5, <2>4
  <2> QED BY <2>5, <2>6
<1>12. PlacesInv' BY <1>2, <1>11 DEF PlacesInv
<1>13. BeforeInv' BY <1>1, <1>2, <1>10 DEF BeforeInv
<1> QED BY <1>5, <1>6, <1>7, <1>12, <1>13 DEF RouterIInv

\* flush() starts with the events that are neither dropped nor with an emitter.
LEMMA StartFlushStep ==
    ASSUME RouterIInv, StartFlush
    PROVE  RouterIInv'
<1>1. RouterTypeInv /\ PlacesInv /\ FutureInv /\ BufferInv /\ BeforeInv BY DEF RouterIInv
<1>2. /\ main' = [at |-> "transports", next |-> 1]
      /\ before' = OnTheirWay \ Range(emitter)
      /\ UNCHANGED <<emitted, dropped, emitter, queue, worker, fate>>
  BY DEF StartFlush
<1>3. main' \in [at : MainStates, next : Nat] /\ main'.at = "transports"
  BY <1>2 DEF MainStates
<1>4. RouterTypeInv'
  <2>1. before' \subseteq 1 .. emitted BY <1>2 DEF OnTheirWay
  <2> QED BY <2>1, <1>1, <1>2, <1>3 DEF RouterTypeInv, RouterTypeOK
<1>5. BufferInv' /\ \A k \in 1 .. Len(Transports), e \in Events : Handed(k, e)' <=> Handed(k, e)
  BY <1>1, <1>2, FateStays
<1>6. PlacesInv'
  <2>1. \A e : OnePlace(e)' <=> OnePlace(e)
    BY <1>2 DEF OnePlace, Emitting, Queued, Held
  <2>2. \A e : /\ HandedOn(e)' <=> HandedOn(e)
              /\ \A k : Reached(k, e)' <=> Reached(k, e)
    BY <1>2 DEF HandedOn, Reached, Emitting, Queued, Held
  <2>3. \A e \in Events : HandedInOrder(e)' <=> HandedInOrder(e)
    BY <2>2, <1>5 DEF HandedInOrder
  <2> QED BY <2>1, <2>3, <1>1, <1>2, Types DEF PlacesInv
<1>7. FutureInv' BY <1>1, <1>2, <1>5 DEF FutureInv
<1>8. BeforeInv'
  <2>1. DOMAIN emitter = Emitters BY <1>1 DEF RouterTypeInv, RouterTypeOK
  <2>2. \A e \in before' : e \notin dropped /\ ~Emitting(e)
    BY <2>1, <1>2 DEF OnTheirWay, Range, Emitting
  <2>3. \A e : Emitting(e)' <=> Emitting(e) BY <1>2 DEF Emitting
  <2> QED BY <2>2, <2>3, <1>2, <1>3 DEF BeforeInv
<1> QED BY <1>4, <1>5, <1>6, <1>7, <1>8 DEF RouterIInv

\* The rest of flush(), and the end of the process.
LEMMA MainStep ==
    ASSUME RouterIInv, FlushTransport \/ FinishFlush \/ Exit
    PROVE  RouterIInv'
<1>1. RouterTypeInv /\ PlacesInv /\ FutureInv /\ BufferInv /\ BeforeInv BY DEF RouterIInv
<1>2. main \in [at : MainStates, next : Nat] BY <1>1 DEF RouterTypeInv
<1>3. CASE FlushTransport
  <2>1. main' \in [at : MainStates, next : Nat] /\ main'.at = main.at
    BY <1>2, <1>3 DEF FlushTransport
  <2>2. UNCHANGED <<emitted, dropped, emitter, queue, worker, before>>
    BY <1>3 DEF FlushTransport
  <2>3. CASE UNCHANGED fate
    <3>1. Touches("splunk", {}) BY <2>3, <1>1, FateStays
    <3> QED BY <3>1, <2>1, <2>2, <1>1, PlacesStay
  <2>4. CASE /\ Transports[main.next] = "splunk" /\ Buffer # {}
             /\ \E outcome \in {"delivered", "failed"} : fate' = Posted(Buffer, outcome)
    <3>1. PICK outcome \in {"delivered", "failed"} : fate' = Posted(Buffer, outcome)
      BY <2>4
    <3>2. Buffer \cup {} = Buffer OBVIOUS
    <3>3. fate' = Posted(Buffer \cup {}, outcome) BY <3>1, <3>2
    <3>4. "splunk" \in ToSet(Transports) BY <2>4, <1>1, BufferIsFinite
    <3>5. Touches("splunk", {}) BY <3>3, <3>4, <1>1, PostedStep
    <3> QED BY <3>5, <2>1, <2>2, <1>1, PlacesStay
  <2> QED BY <2>3, <2>4, <1>3 DEF FlushTransport
<1>4. CASE FinishFlush
  <2>1. /\ UNCHANGED <<emitted, dropped, emitter, queue, worker, fate, before>>
        /\ \/ queue = <<>> /\ main' = [main EXCEPT !.at = "flushed"]
           \/ main' = [main EXCEPT !.at = "timed_out"]
    BY <1>4 DEF FinishFlush, Drained
  <2>2. /\ main' \in [at : MainStates, next : Nat]
        /\ main'.at = "flushed" => queue = <<>>
    BY <2>1, <1>2 DEF MainStates
  <2>3. Touches("splunk", {}) BY <2>1, <1>1, FateStays
  <2> QED BY <2>1, <2>2, <2>3, <1>1, PlacesStay
<1>5. CASE Exit
  <2>1. /\ UNCHANGED <<emitted, dropped, emitter, queue, worker, fate, before>>
        /\ main' = [main EXCEPT !.at = "exited"]
    BY <1>5 DEF Exit
  <2>2. main' \in [at : MainStates, next : Nat] /\ main'.at = "exited"
    BY <2>1, <1>2 DEF MainStates
  <2>3. Touches("splunk", {}) BY <2>1, <1>1, FateStays
  <2> QED BY <2>1, <2>2, <2>3, <1>1, PlacesStay
<1> QED BY <1>3, <1>4, <1>5

\* A step that changes nothing.
LEMMA Stutter ==
    ASSUME RouterIInv, UNCHANGED routerVars
    PROVE  RouterIInv'
<1>1. RouterTypeInv /\ PlacesInv /\ FutureInv /\ BufferInv /\ BeforeInv BY DEF RouterIInv
<1>2. UNCHANGED <<emitted, dropped, emitter, queue, worker, fate, before, main>>
  BY DEF routerVars
<1>3. main' \in [at : MainStates, next : Nat] BY <1>1, <1>2 DEF RouterTypeInv
<1>4. Touches("splunk", {}) BY <1>1, <1>2, FateStays
<1> QED BY <1>1, <1>2, <1>3, <1>4, PlacesStay

\* It holds of a router that has just been made.
LEMMA RouterInitInv == RouterInit => RouterIInv
<1> SUFFICES ASSUME RouterInit PROVE RouterIInv OBVIOUS
<1>1. RouterTypeInv
  <2>1. worker \in [Workers -> [event : 0 .. 0, next : 1 .. (Len(Transports) + 1)]]
    BY TransportsAreNamed DEF RouterInit, NoEvent
  <2>2. emitter \in [Emitters -> 0 .. 0] BY DEF RouterInit
  <2>3. fate \in [ToSet(Transports) -> [Events -> Fates]] BY DEF RouterInit, Fates
  <2>4. queue \in Seq(1 .. 0) /\ Len(queue) <= QueueSize
    BY SiemRouterAssumption DEF RouterInit
  <2>5. main \in [at : MainStates, next : Nat] BY DEF RouterInit, MainStates
  <2>6. emitted = 0 /\ dropped = {} /\ before = {} BY DEF RouterInit
  <2>7. emitted \in 0 .. MaxEvents BY <2>6, SiemRouterAssumption
  <2> QED BY <2>1, <2>2, <2>3, <2>4, <2>5, <2>6, <2>7 DEF RouterTypeInv, RouterTypeOK, MainStates
<1>2. PlacesInv BY DEF RouterInit, PlacesInv
<1>3. \A t \in ToSet(Transports) : \A e \in Events : fate[t][e] = "none" BY DEF RouterInit
<1>4. FutureInv BY <1>3, TransportsAreNamed DEF FutureInv, Handed
<1>5. BufferInv
  <2>1. DOMAIN fate = ToSet(Transports) BY DEF RouterInit
  <2>2. Buffer = {} BY <1>3, <2>1 DEF Buffer
  <2>3. Cardinality(Buffer) = 0 BY <2>2, FS_EmptySet
  <2> QED BY <2>3, <1>3, SiemRouterAssumption DEF BufferInv
<1>6. BeforeInv BY DEF RouterInit, BeforeInv
<1> QED BY <1>1, <1>2, <1>4, <1>5, <1>6 DEF RouterIInv

\* Every step of every thread keeps the invariant.
THEOREM RouterInvariant == RouterSpec => []RouterIInv
<1>1. RouterIInv /\ [RouterNext]_routerVars => RouterIInv'
  <2> SUFFICES ASSUME RouterIInv, [RouterNext]_routerVars PROVE RouterIInv' OBVIOUS
  <2>1. CASE UNCHANGED routerVars BY <2>1, Stutter
  <2>2. ASSUME NEW c \in Emitters, \E level \in DOMAIN Levels : Emit(c, level) PROVE RouterIInv'
    BY <2>2, EmitStep
  <2>3. ASSUME NEW c \in Emitters, put_nowait(c) PROVE RouterIInv' BY <2>3, PutStep
  <2>4. ASSUME NEW w \in Workers, Get(w) PROVE RouterIInv' BY <2>4, GetStep
  <2>5. ASSUME NEW w \in Workers, Send(w) PROVE RouterIInv' BY <2>5, SendStep
  <2>6. ASSUME NEW w \in Workers, task_done(w) PROVE RouterIInv' BY <2>6, TaskDoneStep
  <2>7. CASE StartFlush BY <2>7, StartFlushStep
  <2>8. CASE FlushTransport \/ FinishFlush \/ Exit BY <2>8, MainStep
  <2> QED BY <2>1, <2>2, <2>3, <2>4, <2>5, <2>6, <2>7, <2>8 DEF RouterNext
<1> QED BY <1>1, RouterInitInv, PTL DEF RouterSpec

-----------------------------------------------------------------------------
(* What follows from it.                                                   *)

\* A set without two members has none or one.
LEMMA AtMostOne ==
    ASSUME NEW S, \A x, y \in S : x = y
    PROVE  Cardinality(S) = IF S = {} THEN 0 ELSE 1
<1>1. CASE S = {} BY <1>1, FS_EmptySet
<1>2. ASSUME NEW x \in S PROVE Cardinality(S) = 1
  <2>1. S = {x} BY <1>2
  <2> QED BY <2>1, FS_Singleton
<1> QED BY <1>1, <1>2

\* While the process runs no event vanishes and none is sent twice: every event that
\* emit counted is in one place and has been handed to exactly the transports that
\* place implies, with any number of emitters, workers and transports.
THEOREM NoEventVanishes == RouterSpec => []RouterInv
<1>1. RouterIInv => RouterInv
  <2> SUFFICES ASSUME RouterIInv PROVE RouterInv OBVIOUS
  <2>1. RouterTypeOK /\ RouterTypeInv BY DEF RouterIInv, RouterTypeInv
  <2>2. DOMAIN queue = 1 .. Len(queue) BY <2>1, Types, LenProperties
  <2>3. ASSUME NEW e \in 1 .. emitted
        PROVE  LET places == Cardinality({c \in Emitters : emitter[c] = e})
                             + Cardinality({n \in DOMAIN queue : queue[n] = e})
                             + Cardinality({w \in Workers : worker[w].event = e})
               IN  /\ e \in dropped => places = 0
                   /\ places <= 1
                   /\ \A k \in DOMAIN Transports :
                         Handed(k, e) <=>
                           \/ places = 0 /\ e \notin dropped
                           \/ \E w \in Workers : worker[w].event = e /\ worker[w].next > k
    <3> DEFINE C == {c \in Emitters : emitter[c] = e}
               N == {n \in DOMAIN queue : queue[n] = e}
               W == {w \in Workers : worker[w].event = e}
    <3>1. OnePlace(e) /\ HandedInOrder(e) BY DEF RouterIInv, PlacesInv
    <3>2. Cardinality(C) = IF Emitting(e) THEN 1 ELSE 0
      <4>1. \A x, y \in C : x = y BY <3>1 DEF OnePlace
      <4>2. C = {} <=> ~Emitting(e) BY DEF Emitting
      <4> HIDE DEF C
      <4> QED BY <4>1, <4>2, AtMostOne
    <3>3. Cardinality(N) = IF Queued(e) THEN 1 ELSE 0
      <4>1. \A x, y \in N : x = y BY <3>1, <2>2 DEF OnePlace
      <4>2. N = {} <=> ~Queued(e) BY <2>2 DEF Queued
      <4> HIDE DEF N
      <4> QED BY <4>1, <4>2, AtMostOne
    <3>4. Cardinality(W) = IF Held(e) THEN 1 ELSE 0
      <4>1. \A x, y \in W : x = y BY <3>1 DEF OnePlace
      <4>2. W = {} <=> ~Held(e) BY DEF Held
      <4> HIDE DEF W
      <4> QED BY <4>1, <4>2, AtMostOne
    <3> DEFINE places == Cardinality(C) + Cardinality(N) + Cardinality(W)
    <3>5. /\ places <= 1
          /\ places = 0 <=> ~Emitting(e) /\ ~Queued(e) /\ ~Held(e)
      <4>1. ~(Emitting(e) /\ Queued(e)) /\ ~(Emitting(e) /\ Held(e)) /\ ~(Queued(e) /\ Held(e))
        BY <3>1 DEF OnePlace
      <4> HIDE DEF C, N, W
      <4> QED BY <3>2, <3>3, <3>4, <4>1
    <3> HIDE DEF places
    <3>6. e \in dropped => places = 0 BY <3>1, <3>5 DEF OnePlace
    <3>7. \A k \in DOMAIN Transports :
             Handed(k, e) <=>
               \/ places = 0 /\ e \notin dropped
               \/ \E w \in Workers : worker[w].event = e /\ worker[w].next > k
      BY <3>1, <3>5, TransportsAreNamed DEF HandedInOrder, HandedOn, Reached
    <3> QED BY <3>5, <3>6, <3>7 DEF places
  <2> QED BY <2>1, <2>3 DEF RouterInv, NothingVanishes
<1> QED BY <1>1, RouterInvariant, PTL

\* When flush() returns in time, the events it was called for are with the workers,
\* in Splunk's buffer, which is less than a batch, or through.
THEOREM FlushAccountsForEvents == RouterSpec => []FlushLeavesLittle
<1>1. RouterIInv => FlushLeavesLittle
  <2> SUFFICES ASSUME RouterIInv, main.at = "flushed"
               PROVE  /\ Cardinality(Buffer) < BatchSize
                      /\ \A t \in ToSet(Transports) : \A e \in before :
                            fate[t][e] \in {"none", "buffered"} => e \in InHand \cup Buffer
    BY DEF FlushLeavesLittle
  <2>1. RouterTypeInv /\ BufferInv /\ BeforeInv /\ PlacesInv BY DEF RouterIInv
  <2>2. ASSUME NEW t \in ToSet(Transports), NEW e \in before, fate[t][e] = "buffered"
        PROVE  e \in Buffer
    <3>1. e \in Events /\ fate \in [ToSet(Transports) -> [Events -> Fates]] BY <2>1, Types
    <3>2. t = "splunk" BY <3>1, <2>1, <2>2 DEF BufferInv
    <3> QED BY <3>1, <3>2, <2>2 DEF Buffer
  <2>3. ASSUME NEW t \in ToSet(Transports), NEW e \in before, fate[t][e] = "none"
        PROVE  e \in InHand
    <3>1. e \in 1 .. emitted /\ e # 0 BY <2>1, Types
    <3>2. PICK k \in 1 .. Len(Transports) : t = Transports[k] BY TransportsAreNamed
    <3>3. ~Handed(k, e) BY <3>2, <2>3 DEF Handed
    <3>4. ~HandedOn(e) BY <3>1, <3>3, <2>1 DEF PlacesInv, HandedInOrder
    <3>5. e \notin dropped /\ ~Emitting(e) /\ ~Queued(e) BY <2>1 DEF BeforeInv
    <3>6. Held(e) BY <3>4, <3>5 DEF HandedOn
    <3> QED BY <3>1, <3>6 DEF Held, InHand
  <2> QED BY <2>1, <2>2, <2>3 DEF BufferInv
<1> QED BY <1>1, RouterInvariant, PTL
=============================================================================
