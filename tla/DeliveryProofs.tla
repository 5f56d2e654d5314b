--------------------------- MODULE DeliveryProofs ---------------------------
(* Proofs about what leaves the server and has to be believed elsewhere:   *)
(* WebhookReceiver, for every tolerance, any clock skew of the senders and *)
(* any number of processes, handlers, copies and restarts; MerkleBatch, for*)
(* any number of instances, decisions and dates.                           *)
EXTENDS WebhookReceiver, MerkleBatch, FiniteSetTheorems, SequenceTheorems,
        WellFoundedInduction, TLAPS

-----------------------------------------------------------------------------
(* The inductive invariant.                                                *)

Accepted == [nonce : Nonces, checked : Int, stored : Int, by : Processes, epoch : Nat]
Verifying == [phase : {"nonce", "body"}, nonce : Nonces, checked : Int, stored : Int,
              valid : BOOLEAN]

\* The handler awaits the body of its copy.
AwaitsBody(p, h) == handler[p][h].phase = "body"

\* The shapes that ReceiverTypeOK does not spell out.
ReceiverShape ==
    /\ \A n \in DOMAIN sent : sent[n] \in Int
    /\ DOMAIN nonceStore = Processes /\ DOMAIN handler = Processes
    /\ epoch \in [Processes -> Nat]
    /\ accepted \in Seq(Accepted)
    /\ \A p \in Processes :
          /\ \A n \in DOMAIN nonceStore[p] : nonceStore[p][n] \in Int
          /\ handler[p] \in [Handlers -> Verifying \cup {NoWebhook}]

ReceiverTypeInv == ReceiverTypeOK /\ ReceiverShape

\* A copy of webhook n passed the timestamp check at time a.
InTime(n, a) ==
    /\ n \in DOMAIN sent
    /\ a <= clock
    /\ sent[n] - TIMESTAMP_TOLERANCE <= a
    /\ a <= sent[n] + TIMESTAMP_TOLERANCE

\* Process p remembers a copy that was looked up at time a for twice the tolerance.
Remembered(p, n, a) ==
    \/ n \in DOMAIN nonceStore[p] /\ nonceStore[p][n] >= a + 2 * TIMESTAMP_TOLERANCE
    \/ clock >= a + 2 * TIMESTAMP_TOLERANCE

\* Of two copies x and y of webhook n, y may have come later only at the end of the
\* tolerance, and long after x.
After(n, x, y) ==
    x.stored <= y.stored =>
        /\ x.stored + 2 * TIMESTAMP_TOLERANCE <= y.stored
        /\ y.checked <= sent[n] + TIMESTAMP_TOLERANCE
        /\ sent[n] + TIMESTAMP_TOLERANCE <= y.stored

Apart(n, x, y) == After(n, x, y) /\ After(n, y, x)

\* The copy that a handler is verifying, if it has one.
HandlerInv(p, h) ==
    LET w == handler[p][h]
    IN  /\ w # NoWebhook => InTime(w.nonce, w.checked) /\ w.checked <= w.stored
        /\ AwaitsBody(p, h) => Remembered(p, w.nonce, w.stored)

\* A copy that was accepted, in this life of its process or an earlier one.
AcceptedInv(m) ==
    LET a == accepted[m]
    IN  /\ InTime(a.nonce, a.checked) /\ a.checked <= a.stored
        /\ a.epoch <= epoch[a.by]
        /\ a.epoch = epoch[a.by] => Remembered(a.by, a.nonce, a.stored)

\* Two handlers of a process that await the bodies of copies of one webhook.
HandlersApart(p, g, h) ==
    LET v == handler[p][g]
        w == handler[p][h]
    IN  (g # h /\ AwaitsBody(p, g) /\ AwaitsBody(p, h) /\ v.nonce = w.nonce) =>
            Apart(v.nonce, v, w)

\* A handler that awaits the body of a copy of a webhook that its process has accepted.
AcceptedApart(m, p, h) ==
    LET a == accepted[m]
        w == handler[p][h]
    IN  (AwaitsBody(p, h) /\ a.by = p /\ a.epoch = epoch[p] /\ a.nonce = w.nonce) =>
            Apart(w.nonce, a, w)

\* Two copies of a webhook that one life of a process accepted.
BothAccepted(m, n) ==
    LET a == accepted[m]
        b == accepted[n]
    IN  (m # n /\ a.nonce = b.nonce /\ a.by = b.by /\ a.epoch = b.epoch) =>
            Apart(a.nonce, a, b)

IInv ==
    /\ \A p \in Processes, h \in Handlers : HandlerInv(p, h)
    /\ \A m \in DOMAIN accepted : AcceptedInv(m)
    /\ \A p \in Processes, g \in Handlers, h \in Handlers : HandlersApart(p, g, h)
    /\ \A m \in DOMAIN accepted, p \in Processes, h \in Handlers : AcceptedApart(m, p, h)
    /\ \A m, n \in DOMAIN accepted : BothAccepted(m, n)

ReceiverIInv == ReceiverTypeInv /\ IInv

-----------------------------------------------------------------------------
(* Steps that verify nothing.                                              *)

\* What a step may do to the senders and to the clock.
SentGrows ==
    /\ clock' \in Int /\ clock <= clock'
    /\ \A n \in DOMAIN sent : n \in DOMAIN sent' /\ sent'[n] = sent[n]

\* No process forgets a copy too early.
MemoryKeeps ==
    \A p \in Processes, n \in Nonces, a \in Int :
        Remembered(p, n, a) => Remembered(p, n, a)'

\* The shape of a copy under way and of one that was accepted.
LEMMA CopyShapes ==
    ASSUME ReceiverTypeInv
    PROVE  /\ \A p \in Processes, h \in Handlers :
                 handler[p][h] # NoWebhook => handler[p][h] \in Verifying
           /\ \A m \in DOMAIN accepted : accepted[m] \in Accepted
BY DEF ReceiverTypeInv, ReceiverShape

\* A copy that awaits its body is a copy.
LEMMA BodyShapes ==
    ASSUME ReceiverTypeInv, NEW p \in Processes, NEW h \in Handlers, AwaitsBody(p, h)
    PROVE  /\ handler[p][h] # NoWebhook /\ handler[p][h].nonce \in Nonces
           /\ handler[p][h].checked \in Int /\ handler[p][h].stored \in Int
<1>1. handler[p][h] # NoWebhook
  <2>1. NoWebhook.phase = "none" BY DEF NoWebhook
  <2> QED BY <2>1 DEF AwaitsBody
<1> QED BY <1>1, CopyShapes DEF Verifying

\* A copy that came in in time did so whatever happens later.
LEMMA InTimeKeeps ==
    ASSUME ReceiverIInv, SentGrows
    PROVE  \A n \in Nonces, a \in Int : InTime(n, a) => InTime(n, a)'
<1>1. clock \in Int BY DEF ReceiverIInv, ReceiverTypeInv, ReceiverTypeOK
<1> QED BY <1>1 DEF SentGrows, InTime

\* What one life of a process accepted lies apart, whatever else happens.
LEMMA AcceptedKeeps ==
    ASSUME ReceiverIInv, SentGrows, UNCHANGED accepted
    PROVE  \A m, n \in DOMAIN accepted : BothAccepted(m, n)'
<1> SUFFICES ASSUME NEW m \in DOMAIN accepted, NEW n \in DOMAIN accepted
             PROVE  BothAccepted(m, n)'
  OBVIOUS
<1>1. BothAccepted(m, n) /\ AcceptedInv(m) BY DEF ReceiverIInv, IInv
<1>2. sent'[accepted[m].nonce] = sent[accepted[m].nonce] BY <1>1 DEF AcceptedInv, InTime, SentGrows
<1> QED BY <1>1, <1>2 DEF BothAccepted, Apart, After

\* A step that changes at most one slot, to nothing or to a copy whose nonce is still to
\* be looked up, keeps the invariant if no process forgets a copy too early.
LEMMA StillInv ==
    ASSUME ReceiverIInv, SentGrows, MemoryKeeps, UNCHANGED <<epoch, accepted>>,
           \A p \in Processes, h \in Handlers :
              \/ handler'[p][h] = handler[p][h]
              \/ handler'[p][h] = NoWebhook
              \/ /\ handler'[p][h] \in Verifying
                 /\ handler'[p][h].phase = "nonce"
                 /\ InTime(handler'[p][h].nonce, handler'[p][h].checked)
                 /\ handler'[p][h].checked <= handler'[p][h].stored
    PROVE  IInv'
<1>1. ReceiverTypeInv /\ IInv BY DEF ReceiverIInv
<1>0. NoWebhook.phase = "none" BY DEF NoWebhook
<1>00. ASSUME NEW p \in Processes, NEW h \in Handlers, AwaitsBody(p, h)'
       PROVE  AwaitsBody(p, h) /\ handler'[p][h] = handler[p][h]
  BY <1>0, <1>00 DEF AwaitsBody
<1>2. ASSUME NEW p \in Processes, NEW h \in Handlers PROVE HandlerInv(p, h)'
  <2>1. HandlerInv(p, h) BY <1>1 DEF IInv
  <2>2. ASSUME handler'[p][h] # NoWebhook
        PROVE  /\ InTime(handler[p][h].nonce, handler[p][h].checked)'
               /\ handler'[p][h].checked <= handler'[p][h].stored
    <3> DEFINE w == handler'[p][h]
    <3>1. w \in Verifying BY <1>1, <2>2, CopyShapes
    <3>2. w.nonce \in Nonces /\ w.checked \in Int BY <3>1 DEF Verifying
    <3>3. InTime(w.nonce, w.checked) /\ w.checked <= w.stored BY <2>1, <2>2 DEF HandlerInv
    <3>4. PICK v : v = w OBVIOUS
    <3>5. InTime(v.nonce, v.checked)' BY <3>2, <3>3, <3>4, InTimeKeeps
    <3> QED BY <3>3, <3>4, <3>5 DEF InTime
  <2>3. ASSUME AwaitsBody(p, h)' PROVE Remembered(p, handler[p][h].nonce, handler[p][h].stored)'
    <3>1. AwaitsBody(p, h) /\ handler'[p][h] = handler[p][h] BY <2>3, <1>00
    <3>2. PICK v : v = handler[p][h] OBVIOUS
    <3>3. v.nonce \in Nonces /\ v.stored \in Int /\ Remembered(p, v.nonce, v.stored)
      BY <3>1, <3>2, <2>1, <1>1, BodyShapes DEF HandlerInv
    <3>4. Remembered(p, v.nonce, v.stored)' BY <3>3 DEF MemoryKeeps
    <3> QED BY <3>1, <3>2, <3>4 DEF Remembered
  <2> QED BY <2>2, <2>3 DEF HandlerInv
<1>3. ASSUME NEW m \in DOMAIN accepted PROVE AcceptedInv(m)'
  <2>1. AcceptedInv(m) BY <1>1 DEF IInv
  <2>2. accepted[m] \in Accepted BY <1>1, CopyShapes
  <2> QED BY <2>1, <2>2, InTimeKeeps
          DEF AcceptedInv, Accepted, MemoryKeeps, InTime, Remembered
<1>4. ASSUME NEW p \in Processes, NEW g \in Handlers, NEW h \in Handlers
      PROVE  HandlersApart(p, g, h)'
  <2> SUFFICES ASSUME AwaitsBody(p, g)', AwaitsBody(p, h)' PROVE HandlersApart(p, g, h)'
    BY DEF HandlersApart
  <2>1. HandlersApart(p, g, h) /\ HandlerInv(p, g) BY <1>1 DEF IInv
  <2>2. /\ AwaitsBody(p, g) /\ handler'[p][g] = handler[p][g]
        /\ AwaitsBody(p, h) /\ handler'[p][h] = handler[p][h]
    BY <1>00
  <2>3. handler[p][g].nonce \in DOMAIN sent BY <2>1, <2>2, <1>1, BodyShapes DEF HandlerInv, InTime
  <2>4. sent'[handler[p][g].nonce] = sent[handler[p][g].nonce] BY <2>3 DEF SentGrows
  <2> QED BY <2>1, <2>2, <2>4 DEF HandlersApart, Apart, After
<1>5. ASSUME NEW m \in DOMAIN accepted, NEW p \in Processes, NEW h \in Handlers
      PROVE  AcceptedApart(m, p, h)'
  <2> SUFFICES ASSUME AwaitsBody(p, h)' PROVE AcceptedApart(m, p, h)' BY DEF AcceptedApart
  <2>1. AcceptedApart(m, p, h) /\ HandlerInv(p, h) BY <1>1 DEF IInv
  <2>2. AwaitsBody(p, h) /\ handler'[p][h] = handler[p][h] BY <1>00
  <2>3. handler[p][h].nonce \in DOMAIN sent BY <2>1, <2>2, <1>1, BodyShapes DEF HandlerInv, InTime
  <2>4. sent'[handler[p][h].nonce] = sent[handler[p][h].nonce] BY <2>3 DEF SentGrows
  <2> QED BY <2>1, <2>2, <2>4 DEF AcceptedApart, Apart, After
<1> QED BY <1>2, <1>3, <1>4, <1>5, AcceptedKeeps DEF IInv

\* A webhook that is signed takes a whole second as its time.
LEMMA SignInv ==
    ASSUME ReceiverIInv, NEW n \in Nonces, NEW skew \in SenderSkews, sign_webhook(n, skew)
    PROVE  ReceiverIInv'
<1>1. ReceiverTypeOK /\ ReceiverShape BY DEF ReceiverIInv, ReceiverTypeInv
<1> DEFINE ts == ((clock + skew) \div TicksPerSecond) * TicksPerSecond
<1>2. clock \in Nat /\ skew \in Nat /\ TicksPerSecond \in Nat /\ TicksPerSecond # 0
  BY <1>1, WebhookReceiverAssumption DEF ReceiverTypeOK
<1>3. ts \in Int BY <1>2
<1> HIDE DEF ts
<1>4. /\ n \notin DOMAIN sent /\ DOMAIN sent' = (DOMAIN sent) \cup {n} /\ sent'[n] = ts
      /\ \A x \in DOMAIN sent : sent'[x] = sent[x]
      /\ UNCHANGED <<clock, nonceStore, handler, copies, epoch, accepted>>
  BY DEF sign_webhook, ts, seen
<1>5. SentGrows BY <1>2, <1>4 DEF SentGrows
<1>6. MemoryKeeps BY <1>4 DEF MemoryKeeps, Remembered
<1>7. IInv' BY <1>4, <1>5, <1>6, StillInv
<1>8. ReceiverTypeOK' BY <1>1, <1>4 DEF ReceiverTypeOK
<1>9. ReceiverShape' BY <1>1, <1>3, <1>4 DEF ReceiverShape
<1> QED BY <1>7, <1>8, <1>9 DEF ReceiverIInv, ReceiverTypeInv

\* Time passes.
LEMMA TickInv ==
    ASSUME ReceiverIInv, Tick
    PROVE  ReceiverIInv'
<1>1. ReceiverTypeOK /\ ReceiverShape BY DEF ReceiverIInv, ReceiverTypeInv
<1>2. /\ clock \in Nat /\ MaxClock \in Nat /\ clock < MaxClock /\ clock' = clock + 1
      /\ UNCHANGED <<sent, nonceStore, handler, copies, epoch, accepted>>
  BY <1>1, WebhookReceiverAssumption DEF Tick, ReceiverTypeOK, seen
<1>3. SentGrows BY <1>2 DEF SentGrows
<1>4. MemoryKeeps
  <2>1. TIMESTAMP_TOLERANCE \in Nat BY WebhookReceiverAssumption
  <2> QED BY <2>1, <1>2 DEF MemoryKeeps, Remembered
<1>5. IInv' BY <1>2, <1>3, <1>4, StillInv
<1>6. ReceiverTypeOK'
  <2>1. clock' \in 0 .. MaxClock /\ 0 .. clock \subseteq 0 .. clock' BY <1>2
  <2>2. \A p \in Processes : \A n \in DOMAIN nonceStore[p] :
          nonceStore[p][n] <= clock' + 2 * TIMESTAMP_TOLERANCE
    <3>1. TIMESTAMP_TOLERANCE \in Nat BY WebhookReceiverAssumption
    <3> QED BY <3>1, <1>1, <1>2 DEF ReceiverTypeOK, ReceiverShape
  <2> QED BY <2>1, <2>2, <1>1, <1>2 DEF ReceiverTypeOK
<1>7. ReceiverShape' BY <1>1, <1>2 DEF ReceiverShape
<1> QED BY <1>5, <1>6, <1>7 DEF ReceiverIInv, ReceiverTypeInv

-----------------------------------------------------------------------------
(* The nonce store.                                                        *)

\* check_and_store drops what has expired and keeps the rest; the nonce is there
\* afterwards, with a new expiry if it was new.
LEMMA StoreIs ==
    ASSUME ReceiverIInv, NEW p \in Processes, NEW n \in Nonces, check_and_store(p, n)
    PROVE  /\ DOMAIN nonceStore' = Processes
           /\ \A q \in Processes \ {p} : nonceStore'[q] = nonceStore[q]
           /\ \A x \in DOMAIN nonceStore'[p] : x = n \/ x \in DOMAIN nonceStore[p]
           /\ \A x \in DOMAIN nonceStore[p] : nonceStore[p][x] > clock =>
                 x \in DOMAIN nonceStore'[p] /\ nonceStore'[p][x] = nonceStore[p][x]
           /\ \A x \in DOMAIN nonceStore'[p] :
                 \/ x \in DOMAIN nonceStore[p] /\ nonceStore'[p][x] = nonceStore[p][x]
                 \/ nonceStore'[p][x] = clock + 2 * TIMESTAMP_TOLERANCE
           /\ NonceIsNew(p, n) => /\ n \in DOMAIN nonceStore'[p]
                                  /\ nonceStore'[p][n] = clock + 2 * TIMESTAMP_TOLERANCE
<1> DEFINE store == Unexpired(nonceStore[p])
           new == [x \in (DOMAIN store) \cup {n} |->
                     IF x \in DOMAIN store THEN store[x]
                     ELSE clock + 2 * TIMESTAMP_TOLERANCE]
<1>1. /\ DOMAIN store = {x \in DOMAIN nonceStore[p] : nonceStore[p][x] > clock}
      /\ \A x \in DOMAIN store : store[x] = nonceStore[p][x]
  BY DEF Unexpired
<1>2. nonceStore' = [nonceStore EXCEPT ![p] = new] BY DEF check_and_store
<1>3. DOMAIN nonceStore = Processes BY DEF ReceiverIInv, ReceiverTypeInv, ReceiverShape
<1>4. /\ DOMAIN nonceStore' = Processes /\ nonceStore'[p] = new
      /\ \A q \in Processes \ {p} : nonceStore'[q] = nonceStore[q]
  <2> HIDE DEF new
  <2> QED BY <1>2, <1>3
<1>5. NonceIsNew(p, n) => n \notin DOMAIN store BY DEF NonceIsNew
<1> HIDE DEF store
<1>6. /\ DOMAIN new = (DOMAIN store) \cup {n}
      /\ \A x \in DOMAIN store : new[x] = store[x]
      /\ n \notin DOMAIN store => new[n] = clock + 2 * TIMESTAMP_TOLERANCE
  OBVIOUS
<1> HIDE DEF new
<1> QED BY <1>1, <1>4, <1>5, <1>6

\* The purge of check_and_store forgets no copy too early.
LEMMA StoreKeeps ==
    ASSUME ReceiverIInv, NEW p \in Processes, NEW n \in Nonces, check_and_store(p, n),
           clock' = clock
    PROVE  MemoryKeeps
<1>0. clock \in Int /\ TIMESTAMP_TOLERANCE \in Nat
  BY WebhookReceiverAssumption DEF ReceiverIInv, ReceiverTypeInv, ReceiverTypeOK
<1> SUFFICES ASSUME NEW q \in Processes, NEW x \in Nonces, NEW a \in Int,
                    Remembered(q, x, a)
             PROVE  Remembered(q, x, a)'
  BY DEF MemoryKeeps
<1>1. CASE clock >= a + 2 * TIMESTAMP_TOLERANCE BY <1>1 DEF Remembered
<1>2. CASE /\ x \in DOMAIN nonceStore[q]
           /\ nonceStore[q][x] >= a + 2 * TIMESTAMP_TOLERANCE
  <2>1. CASE q # p BY <2>1, <1>2, StoreIs DEF Remembered
  <2>2. CASE q = p /\ nonceStore[q][x] > clock BY <2>2, <1>2, StoreIs DEF Remembered
  <2>3. CASE ~(nonceStore[q][x] > clock)
    <3>1. nonceStore[q][x] \in Int BY <1>2 DEF ReceiverIInv, ReceiverTypeInv, ReceiverShape
    <3>2. clock >= a + 2 * TIMESTAMP_TOLERANCE BY <3>1, <2>3, <1>0, <1>2
    <3> QED BY <3>2 DEF Remembered
  <2> QED BY <2>1, <2>2, <2>3
<1> QED BY <1>1, <1>2 DEF Remembered

\* check_and_store keeps the types of the store.
LEMMA StoreType ==
    ASSUME ReceiverIInv, NEW p \in Processes, NEW n \in DOMAIN sent, check_and_store(p, n)
    PROVE  /\ DOMAIN nonceStore' = Processes
           /\ \A q \in Processes :
                 /\ DOMAIN nonceStore'[q] \subseteq DOMAIN sent
                 /\ \A x \in DOMAIN nonceStore'[q] :
                       /\ nonceStore'[q][x] \in Int
                       /\ nonceStore'[q][x] <= clock + 2 * TIMESTAMP_TOLERANCE
<1>0. clock \in Int /\ TIMESTAMP_TOLERANCE \in Nat /\ n \in Nonces
  BY WebhookReceiverAssumption DEF ReceiverIInv, ReceiverTypeInv, ReceiverTypeOK
<1>1. DOMAIN nonceStore' = Processes BY <1>0, StoreIs
<1> SUFFICES ASSUME NEW q \in Processes
             PROVE  /\ DOMAIN nonceStore'[q] \subseteq DOMAIN sent
                    /\ \A x \in DOMAIN nonceStore'[q] :
                          /\ nonceStore'[q][x] \in Int
                          /\ nonceStore'[q][x] <= clock + 2 * TIMESTAMP_TOLERANCE
  BY <1>1
<1>2. /\ DOMAIN nonceStore[q] \subseteq DOMAIN sent
      /\ \A x \in DOMAIN nonceStore[q] :
            /\ nonceStore[q][x] \in Int
            /\ nonceStore[q][x] <= clock + 2 * TIMESTAMP_TOLERANCE
  BY DEF ReceiverIInv, ReceiverTypeInv, ReceiverTypeOK, ReceiverShape
<1>3. CASE q # p BY <1>0, <1>2, <1>3, StoreIs
<1>4. CASE q = p
  <2>1. /\ \A x \in DOMAIN nonceStore'[q] : x = n \/ x \in DOMAIN nonceStore[q]
        /\ \A x \in DOMAIN nonceStore'[q] :
              \/ x \in DOMAIN nonceStore[q] /\ nonceStore'[q][x] = nonceStore[q][x]
              \/ nonceStore'[q][x] = clock + 2 * TIMESTAMP_TOLERANCE
    BY <1>0, <1>4, StoreIs
  <2>2. clock + 2 * TIMESTAMP_TOLERANCE \in Int BY <1>0
  <2> QED BY <2>1, <2>2, <1>2
<1> QED BY <1>3, <1>4

\* A nonce passes for new only when every copy of its webhook that the process
\* remembers is twice the tolerance old.
LEMMA NewIsOld ==
    ASSUME ReceiverIInv, NEW p \in Processes, NEW n \in Nonces, NonceIsNew(p, n),
           NEW a \in Int, Remembered(p, n, a)
    PROVE  clock >= a + 2 * TIMESTAMP_TOLERANCE
<1>0. clock \in Int /\ TIMESTAMP_TOLERANCE \in Nat
  BY WebhookReceiverAssumption DEF ReceiverIInv, ReceiverTypeInv, ReceiverTypeOK
<1>1. CASE /\ n \in DOMAIN nonceStore[p]
           /\ nonceStore[p][n] >= a + 2 * TIMESTAMP_TOLERANCE
  <2>1. DOMAIN Unexpired(nonceStore[p]) =
          {x \in DOMAIN nonceStore[p] : nonceStore[p][x] > clock}
    BY DEF Unexpired
  <2>2. ~(nonceStore[p][n] > clock) /\ nonceStore[p][n] \in Int
    BY <2>1, <1>1 DEF NonceIsNew, ReceiverIInv, ReceiverTypeInv, ReceiverShape
  <2> QED BY <2>2, <1>0, <1>1
<1> QED BY <1>1 DEF Remembered

\* A copy passes for new when another is twice the tolerance old: the two lie apart.
LEMMA OldAndInTime ==
    ASSUME ReceiverIInv, NEW n \in DOMAIN sent, NEW x, NEW y,
           x.checked \in Int, x.stored \in Int, y.checked \in Int, y.stored = clock,
           InTime(n, x.checked), x.checked <= x.stored, InTime(n, y.checked),
           clock >= x.stored + 2 * TIMESTAMP_TOLERANCE
    PROVE  Apart(n, x, y)
<1>1. /\ clock \in Int /\ TIMESTAMP_TOLERANCE \in Nat /\ TIMESTAMP_TOLERANCE > 0
      /\ sent[n] \in Int
  BY WebhookReceiverAssumption DEF ReceiverIInv, ReceiverTypeInv, ReceiverTypeOK, ReceiverShape
<1>2. After(n, x, y) BY <1>1 DEF InTime, After
<1>3. After(n, y, x) BY <1>1 DEF After
<1> QED BY <1>2, <1>3 DEF Apart

-----------------------------------------------------------------------------
(* Steps that verify a copy.                                               *)

\* One slot of one process changes.
LEMMA SlotChanges ==
    ASSUME ReceiverTypeInv, NEW p \in Processes, NEW h \in Handlers,
           NEW x \in Verifying \cup {NoWebhook}, handler' = [handler EXCEPT ![p][h] = x]
    PROVE  /\ DOMAIN handler' = Processes /\ handler'[p][h] = x
           /\ \A q \in Processes, g \in Handlers :
                 (q # p \/ g # h) => handler'[q][g] = handler[q][g]
           /\ \A q \in Processes : handler'[q] \in [Handlers -> Verifying \cup {NoWebhook}]
BY DEF ReceiverTypeInv, ReceiverShape

\* The types after such a step.
LEMMA SlotType ==
    ASSUME ReceiverTypeInv, NEW p \in Processes, NEW h \in Handlers,
           NEW x \in Verifying \cup {NoWebhook}, handler' = [handler EXCEPT ![p][h] = x],
           x # NoWebhook => /\ x.nonce \in DOMAIN sent
                            /\ x.checked \in 0 .. clock /\ x.stored \in 0 .. clock
    PROVE  \A q \in Processes, g \in Handlers : handler'[q][g] # NoWebhook =>
              /\ handler'[q][g].nonce \in DOMAIN sent
              /\ handler'[q][g].checked \in 0 .. clock
              /\ handler'[q][g].stored \in 0 .. clock
<1> SUFFICES ASSUME NEW q \in Processes, NEW g \in Handlers, handler'[q][g] # NoWebhook
             PROVE  /\ handler'[q][g].nonce \in DOMAIN sent
                    /\ handler'[q][g].checked \in 0 .. clock
                    /\ handler'[q][g].stored \in 0 .. clock
  OBVIOUS
<1>0. handler'[p][h] = x BY SlotChanges
<1>1. CASE q = p /\ g = h BY <1>0, <1>1
<1>2. CASE q # p \/ g # h
  <2>1. handler'[q][g] = handler[q][g] BY <1>2, SlotChanges
  <2> QED BY <2>1 DEF ReceiverTypeInv, ReceiverTypeOK
<1> QED BY <1>1, <1>2

\* The headers of a copy are read.
LEMMA CheckInv ==
    ASSUME ReceiverIInv, NEW p \in Processes, NEW h \in Handlers, NEW n \in Nonces,
           NEW intact \in BOOLEAN, NEW role \in Roles,
           CheckTimestamp(p, h, n, intact, role)
    PROVE  ReceiverIInv'
<1> DEFINE ok == intact /\ role \in Allowed
           x == [phase |-> "nonce", nonce |-> n, checked |-> clock, stored |-> clock,
                 valid |-> ok]
<1>1. ReceiverTypeOK /\ ReceiverShape /\ ReceiverTypeInv BY DEF ReceiverIInv, ReceiverTypeInv
<1>2. /\ handler[p][h] = NoWebhook /\ n \in DOMAIN sent
      /\ copies < MaxCopies /\ copies' = copies + 1
      /\ UNCHANGED <<clock, sent, nonceStore, epoch, accepted>>
  BY DEF CheckTimestamp, seen
<1>3. copies' \in 0 .. MaxCopies BY <1>1, <1>2, WebhookReceiverAssumption DEF ReceiverTypeOK
<1>4. SentGrows /\ MemoryKeeps
  BY <1>1, <1>2 DEF SentGrows, MemoryKeeps, Remembered, ReceiverTypeOK
<1>5. CASE ~TimestampInTolerance(sent[n])
  <2>1. UNCHANGED handler BY <1>5 DEF CheckTimestamp
  <2>2. IInv' BY <2>1, <1>2, <1>4, StillInv
  <2>3. ReceiverTypeOK' /\ ReceiverShape' BY <2>1, <1>1, <1>2, <1>3 DEF ReceiverTypeOK, ReceiverShape
  <2> QED BY <2>2, <2>3 DEF ReceiverIInv, ReceiverTypeInv
<1>6. CASE TimestampInTolerance(sent[n])
  <2>1. handler' = [handler EXCEPT ![p][h] = x] BY <1>6 DEF CheckTimestamp
  <2>2. ok \in BOOLEAN OBVIOUS
  <2> HIDE DEF ok
  <2>3. clock \in 0 .. clock /\ clock \in Int /\ sent[n] \in Int /\ TIMESTAMP_TOLERANCE \in Nat
    BY <1>1, <1>2, WebhookReceiverAssumption DEF ReceiverTypeOK, ReceiverShape
  <2>4. /\ x \in Verifying /\ x.phase = "nonce" /\ x.nonce = n
        /\ x.checked = clock /\ x.stored = clock
    BY <2>2, <2>3 DEF Verifying
  <2>5. InTime(n, clock) BY <1>2, <1>6, <2>3 DEF InTime, TimestampInTolerance
  <2> HIDE DEF x
  <2>6. /\ DOMAIN handler' = Processes /\ handler'[p][h] = x
        /\ \A q \in Processes, g \in Handlers :
              (q # p \/ g # h) => handler'[q][g] = handler[q][g]
        /\ \A q \in Processes : handler'[q] \in [Handlers -> Verifying \cup {NoWebhook}]
    BY <2>1, <2>4, <1>1, SlotChanges
  <2>7. ASSUME NEW q \in Processes, NEW g \in Handlers
        PROVE  \/ handler'[q][g] = handler[q][g]
               \/ handler'[q][g] = NoWebhook
               \/ /\ handler'[q][g] \in Verifying
                  /\ handler'[q][g].phase = "nonce"
                  /\ InTime(handler'[q][g].nonce, handler'[q][g].checked)
                  /\ handler'[q][g].checked <= handler'[q][g].stored
    BY <2>3, <2>4, <2>5, <2>6
  <2>8. IInv' BY <2>7, <1>2, <1>4, StillInv
  <2>9. \A q \in Processes, g \in Handlers : handler'[q][g] # NoWebhook =>
              /\ handler'[q][g].nonce \in DOMAIN sent
              /\ handler'[q][g].checked \in 0 .. clock
              /\ handler'[q][g].stored \in 0 .. clock
    BY <2>1, <2>3, <2>4, <1>1, <1>2, SlotType
  <2>10. ReceiverShape' BY <2>6, <1>1, <1>2 DEF ReceiverShape
  <2>11. ReceiverTypeOK' BY <2>9, <1>1, <1>2, <1>3 DEF ReceiverTypeOK
  <2> QED BY <2>8, <2>10, <2>11 DEF ReceiverIInv, ReceiverTypeInv
<1> QED BY <1>5, <1>6

\* A copy whose nonce is new waits for its body.
LEMMA NewCopyInv ==
    ASSUME ReceiverIInv, NEW p \in Processes, NEW h \in Handlers, NEW n \in DOMAIN sent,
           NEW x \in Verifying, x.phase = "body", x.nonce = n, x.stored = clock,
           InTime(n, x.checked), NonceIsNew(p, n), check_and_store(p, n),
           ~AwaitsBody(p, h), handler' = [handler EXCEPT ![p][h] = x],
           UNCHANGED <<clock, sent, epoch, accepted>>
    PROVE  IInv'
<1>1. ReceiverTypeInv /\ IInv BY DEF ReceiverIInv
<1>2. /\ clock \in Int /\ clock \in Nat /\ n \in Nonces /\ TIMESTAMP_TOLERANCE \in Nat
      /\ sent[n] \in Int
  BY <1>1, WebhookReceiverAssumption DEF ReceiverTypeInv, ReceiverTypeOK, ReceiverShape
<1>4. x.checked \in Int /\ x.checked <= clock BY DEF Verifying, InTime
<1>5. /\ handler'[p][h] = x
      /\ \A q \in Processes, g \in Handlers :
            (q # p \/ g # h) => handler'[q][g] = handler[q][g]
  BY <1>1 DEF ReceiverTypeInv, ReceiverShape
<1>6. SentGrows BY <1>2 DEF SentGrows
<1>7. MemoryKeeps BY <1>2, StoreKeeps
<1>8. InTime(n, x.checked)' /\ Remembered(p, n, clock)'
  <2>1. n \in DOMAIN nonceStore'[p]
        /\ nonceStore'[p][n] = clock + 2 * TIMESTAMP_TOLERANCE
    BY <1>2, StoreIs
  <2> QED BY <2>1, <1>2 DEF InTime, Remembered
<1>9. ASSUME NEW a, a.checked \in Int, a.stored \in Int, InTime(n, a.checked),
             a.checked <= a.stored, Remembered(p, n, a.stored)
      PROVE  Apart(n, a, x) /\ Apart(n, x, a)
  <2>1. clock >= a.stored + 2 * TIMESTAMP_TOLERANCE BY <1>2, <1>9, NewIsOld
  <2>2. Apart(n, a, x) BY <2>1, <1>4, <1>9, OldAndInTime
  <2> QED BY <2>2 DEF Apart
<1>10. ASSUME NEW q \in Processes, NEW g \in Handlers PROVE HandlerInv(q, g)'
  <2>1. CASE q = p /\ g = h
    BY <2>1, <1>4, <1>5, <1>8 DEF HandlerInv, InTime, Remembered
  <2>2. CASE q # p \/ g # h
    <3>1. HandlerInv(q, g) BY <1>1 DEF IInv
    <3>2. AwaitsBody(q, g) => handler[q][g].nonce \in Nonces /\ handler[q][g].stored \in Int
      BY <1>1, BodyShapes
    <3> QED BY <3>1, <3>2, <2>2, <1>5, <1>7
            DEF HandlerInv, MemoryKeeps, InTime, Remembered, AwaitsBody
  <2> QED BY <2>1, <2>2
<1>11. ASSUME NEW m \in DOMAIN accepted PROVE AcceptedInv(m)'
  <2>1. AcceptedInv(m) BY <1>1 DEF IInv
  <2>2. accepted[m] \in Accepted BY <1>1, CopyShapes
  <2> QED BY <2>1, <2>2, <1>7 DEF AcceptedInv, Accepted, MemoryKeeps, InTime, Remembered
<1>12. ASSUME NEW q \in Processes, NEW f \in Handlers, NEW g \in Handlers
       PROVE  HandlersApart(q, f, g)'
  <2>1. HandlersApart(q, f, g) BY <1>1 DEF IInv
  <2>0. ASSUME NEW e \in Handlers, e # h, AwaitsBody(p, e), handler[p][e].nonce = n
        PROVE  Apart(n, handler[p][e], x) /\ Apart(n, x, handler[p][e])
    <3>1. HandlerInv(p, e) BY <1>1 DEF IInv
    <3> QED BY <3>1, <2>0, <1>1, <1>9, BodyShapes DEF HandlerInv
  <2>2. CASE q = p /\ f = h /\ g # h
    <3>1. handler'[p][g] = handler[p][g] /\ handler'[p][f] = x BY <2>2, <1>5
    <3> QED BY <3>1, <2>0, <2>2 DEF HandlersApart, Apart, After, AwaitsBody
  <2>3. CASE q = p /\ f # h /\ g = h
    <3>1. handler'[p][f] = handler[p][f] /\ handler'[p][g] = x BY <2>3, <1>5
    <3> QED BY <3>1, <2>0, <2>3 DEF HandlersApart, Apart, After, AwaitsBody
  <2>4. CASE q # p \/ (f # h /\ g # h) BY <2>1, <2>4, <1>5 DEF HandlersApart, Apart, After, AwaitsBody
  <2>5. CASE f = g BY <2>5 DEF HandlersApart
  <2> QED BY <2>2, <2>3, <2>4, <2>5
<1>13. ASSUME NEW m \in DOMAIN accepted, NEW q \in Processes, NEW g \in Handlers
       PROVE  AcceptedApart(m, q, g)'
  <2>1. AcceptedApart(m, q, g) /\ AcceptedInv(m) BY <1>1 DEF IInv
  <2>2. CASE q = p /\ g = h
    <3>1. ASSUME accepted[m].by = p, accepted[m].epoch = epoch[p], accepted[m].nonce = n
          PROVE  Apart(n, accepted[m], x)
      <4>1. accepted[m].checked \in Int /\ accepted[m].stored \in Int
        BY <1>1, CopyShapes DEF Accepted
      <4> QED BY <4>1, <3>1, <2>1, <1>9 DEF AcceptedInv
    <3> QED BY <3>1, <2>2, <1>5 DEF AcceptedApart, Apart, After, AwaitsBody
  <2>3. CASE q # p \/ g # h BY <2>1, <2>3, <1>5 DEF AcceptedApart, Apart, After, AwaitsBody
  <2> QED BY <2>2, <2>3
<1> QED BY <1>6, <1>10, <1>11, <1>12, <1>13, AcceptedKeeps DEF IInv

\* A copy that goes on to its body is the same copy.
LEMMA BodyCopy ==
    ASSUME NEW w \in Verifying, NEW t \in Int
    PROVE  LET x == [w EXCEPT !.phase = "body", !.stored = t]
           IN  /\ x \in Verifying /\ x.phase = "body" /\ x.nonce = w.nonce
               /\ x.checked = w.checked /\ x.stored = t
<1> DEFINE y == [w EXCEPT !.phase = "body"]
<1>1. /\ y \in Verifying /\ y.phase = "body" /\ y.nonce = w.nonce
      /\ y.checked = w.checked
  BY DEF Verifying
<1>2. [w EXCEPT !.phase = "body", !.stored = t] = [y EXCEPT !.stored = t] OBVIOUS
<1> HIDE DEF y
<1>3. LET x == [y EXCEPT !.stored = t]
      IN  /\ x \in Verifying /\ x.phase = y.phase /\ x.nonce = y.nonce
          /\ x.checked = y.checked /\ x.stored = t
  BY <1>1 DEF Verifying
<1> QED BY <1>1, <1>2, <1>3

\* The nonce of a copy is looked up.
LEMMA StoreInv ==
    ASSUME ReceiverIInv, NEW p \in Processes, NEW h \in Handlers, StoreNonce(p, h)
    PROVE  ReceiverIInv'
<1> DEFINE w == handler[p][h]
           x == [w EXCEPT !.phase = "body", !.stored = clock]
<1>1. ReceiverTypeOK /\ ReceiverShape /\ ReceiverTypeInv /\ IInv
  BY DEF ReceiverIInv, ReceiverTypeInv
<1>2. /\ w.phase = "nonce" /\ check_and_store(p, w.nonce)
      /\ UNCHANGED <<clock, sent, copies, epoch, accepted>>
  BY DEF StoreNonce
<1>3. w # NoWebhook
  <2>1. NoWebhook.phase = "none" BY DEF NoWebhook
  <2> QED BY <2>1, <1>2
<1>4. /\ w \in Verifying /\ w.nonce \in Nonces /\ w.nonce \in DOMAIN sent
      /\ w.checked \in 0 .. clock /\ clock \in Nat
  BY <1>1, <1>3, CopyShapes DEF ReceiverTypeOK, Verifying
<1>5. InTime(w.nonce, w.checked) BY <1>1, <1>3 DEF IInv, HandlerInv
<1>6. /\ x \in Verifying /\ x.phase = "body" /\ x.nonce = w.nonce
      /\ x.checked = w.checked /\ x.stored = clock
  <2>1. clock \in Int BY <1>4
  <2> QED BY <2>1, <1>4, BodyCopy
<1>7. SentGrows /\ MemoryKeeps BY <1>2, <1>4, StoreKeeps DEF SentGrows
<1>8. /\ DOMAIN nonceStore' = Processes
      /\ \A q \in Processes :
            /\ DOMAIN nonceStore'[q] \subseteq DOMAIN sent
            /\ \A z \in DOMAIN nonceStore'[q] :
                  /\ nonceStore'[q][z] \in Int
                  /\ nonceStore'[q][z] <= clock + 2 * TIMESTAMP_TOLERANCE
  BY <1>2, <1>4, StoreType
<1>9. ASSUME NEW y \in Verifying \cup {NoWebhook}, handler' = [handler EXCEPT ![p][h] = y],
             IInv',
             y # NoWebhook => /\ y.nonce \in DOMAIN sent
                              /\ y.checked \in 0 .. clock /\ y.stored \in 0 .. clock
      PROVE  ReceiverIInv'
  <2>1. /\ DOMAIN handler' = Processes
        /\ \A q \in Processes : handler'[q] \in [Handlers -> Verifying \cup {NoWebhook}]
    BY <1>1, <1>9, SlotChanges
  <2>2. \A q \in Processes, g \in Handlers : handler'[q][g] # NoWebhook =>
              /\ handler'[q][g].nonce \in DOMAIN sent
              /\ handler'[q][g].checked \in 0 .. clock
              /\ handler'[q][g].stored \in 0 .. clock
    BY <1>1, <1>9, SlotType
  <2>3. ReceiverShape' BY <2>1, <1>1, <1>2, <1>8 DEF ReceiverShape
  <2>4. ReceiverTypeOK' BY <2>2, <1>1, <1>2, <1>8 DEF ReceiverTypeOK
  <2> QED BY <2>3, <2>4, <1>9 DEF ReceiverIInv, ReceiverTypeInv
<1> HIDE DEF x
<1>10. CASE NonceIsNew(p, w.nonce)
  <2>1. handler' = [handler EXCEPT ![p][h] = x] BY <1>10 DEF StoreNonce, x
  <2>2. ~AwaitsBody(p, h) BY <1>2 DEF AwaitsBody
  <2>3. IInv' BY <2>1, <2>2, <1>10, <1>2, <1>4, <1>5, <1>6, NewCopyInv
  <2>4. /\ x \in Verifying \cup {NoWebhook} /\ x.nonce \in DOMAIN sent
        /\ x.checked \in 0 .. clock /\ x.stored \in 0 .. clock
    BY <1>4, <1>6
  <2> QED BY <2>1, <2>3, <2>4, <1>9
<1>11. CASE ~NonceIsNew(p, w.nonce)
  <2>1. handler' = [handler EXCEPT ![p][h] = NoWebhook] BY <1>11 DEF StoreNonce
  <2>2. \A q \in Processes, g \in Handlers :
           handler'[q][g] = handler[q][g] \/ handler'[q][g] = NoWebhook
    BY <2>1, <1>1, SlotChanges
  <2>3. IInv' BY <2>2, <1>2, <1>7, StillInv
  <2> QED BY <2>1, <2>3, <1>9
<1> QED BY <1>10, <1>11

\* The body of a copy is verified: the copy leaves its handler and may be accepted.
LEMMA VerifyInv ==
    ASSUME ReceiverIInv, NEW p \in Processes, NEW h \in Handlers, VerifyBody(p, h)
    PROVE  ReceiverIInv'
<1> DEFINE w == handler[p][h]
           a == [nonce |-> w.nonce, checked |-> w.checked, stored |-> w.stored,
                 by |-> p, epoch |-> epoch[p]]
<1>1. ReceiverTypeOK /\ ReceiverShape /\ ReceiverTypeInv /\ IInv BY DEF ReceiverIInv, ReceiverTypeInv
<1>2. /\ AwaitsBody(p, h)
      /\ accepted' = IF w.valid THEN Append(accepted, a) ELSE accepted
      /\ handler' = [handler EXCEPT ![p][h] = NoWebhook]
      /\ UNCHANGED <<clock, sent, nonceStore, copies, epoch>>
  BY DEF VerifyBody, AwaitsBody
<1>22. /\ w # NoWebhook /\ w.nonce \in Nonces /\ w.checked \in Int /\ w.stored \in Int
  BY <1>1, <1>2, BodyShapes
<1>3. /\ a \in Accepted /\ a.nonce = w.nonce /\ a.checked = w.checked
      /\ a.stored = w.stored /\ a.by = p /\ a.epoch = epoch[p]
  BY <1>1, <1>22 DEF Accepted, ReceiverShape
<1> HIDE DEF a
<1>4. /\ DOMAIN handler' = Processes /\ handler'[p][h] = NoWebhook
      /\ \A q \in Processes, g \in Handlers :
            (q # p \/ g # h) => handler'[q][g] = handler[q][g]
      /\ \A q \in Processes : handler'[q] \in [Handlers -> Verifying \cup {NoWebhook}]
  BY <1>1, <1>2, SlotChanges
<1>44. ASSUME NEW q \in Processes, NEW g \in Handlers, AwaitsBody(q, g)'
       PROVE  (q # p \/ g # h) /\ handler'[q][g] = handler[q][g] /\ AwaitsBody(q, g)
  <2>1. NoWebhook.phase = "none" BY DEF NoWebhook
  <2> QED BY <2>1, <1>4, <1>44 DEF AwaitsBody
<1>5. accepted \in Seq(Accepted) BY <1>1 DEF ReceiverShape
<1>6. /\ accepted' \in Seq(Accepted)
      /\ \A m \in DOMAIN accepted : m \in DOMAIN accepted' /\ accepted'[m] = accepted[m]
      /\ \A m \in DOMAIN accepted' : m \in DOMAIN accepted \/ accepted'[m] = a
      /\ \A m, n \in DOMAIN accepted' :
            m # n => m \in DOMAIN accepted \/ n \in DOMAIN accepted
  <2>1. CASE w.valid
    <3>1. accepted' = Append(accepted, a) BY <2>1, <1>2
    <3>2. /\ accepted' \in Seq(Accepted) /\ Len(accepted') = Len(accepted) + 1
          /\ accepted'[Len(accepted) + 1] = a
          /\ \A m \in 1 .. Len(accepted) : accepted'[m] = accepted[m]
      BY <3>1, <1>3, <1>5, AppendProperties
    <3>3. /\ DOMAIN accepted = 1 .. Len(accepted) /\ Len(accepted) \in Nat
          /\ DOMAIN accepted' = 1 .. Len(accepted) + 1
      BY <3>2, <1>5
    <3> QED BY <3>2, <3>3
  <2>2. CASE ~w.valid BY <2>2, <1>2, <1>5
  <2> QED BY <2>1, <2>2
<1>7. /\ InTime(w.nonce, w.checked) /\ w.checked <= w.stored
      /\ Remembered(p, w.nonce, w.stored)
  BY <1>1, <1>2, <1>22 DEF IInv, HandlerInv
<1>8. ASSUME NEW q \in Processes, NEW g \in Handlers PROVE HandlerInv(q, g)'
  <2>1. HandlerInv(q, g) BY <1>1 DEF IInv
  <2>2. handler'[q][g] # NoWebhook => handler'[q][g] = handler[q][g] BY <1>4
  <2> QED BY <2>1, <2>2, <1>2, <1>44 DEF HandlerInv, InTime, Remembered
<1>9. ASSUME NEW m \in DOMAIN accepted' PROVE AcceptedInv(m)'
  <2>1. CASE m \in DOMAIN accepted
    <3>1. AcceptedInv(m) /\ accepted'[m] = accepted[m] BY <2>1, <1>1, <1>6 DEF IInv
    <3> QED BY <3>1, <1>2 DEF AcceptedInv, InTime, Remembered
  <2>2. CASE accepted'[m] = a
    <3>1. epoch[p] \in Nat BY <1>1 DEF ReceiverShape
    <3> QED BY <3>1, <2>2, <1>2, <1>3, <1>7 DEF AcceptedInv, InTime, Remembered
  <2> QED BY <2>1, <2>2, <1>6
<1>10. ASSUME NEW q \in Processes, NEW f \in Handlers, NEW g \in Handlers
       PROVE  HandlersApart(q, f, g)'
  <2>1. HandlersApart(q, f, g) BY <1>1 DEF IInv
  <2> QED BY <2>1, <1>2, <1>44 DEF HandlersApart, Apart, After
<1>11. ASSUME NEW m \in DOMAIN accepted', NEW q \in Processes, NEW g \in Handlers
       PROVE  AcceptedApart(m, q, g)'
  <2> SUFFICES ASSUME AwaitsBody(q, g)' PROVE AcceptedApart(m, q, g)' BY DEF AcceptedApart
  <2>1. (q # p \/ g # h) /\ handler'[q][g] = handler[q][g] /\ AwaitsBody(q, g) BY <1>44
  <2>2. CASE m \in DOMAIN accepted
    <3>1. AcceptedApart(m, q, g) BY <2>2, <1>1 DEF IInv
    <3> QED BY <3>1, <2>1, <2>2, <1>2, <1>6 DEF AcceptedApart, Apart, After
  <2>3. CASE accepted'[m] = a
    <3>1. ASSUME q = p, w.nonce = handler[q][g].nonce PROVE Apart(w.nonce, w, handler[q][g])
      <4>1. HandlersApart(p, h, g) BY <1>1 DEF IInv
      <4> QED BY <4>1, <3>1, <2>1, <1>2 DEF HandlersApart
    <3> QED BY <3>1, <2>1, <2>3, <1>2, <1>3 DEF AcceptedApart, Apart, After
  <2> QED BY <2>2, <2>3, <1>6
<1>12. ASSUME NEW m \in DOMAIN accepted', NEW n \in DOMAIN accepted'
       PROVE  BothAccepted(m, n)'
  <2>1. CASE m \in DOMAIN accepted /\ n \in DOMAIN accepted
    <3>1. BothAccepted(m, n) BY <2>1, <1>1 DEF IInv
    <3> QED BY <3>1, <2>1, <1>2, <1>6 DEF BothAccepted, Apart, After
  <2>2. CASE m \in DOMAIN accepted /\ accepted'[n] = a
    <3>1. AcceptedApart(m, p, h) BY <2>2, <1>1 DEF IInv
    <3> QED BY <3>1, <2>2, <1>2, <1>3, <1>6 DEF AcceptedApart, BothAccepted, Apart, After
  <2>3. CASE n \in DOMAIN accepted /\ accepted'[m] = a
    <3>1. AcceptedApart(n, p, h) BY <2>3, <1>1 DEF IInv
    <3> QED BY <3>1, <2>3, <1>2, <1>3, <1>6 DEF AcceptedApart, BothAccepted, Apart, After
  <2>4. CASE m = n BY <2>4 DEF BothAccepted
  <2> QED BY <2>1, <2>2, <2>3, <2>4, <1>6
<1>13. IInv' BY <1>8, <1>9, <1>10, <1>11, <1>12 DEF IInv
<1>14. ReceiverShape' BY <1>1, <1>2, <1>4, <1>6 DEF ReceiverShape
<1>15. ReceiverTypeOK' BY <1>1, <1>2, <1>4 DEF ReceiverTypeOK
<1> QED BY <1>13, <1>14, <1>15 DEF ReceiverIInv, ReceiverTypeInv

\* A process that restarts has forgotten its nonces, and is another process for
\* what was accepted before.
LEMMA RestartInv ==
    ASSUME ReceiverIInv, NEW p \in Processes, Restart(p)
    PROVE  ReceiverIInv'
<1>1. ReceiverTypeOK /\ ReceiverShape /\ ReceiverTypeInv /\ IInv BY DEF ReceiverIInv, ReceiverTypeInv
<1>2. /\ epoch' = [epoch EXCEPT ![p] = @ + 1]
      /\ nonceStore' = [nonceStore EXCEPT ![p] = << >>]
      /\ handler' = [handler EXCEPT ![p] = [h \in Handlers |-> NoWebhook]]
      /\ UNCHANGED <<clock, sent, copies, accepted>>
  BY DEF Restart, seen
<1>3. /\ epoch' \in [Processes -> Nat]
      /\ epoch'[p] = epoch[p] + 1 /\ \A q \in Processes \ {p} : epoch'[q] = epoch[q]
  BY <1>1, <1>2 DEF ReceiverShape
<1>4. /\ DOMAIN nonceStore' = Processes /\ DOMAIN nonceStore'[p] = {}
      /\ \A q \in Processes \ {p} : nonceStore'[q] = nonceStore[q]
  BY <1>1, <1>2 DEF ReceiverShape
<1>5. /\ DOMAIN handler' = Processes /\ handler'[p] = [h \in Handlers |-> NoWebhook]
      /\ \A q \in Processes \ {p} : handler'[q] = handler[q]
  BY <1>1, <1>2 DEF ReceiverShape
<1>55. ASSUME NEW q \in Processes, NEW g \in Handlers, AwaitsBody(q, g)'
       PROVE  q # p /\ handler'[q][g] = handler[q][g] /\ AwaitsBody(q, g)
  <2>1. NoWebhook.phase = "none" BY DEF NoWebhook
  <2> QED BY <2>1, <1>5, <1>55 DEF AwaitsBody
<1>6. ASSUME NEW q \in Processes, NEW g \in Handlers PROVE HandlerInv(q, g)'
  <2>1. HandlerInv(q, g) BY <1>1 DEF IInv
  <2> QED BY <2>1, <1>2, <1>4, <1>5, <1>55 DEF HandlerInv, InTime, Remembered
<1>7. ASSUME NEW m \in DOMAIN accepted
      PROVE  AcceptedInv(m)' /\ ~(accepted[m].by = p /\ accepted[m].epoch = epoch'[p])
  <2>1. AcceptedInv(m) BY <1>1 DEF IInv
  <2>2. accepted[m].by \in Processes /\ accepted[m].epoch \in Nat
    BY <1>1, CopyShapes DEF Accepted
  <2>3. epoch[p] \in Nat BY <1>1 DEF ReceiverShape
  <2>4. CASE accepted[m].by = p
    <3>1. accepted[m].epoch <= epoch[p] BY <2>1, <2>4 DEF AcceptedInv
    <3>2. accepted[m].epoch # epoch'[p] /\ accepted[m].epoch <= epoch'[p]
      BY <3>1, <2>2, <2>3, <1>3
    <3> QED BY <3>2, <2>1, <2>4, <1>2 DEF AcceptedInv, InTime
  <2>5. CASE accepted[m].by # p
    BY <2>1, <2>2, <2>5, <1>2, <1>3, <1>4 DEF AcceptedInv, InTime, Remembered
  <2> QED BY <2>4, <2>5
<1>8. ASSUME NEW q \in Processes, NEW f \in Handlers, NEW g \in Handlers
      PROVE  HandlersApart(q, f, g)'
  <2>1. HandlersApart(q, f, g) BY <1>1 DEF IInv
  <2> QED BY <2>1, <1>2, <1>55 DEF HandlersApart, Apart, After
<1>9. ASSUME NEW m \in DOMAIN accepted, NEW q \in Processes, NEW g \in Handlers
      PROVE  AcceptedApart(m, q, g)'
  <2>1. AcceptedApart(m, q, g) BY <1>1 DEF IInv
  <2> QED BY <2>1, <1>2, <1>3, <1>55 DEF AcceptedApart, Apart, After
<1>10. \A m, n \in DOMAIN accepted : BothAccepted(m, n)'
  BY <1>1, <1>2 DEF IInv, BothAccepted, Apart, After
<1>11. IInv' BY <1>2, <1>6, <1>7, <1>8, <1>9, <1>10 DEF IInv
<1>12. ReceiverShape' BY <1>1, <1>2, <1>3, <1>4, <1>5 DEF ReceiverShape
<1>13. ReceiverTypeOK' BY <1>1, <1>2, <1>4, <1>5 DEF ReceiverTypeOK
<1> QED BY <1>11, <1>12, <1>13 DEF ReceiverIInv, ReceiverTypeInv

-----------------------------------------------------------------------------
(* What holds of the receiver.                                             *)

\* At first nothing was sent.
LEMMA ReceiverInitInv == ReceiverInit => ReceiverIInv
<1> SUFFICES ASSUME ReceiverInit PROVE ReceiverIInv OBVIOUS
<1>1. DOMAIN sent = {} /\ accepted = <<>> /\ accepted \in Seq(Accepted)
      /\ DOMAIN accepted = {}
  BY DEF ReceiverInit
<1>2. \A p \in Processes : /\ DOMAIN nonceStore[p] = {}
                           /\ handler[p] = [h \in Handlers |-> NoWebhook]
  BY DEF ReceiverInit
<1>3. IInv
  <2>1. NoWebhook.phase = "none" BY DEF NoWebhook
  <2>2. \A p \in Processes, h \in Handlers : handler[p][h] = NoWebhook /\ ~AwaitsBody(p, h)
    BY <2>1, <1>2 DEF AwaitsBody
  <2> QED BY <2>2, <1>1 DEF IInv, HandlerInv, HandlersApart
<1>4. ReceiverShape BY <1>1, <1>2 DEF ReceiverInit, ReceiverShape
<1>5. clock \in 0 .. MaxClock /\ copies \in 0 .. MaxCopies
  BY WebhookReceiverAssumption DEF ReceiverInit
<1>6. ReceiverTypeOK BY <1>1, <1>2, <1>5 DEF ReceiverTypeOK
<1> QED BY <1>3, <1>4, <1>6 DEF ReceiverIInv, ReceiverTypeInv

\* Every step keeps the invariant.
LEMMA ReceiverNextInv == ReceiverIInv /\ [ReceiverNext]_receiverVars => ReceiverIInv'
<1> SUFFICES ASSUME ReceiverIInv, [ReceiverNext]_receiverVars PROVE ReceiverIInv' OBVIOUS
<1>1. CASE UNCHANGED receiverVars
  <2>1. UNCHANGED <<clock, sent, nonceStore, handler, copies, epoch, accepted>>
    BY <1>1 DEF receiverVars, seen
  <2>2. SentGrows BY <2>1 DEF ReceiverIInv, ReceiverTypeInv, ReceiverTypeOK, SentGrows
  <2>3. MemoryKeeps BY <2>1 DEF MemoryKeeps, Remembered
  <2>4. IInv' BY <2>1, <2>2, <2>3, StillInv
  <2>5. ReceiverTypeOK' BY <2>1 DEF ReceiverIInv, ReceiverTypeInv, ReceiverTypeOK
  <2>6. ReceiverShape' BY <2>1 DEF ReceiverIInv, ReceiverTypeInv, ReceiverShape
  <2> QED BY <2>4, <2>5, <2>6 DEF ReceiverIInv, ReceiverTypeInv
<1>2. CASE ReceiverNext BY <1>2, SignInv, TickInv, CheckInv, StoreInv, VerifyInv, RestartInv
      DEF ReceiverNext
<1> QED BY <1>1, <1>2

\* The inductive invariant is an invariant.
THEOREM ReceiverInvariant == ReceiverSpec => []ReceiverIInv
BY ReceiverInitInv, ReceiverNextInv, PTL DEF ReceiverSpec

\* However the copies of a webhook are delayed, duplicated and reordered, and
\* however handlers interleave at their awaits, one life of a process accepts
\* the webhook once.  The exception is a copy whose timestamp is checked before the
\* tolerance ends and whose nonce is looked up when it has ended.
THEOREM ReceiverIsSafe == ReceiverSpec => []ReceiverInv
<1>1. ReceiverIInv => ReceiverInv
  <2> SUFFICES ASSUME ReceiverIInv PROVE DuplicatesRefused
    BY DEF ReceiverIInv, ReceiverTypeInv, ReceiverInv
  <2>1. \A m, n \in DOMAIN accepted : BothAccepted(m, n) BY DEF ReceiverIInv, IInv
  <2> QED BY <2>1 DEF DuplicatesRefused, BothAccepted, Apart, After
<1> QED BY <1>1, ReceiverInvariant, PTL

-----------------------------------------------------------------------------
(* Why a genuine copy is refused.                                          *)

Refusals == [nonce : Nonces, by : Processes, epoch : Nat]
Refusal(p, n) == [nonce |-> n, by |-> p, epoch |-> epoch[p]]

\* Another copy of webhook n got as far as its body in this life of process p.
Cause(p, n) ==
    \/ \E m \in DOMAIN accepted : /\ accepted[m].nonce = n
                                  /\ accepted[m].by = p /\ accepted[m].epoch = epoch[p]
    \/ \E h \in Handlers : AwaitsBody(p, h) /\ handler[p][h].nonce = n
    \/ Refusal(p, n) \in burnt

\* A nonce is in the store because of such a copy.
CausesInv ==
    /\ refused \subseteq Refusals
    /\ \A p \in Processes : \A n \in DOMAIN nonceStore[p] : Cause(p, n)
    /\ \A r \in refused : /\ r.epoch <= epoch[r.by]
                          /\ r.epoch = epoch[r.by] => Cause(r.by, r.nonce)

\* A cause lasts as long as the process lives.
CausesKeep == \A p \in Processes, n \in Nonces : Cause(p, n) => Cause(p, n)'

\* Steps that neither store a nonce nor refuse a copy.
LEMMA CausesStill ==
    ASSUME ReceiverIInv, CausesInv, CausesKeep, UNCHANGED <<nonceStore, epoch, refused>>
    PROVE  CausesInv'
<1>1. ASSUME NEW p \in Processes, NEW n \in DOMAIN nonceStore[p] PROVE Cause(p, n)'
  <2>1. n \in Nonces BY DEF ReceiverIInv, ReceiverTypeInv, ReceiverTypeOK
  <2> QED BY <2>1 DEF CausesInv, CausesKeep
<1>2. ASSUME NEW r \in refused
      PROVE  /\ r.epoch <= epoch[r.by]
             /\ r.epoch = epoch[r.by] => Cause(r.by, r.nonce)'
  BY DEF CausesInv, CausesKeep, Refusals
<1> QED BY <1>1, <1>2 DEF CausesInv

\* Steps that touch no copy.
LEMMA CausesUntouched ==
    ASSUME ReceiverIInv, CausesInv, UNCHANGED <<nonceStore, handler, epoch, accepted, burnt, refused>>
    PROVE  CausesInv'
<1>1. CausesKeep BY DEF CausesKeep, Cause, AwaitsBody, Refusal
<1> QED BY <1>1, CausesStill

\* Reading headers stores nothing.
LEMMA CheckCauses ==
    ASSUME ReceiverIInv, CausesInv, NEW p \in Processes, NEW h \in Handlers, NEW n \in Nonces,
           NEW intact \in BOOLEAN, NEW role \in Roles,
           CheckTimestamp(p, h, n, intact, role)
    PROVE  CausesInv'
<1>0. ReceiverShape BY DEF ReceiverIInv, ReceiverTypeInv
<1>1. /\ handler[p][h] = NoWebhook
      /\ UNCHANGED <<nonceStore, epoch, accepted, burnt, refused>>
  BY DEF CheckTimestamp, seen
<1>2. \A q \in Processes, g \in Handlers :
         (q # p \/ g # h) => handler'[q][g] = handler[q][g]
  <2>1. CASE TimestampInTolerance(sent[n]) BY <2>1, <1>0 DEF CheckTimestamp, ReceiverShape
  <2>2. CASE ~TimestampInTolerance(sent[n]) BY <2>2 DEF CheckTimestamp
  <2> QED BY <2>1, <2>2
<1>3. ~AwaitsBody(p, h)
  <2>1. NoWebhook.phase = "none" BY DEF NoWebhook
  <2> QED BY <2>1, <1>1 DEF AwaitsBody
<1>4. CausesKeep
  <2> SUFFICES ASSUME NEW q \in Processes, NEW x \in Nonces, Cause(q, x) PROVE Cause(q, x)'
    BY DEF CausesKeep
  <2>1. ASSUME NEW g \in Handlers, AwaitsBody(q, g), handler[q][g].nonce = x
        PROVE  AwaitsBody(q, g)' /\ handler'[q][g].nonce = x
    BY <2>1, <1>2, <1>3 DEF AwaitsBody
  <2> QED BY <2>1, <1>1 DEF Cause, Refusal
<1> QED BY <1>1, <1>4, CausesStill

\* A nonce that is stored belongs to a copy whose body is awaited; a copy is refused
\* for a nonce that is in the store.
LEMMA StoreCauses ==
    ASSUME ReceiverIInv, CausesInv, NEW p \in Processes, NEW h \in Handlers, StoreNonce(p, h)
    PROVE  CausesInv'
<1> DEFINE w == handler[p][h]
           x == [w EXCEPT !.phase = "body", !.stored = clock]
<1>1. ReceiverTypeOK /\ ReceiverShape /\ ReceiverTypeInv BY DEF ReceiverIInv, ReceiverTypeInv
<1>2. /\ w.phase = "nonce" /\ check_and_store(p, w.nonce)
      /\ UNCHANGED <<clock, sent, copies, epoch, accepted, burnt>>
  BY DEF StoreNonce
<1>3. w # NoWebhook
  <2>1. NoWebhook.phase = "none" BY DEF NoWebhook
  <2> QED BY <2>1, <1>2
<1>4. w \in Verifying /\ w.nonce \in Nonces BY <1>1, <1>3, CopyShapes DEF Verifying
<1>5. x \in Verifying /\ x.phase = "body" /\ x.nonce = w.nonce
  <2>1. clock \in Int BY <1>1 DEF ReceiverTypeOK
  <2> QED BY <2>1, <1>4, BodyCopy
<1> HIDE DEF x
<1>55. PICK c : c = w.nonce OBVIOUS
<1>6. \A q \in Processes, g \in Handlers :
         (q # p \/ g # h) => handler'[q][g] = handler[q][g]
  <2>1. CASE NonceIsNew(p, w.nonce)
    <3>1. handler' = [handler EXCEPT ![p][h] = x] BY <2>1 DEF StoreNonce, x
    <3> QED BY <3>1, <1>1, <1>5, SlotChanges
  <2>2. CASE ~NonceIsNew(p, w.nonce)
    <3>1. handler' = [handler EXCEPT ![p][h] = NoWebhook] BY <2>2 DEF StoreNonce
    <3> QED BY <3>1, <1>1, SlotChanges
  <2> QED BY <2>1, <2>2
<1>7. CausesKeep
  <2> SUFFICES ASSUME NEW q \in Processes, NEW y \in Nonces, Cause(q, y) PROVE Cause(q, y)'
    BY DEF CausesKeep
  <2>1. ASSUME NEW g \in Handlers, AwaitsBody(q, g), handler[q][g].nonce = y
        PROVE  AwaitsBody(q, g)' /\ handler'[q][g].nonce = y
    BY <2>1, <1>2, <1>6 DEF AwaitsBody
  <2> QED BY <2>1, <1>2 DEF Cause, Refusal
<1>8. Cause(p, c)'
  <2>1. CASE NonceIsNew(p, w.nonce)
    <3>1. handler' = [handler EXCEPT ![p][h] = x] BY <2>1 DEF StoreNonce, x
    <3>2. handler'[p][h] = x BY <3>1, <1>1, <1>5, SlotChanges
    <3>3. AwaitsBody(p, h)' /\ handler'[p][h].nonce = w.nonce BY <3>2, <1>5 DEF AwaitsBody
    <3> QED BY <3>3, <1>55 DEF Cause
  <2>2. CASE ~NonceIsNew(p, w.nonce)
    <3>1. w.nonce \in DOMAIN nonceStore[p] BY <2>2 DEF NonceIsNew, Unexpired
    <3>2. Cause(p, c) BY <3>1, <1>55 DEF CausesInv
    <3> QED BY <3>2, <1>4, <1>55, <1>7 DEF CausesKeep
  <2> QED BY <2>1, <2>2
<1>9. ASSUME NEW q \in Processes, NEW n \in DOMAIN nonceStore'[q] PROVE Cause(q, n)'
  <2>1. n \in DOMAIN nonceStore[q] \/ (q = p /\ n = c) BY <1>2, <1>4, <1>55, StoreIs
  <2>2. n \in DOMAIN nonceStore[q] => n \in Nonces BY <1>1 DEF ReceiverTypeOK
  <2> QED BY <2>1, <2>2, <1>7, <1>8 DEF CausesInv, CausesKeep
<1>10. epoch[p] \in Nat BY <1>1 DEF ReceiverShape
<1>11. ASSUME NEW r \in refused'
       PROVE  /\ r \in Refusals /\ r.epoch <= epoch[r.by]
              /\ r.epoch = epoch[r.by] => Cause(r.by, r.nonce)'
  <2>1. r \in refused \/ r = [nonce |-> w.nonce, by |-> p, epoch |-> epoch[p]]
    BY DEF StoreNonce
  <2>2. CASE r \in refused BY <2>2, <1>7 DEF CausesInv, CausesKeep, Refusals
  <2>3. CASE r = [nonce |-> w.nonce, by |-> p, epoch |-> epoch[p]]
    <3>1. r.nonce = c /\ r.by = p /\ r.epoch = epoch[p] /\ r \in Refusals
      BY <2>3, <1>4, <1>10, <1>55 DEF Refusals
    <3> QED BY <3>1, <1>8, <1>10
  <2> QED BY <2>1, <2>2, <2>3
<1> QED BY <1>2, <1>9, <1>11 DEF CausesInv

\* A copy whose body has come in is accepted or found broken.
LEMMA VerifyCauses ==
    ASSUME ReceiverIInv, CausesInv, NEW p \in Processes, NEW h \in Handlers, VerifyBody(p, h)
    PROVE  CausesInv'
<1> DEFINE w == handler[p][h]
           a == [nonce |-> w.nonce, checked |-> w.checked, stored |-> w.stored,
                 by |-> p, epoch |-> epoch[p]]
<1>1. ReceiverShape /\ ReceiverTypeInv BY DEF ReceiverIInv, ReceiverTypeInv
<1>2. /\ AwaitsBody(p, h)
      /\ accepted' = IF w.valid THEN Append(accepted, a) ELSE accepted
      /\ burnt' = IF w.valid THEN burnt ELSE burnt \cup {Refusal(p, w.nonce)}
      /\ handler' = [handler EXCEPT ![p][h] = NoWebhook]
      /\ UNCHANGED <<nonceStore, epoch, refused>>
  BY DEF VerifyBody, AwaitsBody, Refusal
<1>22. w.nonce \in Nonces /\ w.checked \in Int /\ w.stored \in Int BY <1>1, <1>2, BodyShapes
<1>3. a \in Accepted /\ a.nonce = w.nonce /\ a.by = p /\ a.epoch = epoch[p]
  BY <1>1, <1>22 DEF Accepted, ReceiverShape
<1> HIDE DEF a
<1>4. \A q \in Processes, g \in Handlers :
            (q # p \/ g # h) => handler'[q][g] = handler[q][g]
  BY <1>1, <1>2, SlotChanges
<1>5. accepted \in Seq(Accepted) BY <1>1 DEF ReceiverShape
<1>6. /\ \A m \in DOMAIN accepted : m \in DOMAIN accepted' /\ accepted'[m] = accepted[m]
      /\ w.valid => \E m \in DOMAIN accepted' : accepted'[m] = a
  <2>1. CASE w.valid
    <3>1. accepted' = Append(accepted, a) BY <2>1, <1>2
    <3>2. /\ accepted' \in Seq(Accepted) /\ Len(accepted') = Len(accepted) + 1
          /\ accepted'[Len(accepted) + 1] = a
          /\ \A m \in 1 .. Len(accepted) : accepted'[m] = accepted[m]
      BY <3>1, <1>3, <1>5, AppendProperties
    <3>3. /\ DOMAIN accepted = 1 .. Len(accepted) /\ Len(accepted) \in Nat
          /\ DOMAIN accepted' = 1 .. Len(accepted) + 1
      BY <3>2, <1>5
    <3> QED BY <3>2, <3>3
  <2>2. CASE ~w.valid BY <2>2, <1>2
  <2> QED BY <2>1, <2>2
<1>7. ASSUME NEW q \in Processes, NEW x \in Nonces, Cause(q, x) PROVE Cause(q, x)'
  <2>1. CASE \E m \in DOMAIN accepted : /\ accepted[m].nonce = x
                                        /\ accepted[m].by = q /\ accepted[m].epoch = epoch[q]
    BY <2>1, <1>2, <1>6 DEF Cause
  <2>2. ASSUME NEW g \in Handlers, AwaitsBody(q, g), handler[q][g].nonce = x PROVE Cause(q, x)'
    <3>1. CASE q # p \/ g # h
      <4>1. AwaitsBody(q, g)' /\ handler'[q][g].nonce = x BY <3>1, <2>2, <1>4 DEF AwaitsBody
      <4> QED BY <4>1 DEF Cause
    <3>2. CASE q = p /\ g = h /\ w.valid BY <3>2, <2>2, <1>2, <1>3, <1>6 DEF Cause
    <3>3. CASE q = p /\ g = h /\ ~w.valid
      <4>1. Refusal(q, x)' \in burnt' BY <3>3, <2>2, <1>2 DEF Refusal
      <4> QED BY <4>1 DEF Cause
    <3> QED BY <3>1, <3>2, <3>3
  <2>3. CASE Refusal(q, x) \in burnt
    <3>1. Refusal(q, x)' \in burnt' BY <2>3, <1>2 DEF Refusal
    <3> QED BY <3>1 DEF Cause
  <2> QED BY <2>1, <2>2, <2>3, <1>7 DEF Cause
<1> QED BY <1>2, <1>7, CausesStill DEF CausesKeep

\* A restart empties the store; what was refused before is the earlier life's.
LEMMA RestartCauses ==
    ASSUME ReceiverIInv, CausesInv, NEW p \in Processes, Restart(p)
    PROVE  CausesInv'
<1>1. ReceiverShape BY DEF ReceiverIInv, ReceiverTypeInv
<1>2. /\ epoch' = [epoch EXCEPT ![p] = @ + 1]
      /\ nonceStore' = [nonceStore EXCEPT ![p] = << >>]
      /\ handler' = [handler EXCEPT ![p] = [h \in Handlers |-> NoWebhook]]
      /\ UNCHANGED <<accepted, burnt, refused>>
  BY DEF Restart, seen
<1>3. /\ epoch[p] \in Nat /\ epoch'[p] = epoch[p] + 1
      /\ \A q \in Processes \ {p} : epoch'[q] = epoch[q]
      /\ DOMAIN nonceStore'[p] = {}
      /\ \A q \in Processes \ {p} : nonceStore'[q] = nonceStore[q] /\ handler'[q] = handler[q]
  BY <1>1, <1>2 DEF ReceiverShape
<1>4. ASSUME NEW q \in Processes \ {p}, NEW n, Cause(q, n) PROVE Cause(q, n)'
  BY <1>2, <1>3, <1>4 DEF Cause, AwaitsBody, Refusal
<1>5. ASSUME NEW q \in Processes, NEW n \in DOMAIN nonceStore'[q] PROVE Cause(q, n)'
  BY <1>3, <1>4 DEF CausesInv
<1>6. ASSUME NEW r \in refused
      PROVE  r.epoch <= epoch'[r.by] /\ (r.epoch = epoch'[r.by] => Cause(r.by, r.nonce)')
  <2>1. r.by \in Processes /\ r.epoch \in Nat /\ r.epoch <= epoch[r.by] BY DEF CausesInv, Refusals
  <2>2. CASE r.by = p
    <3>1. r.epoch <= epoch'[r.by] /\ r.epoch # epoch'[r.by] BY <2>1, <2>2, <1>3
    <3> QED BY <3>1
  <2>3. CASE r.by # p
    <3>1. r.epoch = epoch[r.by] => Cause(r.by, r.nonce) BY DEF CausesInv
    <3> QED BY <3>1, <2>1, <2>3, <1>3, <1>4
  <2> QED BY <2>2, <2>3
<1> QED BY <1>2, <1>5, <1>6 DEF CausesInv

\* Every step keeps the causes.
LEMMA CausesNext == ReceiverIInv /\ CausesInv /\ [ReceiverNext]_receiverVars => CausesInv'
<1> SUFFICES ASSUME ReceiverIInv, CausesInv, [ReceiverNext]_receiverVars PROVE CausesInv'
  OBVIOUS
<1>1. CASE UNCHANGED receiverVars BY <1>1, CausesUntouched DEF receiverVars, seen
<1>2. ASSUME NEW n \in Nonces, NEW skew \in SenderSkews, sign_webhook(n, skew) PROVE CausesInv'
  BY <1>2, CausesUntouched DEF sign_webhook, seen
<1>3. CASE Tick BY <1>3, CausesUntouched DEF Tick, seen
<1> QED BY <1>1, <1>2, <1>3, CheckCauses, StoreCauses, VerifyCauses, RestartCauses DEF ReceiverNext

\* The nonce is used up before the body is verified, so that a genuine copy may be
\* refused as a replay; but only because another copy got as far as its body.
THEOREM RefusalsExplained == ReceiverSpec => []RefusalsHaveACause
<1>1. ReceiverInit => CausesInv
  <2> SUFFICES ASSUME ReceiverInit PROVE CausesInv OBVIOUS
  <2>1. refused = {} /\ \A p \in Processes : DOMAIN nonceStore[p] = {} BY DEF ReceiverInit
  <2> QED BY <2>1 DEF CausesInv
<1>2. CausesInv => RefusalsHaveACause
  <2> SUFFICES ASSUME CausesInv, NEW r \in refused, r.epoch = epoch[r.by]
               PROVE  \/ \E m \in DOMAIN accepted :
                            /\ accepted[m].nonce = r.nonce
                            /\ accepted[m].by = r.by /\ accepted[m].epoch = r.epoch
                      \/ \E h \in Handlers : /\ handler[r.by][h].phase = "body"
                                             /\ handler[r.by][h].nonce = r.nonce
                      \/ r \in burnt
    BY DEF RefusalsHaveACause
  <2>1. Cause(r.by, r.nonce) BY DEF CausesInv
  <2>2. r = Refusal(r.by, r.nonce) BY DEF CausesInv, Refusals, Refusal
  <2> QED BY <2>1, <2>2 DEF Cause, AwaitsBody
<1> QED BY <1>1, <1>2, CausesNext, ReceiverInvariant, PTL DEF ReceiverSpec

-----------------------------------------------------------------------------
(* Induction and counting.                                                 *)

\* Induction, as a statement about a set.
LEMMA AllNumbers ==
    ASSUME NEW S \in SUBSET Nat, 0 \in S, \A n \in S : n + 1 \in S
    PROVE  S = Nat
<1> SUFFICES ASSUME Nat \ S # {} PROVE FALSE OBVIOUS
<1>1. PICK x \in Nat \ S : \A y \in Nat \ S : ~(<<y, x>> \in OpToRel(<, Nat))
  BY NatLessThanWellFounded, WFMin
<1>0. x \in Nat /\ x \notin S OBVIOUS
<1>2. x # 0 /\ x - 1 \in Nat /\ x - 1 < x /\ (x - 1) + 1 = x
  <2>1. x # 0 BY <1>0
  <2> QED BY <2>1, <1>0
<1>3. CASE x - 1 \in S
  <2>1. (x - 1) + 1 \in S BY <1>3
  <2> QED BY <2>1, <1>0, <1>2
<1>4. CASE x - 1 \notin S
  <2>1. <<x - 1, x>> \in {ss \in Nat \X Nat : ss[1] < ss[2]} BY <1>1, <1>2
  <2> QED BY <2>1, <1>1, <1>2, <1>4 DEF OpToRel
<1> QED BY <1>3, <1>4

\* The least number of a set.
LEMMA LeastIs ==
    ASSUME NEW S \in SUBSET Nat, S # {}
    PROVE  Min(S) \in S /\ \A y \in S : Min(S) <= y
<1>1. PICK x \in S : \A y \in S : ~(<<y, x>> \in OpToRel(<, Nat))
  BY NatLessThanWellFounded, WFMin
<1>2. ASSUME NEW y \in S PROVE x <= y
  <2> SUFFICES ASSUME y < x PROVE FALSE OBVIOUS
  <2>1. <<y, x>> \in {ss \in Nat \X Nat : ss[1] < ss[2]} OBVIOUS
  <2> QED BY <2>1, <1>1 DEF OpToRel
<1> QED BY <1>2 DEF Min

\* The pigeonhole principle, for functions given without Injection.
LEMMA Injected ==
    ASSUME NEW S, NEW T, IsFiniteSet(T), NEW f \in [S -> T],
           \A a, b \in S : f[a] = f[b] => a = b
    PROVE  /\ IsFiniteSet(S) /\ Cardinality(S) <= Cardinality(T)
           /\ Cardinality(S) = Cardinality(T) => \A t \in T : \E s \in S : f[s] = t
<1>1. f \in Injection(S, T) BY DEF Injection, IsInjective
<1>2. f \in Surjection(S, T) => \A t \in T : \E s \in S : f[s] = t BY DEF Surjection
<1> QED BY <1>1, <1>2, FS_Injection

\* The elements of a sequence.
LEMMA Counting ==
    ASSUME NEW n \in Nat
    PROVE  IsFiniteSet(1 .. n) /\ Cardinality(1 .. n) = n
<1>1. 1 > n => n = 0 OBVIOUS
<1> QED BY <1>1, FS_Interval

-----------------------------------------------------------------------------
(* Levels.  Hashes are nested without bound, so that no set holds them all:*)
(* a list is a sequence of length k of anything.                           *)

List(s, k) == k \in Nat /\ s = [m \in 1 .. k |-> s[m]]
Elements(s, k) == {s[m] : m \in 1 .. k}

LEMMA Lists ==
    ASSUME NEW s, NEW k, List(s, k)
    PROVE  k \in Nat /\ s \in Seq(Elements(s, k)) /\ Len(s) = k /\ DOMAIN s = 1 .. k
<1>1. k \in Nat /\ s \in [1 .. k -> Elements(s, k)] BY DEF List, Elements
<1>2. s \in Seq(Elements(s, k)) BY <1>1
<1>3. DOMAIN s = 1 .. k BY <1>1
<1>4. DOMAIN s = 1 .. Len(s) /\ Len(s) \in Nat BY <1>2
<1>5. Len(s) = k BY <1>1, <1>3, <1>4
<1> QED BY <1>1, <1>2, <1>3, <1>5

\* A sequence of whatever set is one.
LEMMA SequencesAreLists ==
    ASSUME NEW S, NEW s \in Seq(S)
    PROVE  List(s, Len(s))
BY DEF List

\* The level that is paired, and where its hashes come from.
PaddedLength(k) == IF k % 2 = 1 THEN k + 1 ELSE k

LEMMA PaddedIs ==
    ASSUME NEW s, NEW k, List(s, k), k > 1
    PROVE  /\ List(Padded(s), PaddedLength(k))
           /\ \A m \in 1 .. PaddedLength(k) : Padded(s)[m] = s[IF m <= k THEN m ELSE k]
<1> DEFINE S == Elements(s, k)
<1>1. k \in Nat /\ s \in Seq(S) /\ Len(s) = k BY Lists
<1>2. s[k] \in S BY <1>1 DEF Elements
<1> HIDE DEF S
<1>3. CASE k % 2 = 1
  <2>1. Padded(s) = s \o <<s[k]>> BY <1>1, <1>3 DEF Padded, Last
  <2>2. s \o <<s[k]>> \in Seq(S) /\ Len(s \o <<s[k]>>) = k + 1 BY <1>1, <1>2
  <2>3. \A m \in 1 .. k + 1 : (s \o <<s[k]>>)[m] = s[IF m <= k THEN m ELSE k] BY <1>1, <1>2
  <2> QED BY <2>1, <2>2, <2>3, <1>3, SequencesAreLists DEF PaddedLength
<1>4. CASE k % 2 # 1
  <2>1. Padded(s) = s BY <1>1, <1>4 DEF Padded
  <2>2. \A m \in 1 .. k : m <= k BY <1>1
  <2> QED BY <2>1, <2>2, <1>4 DEF PaddedLength
<1> QED BY <1>3, <1>4

\* One level up: half of the padded level, and shorter than the level.
LEMMA NextIs ==
    ASSUME NEW s, NEW k, List(s, k), k > 1
    PROVE  /\ List(NextLevel(s), PaddedLength(k) \div 2)
           /\ PaddedLength(k) \div 2 >= 1 /\ PaddedLength(k) \div 2 < k
           /\ 2 * (PaddedLength(k) \div 2) = PaddedLength(k)
           /\ PaddedLength(k) \in Nat /\ PaddedLength(k) >= k
           /\ \A n \in 1 .. PaddedLength(k) \div 2 :
                 /\ 2 * n - 1 \in 1 .. PaddedLength(k) /\ 2 * n \in 1 .. PaddedLength(k)
                 /\ NextLevel(s)[n] = Node(Padded(s)[2 * n - 1], Padded(s)[2 * n])
<1> DEFINE p == PaddedLength(k)
           h == p \div 2
<1>1. k \in Nat BY Lists
<1>2. p \in Nat /\ p >= k /\ 2 * h = p /\ h \in Nat /\ h >= 1 /\ h < k
  BY <1>1 DEF PaddedLength
<1>3. Len(Padded(s)) = p BY PaddedIs, Lists
<1> HIDE DEF p, h
<1>4. NextLevel(s) = [n \in 1 .. h |-> Node(Padded(s)[2 * n - 1], Padded(s)[2 * n])]
  BY <1>3 DEF NextLevel, h
<1>5. List(NextLevel(s), h)
  <2>1. \A n \in 1 .. h : NextLevel(s)[n] = Node(Padded(s)[2 * n - 1], Padded(s)[2 * n]) BY <1>4
  <2>2. NextLevel(s) = [n \in 1 .. h |-> NextLevel(s)[n]] BY <1>4, <2>1
  <2> QED BY <1>2, <2>2 DEF List
<1>6. ASSUME NEW n \in 1 .. h
      PROVE  /\ 2 * n - 1 \in 1 .. p /\ 2 * n \in 1 .. p
             /\ NextLevel(s)[n] = Node(Padded(s)[2 * n - 1], Padded(s)[2 * n])
  BY <1>2, <1>4
<1> QED BY <1>2, <1>5, <1>6 DEF p, h

-----------------------------------------------------------------------------
(* Leaves: sorting moves every id to a place of its own.                   *)

\* The order of sorted(): by id, and equal ids as they stand.
NotAfter(ids, m, n) ==
    \/ ids[m].current_hash < ids[n].current_hash
    \/ ids[m].current_hash = ids[n].current_hash /\ m <= n

UpTo(ids, n) == {m \in DOMAIN ids : NotAfter(ids, m, n)}

LEMMA RankIs ==
    ASSUME NEW ids \in Seq(ProofId), NEW n \in DOMAIN ids
    PROVE  /\ Rank(ids, n) = Cardinality(UpTo(ids, n)) /\ IsFiniteSet(UpTo(ids, n))
           /\ Rank(ids, n) \in 1 .. Len(ids)
<1> DEFINE U == UpTo(ids, n)
<1>1. Rank(ids, n) = Cardinality(U) BY DEF Rank, UpTo, NotAfter
<1>2. DOMAIN ids = 1 .. Len(ids) /\ Len(ids) \in Nat OBVIOUS
<1>3. IsFiniteSet(1 .. Len(ids)) /\ Cardinality(1 .. Len(ids)) = Len(ids) BY <1>2, Counting
<1>4. U \in SUBSET (1 .. Len(ids)) BY <1>2 DEF UpTo
<1>5. n \in U BY <1>2 DEF UpTo, NotAfter
<1> HIDE DEF U
<1>6. IsFiniteSet(U) /\ Cardinality(U) <= Len(ids) BY <1>3, <1>4, FS_Subset
<1>7. Cardinality(U) \in Nat BY <1>6, FS_CardinalityType
<1>8. Cardinality(U) # 0 BY <1>5, <1>6, FS_EmptySet
<1> QED BY <1>1, <1>2, <1>6, <1>7, <1>8 DEF U

\* Ids that differ in place differ in rank.
LEMMA RanksDiffer ==
    ASSUME NEW ids \in Seq(ProofId), NEW m \in DOMAIN ids, NEW n \in DOMAIN ids,
           Rank(ids, m) = Rank(ids, n)
    PROVE  m = n
<1> DEFINE key(x) == ids[x].current_hash
<1>1. \A x \in DOMAIN ids : x \in Nat /\ key(x) \in Nat
  <2>1. \A x \in DOMAIN ids : x \in Nat /\ ids[x] \in ProofId OBVIOUS
  <2> QED BY <2>1 DEF ProofId
<1>2. \A x, y \in DOMAIN ids : NotAfter(ids, x, y) <=> (key(x) < key(y) \/ (key(x) = key(y) /\ x <= y))
  BY DEF NotAfter
<1> HIDE DEF key
<1>3. ASSUME NEW x \in DOMAIN ids, NEW y \in DOMAIN ids, NotAfter(ids, x, y), x # y,
             Rank(ids, x) = Rank(ids, y)
      PROVE  FALSE
  <2> DEFINE A == UpTo(ids, x)
             B == UpTo(ids, y)
  <2>1. A \in SUBSET B
    <3> SUFFICES ASSUME NEW z \in DOMAIN ids, NotAfter(ids, z, x) PROVE NotAfter(ids, z, y)
      BY DEF UpTo
    <3>1. /\ key(z) < key(x) \/ (key(z) = key(x) /\ z <= x)
          /\ key(x) < key(y) \/ (key(x) = key(y) /\ x <= y)
      BY <1>2, <1>3
    <3>2. key(z) < key(y) \/ (key(z) = key(y) /\ z <= y) BY <3>1, <1>1
    <3> QED BY <3>2, <1>2
  <2>2. y \in B /\ y \notin A
    <3>1. NotAfter(ids, y, y) /\ ~NotAfter(ids, y, x) BY <1>1, <1>2, <1>3
    <3> QED BY <3>1 DEF UpTo
  <2>3. IsFiniteSet(B) /\ Cardinality(A) = Cardinality(B) BY <1>3, RankIs
  <2> HIDE DEF A, B
  <2>4. A = B BY <2>1, <2>3, FS_Subset
  <2> QED BY <2>2, <2>4
<1>4. NotAfter(ids, m, n) \/ NotAfter(ids, n, m) BY <1>1, <1>2
<1> QED BY <1>3, <1>4

\* Every place is taken.
LEMMA RanksCover ==
    ASSUME NEW ids \in Seq(ProofId), NEW k \in DOMAIN ids
    PROVE  \E n \in DOMAIN ids : Rank(ids, n) = k
<1> DEFINE D == DOMAIN ids
           f == [n \in D |-> Rank(ids, n)]
<1>1. D = 1 .. Len(ids) /\ Len(ids) \in Nat OBVIOUS
<1>2. IsFiniteSet(D) BY <1>1, Counting
<1> HIDE DEF D
<1>3. \A n \in D : Rank(ids, n) \in D BY <1>1, RankIs DEF D
<1>4. f \in [D -> D] BY <1>3
<1>5. \A m, n \in D : f[m] = f[n] => m = n BY RanksDiffer DEF D
<1>6. \A n \in D : f[n] = Rank(ids, n) OBVIOUS
<1> HIDE DEF f
<1>7. \A t \in D : \E n \in D : f[n] = t
  <2>1. f \in Injection(D, D)
    <3>1. DOMAIN f = D BY <1>4
    <3> QED BY <3>1, <1>4, <1>5 DEF Injection, IsInjective
  <2>2. f \in Surjection(D, D) BY <2>1, <1>2, FS_Injection
  <2> QED BY <2>2 DEF Surjection
<1> QED BY <1>6, <1>7 DEF D

\* The leaves are the hashes of the ids, at least two of them.
LEMMA LeavesAre ==
    ASSUME NEW ids \in Seq(ProofId), ids # <<>>
    PROVE  \E k \in Nat : /\ k > 1 /\ List(Leaves(ids), k)
                          /\ \A m \in 1 .. k : \E x \in Range(ids) : Leaves(ids)[m] = Leaf(x)
                          /\ \A x \in Range(ids) : \E m \in 1 .. k : Leaves(ids)[m] = Leaf(x)
<1> DEFINE at(k) == CHOOSE n \in DOMAIN ids : Rank(ids, n) = k
           h == [k \in DOMAIN ids |-> Leaf(ids[at(k)])]
           l == Len(ids)
<1>1. DOMAIN ids = 1 .. l /\ l \in Nat /\ l >= 1 OBVIOUS
<1>2. \A k \in DOMAIN ids : at(k) \in DOMAIN ids /\ Rank(ids, at(k)) = k BY RanksCover
<1>3. \A n \in DOMAIN ids : Rank(ids, n) \in DOMAIN ids /\ at(Rank(ids, n)) = n
  <2> TAKE n \in DOMAIN ids
  <2>1. Rank(ids, n) \in DOMAIN ids BY <1>1, RankIs
  <2>2. at(Rank(ids, n)) \in DOMAIN ids /\ Rank(ids, at(Rank(ids, n))) = Rank(ids, n)
    BY <2>1, <1>2
  <2> HIDE DEF at
  <2> QED BY <2>1, <2>2, RanksDiffer
<1>4. Leaves(ids) = h \o (IF Len(h) = 1 THEN h ELSE <<>>) BY DEF Leaves
<1> HIDE DEF at
<1>5. \A k \in 1 .. l : h[k] = Leaf(ids[at(k)]) BY <1>1
<1>6. List(h, l) BY <1>1 DEF List
<1> HIDE DEF h, l
<1> DEFINE S == Elements(h, l)
<1>7. h \in Seq(S) /\ Len(h) = l BY <1>6, Lists
<1>8. \A x \in Range(ids) : \E m \in 1 .. l : h[m] = Leaf(x)
  <2> TAKE x \in Range(ids)
  <2>1. PICK n \in DOMAIN ids : x = ids[n] BY DEF Range
  <2> QED BY <2>1, <1>1, <1>3, <1>5
<1>9. \A m \in 1 .. l : \E x \in Range(ids) : h[m] = Leaf(x)
  <2> TAKE m \in 1 .. l
  <2>1. ids[at(m)] \in Range(ids) BY <1>1, <1>2 DEF Range
  <2> QED BY <2>1, <1>5
<1> HIDE DEF S
<1>10. CASE l = 1
  <2>1. Leaves(ids) = h \o h BY <1>4, <1>7, <1>10
  <2>2. h \o h \in Seq(S) /\ Len(h \o h) = 2 /\ \A m \in 1 .. 2 : (h \o h)[m] = h[1]
    <3>1. h \o h \in Seq(S) /\ Len(h \o h) = 2 BY <1>7, <1>10
    <3>2. (h \o h)[1] = h[1]
      <4>1. 1 \in 1 .. Len(h) + Len(h) /\ 1 <= Len(h) BY <1>7, <1>10
      <4> QED BY <4>1, <1>7, ConcatProperties
    <3>3. (h \o h)[2] = h[1]
      <4>1. 2 \in 1 .. Len(h) + Len(h) /\ ~(2 <= Len(h)) /\ 2 - Len(h) = 1 BY <1>7, <1>10
      <4> QED BY <4>1, <1>7, ConcatProperties
    <3>4. \A m \in 1 .. 2 : m = 1 \/ m = 2 OBVIOUS
    <3> QED BY <3>1, <3>2, <3>3, <3>4
  <2>3. List(Leaves(ids), 2) BY <2>1, <2>2, SequencesAreLists
  <2>4. 1 \in 1 .. 2 /\ 1 \in 1 .. l /\ \A m \in 1 .. l : m = 1 BY <1>10
  <2>5. \A m \in 1 .. 2 : \E x \in Range(ids) : Leaves(ids)[m] = Leaf(x)
    BY <2>1, <2>2, <2>4, <1>9
  <2>6. \A x \in Range(ids) : \E m \in 1 .. 2 : Leaves(ids)[m] = Leaf(x)
    BY <2>1, <2>2, <2>4, <1>8
  <2>7. 2 \in Nat /\ 2 > 1 OBVIOUS
  <2> QED BY <2>3, <2>5, <2>6, <2>7
<1>11. CASE l # 1
  <2>1. Leaves(ids) = h BY <1>4, <1>7, <1>11
  <2>2. l > 1 BY <1>1, <1>11 DEF l
  <2> QED BY <2>1, <2>2, <1>1, <1>6, <1>8, <1>9
<1> QED BY <1>10, <1>11

-----------------------------------------------------------------------------
(* The loops, as functions of the number of rounds.                        *)

\* A round of build_merkle_tree.
Raised(below) == IF Len(below) = 1 THEN below ELSE NextLevel(below)

AreLevels(f, leaves, L) ==
    /\ f[0] = leaves
    /\ \A k \in 1 .. L : f[k] = Raised(f[k - 1])

\* build_merkle_tree makes its levels one from the other.
LEMMA LevelsRaise ==
    ASSUME NEW leaves, NEW L \in Nat, Len(leaves) = L
    PROVE  \E f : AreLevels(f, leaves, L) /\ Levels(leaves) = f
<1> DEFINE P(n) == \E f : f[0] = leaves /\ \A k \in 1 .. n : f[k] = Raised(f[k - 1])
           S == {n \in Nat : P(n)}
<1>1. 0 \in S
  <2> DEFINE f == [k \in 0 .. 0 |-> leaves]
  <2>1. f[0] = leaves OBVIOUS
  <2> HIDE DEF f
  <2>2. \A k \in 1 .. 0 : FALSE OBVIOUS
  <2> QED BY <2>1, <2>2
<1>2. ASSUME NEW n \in S PROVE n + 1 \in S
  <2>0. n \in Nat OBVIOUS
  <2>1. PICK old : old[0] = leaves /\ \A k \in 1 .. n : old[k] = Raised(old[k - 1])
    OBVIOUS
  <2> DEFINE new == [k \in 0 .. n + 1 |-> IF k = n + 1 THEN Raised(old[n]) ELSE old[k]]
  <2>2. new[n + 1] = Raised(old[n]) /\ \A k \in 0 .. n : new[k] = old[k] BY <2>0
  <2> HIDE DEF new
  <2>3. ASSUME NEW k \in 1 .. n + 1 PROVE new[k] = Raised(new[k - 1])
    <3>1. CASE k = n + 1
      <4>1. k - 1 = n /\ n \in 0 .. n BY <3>1, <2>0
      <4> QED BY <4>1, <3>1, <2>2
    <3>2. CASE k # n + 1
      <4>1. k \in 1 .. n /\ k \in 0 .. n /\ k - 1 \in 0 .. n BY <3>2, <2>0
      <4> QED BY <4>1, <2>1, <2>2
    <3> QED BY <3>1, <3>2
  <2>4. new[0] = leaves
    <3>1. 0 \in 0 .. n BY <2>0
    <3> QED BY <3>1, <2>1, <2>2
  <2>5. P(n + 1) BY <2>3, <2>4
  <2> QED BY <2>0, <2>5
<1>3. S = Nat
  <2>1. S \in SUBSET Nat OBVIOUS
  <2> HIDE DEF S
  <2> QED BY <2>1, <1>1, <1>2, AllNumbers
<1>4. PICK g : g[0] = leaves /\ \A k \in 1 .. L : g[k] = Raised(g[k - 1])
  <2>1. P(L) BY <1>3
  <2> QED BY <2>1
<1> HIDE DEF P, S
<1> DEFINE R(f) == f = [n \in 0 .. L |-> IF n = 0 THEN leaves ELSE LET below == f[n - 1] IN IF Len(below) = 1 THEN below ELSE NextLevel(below)]
<1>5. Levels(leaves) = CHOOSE f : R(f) BY DEF Levels
<1>6. \E f : R(f)
  <2> DEFINE f == [n \in 0 .. L |-> g[n]]
  <2>1. \A n \in 0 .. L : f[n] = g[n] OBVIOUS
  <2>2. \A n \in 0 .. L : n # 0 => n \in 1 .. L /\ n - 1 \in 0 .. L OBVIOUS
  <2>3. DOMAIN f = 0 .. L /\ f = [n \in 0 .. L |-> f[n]] OBVIOUS
  <2> HIDE DEF f
  <2>4. ASSUME NEW n \in 0 .. L PROVE f[n] = IF n = 0 THEN leaves ELSE LET below == f[n - 1] IN IF Len(below) = 1 THEN below ELSE NextLevel(below)
    <3>1. CASE n = 0 BY <3>1, <2>1, <1>4
    <3>2. CASE n # 0
      <4>1. f[n] = Raised(f[n - 1]) BY <3>2, <2>1, <2>2, <1>4
      <4> QED BY <4>1, <3>2 DEF Raised
    <3> QED BY <3>1, <3>2
  <2>5. R(f) BY <2>3, <2>4
  <2> HIDE DEF R
  <2> QED BY <2>5
<1>7. PICK f : R(f) /\ f = CHOOSE x : R(x)
  <2> HIDE DEF R
  <2> QED BY <1>6
<1>8. f[0] = leaves /\ \A k \in 1 .. L : f[k] = Raised(f[k - 1])
  <2>1. 0 \in 0 .. L /\ \A k \in 1 .. L : k \in 0 .. L /\ k # 0 OBVIOUS
  <2>2. \A n \in 0 .. L : f[n] = IF n = 0 THEN leaves ELSE LET below == f[n - 1] IN IF Len(below) = 1 THEN below ELSE NextLevel(below) BY <1>7
  <2>3. f[0] = leaves BY <2>1, <2>2
  <2>4. ASSUME NEW k \in 1 .. L PROVE f[k] = Raised(f[k - 1]) BY <2>1, <2>2 DEF Raised
  <2> QED BY <2>3, <2>4
<1>9. Levels(leaves) = f BY <1>5, <1>7
<1> HIDE DEF R
<1>10. AreLevels(f, leaves, L) BY <1>8 DEF AreLevels
<1> QED BY <1>9, <1>10

\* A round of compute_inclusion_proof, and where it starts.
Climbed(at) == IF Len(at.level) = 1 THEN at ELSE Climb(at)
Start(leaves, target) ==
    [path |-> <<>>, level |-> leaves,
     index |-> Min({k \in DOMAIN leaves : leaves[k] = Leaf(target)})]

IsClimb(f, leaves, target, L) ==
    /\ f[0] = Start(leaves, target)
    /\ \A k \in 1 .. L : f[k] = Climbed(f[k - 1])

\* compute_inclusion_proof climbs from level to level.
LEMMA PathClimbs ==
    ASSUME NEW leaves, NEW target, NEW L \in Nat, Len(leaves) = L
    PROVE  \E f : IsClimb(f, leaves, target, L) /\ InclusionPath(leaves, target) = f[L]
<1> DEFINE P(n) == \E f : f[0] = Start(leaves, target) /\ \A k \in 1 .. n : f[k] = Climbed(f[k - 1])
           S == {n \in Nat : P(n)}
<1>1. 0 \in S
  <2> DEFINE f == [k \in 0 .. 0 |-> Start(leaves, target)]
  <2>1. f[0] = Start(leaves, target) OBVIOUS
  <2> HIDE DEF f
  <2>2. \A k \in 1 .. 0 : FALSE OBVIOUS
  <2> QED BY <2>1, <2>2
<1>2. ASSUME NEW n \in S PROVE n + 1 \in S
  <2>0. n \in Nat OBVIOUS
  <2>1. PICK old : old[0] = Start(leaves, target) /\ \A k \in 1 .. n : old[k] = Climbed(old[k - 1])
    OBVIOUS
  <2> DEFINE new == [k \in 0 .. n + 1 |-> IF k = n + 1 THEN Climbed(old[n]) ELSE old[k]]
  <2>2. new[n + 1] = Climbed(old[n]) /\ \A k \in 0 .. n : new[k] = old[k] BY <2>0
  <2> HIDE DEF new
  <2>3. ASSUME NEW k \in 1 .. n + 1 PROVE new[k] = Climbed(new[k - 1])
    <3>1. CASE k = n + 1
      <4>1. k - 1 = n /\ n \in 0 .. n BY <3>1, <2>0
      <4> QED BY <4>1, <3>1, <2>2
    <3>2. CASE k # n + 1
      <4>1. k \in 1 .. n /\ k \in 0 .. n /\ k - 1 \in 0 .. n BY <3>2, <2>0
      <4> QED BY <4>1, <2>1, <2>2
    <3> QED BY <3>1, <3>2
  <2>4. new[0] = Start(leaves, target)
    <3>1. 0 \in 0 .. n BY <2>0
    <3> QED BY <3>1, <2>1, <2>2
  <2>5. P(n + 1) BY <2>3, <2>4
  <2> QED BY <2>0, <2>5
<1>3. S = Nat
  <2>1. S \in SUBSET Nat OBVIOUS
  <2> HIDE DEF S
  <2> QED BY <2>1, <1>1, <1>2, AllNumbers
<1>4. PICK g : g[0] = Start(leaves, target) /\ \A k \in 1 .. L : g[k] = Climbed(g[k - 1])
  <2>1. P(L) BY <1>3
  <2> QED BY <2>1
<1> HIDE DEF P, S
<1> DEFINE R(f) == f = [n \in 0 .. L |-> IF n = 0 THEN Start(leaves, target) ELSE LET at == f[n - 1] IN IF Len(at.level) = 1 THEN at ELSE Climb(at)]
<1>5. InclusionPath(leaves, target) = (CHOOSE f : R(f))[L] BY DEF InclusionPath, Start
<1>6. \E f : R(f)
  <2> DEFINE f == [n \in 0 .. L |-> g[n]]
  <2>1. \A n \in 0 .. L : f[n] = g[n] OBVIOUS
  <2>2. \A n \in 0 .. L : n # 0 => n \in 1 .. L /\ n - 1 \in 0 .. L OBVIOUS
  <2>3. DOMAIN f = 0 .. L /\ f = [n \in 0 .. L |-> f[n]] OBVIOUS
  <2> HIDE DEF f
  <2>4. ASSUME NEW n \in 0 .. L PROVE f[n] = IF n = 0 THEN Start(leaves, target) ELSE LET at == f[n - 1] IN IF Len(at.level) = 1 THEN at ELSE Climb(at)
    <3>1. CASE n = 0 BY <3>1, <2>1, <1>4
    <3>2. CASE n # 0
      <4>1. f[n] = Climbed(f[n - 1]) BY <3>2, <2>1, <2>2, <1>4
      <4> QED BY <4>1, <3>2 DEF Climbed
    <3> QED BY <3>1, <3>2
  <2>5. R(f) BY <2>3, <2>4
  <2> HIDE DEF R
  <2> QED BY <2>5
<1>7. PICK f : R(f) /\ f = CHOOSE x : R(x)
  <2> HIDE DEF R
  <2> QED BY <1>6
<1>8. f[0] = Start(leaves, target) /\ \A k \in 1 .. L : f[k] = Climbed(f[k - 1])
  <2>1. 0 \in 0 .. L /\ \A k \in 1 .. L : k \in 0 .. L /\ k # 0 OBVIOUS
  <2>2. \A n \in 0 .. L : f[n] = IF n = 0 THEN Start(leaves, target) ELSE LET at == f[n - 1] IN IF Len(at.level) = 1 THEN at ELSE Climb(at) BY <1>7
  <2>3. f[0] = Start(leaves, target) BY <2>1, <2>2
  <2>4. ASSUME NEW k \in 1 .. L PROVE f[k] = Climbed(f[k - 1]) BY <2>1, <2>2 DEF Climbed
  <2> QED BY <2>3, <2>4
<1>9. InclusionPath(leaves, target) = f[L] BY <1>5, <1>7
<1> HIDE DEF R
<1>10. IsClimb(f, leaves, target, L) BY <1>8 DEF IsClimb
<1> QED BY <1>9, <1>10

IsWalk(f, h, path, L) ==
    /\ f[0] = h
    /\ \A k \in 1 .. L : f[k] = Joined(f[k - 1], path[k])

\* verify_inclusion_proof joins the hashes of the path to the leaf, one after the other.
LEMMA WalkJoins ==
    ASSUME NEW h, NEW path, NEW L \in Nat, Len(path) = L
    PROVE  \E f : IsWalk(f, h, path, L) /\ Walk(h, path) = f[L]
<1> DEFINE P(n) == \E f : f[0] = h /\ \A k \in 1 .. n : f[k] = Joined(f[k - 1], path[k])
           S == {n \in Nat : P(n)}
<1>1. 0 \in S
  <2> DEFINE f == [k \in 0 .. 0 |-> h]
  <2>1. f[0] = h OBVIOUS
  <2> HIDE DEF f
  <2>2. \A k \in 1 .. 0 : FALSE OBVIOUS
  <2> QED BY <2>1, <2>2
<1>2. ASSUME NEW n \in S PROVE n + 1 \in S
  <2>0. n \in Nat OBVIOUS
  <2>1. PICK old : old[0] = h /\ \A k \in 1 .. n : old[k] = Joined(old[k - 1], path[k])
    OBVIOUS
  <2> DEFINE new == [k \in 0 .. n + 1 |-> IF k = n + 1 THEN Joined(old[n], path[n + 1]) ELSE old[k]]
  <2>2. new[n + 1] = Joined(old[n], path[n + 1]) /\ \A k \in 0 .. n : new[k] = old[k] BY <2>0
  <2> HIDE DEF new
  <2>3. ASSUME NEW k \in 1 .. n + 1 PROVE new[k] = Joined(new[k - 1], path[k])
    <3>1. CASE k = n + 1
      <4>1. k - 1 = n /\ n \in 0 .. n BY <3>1, <2>0
      <4> QED BY <4>1, <3>1, <2>2
    <3>2. CASE k # n + 1
      <4>1. k \in 1 .. n /\ k \in 0 .. n /\ k - 1 \in 0 .. n BY <3>2, <2>0
      <4> QED BY <4>1, <2>1, <2>2
    <3> QED BY <3>1, <3>2
  <2>4. new[0] = h
    <3>1. 0 \in 0 .. n BY <2>0
    <3> QED BY <3>1, <2>1, <2>2
  <2>5. P(n + 1) BY <2>3, <2>4
  <2> QED BY <2>0, <2>5
<1>3. S = Nat
  <2>1. S \in SUBSET Nat OBVIOUS
  <2> HIDE DEF S
  <2> QED BY <2>1, <1>1, <1>2, AllNumbers
<1>4. PICK g : g[0] = h /\ \A k \in 1 .. L : g[k] = Joined(g[k - 1], path[k])
  <2>1. P(L) BY <1>3
  <2> QED BY <2>1
<1> HIDE DEF P, S
<1> DEFINE R(f) == f = [n \in 0 .. L |-> IF n = 0 THEN h ELSE Joined(f[n - 1], path[n])]
<1>5. Walk(h, path) = (CHOOSE f : R(f))[L] BY DEF Walk, WalkFrom
<1>6. \E f : R(f)
  <2> DEFINE f == [n \in 0 .. L |-> g[n]]
  <2>1. \A n \in 0 .. L : f[n] = g[n] OBVIOUS
  <2>2. \A n \in 0 .. L : n # 0 => n \in 1 .. L /\ n - 1 \in 0 .. L OBVIOUS
  <2>3. DOMAIN f = 0 .. L /\ f = [n \in 0 .. L |-> f[n]] OBVIOUS
  <2> HIDE DEF f
  <2>4. ASSUME NEW n \in 0 .. L PROVE f[n] = IF n = 0 THEN h ELSE Joined(f[n - 1], path[n])
    <3>1. CASE n = 0 BY <3>1, <2>1, <1>4
    <3>2. CASE n # 0
      <4>1. f[n] = Joined(f[n - 1], path[n]) BY <3>2, <2>1, <2>2, <1>4
      <4> QED BY <4>1, <3>2
    <3> QED BY <3>1, <3>2
  <2>5. R(f) BY <2>3, <2>4
  <2> HIDE DEF R
  <2> QED BY <2>5
<1>7. PICK f : R(f) /\ f = CHOOSE x : R(x)
  <2> HIDE DEF R
  <2> QED BY <1>6
<1>8. f[0] = h /\ \A k \in 1 .. L : f[k] = Joined(f[k - 1], path[k])
  <2>1. 0 \in 0 .. L /\ \A k \in 1 .. L : k \in 0 .. L /\ k # 0 OBVIOUS
  <2>2. \A n \in 0 .. L : f[n] = IF n = 0 THEN h ELSE Joined(f[n - 1], path[n]) BY <1>7
  <2>3. f[0] = h BY <2>1, <2>2
  <2>4. ASSUME NEW k \in 1 .. L PROVE f[k] = Joined(f[k - 1], path[k]) BY <2>1, <2>2
  <2> QED BY <2>3, <2>4
<1>9. Walk(h, path) = f[L] BY <1>5, <1>7
<1> HIDE DEF R
<1>10. IsWalk(f, h, path, L) BY <1>8 DEF IsWalk
<1> QED BY <1>9, <1>10

-----------------------------------------------------------------------------
(* Walks.                                                                  *)

LEMMA HashesDiffer ==
    /\ \A x, y : Leaf(x) = Leaf(y) => x = y
    /\ \A a, b, c, d : Node(a, b) = Node(c, d) => a = c /\ b = d
    /\ \A x, a, b : Leaf(x) # Node(a, b)
    /\ \A x : Leaf(x) # ZERO
    /\ \A a, b : Node(a, b) # ZERO
<1>1. ASSUME NEW x, NEW y, Leaf(x) = Leaf(y) PROVE x = y
  <2>1. Leaf(x).id = x /\ Leaf(y).id = y BY DEF Leaf
  <2> QED BY <1>1, <2>1
<1>2. ASSUME NEW a, NEW b, NEW c, NEW d, Node(a, b) = Node(c, d) PROVE a = c /\ b = d
  <2>1. /\ Node(a, b).left = a /\ Node(a, b).right = b
        /\ Node(c, d).left = c /\ Node(c, d).right = d
    BY DEF Node
  <2> QED BY <1>2, <2>1
<1>3. /\ \A x : Leaf(x).kind = "leaf"
      /\ \A a, b : Node(a, b).kind = "node"
      /\ ZERO.kind = "zero"
  BY DEF Leaf, Node, ZERO
<1>4. ASSUME NEW x, NEW a, NEW b PROVE Leaf(x) # Node(a, b) BY <1>3
<1>5. ASSUME NEW x PROVE Leaf(x) # ZERO BY <1>3
<1>6. ASSUME NEW a, NEW b PROVE Node(a, b) # ZERO BY <1>3
<1> QED BY <1>1, <1>2, <1>4, <1>5, <1>6

\* A hash and what it is joined to.
LEMMA JoinedIs ==
    ASSUME NEW step, NEW x
    PROVE  /\ Joined(x, step) = Node(step.hash, x) \/ Joined(x, step) = Node(x, step.hash)
           /\ \A y : Joined(x, step) = Joined(y, step) => x = y
<1>1. CASE step.position = "left" BY <1>1, HashesDiffer DEF Joined
<1>2. CASE step.position # "left" BY <1>2, HashesDiffer DEF Joined
<1> QED BY <1>1, <1>2

LEMMA EmptyWalk == \A h : Walk(h, <<>>) = h
<1> SUFFICES ASSUME NEW h PROVE Walk(h, <<>>) = h OBVIOUS
<1>1. Len(<<>>) = 0 /\ 0 \in Nat OBVIOUS
<1> QED BY <1>1, WalkJoins DEF IsWalk

\* One more step of a path joins one more hash.
LEMMA WalkOneMore ==
    ASSUME NEW bottom, NEW path, NEW p, List(path, p), NEW step
    PROVE  /\ List(Append(path, step), p + 1)
           /\ Walk(bottom, Append(path, step)) = Joined(Walk(bottom, path), step)
<1>0. p \in Nat /\ Len(path) = p BY Lists
<1>5. PICK f : IsWalk(f, bottom, path, p) /\ Walk(bottom, path) = f[p]
  BY <1>0, WalkJoins
<1> DEFINE S == Elements(path, p) \cup {step}
           long == Append(path, step)
<1>1. p \in Nat /\ path \in Seq(Elements(path, p)) /\ Len(path) = p BY Lists
<1>2. path \in Seq(S)
  <2>1. \A m \in 1 .. p : path[m] \in S BY DEF Elements
  <2> QED BY <2>1, <1>1
<1>3. step \in S OBVIOUS
<1> HIDE DEF S
<1>4. /\ long \in Seq(S) /\ Len(long) = p + 1 /\ long[p + 1] = step
      /\ \A m \in 1 .. p : long[m] = path[m]
  BY <1>1, <1>2, <1>3
<1> HIDE DEF long
<1>6. p + 1 \in Nat BY <1>1
<1>7. PICK g : IsWalk(g, bottom, long, p + 1) /\ Walk(bottom, long) = g[p + 1]
  BY <1>4, <1>6, WalkJoins
<1> DEFINE A == {n \in Nat : n <= p => f[n] = g[n]}
<1>8. 0 \in A BY <1>5, <1>7 DEF IsWalk
<1>9. ASSUME NEW n \in A PROVE n + 1 \in A
  <2> SUFFICES ASSUME n + 1 <= p PROVE f[n + 1] = g[n + 1] OBVIOUS
  <2>1. n \in Nat /\ n + 1 \in 1 .. p /\ n + 1 \in 1 .. p + 1 /\ (n + 1) - 1 = n /\ f[n] = g[n]
    BY <1>1
  <2>2. f[n + 1] = Joined(f[n], path[n + 1]) /\ g[n + 1] = Joined(g[n], long[n + 1])
    BY <2>1, <1>5, <1>7 DEF IsWalk
  <2> QED BY <2>1, <2>2, <1>4
<1>10. A = Nat
  <2>1. A \in SUBSET Nat OBVIOUS
  <2> HIDE DEF A
  <2> QED BY <2>1, <1>8, <1>9, AllNumbers
<1>11. f[p] = g[p] BY <1>1, <1>10
<1>12. g[p + 1] = Joined(g[p], step)
  <2>1. p + 1 \in 1 .. p + 1 /\ (p + 1) - 1 = p BY <1>1
  <2> QED BY <2>1, <1>4, <1>7 DEF IsWalk
<1>13. List(long, p + 1) BY <1>4, SequencesAreLists
<1> QED BY <1>5, <1>7, <1>11, <1>12, <1>13 DEF long

\* A path leads two leaves to the same root only if they are the same.
LEMMA WalkInjective ==
    ASSUME NEW a, NEW b, NEW path, NEW p, List(path, p), Walk(a, path) = Walk(b, path)
    PROVE  a = b
<1>1. p \in Nat /\ Len(path) = p BY Lists
<1>2. PICK f : IsWalk(f, a, path, p) /\ Walk(a, path) = f[p]
  BY <1>1, WalkJoins
<1>3. PICK g : IsWalk(g, b, path, p) /\ Walk(b, path) = g[p]
  BY <1>1, WalkJoins
<1> DEFINE A == {n \in Nat : n <= p => (f[n] = g[n] => a = b)}
<1>4. 0 \in A BY <1>2, <1>3 DEF IsWalk
<1>5. ASSUME NEW n \in A PROVE n + 1 \in A
  <2> SUFFICES ASSUME n + 1 <= p, f[n + 1] = g[n + 1] PROVE a = b OBVIOUS
  <2>1. n \in Nat /\ n <= p /\ n + 1 \in 1 .. p /\ (n + 1) - 1 = n BY <1>1
  <2>2. f[n + 1] = Joined(f[n], path[n + 1]) /\ g[n + 1] = Joined(g[n], path[n + 1])
    BY <2>1, <1>2, <1>3 DEF IsWalk
  <2>3. f[n] = g[n] BY <2>2, JoinedIs
  <2>4. n <= p => (f[n] = g[n] => a = b) OBVIOUS
  <2> QED BY <2>1, <2>3, <2>4
<1>6. A = Nat
  <2>1. A \in SUBSET Nat OBVIOUS
  <2> HIDE DEF A
  <2> QED BY <2>1, <1>4, <1>5, AllNumbers
<1>7. f[p] = g[p] BY <1>2, <1>3
<1>8. p \in A BY <1>1, <1>6
<1> QED BY <1>1, <1>7, <1>8

-----------------------------------------------------------------------------
(* The tree.                                                               *)

\* Levels shrink until one hash is left.
Shrunk(lv, n, k) == \E l : List(lv[n], l) /\ l >= 1 /\ (l = 1 \/ l + n <= k)

LEMMA LevelsShrink ==
    ASSUME NEW leaves, NEW k, List(leaves, k), k >= 1, NEW lv, AreLevels(lv, leaves, k)
    PROVE  (\A n \in 0 .. k : Shrunk(lv, n, k)) /\ List(lv[k], 1)
<1>0. k \in Nat BY Lists
<1> DEFINE S == {n \in Nat : n <= k => Shrunk(lv, n, k)}
<1>1. 0 \in S
  <2>1. List(lv[0], k) /\ k >= 1 /\ k + 0 <= k BY <1>0 DEF AreLevels
  <2>2. Shrunk(lv, 0, k) BY <2>1 DEF Shrunk
  <2> QED BY <2>2
<1>2. ASSUME NEW n \in S PROVE n + 1 \in S
  <2> SUFFICES ASSUME n + 1 <= k PROVE Shrunk(lv, n + 1, k) OBVIOUS
  <2>1. n \in Nat /\ n <= k /\ n + 1 \in 1 .. k /\ (n + 1) - 1 = n BY <1>0
  <2>2. Shrunk(lv, n, k) BY <2>1, <1>2
  <2>3. PICK l : List(lv[n], l) /\ l >= 1 /\ (l = 1 \/ l + n <= k) BY <2>2 DEF Shrunk
  <2>4. l \in Nat /\ Len(lv[n]) = l BY <2>3, Lists
  <2>5. lv[n + 1] = Raised(lv[n]) BY <2>1 DEF AreLevels
  <2>6. CASE l = 1
    <3>1. lv[n + 1] = lv[n] BY <2>4, <2>5, <2>6 DEF Raised
    <3> QED BY <3>1, <2>3, <2>6 DEF Shrunk
  <2>7. CASE l # 1
    <3>1. lv[n + 1] = NextLevel(lv[n]) BY <2>4, <2>5, <2>7 DEF Raised
    <3>2. l > 1 BY <2>3, <2>4, <2>7
    <3> DEFINE h == PaddedLength(l) \div 2
    <3>3. List(NextLevel(lv[n]), h) /\ h >= 1 /\ h < l BY <3>2, <2>3, NextIs
    <3>4. h \in Nat BY <3>3, Lists
    <3> HIDE DEF h
    <3>5. h + (n + 1) <= k BY <3>3, <3>4, <2>1, <2>3, <2>4, <2>7, <1>0
    <3> QED BY <3>1, <3>3, <3>5 DEF Shrunk
  <2> QED BY <2>6, <2>7
<1>3. S = Nat
  <2>1. S \in SUBSET Nat OBVIOUS
  <2> HIDE DEF S
  <2> QED BY <2>1, <1>1, <1>2, AllNumbers
<1>4. \A n \in 0 .. k : Shrunk(lv, n, k)
  <2>1. \A n \in 0 .. k : n \in Nat /\ n <= k BY <1>0
  <2> QED BY <2>1, <1>3
<1>5. List(lv[k], 1)
  <2>1. Shrunk(lv, k, k) BY <1>0, <1>4
  <2>2. PICK l : List(lv[k], l) /\ l >= 1 /\ (l = 1 \/ l + k <= k) BY <2>1 DEF Shrunk
  <2>3. l \in Nat BY <2>2, Lists
  <2>4. l = 1 BY <2>2, <2>3, <1>0
  <2> QED BY <2>2, <2>4
<1> QED BY <1>4, <1>5

\* One round of the climb: the path so far leads from the leaf to the hash at index,
\* and one step more to the hash above it.
LEMMA ClimbOnce ==
    ASSUME NEW at, NEW bottom, NEW l, NEW p, List(at.level, l), l > 1, at.index \in 1 .. l,
           List(at.path, p), Walk(bottom, at.path) = at.level[at.index]
    PROVE  LET up == Climb(at)
               h == PaddedLength(l) \div 2
           IN  /\ up.level = NextLevel(at.level) /\ List(up.level, h) /\ up.index \in 1 .. h
               /\ List(up.path, p + 1)
               /\ Walk(bottom, up.path) = up.level[up.index]
<1> DEFINE up == Climb(at)
           pl == PaddedLength(l)
           h == pl \div 2
           i == at.index
           padded == Padded(at.level)
           step == [hash |-> padded[SiblingIndex(i, padded)],
                    position |-> IF i % 2 = 1 THEN "right" ELSE "left"]
           j == (i + 1) \div 2
<1>1. up.path = Append(at.path, step) /\ up.level = NextLevel(at.level) /\ up.index = j
  BY DEF Climb
<1>2. l \in Nat BY Lists
<1>3. /\ List(up.level, h) /\ pl \in Nat /\ pl >= l /\ 2 * h = pl /\ h >= 1
      /\ \A n \in 1 .. h : /\ 2 * n - 1 \in 1 .. pl /\ 2 * n \in 1 .. pl
                           /\ up.level[n] = Node(padded[2 * n - 1], padded[2 * n])
  BY <1>1, NextIs
<1>4. \A m \in 1 .. pl : padded[m] = at.level[IF m <= l THEN m ELSE l] BY PaddedIs
<1>5. /\ step.hash = padded[SiblingIndex(i, padded)]
      /\ step.position = IF i % 2 = 1 THEN "right" ELSE "left"
  OBVIOUS
<1>6. h \in Nat BY <1>3, Lists
<1>7. /\ List(Append(at.path, step), p + 1)
      /\ Walk(bottom, Append(at.path, step)) = Joined(Walk(bottom, at.path), step)
  BY WalkOneMore
<1>8. i \in Nat /\ i >= 1 /\ i <= l BY <1>2
<1> HIDE DEF up, pl, h, i, step, padded
<1>9. j \in 1 .. h /\ i \in 1 .. pl BY <1>2, <1>3, <1>6, <1>8
<1>10. padded[i] = at.level[i]
  <2>1. i <= l BY <1>8
  <2> QED BY <2>1, <1>4, <1>9
<1>11. up.level[j] = Node(padded[2 * j - 1], padded[2 * j]) BY <1>3, <1>9
<1>12. Walk(bottom, at.path) = at.level[i] BY DEF i
<1>13. CASE i % 2 = 1
  <2>1. 2 * j - 1 = i /\ 2 * j = i + 1 BY <1>8, <1>13
  <2>2. SiblingIndex(i, padded) = i + 1 BY <1>13 DEF SiblingIndex
  <2>3. Joined(at.level[i], step) = Node(at.level[i], padded[i + 1])
    BY <2>2, <1>5, <1>13 DEF Joined
  <2>4. up.level[j] = Node(padded[i], padded[i + 1]) BY <2>1, <1>11
  <2> HIDE DEF j
  <2> QED BY <2>3, <2>4, <1>1, <1>3, <1>7, <1>9, <1>10, <1>12 DEF up, h, pl
<1>14. CASE i % 2 # 1
  <2>1. 2 * j = i /\ 2 * j - 1 = i - 1 BY <1>8, <1>14
  <2>2. SiblingIndex(i, padded) = i - 1 BY <1>14 DEF SiblingIndex
  <2>3. Joined(at.level[i], step) = Node(padded[i - 1], at.level[i])
    BY <2>2, <1>5, <1>14 DEF Joined
  <2>4. up.level[j] = Node(padded[i - 1], padded[i]) BY <2>1, <1>11
  <2> HIDE DEF j
  <2> QED BY <2>3, <2>4, <1>1, <1>3, <1>7, <1>9, <1>10, <1>12 DEF up, h, pl
<1> QED BY <1>13, <1>14

\* The climb after n rounds.
AtLevel(c, lv, n, bottom) ==
    \E l, p : /\ List(c[n].level, l) /\ c[n].level = lv[n] /\ c[n].index \in 1 .. l /\ l >= 1
              /\ List(c[n].path, p) /\ Walk(bottom, c[n].path) = c[n].level[c[n].index]

\* The path of a leaf leads to the root.
LEMMA ClimbReachesRoot ==
    ASSUME NEW leaves, NEW k, List(leaves, k), k >= 1, NEW lv, AreLevels(lv, leaves, k),
           NEW c, NEW target, IsClimb(c, leaves, target, k),
           NEW m \in 1 .. k, leaves[m] = Leaf(target)
    PROVE  /\ c[k].level = lv[k] /\ \E p : List(c[k].path, p)
           /\ Walk(Leaf(target), c[k].path) = lv[k][1]
<1>0. k \in Nat /\ DOMAIN leaves = 1 .. k BY Lists
<1> DEFINE bottom == Leaf(target)
           S == {n \in Nat : n <= k => AtLevel(c, lv, n, bottom)}
<1>1. 0 \in S
  <2> DEFINE I == {x \in DOMAIN leaves : leaves[x] = Leaf(target)}
  <2>1. I \in SUBSET Nat /\ I # {} BY <1>0
  <2>2. Min(I) \in I
    <3> HIDE DEF I
    <3> QED BY <2>1, LeastIs
  <2>3. Min(I) \in 1 .. k /\ leaves[Min(I)] = bottom BY <2>2, <1>0
  <2>4. c[0] = Start(leaves, target) /\ lv[0] = leaves BY DEF IsClimb, AreLevels
  <2>5. c[0].path = <<>> /\ c[0].level = leaves /\ c[0].index = Min(I) BY <2>4 DEF Start
  <2> HIDE DEF I, bottom
  <2>6. List(<<>>, 0)
    <3>1. <<>> \in Seq({}) /\ Len(<<>>) = 0 OBVIOUS
    <3> QED BY <3>1, SequencesAreLists
  <2>7. Walk(bottom, <<>>) = bottom BY EmptyWalk
  <2>8. AtLevel(c, lv, 0, bottom) BY <2>3, <2>4, <2>5, <2>6, <2>7 DEF AtLevel
  <2> QED BY <2>8
<1> HIDE DEF bottom
<1>2. ASSUME NEW n \in S PROVE n + 1 \in S
  <2> SUFFICES ASSUME n + 1 <= k PROVE AtLevel(c, lv, n + 1, bottom) OBVIOUS
  <2>1. n \in Nat /\ n <= k /\ n + 1 \in 1 .. k /\ (n + 1) - 1 = n BY <1>0
  <2>2. AtLevel(c, lv, n, bottom) BY <2>1, <1>2
  <2> DEFINE at == c[n]
  <2>3. PICK l, p : /\ List(at.level, l) /\ at.level = lv[n] /\ at.index \in 1 .. l /\ l >= 1
                    /\ List(at.path, p) /\ Walk(bottom, at.path) = at.level[at.index]
    BY <2>2 DEF AtLevel
  <2>4. l \in Nat /\ Len(at.level) = l BY <2>3, Lists
  <2>5. c[n + 1] = Climbed(at) /\ lv[n + 1] = Raised(at.level)
    BY <2>1, <2>3 DEF IsClimb, AreLevels
  <2> HIDE DEF at
  <2>6. CASE l = 1
    <3>1. c[n + 1] = at /\ lv[n + 1] = at.level BY <2>4, <2>5, <2>6 DEF Climbed, Raised
    <3> QED BY <3>1, <2>3 DEF AtLevel
  <2>7. CASE l # 1
    <3>1. c[n + 1] = Climb(at) /\ lv[n + 1] = NextLevel(at.level)
      BY <2>4, <2>5, <2>7 DEF Climbed, Raised
    <3>2. l > 1 BY <2>3, <2>4, <2>7
    <3> DEFINE up == Climb(at)
               h == PaddedLength(l) \div 2
    <3>3. /\ up.level = NextLevel(at.level) /\ List(up.level, h) /\ up.index \in 1 .. h
          /\ List(up.path, p + 1)
          /\ Walk(bottom, up.path) = up.level[up.index]
      BY <3>2, <2>3, ClimbOnce
    <3>4. h >= 1 BY <3>2, <2>3, NextIs
    <3> HIDE DEF up, h
    <3> QED BY <3>1, <3>3, <3>4 DEF AtLevel, up
  <2> QED BY <2>6, <2>7
<1>3. S = Nat
  <2>1. S \in SUBSET Nat OBVIOUS
  <2> HIDE DEF S
  <2> QED BY <2>1, <1>1, <1>2, AllNumbers
<1>4. AtLevel(c, lv, k, bottom)
  <2>1. k \in S /\ k <= k BY <1>0, <1>3
  <2> QED BY <2>1
<1>5. PICK l, p : /\ List(c[k].level, l) /\ c[k].level = lv[k] /\ c[k].index \in 1 .. l
                  /\ List(c[k].path, p) /\ Walk(bottom, c[k].path) = c[k].level[c[k].index]
  BY <1>4 DEF AtLevel
<1>6. l = 1
  <2>1. List(lv[k], 1) BY LevelsShrink
  <2>2. Len(lv[k]) = 1 BY <2>1, Lists
  <2>3. Len(lv[k]) = l BY <1>5, Lists
  <2> QED BY <2>2, <2>3
<1>7. c[k].index = 1 BY <1>5, <1>6
<1> QED BY <1>5, <1>7 DEF bottom

\* The tree over some ids: its leaves and levels.
TreeOver(ids, k, lv) ==
    /\ k \in Nat /\ k > 1 /\ List(Leaves(ids), k)
    /\ \A m \in 1 .. k : \E x \in Range(ids) : Leaves(ids)[m] = Leaf(x)
    /\ \A x \in Range(ids) : \E m \in 1 .. k : Leaves(ids)[m] = Leaf(x)
    /\ AreLevels(lv, Leaves(ids), k)
    /\ List(lv[k], 1)
    /\ merkle_root(ids) = lv[k][1]

\* The head of a list of one.
LEMMA HeadIs ==
    ASSUME NEW s, List(s, 1)
    PROVE  Head(s) = s[1]
<1>1. s \in Seq(Elements(s, 1)) /\ Len(s) = 1 BY Lists
<1>2. s # <<>> BY <1>1
<1> QED BY <1>1, <1>2

LEMMA TreeIs ==
    ASSUME NEW ids \in Seq(ProofId), ids # <<>>
    PROVE  \E k, lv : TreeOver(ids, k, lv)
<1> DEFINE leaves == Leaves(ids)
<1>1. PICK k \in Nat : /\ k > 1 /\ List(leaves, k)
                       /\ \A m \in 1 .. k : \E x \in Range(ids) : leaves[m] = Leaf(x)
                       /\ \A x \in Range(ids) : \E m \in 1 .. k : leaves[m] = Leaf(x)
  BY LeavesAre
<1>2. Len(leaves) = k BY <1>1, Lists
<1> HIDE DEF leaves
<1>3. PICK lv : AreLevels(lv, leaves, k) /\ Levels(leaves) = lv BY <1>2, LevelsRaise
<1>4. List(lv[k], 1) BY <1>1, <1>3, LevelsShrink
<1>5. merkle_root(ids) = Head(lv[k]) BY <1>2, <1>3 DEF merkle_root, leaves
<1>6. merkle_root(ids) = lv[k][1] BY <1>4, <1>5, HeadIs
<1>7. TreeOver(ids, k, lv) BY <1>1, <1>3, <1>4, <1>6 DEF TreeOver, leaves
<1> QED BY <1>7

\* An inclusion proof of the ids leads from the leaf of its id to the Merkle root.
LEMMA PathVerifies ==
    ASSUME NEW ids \in Seq(ProofId), NEW x \in Range(ids)
    PROVE  LET top == InclusionPath(Leaves(ids), x)
           IN  /\ Head(top.level) = merkle_root(ids)
               /\ \E p : List(top.path, p)
               /\ Walk(Leaf(x), top.path) = merkle_root(ids)
<1> DEFINE leaves == Leaves(ids)
           top == InclusionPath(leaves, x)
<1>1. ids # <<>> BY DEF Range
<1>2. PICK k, lv : TreeOver(ids, k, lv) BY <1>1, TreeIs
<1>3. k \in Nat /\ List(leaves, k) /\ k >= 1 /\ AreLevels(lv, leaves, k) BY <1>2 DEF TreeOver
<1>4. Len(leaves) = k BY <1>3, Lists
<1>5. PICK m \in 1 .. k : leaves[m] = Leaf(x) BY <1>2 DEF TreeOver
<1> HIDE DEF leaves
<1>6. PICK c : IsClimb(c, leaves, x, k) /\ top = c[k] BY <1>3, <1>4, PathClimbs
<1> HIDE DEF top
<1>7. /\ c[k].level = lv[k] /\ \E p : List(c[k].path, p)
      /\ Walk(Leaf(x), c[k].path) = lv[k][1]
  BY <1>3, <1>5, <1>6, ClimbReachesRoot
<1>8. List(lv[k], 1) /\ merkle_root(ids) = lv[k][1] BY <1>2 DEF TreeOver
<1>9. Head(lv[k]) = lv[k][1] BY <1>8, HeadIs
<1> QED BY <1>6, <1>7, <1>8, <1>9 DEF top, leaves

\* The hashes of a tree.
InTree(h, lv, k) == \E n \in 0 .. k : \E m \in 1 .. Len(lv[n]) : h = lv[n][m]

\* Each is a leaf or has two of them below it.
LeafOrNode(h, lv, ids, k) ==
    \/ \E x \in Range(ids) : h = Leaf(x)
    \/ \E a, b : InTree(a, lv, k) /\ InTree(b, lv, k) /\ h = Node(a, b)

LEMMA TreeHashes ==
    ASSUME NEW ids, NEW k, NEW lv, TreeOver(ids, k, lv), NEW h, InTree(h, lv, k)
    PROVE  LeafOrNode(h, lv, ids, k)
<1>0. k \in Nat /\ List(Leaves(ids), k) /\ AreLevels(lv, Leaves(ids), k) BY DEF TreeOver
<1> DEFINE Q(n) == \A m \in 1 .. Len(lv[n]) : LeafOrNode(lv[n][m], lv, ids, k)
           S == {n \in Nat : n <= k => Q(n)}
<1>1. 0 \in S
  <2>1. lv[0] = Leaves(ids) /\ Len(Leaves(ids)) = k BY <1>0, Lists DEF AreLevels
  <2>2. \A m \in 1 .. k : \E x \in Range(ids) : Leaves(ids)[m] = Leaf(x) BY DEF TreeOver
  <2>3. Q(0) BY <2>1, <2>2 DEF LeafOrNode
  <2> QED BY <2>3
<1>2. ASSUME NEW n \in S PROVE n + 1 \in S
  <2> SUFFICES ASSUME n + 1 <= k PROVE Q(n + 1) OBVIOUS
  <2>1. n \in Nat /\ n <= k /\ n \in 0 .. k /\ n + 1 \in 1 .. k /\ (n + 1) - 1 = n BY <1>0
  <2>2. Q(n) BY <2>1, <1>2
  <2>3. lv[n + 1] = Raised(lv[n]) BY <2>1, <1>0 DEF AreLevels
  <2>4. Shrunk(lv, n, k)
    <3>1. k >= 1 BY DEF TreeOver
    <3> QED BY <3>1, <2>1, <1>0, LevelsShrink
  <2>5. PICK l : List(lv[n], l) /\ l >= 1 BY <2>4 DEF Shrunk
  <2>6. l \in Nat /\ Len(lv[n]) = l BY <2>5, Lists
  <2>7. CASE l = 1
    <3>1. lv[n + 1] = lv[n] BY <2>3, <2>6, <2>7 DEF Raised
    <3> QED BY <3>1, <2>2
  <2>8. CASE l # 1
    <3>1. lv[n + 1] = NextLevel(lv[n]) BY <2>3, <2>6, <2>8 DEF Raised
    <3>2. l > 1 BY <2>5, <2>6, <2>8
    <3> DEFINE pl == PaddedLength(l)
               d == Padded(lv[n])
    <3>3. /\ List(NextLevel(lv[n]), pl \div 2)
          /\ \A j \in 1 .. pl \div 2 :
                /\ 2 * j - 1 \in 1 .. pl /\ 2 * j \in 1 .. pl
                /\ NextLevel(lv[n])[j] = Node(d[2 * j - 1], d[2 * j])
      BY <3>2, <2>5, NextIs
    <3>4. \A j \in 1 .. pl : d[j] = lv[n][IF j <= l THEN j ELSE l] BY <3>2, <2>5, PaddedIs
    <3>5. pl \in Nat BY <2>6 DEF PaddedLength
    <3>6. ASSUME NEW j \in 1 .. pl PROVE InTree(d[j], lv, k)
      <4>1. (IF j <= l THEN j ELSE l) \in 1 .. Len(lv[n]) BY <3>2, <3>5, <2>6
      <4> QED BY <4>1, <3>4, <2>1 DEF InTree
    <3>7. Len(lv[n + 1]) = pl \div 2 BY <3>1, <3>3, Lists
    <3> HIDE DEF pl, d
    <3>8. ASSUME NEW j \in 1 .. pl \div 2 PROVE LeafOrNode(lv[n + 1][j], lv, ids, k)
      BY <3>1, <3>3, <3>6 DEF LeafOrNode
    <3> QED BY <3>7, <3>8
  <2> QED BY <2>7, <2>8
<1> HIDE DEF Q
<1>3. S = Nat
  <2>1. S \in SUBSET Nat OBVIOUS
  <2> HIDE DEF S
  <2> QED BY <2>1, <1>1, <1>2, AllNumbers
<1>4. PICK n \in 0 .. k : \E m \in 1 .. Len(lv[n]) : h = lv[n][m] BY DEF InTree
<1>5. Q(n)
  <2>1. n \in Nat /\ n <= k BY <1>0
  <2>2. n \in S BY <2>1, <1>3
  <2> QED BY <2>1, <2>2
<1> QED BY <1>4, <1>5 DEF Q

\* A walk that ends in a hash of the tree began at one of its leaves.
LEMMA WalkBeginsInTree ==
    ASSUME NEW ids, NEW k, NEW lv, TreeOver(ids, k, lv), NEW x, NEW path, NEW p, List(path, p),
           InTree(Walk(Leaf(x), path), lv, k)
    PROVE  x \in Range(ids)
<1>1. p \in Nat /\ Len(path) = p BY Lists
<1> DEFINE bottom == Leaf(x)
<1>2. PICK f : IsWalk(f, bottom, path, p) /\ Walk(bottom, path) = f[p]
  <2> HIDE DEF bottom
  <2> QED BY <1>1, WalkJoins
<1> DEFINE S == {n \in Nat : n <= p => InTree(f[p - n], lv, k)}
<1>3. 0 \in S
  <2>1. p - 0 = p BY <1>1
  <2> QED BY <2>1, <1>2
<1>4. ASSUME NEW n \in S PROVE n + 1 \in S
  <2> SUFFICES ASSUME n + 1 <= p PROVE InTree(f[p - (n + 1)], lv, k) OBVIOUS
  <2> DEFINE q == p - n
  <2>1. n \in Nat /\ n <= p /\ q \in 1 .. p /\ q - 1 = p - (n + 1) BY <1>1
  <2>2. InTree(f[q], lv, k) BY <2>1, <1>4
  <2>3. f[q] = Joined(f[q - 1], path[q]) BY <2>1, <1>2 DEF IsWalk
  <2> HIDE DEF q
  <2>4. LeafOrNode(f[q], lv, ids, k) BY <2>2, TreeHashes
  <2> DEFINE s == path[q].hash
             y == f[q - 1]
  <2>5. f[q] = Node(s, y) \/ f[q] = Node(y, s) BY <2>3, JoinedIs
  <2> HIDE DEF s, y
  <2>6. PICK a, b : InTree(a, lv, k) /\ InTree(b, lv, k) /\ f[q] = Node(a, b)
    BY <2>4, <2>5, HashesDiffer DEF LeafOrNode
  <2>7. y = a \/ y = b BY <2>5, <2>6, HashesDiffer
  <2>8. InTree(y, lv, k) BY <2>6, <2>7
  <2> QED BY <2>8, <2>1 DEF y
<1>5. S = Nat
  <2>1. S \in SUBSET Nat OBVIOUS
  <2> HIDE DEF S
  <2> QED BY <2>1, <1>3, <1>4, AllNumbers
<1>6. InTree(Leaf(x), lv, k)
  <2>0. p <= p /\ p - p = 0 BY <1>1
  <2>1. p \in S BY <1>1, <1>5
  <2>2. InTree(f[p - p], lv, k) BY <2>0, <2>1
  <2>3. f[0] = Leaf(x) BY <1>2 DEF IsWalk
  <2> QED BY <2>0, <2>2, <2>3
<1>7. LeafOrNode(Leaf(x), lv, ids, k) BY <1>6, TreeHashes
<1> QED BY <1>7, HashesDiffer DEF LeafOrNode

\* Batches with the same Merkle root hold the same ids.
LEMMA RootHoldsIds ==
    ASSUME NEW a \in Seq(ProofId), NEW b \in Seq(ProofId), merkle_root(a) = merkle_root(b)
    PROVE  Range(a) \subseteq Range(b)
<1> SUFFICES ASSUME NEW x \in Range(a) PROVE x \in Range(b) OBVIOUS
<1> DEFINE path == InclusionPath(Leaves(a), x).path
<1>1. (\E p : List(path, p)) /\ Walk(Leaf(x), path) = merkle_root(a) BY PathVerifies
<1> HIDE DEF path
<1>2. PICK p : List(path, p) BY <1>1
<1>3. CASE b # <<>>
  <2>1. PICK k, lv : TreeOver(b, k, lv) BY <1>3, TreeIs
  <2>2. merkle_root(b) = lv[k][1] /\ List(lv[k], 1) /\ k \in Nat BY <2>1 DEF TreeOver
  <2>3. Len(lv[k]) = 1 BY <2>2, Lists
  <2>4. k \in 0 .. k /\ 1 \in 1 .. Len(lv[k]) BY <2>2, <2>3
  <2>5. InTree(merkle_root(b), lv, k) BY <2>2, <2>4 DEF InTree
  <2> QED BY <2>1, <2>5, <1>1, <1>2, WalkBeginsInTree
<1>4. CASE b = <<>>
  <2>1. merkle_root(b) = ZERO BY <1>4 DEF merkle_root
  <2>2. a # <<>> BY DEF Range
  <2>3. PICK k, lv : TreeOver(a, k, lv) BY <2>2, TreeIs
  <2>4. merkle_root(a) = lv[k][1] /\ List(lv[k], 1) /\ k \in Nat BY <2>3 DEF TreeOver
  <2>5. Len(lv[k]) = 1 BY <2>4, Lists
  <2>6. k \in 0 .. k /\ 1 \in 1 .. Len(lv[k]) BY <2>4, <2>5
  <2>7. InTree(merkle_root(a), lv, k) BY <2>4, <2>6 DEF InTree
  <2>8. LeafOrNode(merkle_root(a), lv, a, k) BY <2>3, <2>7, TreeHashes
  <2> QED BY <2>1, <2>8, HashesDiffer DEF LeafOrNode
<1> QED BY <1>3, <1>4

-----------------------------------------------------------------------------
(* The reference tree.                                                     *)

\* A length is one or more than one, for terms the provers do not take for numbers.
LEMMA OneOrMore == \A x \in Nat : x >= 1 => (x > 1 <=> x # 1)
OBVIOUS

\* Each level has half the hashes of the one below, rounded up; a level of one stays.
LevelsHalve(lv, leaves, k) ==
    /\ lv[0] = leaves /\ Len(lv[0]) = k
    /\ \A n \in 0 .. k : Len(lv[n]) \in Nat /\ Len(lv[n]) >= 1 /\ List(lv[n], Len(lv[n]))
    /\ \A n \in 1 .. k : Len(lv[n]) = (Len(lv[n - 1]) + 1) \div 2
    /\ \A n \in 1 .. k : Len(lv[n - 1]) = 1 => lv[n] = lv[n - 1]

LEMMA LevelLengths ==
    ASSUME NEW leaves, NEW k, List(leaves, k), k >= 1, NEW lv, AreLevels(lv, leaves, k)
    PROVE  LevelsHalve(lv, leaves, k)
<1>0. k \in Nat /\ Len(leaves) = k /\ lv[0] = leaves BY Lists DEF AreLevels
<1>1. ASSUME NEW n \in 0 .. k
      PROVE  Len(lv[n]) \in Nat /\ Len(lv[n]) >= 1 /\ List(lv[n], Len(lv[n]))
  <2>1. Shrunk(lv, n, k) BY LevelsShrink
  <2>2. PICK l : List(lv[n], l) /\ l >= 1 BY <2>1 DEF Shrunk
  <2>3. Len(lv[n]) = l /\ l \in Nat BY <2>2, Lists
  <2> QED BY <2>2, <2>3
<1>2. ASSUME NEW n \in 1 .. k
      PROVE  /\ Len(lv[n]) = (Len(lv[n - 1]) + 1) \div 2
             /\ Len(lv[n - 1]) = 1 => lv[n] = lv[n - 1]
  <2> DEFINE below == lv[n - 1]
             l == Len(below)
  <2>1. n - 1 \in 0 .. k BY <1>0
  <2>2. l \in Nat /\ l >= 1 /\ List(below, l) BY <2>1, <1>1
  <2>3. lv[n] = Raised(below) BY DEF AreLevels
  <2> HIDE DEF below
  <2>4. CASE l = 1
    <3>1. lv[n] = below BY <2>3, <2>4 DEF Raised
    <3>2. (1 + 1) \div 2 = 1 OBVIOUS
    <3> QED BY <3>1, <3>2, <2>4 DEF below
  <2>5. CASE l # 1
    <3>1. lv[n] = NextLevel(below) BY <2>3, <2>5 DEF Raised
    <3>2. l > 1 BY <2>2, <2>5
    <3>3. List(NextLevel(below), PaddedLength(l) \div 2) BY <3>2, <2>2, NextIs
    <3>4. Len(lv[n]) = PaddedLength(l) \div 2 BY <3>1, <3>3, Lists
    <3> HIDE DEF l
    <3>5. PaddedLength(l) \div 2 = (l + 1) \div 2 BY <2>2 DEF PaddedLength
    <3> QED BY <3>4, <3>5, <2>5 DEF l, below
  <2> QED BY <2>4, <2>5
<1> QED BY <1>0, <1>1, <1>2 DEF LevelsHalve

\* The widths of the reference tree are the lengths of the levels.
LEMMA WidthsAre ==
    ASSUME NEW leaves, NEW k, List(leaves, k), k >= 1, NEW lv, AreLevels(lv, leaves, k),
           NEW level \in 0 .. k
    PROVE  Width(k, level) = Len(lv[level])
<1>0. k \in Nat BY Lists
<1> DEFINE w(n) == Len(lv[n])
<1>1. w(0) = k /\ \A n \in 1 .. k : w(n) = (w(n - 1) + 1) \div 2
  <2>1. LevelsHalve(lv, leaves, k) BY LevelLengths
  <2> QED BY <2>1 DEF LevelsHalve
<1> DEFINE R(f) == f = [l \in 0 .. level |-> IF l = 0 THEN k ELSE (f[l - 1] + 1) \div 2]
<1>2. Width(k, level) = (CHOOSE f : R(f))[level] BY DEF Width
<1> HIDE DEF w
<1>3. \E f : R(f)
  <2> DEFINE g == [l \in 0 .. level |-> w(l)]
  <2>1. \A l \in 0 .. level : g[l] = w(l) OBVIOUS
  <2>2. g = [l \in 0 .. level |-> g[l]] OBVIOUS
  <2> HIDE DEF g
  <2>3. ASSUME NEW l \in 0 .. level PROVE g[l] = IF l = 0 THEN k ELSE (g[l - 1] + 1) \div 2
    <3>1. CASE l = 0 BY <3>1, <2>1, <1>1
    <3>2. CASE l # 0
      <4>1. l \in 1 .. k /\ l - 1 \in 0 .. level BY <3>2, <1>0
      <4>2. g[l] = w(l) /\ g[l - 1] = w(l - 1) BY <4>1, <2>1
      <4> QED BY <4>1, <4>2, <3>2, <1>1
    <3> QED BY <3>1, <3>2
  <2>4. R(g) BY <2>2, <2>3
  <2> HIDE DEF R
  <2> QED BY <2>4
<1>4. PICK f : R(f) /\ f = CHOOSE x : R(x)
  <2> HIDE DEF R
  <2> QED BY <1>3
<1>5. \A l \in 0 .. level : f[l] = IF l = 0 THEN k ELSE (f[l - 1] + 1) \div 2 BY <1>4
<1>6. Width(k, level) = f[level] BY <1>2, <1>4
<1> HIDE DEF R
<1> DEFINE S == {n \in Nat : n <= level => f[n] = w(n)}
<1>7. 0 \in S
  <2>1. 0 \in 0 .. level BY <1>0
  <2> QED BY <2>1, <1>1, <1>5
<1>8. ASSUME NEW n \in S PROVE n + 1 \in S
  <2> SUFFICES ASSUME n + 1 <= level PROVE f[n + 1] = w(n + 1) OBVIOUS
  <2>1. /\ n \in Nat /\ n <= level /\ n + 1 \in 0 .. level /\ n + 1 # 0
        /\ n + 1 \in 1 .. k /\ (n + 1) - 1 = n
    BY <1>0
  <2>2. f[n] = w(n) BY <2>1
  <2>3. f[n + 1] = (f[n] + 1) \div 2 BY <2>1, <1>5
  <2>4. w(n + 1) = (w(n) + 1) \div 2 BY <2>1, <1>1
  <2> QED BY <2>2, <2>3, <2>4
<1>9. level \in S
  <2>1. S \in SUBSET Nat /\ level \in Nat OBVIOUS
  <2> HIDE DEF S
  <2> QED BY <2>1, <1>7, <1>8, AllNumbers
<1>10. f[level] = w(level)
  <2>1. level <= level BY <1>0
  <2> QED BY <2>1, <1>9
<1> QED BY <1>6, <1>10 DEF w

\* Where the hash that the reference asks for stands.
Clamp(lv, l, m) == Min({m, Len(lv[l])})

LEMMA Clamped ==
    ASSUME NEW lv, NEW l, Len(lv[l]) \in Nat, Len(lv[l]) >= 1, NEW m \in Nat, m >= 1
    PROVE  /\ Clamp(lv, l, m) \in 1 .. Len(lv[l])
           /\ Clamp(lv, l, m) = IF m <= Len(lv[l]) THEN m ELSE Len(lv[l])
<1> DEFINE w == Len(lv[l])
           c == Min({m, w})
<1>1. {m, w} \in SUBSET Nat /\ {m, w} # {} OBVIOUS
<1> HIDE DEF w
<1>2. c \in {m, w} /\ \A y \in {m, w} : c <= y BY <1>1, LeastIs
<1> HIDE DEF c
<1>3. (c = m \/ c = w) /\ c <= m /\ c <= w BY <1>2
<1>4. w \in Nat /\ w >= 1 BY DEF w
<1>5. c = IF m <= w THEN m ELSE w BY <1>3, <1>4
<1>6. c \in 1 .. w BY <1>4, <1>5
<1> QED BY <1>5, <1>6 DEF Clamp, c, w

\* A node of a level joins the two below it, also past the odd end of a level.
JoinsBelow(lv, n, p, k) ==
    /\ 2 * p - 1 \in 1 .. 2 * k /\ 2 * p \in 1 .. 2 * k
    /\ lv[n][p] = Node(lv[n - 1][Clamp(lv, n - 1, 2 * p - 1)],
                       lv[n - 1][Clamp(lv, n - 1, 2 * p)])

LEMMA NodesJoin ==
    ASSUME NEW leaves, NEW k, List(leaves, k), k >= 1, NEW lv, AreLevels(lv, leaves, k),
           NEW n \in 1 .. k, Len(lv[n - 1]) > 1, NEW p \in 1 .. Len(lv[n])
    PROVE  JoinsBelow(lv, n, p, k)
<1> DEFINE below == lv[n - 1]
           l == Len(below)
           pl == PaddedLength(l)
<1>0. k \in Nat /\ n - 1 \in 0 .. k BY Lists
<1>1. l \in Nat /\ l >= 1 /\ List(below, l) BY <1>0, LevelLengths DEF LevelsHalve
<1>2. lv[n] = NextLevel(below)
  <2>1. lv[n] = Raised(below) BY DEF AreLevels
  <2>2. Len(below) # 1 BY <1>1, OneOrMore
  <2> QED BY <2>1, <2>2 DEF Raised
<1>3. /\ List(lv[n], pl \div 2)
      /\ \A j \in 1 .. pl \div 2 :
            /\ 2 * j - 1 \in 1 .. pl /\ 2 * j \in 1 .. pl
            /\ lv[n][j] = Node(Padded(below)[2 * j - 1], Padded(below)[2 * j])
  BY <1>1, <1>2, NextIs
<1>4. \A m \in 1 .. pl : Padded(below)[m] = below[IF m <= l THEN m ELSE l] BY <1>1, PaddedIs
<1>5. Len(lv[n]) = pl \div 2 BY <1>3, Lists
<1>6. p \in 1 .. pl \div 2 BY <1>5
<1>7. /\ 2 * p - 1 \in 1 .. pl /\ 2 * p \in 1 .. pl
      /\ lv[n][p] = Node(Padded(below)[2 * p - 1], Padded(below)[2 * p])
  BY <1>3, <1>6
<1>8. ASSUME NEW m \in 1 .. pl, m \in Nat, m >= 1
      PROVE  Padded(below)[m] = below[Clamp(lv, n - 1, m)]
  <2>1. Clamp(lv, n - 1, m) = IF m <= l THEN m ELSE l BY <1>1, <1>8, Clamped
  <2> QED BY <2>1, <1>4
<1>9. p \in Nat /\ p >= 1 /\ 2 * p - 1 \in Nat /\ 2 * p - 1 >= 1 /\ 2 * p \in Nat /\ 2 * p >= 1
  <2>1. p \in Nat /\ p >= 1 BY <1>6
  <2> QED BY <2>1
<1>10. lv[n][p] = Node(below[Clamp(lv, n - 1, 2 * p - 1)], below[Clamp(lv, n - 1, 2 * p)])
  BY <1>7, <1>8, <1>9
<1>11. p <= k
  <2>1. Shrunk(lv, n, k)
    <3>1. n \in 0 .. k BY <1>0
    <3> QED BY <3>1, LevelsShrink
  <2>2. PICK x : List(lv[n], x) /\ x >= 1 /\ (x = 1 \/ x + n <= k) BY <2>1 DEF Shrunk
  <2>3. x \in Nat /\ x = Len(lv[n]) BY <2>2, Lists
  <2>4. \A a, b, c \in Nat : b >= 1 /\ (a = 1 \/ a + c <= b) => a <= b OBVIOUS
  <2>n. n \in Nat OBVIOUS
  <2>5. x <= k BY <2>2, <2>3, <2>4, <2>n, <1>0
  <2> QED BY <2>3, <2>5, <1>0
<1>12. 2 * p - 1 \in 1 .. 2 * k /\ 2 * p \in 1 .. 2 * k BY <1>0, <1>9, <1>11
<1> QED BY <1>10, <1>12 DEF JoinsBelow

\* The root that build_merkle_tree computes is the root of the reference tree.
LEMMA RootIsReference ==
    ASSUME NEW ids \in Seq(ProofId), ids # <<>>
    PROVE  LET leaves == Leaves(ids)
           IN  merkle_root(ids) = ReferenceNode(leaves, Height(Len(leaves)), 1)
<1> DEFINE leaves == Leaves(ids)
<1>1. PICK k, lv : TreeOver(ids, k, lv) BY TreeIs
<1>2. k \in Nat /\ k >= 1 /\ List(leaves, k) /\ AreLevels(lv, leaves, k) /\ List(lv[k], 1)
      /\ merkle_root(ids) = lv[k][1]
  BY <1>1 DEF TreeOver
<1>3. Len(leaves) = k /\ Len(lv[k]) = 1 BY <1>2, Lists
<1> HIDE DEF leaves
<1>4. \A n \in 0 .. k : Width(k, n) = Len(lv[n]) BY <1>2, WidthsAre
<1>5. /\ lv[0] = leaves /\ Len(lv[0]) = k
      /\ \A n \in 0 .. k : Len(lv[n]) \in Nat /\ Len(lv[n]) >= 1 /\ List(lv[n], Len(lv[n]))
      /\ \A n \in 1 .. k : Len(lv[n - 1]) = 1 => lv[n] = lv[n - 1]
  <2>1. LevelsHalve(lv, leaves, k) BY <1>2, LevelLengths
  <2> QED BY <2>1 DEF LevelsHalve
<1> DEFINE H == Height(k)
<1>6. H \in 0 .. k /\ Width(k, H) = 1 /\ (H > 0 => Width(k, H - 1) > 1)
  <2> DEFINE W == {n \in 0 .. k : Width(k, n) = 1}
             h == Min(W)
  <2>0. k \in 0 .. k BY <1>2
  <2>1. k \in W BY <2>0, <1>3, <1>4
  <2>2. W \in SUBSET Nat /\ W # {} BY <2>1, <1>2
  <2>3. h \in W /\ \A y \in W : h <= y BY <2>2, LeastIs
  <2>4. h \in 0 .. k /\ Width(k, h) = 1 BY <2>3
  <2> HIDE DEF h
  <2>5. h > 0 => Width(k, h - 1) > 1
    <3> SUFFICES ASSUME h > 0 PROVE Width(k, h - 1) > 1 OBVIOUS
    <3>1. h - 1 \in 0 .. k /\ ~(h <= h - 1) BY <2>4, <1>2
    <3>2. h - 1 \notin W BY <3>1, <2>3
    <3>3. Width(k, h - 1) # 1 BY <3>1, <3>2
    <3>4. Width(k, h - 1) \in Nat /\ Width(k, h - 1) >= 1 BY <3>1, <1>4, <1>5
    <3> QED BY <3>3, <3>4
  <2> QED BY <2>4, <2>5 DEF Height
<1> HIDE DEF H
<1>7. H \in Nat /\ H <= k /\ \A l \in 0 .. H : l \in 0 .. k BY <1>2, <1>6
<1>8. lv[k] = lv[H]
  <2> DEFINE S == {n \in Nat : H + n <= k => lv[H + n] = lv[H]}
  <2>1. 0 \in S
    <3>1. H + 0 = H BY <1>7
    <3> QED BY <3>1
  <2>2. ASSUME NEW n \in S PROVE n + 1 \in S
    <3> SUFFICES ASSUME H + (n + 1) <= k PROVE lv[H + (n + 1)] = lv[H] OBVIOUS
    <3> DEFINE j == H + (n + 1)
    <3>1. n \in Nat /\ H + n <= k /\ j \in 1 .. k /\ j - 1 = H + n BY <1>2, <1>7
    <3>2. lv[H + n] = lv[H] BY <3>1
    <3>3. Len(lv[H]) = 1 BY <1>4, <1>6
    <3> HIDE DEF j
    <3>4. lv[j] = lv[j - 1] BY <3>1, <3>2, <3>3, <1>5
    <3> QED BY <3>1, <3>2, <3>4 DEF j
  <2>3. S = Nat
    <3>1. S \in SUBSET Nat OBVIOUS
    <3> HIDE DEF S
    <3> QED BY <3>1, <2>1, <2>2, AllNumbers
  <2>4. k - H \in Nat /\ H + (k - H) = k /\ k <= k BY <1>2, <1>7
  <2>5. k - H \in S BY <2>3, <2>4
  <2>6. lv[H + (k - H)] = lv[H] BY <2>4, <2>5
  <2> QED BY <2>4, <2>6
<1> DEFINE Row(f, l) == [m \in 1 .. 2 * k |->
                LET p == Min({m, Width(k, l)})
                IN  IF l = 0 THEN leaves[p] ELSE Node(f[l - 1][2 * p - 1], f[l - 1][2 * p])]
           R(f) == f = [l \in 0 .. H |-> Row(f, l)]
<1>9. ReferenceNode(leaves, H, 1) = (CHOOSE f : R(f))[H][1] BY <1>3 DEF ReferenceNode
<1>10. \A l \in 0 .. H : \A m \in 1 .. 2 * k : Min({m, Width(k, l)}) = Clamp(lv, l, m)
  BY <1>4, <1>7 DEF Clamp
<1>11. \A l \in 0 .. H : \A m \in 1 .. 2 * k : Clamp(lv, l, m) \in 1 .. Len(lv[l])
  <2> TAKE l \in 0 .. H
  <2> TAKE m \in 1 .. 2 * k
  <2>1. m \in Nat /\ m >= 1 BY <1>2
  <2>2. Len(lv[l]) \in Nat /\ Len(lv[l]) >= 1 BY <1>5, <1>7
  <2> QED BY <2>1, <2>2, Clamped
\* Below the root every level has two hashes or more.
<1>12. \A l \in 1 .. H : l \in 1 .. k /\ Len(lv[l - 1]) > 1
  <2> DEFINE S == {n \in Nat : n < H => Len(lv[H - 1 - n]) > 1}
  <2>1. 0 \in S
    <3> SUFFICES ASSUME 0 < H PROVE Len(lv[H - 1 - 0]) > 1 OBVIOUS
    <3>1. H - 1 - 0 = H - 1 /\ H > 0 /\ H - 1 \in 0 .. k BY <1>7, <1>2
    <3> QED BY <3>1, <1>4, <1>6
  <2>2. ASSUME NEW n \in S PROVE n + 1 \in S
    <3> SUFFICES ASSUME n + 1 < H PROVE Len(lv[H - 1 - (n + 1)]) > 1 OBVIOUS
    <3> DEFINE j == H - 1 - n
    <3>1. n \in Nat /\ n < H /\ j \in 1 .. k /\ j \in 0 .. k /\ j - 1 \in 0 .. k
          /\ j - 1 = H - 1 - (n + 1)
      BY <1>2, <1>7
    <3>2. Len(lv[j]) > 1 BY <3>1
    <3> HIDE DEF j
    <3>3. Len(lv[j - 1]) # 1
      <4> SUFFICES ASSUME Len(lv[j - 1]) = 1 PROVE FALSE OBVIOUS
      <4>1. lv[j] = lv[j - 1] BY <3>1, <1>5
      <4>2. Len(lv[j]) = 1 BY <4>1
      <4> QED BY <3>2, <4>2
    <3>4. Len(lv[j - 1]) \in Nat /\ Len(lv[j - 1]) >= 1 BY <3>1, <1>5
    <3>5. Len(lv[j - 1]) > 1 BY <3>3, <3>4, OneOrMore
    <3> QED BY <3>1, <3>5
  <2>3. S = Nat
    <3>1. S \in SUBSET Nat OBVIOUS
    <3> HIDE DEF S
    <3> QED BY <3>1, <2>1, <2>2, AllNumbers
  <2> TAKE l \in 1 .. H
  <2>4. l \in 1 .. k /\ H - l \in Nat /\ H - l < H /\ H - 1 - (H - l) = l - 1 BY <1>2, <1>7
  <2>5. H - l \in S BY <2>3, <2>4
  <2>6. Len(lv[H - 1 - (H - l)]) > 1 BY <2>4, <2>5
  <2> QED BY <2>4, <2>6
<1>13. \E f : R(f)
  <2> DEFINE g == [l \in 0 .. H |-> [m \in 1 .. 2 * k |-> lv[l][Clamp(lv, l, m)]]]
  <2>1. \A l \in 0 .. H : \A m \in 1 .. 2 * k : g[l][m] = lv[l][Clamp(lv, l, m)] OBVIOUS
  <2>2. g = [l \in 0 .. H |-> [m \in 1 .. 2 * k |-> g[l][m]]] OBVIOUS
  <2> HIDE DEF g
  <2>3. ASSUME NEW l \in 0 .. H, NEW m \in 1 .. 2 * k
        PROVE  g[l][m] = LET p == Min({m, Width(k, l)})
                         IN  IF l = 0 THEN leaves[p] ELSE Node(g[l - 1][2 * p - 1], g[l - 1][2 * p])
    <3> DEFINE p == Clamp(lv, l, m)
    <3>1. p = Min({m, Width(k, l)}) /\ p \in 1 .. Len(lv[l]) BY <1>10, <1>11
    <3>2. g[l][m] = lv[l][p] BY <2>1
    <3> HIDE DEF p
    <3>3. CASE l = 0 BY <3>1, <3>2, <3>3, <1>5
    <3>4. CASE l # 0
      <4>1. l \in 1 .. H /\ l - 1 \in 0 .. H BY <3>4, <1>7
      <4>2. l \in 1 .. k /\ Len(lv[l - 1]) > 1 BY <4>1, <1>12
      <4>3. /\ 2 * p - 1 \in 1 .. 2 * k /\ 2 * p \in 1 .. 2 * k
            /\ lv[l][p] = Node(lv[l - 1][Clamp(lv, l - 1, 2 * p - 1)],
                               lv[l - 1][Clamp(lv, l - 1, 2 * p)])
        <5>1. JoinsBelow(lv, l, p, k) BY <4>2, <3>1, <1>2, NodesJoin
        <5> QED BY <5>1 DEF JoinsBelow
      <4>4. /\ g[l - 1][2 * p - 1] = lv[l - 1][Clamp(lv, l - 1, 2 * p - 1)]
            /\ g[l - 1][2 * p] = lv[l - 1][Clamp(lv, l - 1, 2 * p)]
        BY <4>1, <4>3, <2>1
      <4>5. g[l][m] = Node(g[l - 1][2 * p - 1], g[l - 1][2 * p]) BY <3>2, <4>3, <4>4
      <4> QED BY <4>5, <3>1, <3>4
    <3> QED BY <3>3, <3>4
  <2>4. R(g) BY <2>2, <2>3
  <2> HIDE DEF R
  <2> QED BY <2>4
<1>14. PICK f : R(f) /\ f = CHOOSE x : R(x)
  <2> HIDE DEF R
  <2> QED BY <1>13
<1>15. \A l \in 0 .. H : \A m \in 1 .. 2 * k :
          f[l][m] = IF l = 0 THEN leaves[Clamp(lv, l, m)]
                    ELSE Node(f[l - 1][2 * Clamp(lv, l, m) - 1], f[l - 1][2 * Clamp(lv, l, m)])
  <2> TAKE l \in 0 .. H
  <2> TAKE m \in 1 .. 2 * k
  <2> DEFINE p == Clamp(lv, l, m)
  <2>0. f[l] = Row(f, l)
    <3> HIDE DEF Row
    <3> QED BY <1>14
  <2>1. f[l][m] = LET q == Min({m, Width(k, l)})
                  IN  IF l = 0 THEN leaves[q] ELSE Node(f[l - 1][2 * q - 1], f[l - 1][2 * q])
    BY <2>0
  <2>2. p = Min({m, Width(k, l)}) BY <1>10
  <2> HIDE DEF p
  <2>3. f[l][m] = IF l = 0 THEN leaves[p] ELSE Node(f[l - 1][2 * p - 1], f[l - 1][2 * p])
    BY <2>1, <2>2
  <2> QED BY <2>3 DEF p
<1>16. ReferenceNode(leaves, H, 1) = f[H][1] BY <1>9, <1>14
<1> HIDE DEF R
<1> DEFINE Q(l) == \A m \in 1 .. 2 * k : f[l][m] = lv[l][Clamp(lv, l, m)]
           S == {l \in Nat : l <= H => Q(l)}
<1>17. 0 \in S
  <2>1. 0 \in 0 .. H BY <1>7
  <2>2. Q(0) BY <2>1, <1>5, <1>15
  <2> QED BY <2>2
<1>18. ASSUME NEW n \in S PROVE n + 1 \in S
  <2> DEFINE l == n + 1
  <2> SUFFICES ASSUME l <= H PROVE Q(l) OBVIOUS
  <2>1. n \in Nat /\ n <= H /\ l \in 1 .. H /\ l \in 0 .. H /\ l # 0 /\ l - 1 = n BY <1>7
  <2>2. Q(l - 1) BY <2>1, <1>18
  <2> HIDE DEF l
  <2>3. l \in 1 .. k /\ Len(lv[l - 1]) > 1 BY <2>1, <1>12
  <2> SUFFICES ASSUME NEW m \in 1 .. 2 * k PROVE f[l][m] = lv[l][Clamp(lv, l, m)] OBVIOUS
  <2> DEFINE p == Clamp(lv, l, m)
  <2>4. p \in 1 .. Len(lv[l]) BY <2>1, <1>11
  <2>5. f[l][m] = Node(f[l - 1][2 * p - 1], f[l - 1][2 * p]) BY <2>1, <1>15
  <2> HIDE DEF p
  <2>6. /\ 2 * p - 1 \in 1 .. 2 * k /\ 2 * p \in 1 .. 2 * k
        /\ lv[l][p] = Node(lv[l - 1][Clamp(lv, l - 1, 2 * p - 1)],
                           lv[l - 1][Clamp(lv, l - 1, 2 * p)])
    <3>1. JoinsBelow(lv, l, p, k) BY <2>3, <2>4, <1>2, NodesJoin
    <3> QED BY <3>1 DEF JoinsBelow
  <2>7. f[l][m] = lv[l][p] BY <2>2, <2>5, <2>6
  <2> QED BY <2>7 DEF p
<1>19. Q(H)
  <2>1. S = Nat
    <3>1. S \in SUBSET Nat OBVIOUS
    <3> HIDE DEF S
    <3> QED BY <3>1, <1>17, <1>18, AllNumbers
  <2>2. H \in S /\ H <= H BY <2>1, <1>7
  <2> HIDE DEF Q
  <2> QED BY <2>2
<1>20. 1 \in 1 .. 2 * k /\ H \in 0 .. H BY <1>2, <1>7
<1>21. Clamp(lv, H, 1) = 1
  <2>1. Len(lv[H]) = 1 BY <1>4, <1>6
  <2>2. Clamp(lv, H, 1) \in 1 .. 1 BY <2>1, <1>11, <1>20
  <2> QED BY <2>2
<1>22. f[H][1] = lv[H][1] BY <1>19, <1>20, <1>21
<1>23. merkle_root(ids) = ReferenceNode(leaves, H, 1) BY <1>2, <1>8, <1>16, <1>22
<1> QED BY <1>23, <1>3 DEF leaves, H

-----------------------------------------------------------------------------
(* The order in which ids are given does not matter.                       *)

\* The places of smaller ids.
Below(ids, v) == {m \in DOMAIN ids : ids[m].current_hash < v}

LEMMA BelowIs ==
    ASSUME NEW ids \in Seq(ProofId), NEW v \in Nat
    PROVE  /\ IsFiniteSet(Below(ids, v)) /\ Cardinality(Below(ids, v)) \in Nat
           /\ \A n \in DOMAIN ids : ids[n].current_hash \in Nat /\ n \in Nat
<1>1. DOMAIN ids = 1 .. Len(ids) /\ Len(ids) \in Nat OBVIOUS
<1>2. IsFiniteSet(1 .. Len(ids)) BY <1>1, Counting
<1>3. Below(ids, v) \in SUBSET (1 .. Len(ids)) BY <1>1 DEF Below
<1>4. IsFiniteSet(Below(ids, v)) BY <1>2, <1>3, FS_Subset
<1>5. Cardinality(Below(ids, v)) \in Nat BY <1>4, FS_CardinalityType
<1>6. ASSUME NEW n \in DOMAIN ids PROVE ids[n].current_hash \in Nat /\ n \in Nat
  <2>1. ids[n] \in ProofId /\ n \in Nat OBVIOUS
  <2> QED BY <2>1 DEF ProofId
<1> QED BY <1>4, <1>5, <1>6

\* The rank of an id is above the number of smaller ids ...
LEMMA RankAbove ==
    ASSUME NEW ids \in Seq(ProofId), NEW n \in DOMAIN ids
    PROVE  Cardinality(Below(ids, ids[n].current_hash)) < Rank(ids, n)
<1> DEFINE v == ids[n].current_hash
           A == Below(ids, v)
           B == UpTo(ids, n)
<1>1. v \in Nat BY BelowIs
<1>2. Rank(ids, n) = Cardinality(B) /\ IsFiniteSet(B) BY RankIs
<1>3. A \in SUBSET B BY DEF Below, UpTo, NotAfter
<1>4. n \in B /\ n \notin A
  <2>1. n \in Nat OBVIOUS
  <2>2. ~(v < v) /\ n <= n BY <2>1, <1>1
  <2> QED BY <2>2 DEF Below, UpTo, NotAfter
<1> HIDE DEF A, B, v
<1>5. Cardinality(A) <= Cardinality(B) /\ (Cardinality(A) = Cardinality(B) => A = B)
  BY <1>2, <1>3, FS_Subset
<1>6. Cardinality(A) \in Nat /\ Cardinality(B) \in Nat
  <2>1. Cardinality(A) \in Nat BY <1>1, BelowIs DEF A
  <2> QED BY <2>1, <1>2, FS_CardinalityType
<1>7. Cardinality(A) # Cardinality(B) BY <1>4, <1>5
<1>8. Cardinality(A) < Cardinality(B) BY <1>5, <1>6, <1>7
<1> QED BY <1>2, <1>8 DEF A, v

\* ... and not above the number of ids smaller than a greater one.
LEMMA RankWithin ==
    ASSUME NEW ids \in Seq(ProofId), NEW n \in DOMAIN ids, NEW v \in Nat, ids[n].current_hash < v
    PROVE  Rank(ids, n) <= Cardinality(Below(ids, v))
<1> DEFINE A == UpTo(ids, n)
           B == Below(ids, v)
<1>1. Rank(ids, n) = Cardinality(A) /\ IsFiniteSet(B) BY RankIs, BelowIs
<1>2. A \in SUBSET B
  <2> SUFFICES ASSUME NEW m \in DOMAIN ids, NotAfter(ids, m, n)
               PROVE  ids[m].current_hash < v
    BY DEF UpTo, Below
  <2> DEFINE x == ids[m].current_hash
             y == ids[n].current_hash
  <2>1. x \in Nat /\ y \in Nat BY BelowIs
  <2>2. (x < y \/ x = y) /\ y < v BY DEF NotAfter
  <2> HIDE DEF x, y
  <2>3. x < v BY <2>1, <2>2
  <2> QED BY <2>3 DEF x
<1> HIDE DEF A, B
<1>3. Cardinality(A) <= Cardinality(B) BY <1>1, <1>2, FS_Subset
<1> QED BY <1>1, <1>3 DEF B

\* The ids of b are found at different places of a.
Arranged(a, b) ==
    \E f \in [DOMAIN b -> DOMAIN a] :
        /\ \A m, n \in DOMAIN b : f[m] = f[n] => m = n
        /\ \A m \in DOMAIN b : b[m] = a[f[m]]

LEMMA BelowArranged ==
    ASSUME NEW a \in Seq(ProofId), NEW b \in Seq(ProofId), Arranged(a, b), NEW v \in Nat
    PROVE  Cardinality(Below(b, v)) <= Cardinality(Below(a, v))
<1>1. PICK f \in [DOMAIN b -> DOMAIN a] :
         /\ \A m, n \in DOMAIN b : f[m] = f[n] => m = n
         /\ \A m \in DOMAIN b : b[m] = a[f[m]]
  BY DEF Arranged
<1> DEFINE S == Below(b, v)
           T == Below(a, v)
           g == [m \in S |-> f[m]]
<1>2. IsFiniteSet(T) BY BelowIs
<1>3. \A m \in S : m \in DOMAIN b BY DEF Below
<1>4. \A m \in S : f[m] \in T BY <1>1 DEF Below
<1> HIDE DEF S, T
<1>5. g \in [S -> T] /\ \A m \in S : g[m] = f[m] BY <1>4
<1> HIDE DEF g
<1>6. \A m, n \in S : g[m] = g[n] => m = n BY <1>1, <1>3, <1>5
<1> QED BY <1>2, <1>5, <1>6, Injected DEF S, T

\* Ids of equal rank are equal, in whichever order the ids are.
LEMMA RanksAgree ==
    ASSUME NEW a \in Seq(ProofId), NEW b \in Seq(ProofId), Arranged(a, b), Arranged(b, a),
           NEW m \in DOMAIN a, NEW n \in DOMAIN b, Rank(a, m) = Rank(b, n)
    PROVE  a[m].current_hash = b[n].current_hash
<1> DEFINE x == a[m].current_hash
           y == b[n].current_hash
<1>0. x \in Nat /\ y \in Nat
  <2>1. 0 \in Nat OBVIOUS
  <2> QED BY <2>1, BelowIs
<1>1. Rank(a, m) \in Nat /\ Rank(b, n) \in Nat
  <2>1. Rank(a, m) \in 1 .. Len(a) /\ Rank(b, n) \in 1 .. Len(b) BY RankIs
  <2> QED BY <2>1
<1>2. ~(x < y)
  <2> SUFFICES ASSUME x < y PROVE FALSE OBVIOUS
  <2>1. Rank(a, m) <= Cardinality(Below(a, y)) BY <1>0, RankWithin
  <2>2. Cardinality(Below(b, y)) < Rank(b, n) BY RankAbove
  <2>3. Cardinality(Below(a, y)) <= Cardinality(Below(b, y)) BY <1>0, BelowArranged
  <2>4. Cardinality(Below(a, y)) \in Nat /\ Cardinality(Below(b, y)) \in Nat BY <1>0, BelowIs
  <2> HIDE DEF y
  <2> QED BY <1>1, <2>1, <2>2, <2>3, <2>4
<1>3. ~(y < x)
  <2> SUFFICES ASSUME y < x PROVE FALSE OBVIOUS
  <2>1. Rank(b, n) <= Cardinality(Below(b, x)) BY <1>0, RankWithin
  <2>2. Cardinality(Below(a, x)) < Rank(a, m) BY RankAbove
  <2>3. Cardinality(Below(b, x)) <= Cardinality(Below(a, x)) BY <1>0, BelowArranged
  <2>4. Cardinality(Below(a, x)) \in Nat /\ Cardinality(Below(b, x)) \in Nat BY <1>0, BelowIs
  <2> HIDE DEF x
  <2> QED BY <1>1, <2>1, <2>2, <2>3, <2>4
<1> HIDE DEF x, y
<1>4. x = y BY <1>0, <1>2, <1>3
<1> QED BY <1>4 DEF x, y

\* Ids in another order have the same leaves, if the hash in an id tells which it is.
LEMMA LeavesArranged ==
    ASSUME NEW a \in Seq(ProofId), NEW b \in Seq(ProofId), Len(a) = Len(b),
           Arranged(a, b), Arranged(b, a),
           \A x, y \in Range(a) : x.current_hash = y.current_hash => x = y
    PROVE  merkle_root(a) = merkle_root(b)
<1> DEFINE at(s, k) == CHOOSE n \in DOMAIN s : Rank(s, n) = k
           h(s) == [k \in DOMAIN s |-> Leaf(s[at(s, k)])]
<1>1. DOMAIN a = DOMAIN b OBVIOUS
<1>2. ASSUME NEW k \in DOMAIN a PROVE a[at(a, k)] = b[at(b, k)]
  <2>1. at(a, k) \in DOMAIN a /\ Rank(a, at(a, k)) = k BY RanksCover
  <2>2. at(b, k) \in DOMAIN b /\ Rank(b, at(b, k)) = k BY <1>1, RanksCover
  <2> DEFINE m == at(a, k)
             n == at(b, k)
  <2>3. m \in DOMAIN a /\ n \in DOMAIN b /\ Rank(a, m) = Rank(b, n) BY <2>1, <2>2
  <2> HIDE DEF m, n
  <2>4. a[m].current_hash = b[n].current_hash BY <2>3, RanksAgree
  <2>5. PICK f \in [DOMAIN b -> DOMAIN a] : \A i \in DOMAIN b : b[i] = a[f[i]] BY DEF Arranged
  <2>6. a[m] \in Range(a) /\ b[n] \in Range(a) BY <2>3, <2>5 DEF Range
  <2>7. a[m] = b[n] BY <2>4, <2>6
  <2> QED BY <2>7 DEF m, n
<1> HIDE DEF at
<1>3. h(a) = h(b) BY <1>1, <1>2
<1>4. Leaves(a) = h(a) \o (IF Len(h(a)) = 1 THEN h(a) ELSE <<>>) BY DEF Leaves, at
<1>5. Leaves(b) = h(b) \o (IF Len(h(b)) = 1 THEN h(b) ELSE <<>>) BY DEF Leaves, at
<1> HIDE DEF h
<1>6. Leaves(a) = Leaves(b) BY <1>3, <1>4, <1>5
<1>7. a = <<>> <=> b = <<>> OBVIOUS
<1> QED BY <1>6, <1>7 DEF merkle_root

\* In particular in the opposite order.
LEMMA ReverseArranged ==
    ASSUME NEW a \in Seq(ProofId),
           \A x, y \in Range(a) : x.current_hash = y.current_hash => x = y
    PROVE  merkle_root(Reverse(a)) = merkle_root(a)
<1> DEFINE b == Reverse(a)
           L == Len(a)
           f == [m \in 1 .. L |-> (L - m) + 1]
<1>1. L \in Nat /\ DOMAIN a = 1 .. L OBVIOUS
<1>2. b = [m \in 1 .. L |-> a[(L - m) + 1]] BY DEF Reverse
<1>3. \A m \in 1 .. L : (L - m) + 1 \in 1 .. L /\ (L - ((L - m) + 1)) + 1 = m BY <1>1
<1>4. b \in [1 .. L -> ProofId] BY <1>1, <1>2, <1>3
<1>5. b \in Seq(ProofId) BY <1>1, <1>4
<1>6. DOMAIN b = 1 .. L BY <1>4
<1>7. Len(b) = L BY <1>1, <1>5, <1>6
<1>8. \A m \in 1 .. L : b[m] = a[(L - m) + 1] /\ f[m] = (L - m) + 1 BY <1>2
<1>9. f \in [1 .. L -> 1 .. L] BY <1>3
<1> HIDE DEF b, L, f
<1>10. \A m, n \in 1 .. L : f[m] = f[n] => m = n BY <1>1, <1>8
<1>11. \A m \in 1 .. L : b[m] = a[f[m]] /\ a[m] = b[f[m]] BY <1>3, <1>8
<1>12. Arranged(a, b) /\ Arranged(b, a)
  <2>1. f \in [DOMAIN b -> DOMAIN a] /\ f \in [DOMAIN a -> DOMAIN b] BY <1>1, <1>6, <1>9
  <2>2. /\ \A m, n \in DOMAIN b : f[m] = f[n] => m = n
        /\ \A m, n \in DOMAIN a : f[m] = f[n] => m = n
    BY <1>1, <1>6, <1>10
  <2>3. (\A m \in DOMAIN b : b[m] = a[f[m]]) /\ \A m \in DOMAIN a : a[m] = b[f[m]]
    BY <1>1, <1>6, <1>11
  <2> QED BY <2>1, <2>2, <2>3 DEF Arranged
<1>13. merkle_root(a) = merkle_root(b) BY <1>5, <1>7, <1>12, LeavesArranged DEF L
<1> QED BY <1>13 DEF b

-----------------------------------------------------------------------------
(* What is exported.                                                       *)

Entry == [content : Contents, timestamp : Times, current_hash : Nat]

\* The stored proofs have the types of stored proofs.
LEMMA StoredProofTypes ==
    ASSUME NEW entries \in Seq(Entry), NEW n \in DOMAIN entries
    PROVE  StoredProof(entries, n) \in StoredProofType
<1>1. entries[n] \in Entry /\ n \in Nat OBVIOUS
<1>2. entries[n].content \in Contents /\ entries[n].current_hash \in Nat BY <1>1 DEF Entry
<1> QED BY <1>1, <1>2 DEF StoredProof, StoredProofType, ProofId

\* A round of the selection.
Picked(before, entries, n, from_date, to_date) ==
    IF InRange(entries[n].timestamp, from_date, to_date)
    THEN Append(before, StoredProof(entries, n)) ELSE before

\* An instance's proofs of a date range are among its stored proofs.
LEMMA SelectedTypes ==
    ASSUME NEW entries \in Seq(Entry), NEW from_date, NEW to_date,
           NEW Stored, \A n \in DOMAIN entries : StoredProof(entries, n) \in Stored
    PROVE  Selected(entries, from_date, to_date) \in Seq(Stored)
<1> DEFINE L == Len(entries)
           Pick(b, n) == Picked(b, entries, n, from_date, to_date)
           T == Seq(Stored)
           S == {n \in Nat : n <= L => \E f \in [0 .. n -> T] :
                    f[0] = <<>> /\ \A k \in 1 .. n : f[k] = Pick(f[k - 1], k)}
<1>0. L \in Nat /\ DOMAIN entries = 1 .. L OBVIOUS
<1>1. ASSUME NEW b \in T, NEW n \in 1 .. L PROVE Pick(b, n) \in T
  <2>1. StoredProof(entries, n) \in Stored BY <1>0
  <2> QED BY <2>1, <1>1 DEF Picked
<1>2. <<>> \in T OBVIOUS
<1> HIDE DEF T, L, Pick
<1>3. 0 \in S
  <2> DEFINE f == [k \in 0 .. 0 |-> <<>>]
  <2>1. f[0] = <<>> /\ f \in [0 .. 0 -> T] BY <1>2
  <2> HIDE DEF f
  <2>2. \A k \in 1 .. 0 : FALSE OBVIOUS
  <2> QED BY <2>1, <2>2
<1>4. ASSUME NEW n \in S PROVE n + 1 \in S
  <2>0. n \in Nat OBVIOUS
  <2> SUFFICES ASSUME n + 1 <= L
               PROVE \E f \in [0 .. n + 1 -> T] :
                        f[0] = <<>> /\ \A k \in 1 .. n + 1 : f[k] = Pick(f[k - 1], k)
    BY <2>0
  <2>1. n <= L /\ n + 1 \in 1 .. L /\ n \in 0 .. n BY <2>0, <1>0
  <2>2. PICK old \in [0 .. n -> T] : old[0] = <<>> /\ \A k \in 1 .. n : old[k] = Pick(old[k - 1], k)
    BY <2>1
  <2> DEFINE new == [k \in 0 .. n + 1 |-> IF k = n + 1 THEN Pick(old[n], n + 1) ELSE old[k]]
  <2>3. Pick(old[n], n + 1) \in T BY <2>1, <2>2, <1>1
  <2>4. new \in [0 .. n + 1 -> T]
    <3>1. \A k \in 0 .. n + 1 : k # n + 1 => k \in 0 .. n BY <2>0
    <3> QED BY <3>1, <2>3
  <2>5. new[n + 1] = Pick(old[n], n + 1) /\ \A k \in 0 .. n : new[k] = old[k] BY <2>0
  <2> HIDE DEF new
  <2>6. ASSUME NEW k \in 1 .. n + 1 PROVE new[k] = Pick(new[k - 1], k)
    <3>1. CASE k = n + 1
      <4>1. k - 1 = n BY <3>1, <2>0
      <4> QED BY <4>1, <3>1, <2>1, <2>5
    <3>2. CASE k # n + 1
      <4>1. k \in 1 .. n /\ k \in 0 .. n /\ k - 1 \in 0 .. n BY <3>2, <2>0
      <4> QED BY <4>1, <2>2, <2>5
    <3> QED BY <3>1, <3>2
  <2>7. new[0] = <<>>
    <3>1. 0 \in 0 .. n BY <2>0
    <3> QED BY <3>1, <2>2, <2>5
  <2> QED BY <2>4, <2>6, <2>7
<1>5. L \in S
  <2>1. S \in SUBSET Nat OBVIOUS
  <2> HIDE DEF S
  <2> QED BY <2>1, <1>0, <1>3, <1>4, AllNumbers
<1>6. PICK g \in [0 .. L -> T] : g[0] = <<>> /\ \A k \in 1 .. L : g[k] = Pick(g[k - 1], k)
  BY <1>0, <1>5
<1> HIDE DEF S
<1> DEFINE R(f) == f = [n \in 0 .. L |-> IF n = 0 THEN <<>>
                          ELSE IF InRange(entries[n].timestamp, from_date, to_date)
                               THEN Append(f[n - 1], StoredProof(entries, n))
                               ELSE f[n - 1]]
<1>7. Selected(entries, from_date, to_date) = (CHOOSE f : R(f))[L] BY DEF Selected, L
<1>8. R(g)
  <2>1. g = [n \in 0 .. L |-> g[n]] BY <1>6
  <2>2. \A n \in 0 .. L : n # 0 => n \in 1 .. L BY <1>0
  <2>3. ASSUME NEW n \in 0 .. L
        PROVE g[n] = IF n = 0 THEN <<>>
                     ELSE IF InRange(entries[n].timestamp, from_date, to_date)
                          THEN Append(g[n - 1], StoredProof(entries, n))
                          ELSE g[n - 1]
    BY <2>2, <1>6 DEF Pick, Picked
  <2> QED BY <2>1, <2>3
<1>9. PICK f : R(f) /\ f = CHOOSE x : R(x)
  <2> HIDE DEF R
  <2> QED BY <1>8
<1>10. \A n \in 0 .. L : f[n] = IF n = 0 THEN <<>> ELSE Pick(f[n - 1], n)
  BY <1>9 DEF Pick, Picked
<1>11. Selected(entries, from_date, to_date) = f[L] BY <1>7, <1>9
<1> HIDE DEF R
<1> DEFINE A == {n \in Nat : n <= L => f[n] \in T}
<1>12. 0 \in A
  <2>1. 0 \in 0 .. L BY <1>0
  <2> QED BY <2>1, <1>2, <1>10
<1>13. ASSUME NEW n \in A PROVE n + 1 \in A
  <2> SUFFICES ASSUME n + 1 <= L PROVE f[n + 1] \in T OBVIOUS
  <2>1. n \in Nat /\ n <= L /\ n + 1 \in 1 .. L /\ n + 1 \in 0 .. L /\ n + 1 # 0 /\ (n + 1) - 1 = n
    BY <1>0
  <2>2. f[n + 1] = Pick(f[n], n + 1) BY <2>1, <1>10
  <2>3. f[n] \in T BY <2>1
  <2> QED BY <2>1, <2>2, <2>3, <1>1
<1>14. L \in A
  <2>1. A \in SUBSET Nat OBVIOUS
  <2> HIDE DEF A
  <2> QED BY <2>1, <1>0, <1>12, <1>13, AllNumbers
<1>15. f[L] \in T BY <1>0, <1>14
<1> QED BY <1>11, <1>15 DEF T

\* Instances are read one after the other, each of them an instance.
LEMMA InstanceOrder ==
    ASSUME NEW m \in 1 .. Cardinality(Instances)
    PROVE  SetToSeq(Instances)[m] \in Instances
<1> DEFINE c == Cardinality(Instances)
<1>1. IsFiniteSet(Instances) BY BatchAssumption
<1>3. PICK f : f \in Bijection(1 .. c, Instances) BY <1>1, FS_CardinalityType DEF ExistsBijection
<1>4. f \in [1 .. c -> Instances] /\ IsInjective(f) BY <1>3 DEF Bijection, Injection
<1>5. SetToSeq(Instances) \in [1 .. c -> Instances] BY <1>4 DEF SetToSeq
<1> QED BY <1>5

\* Flattening a list of lists of stored proofs gives a list of stored proofs.
LEMMA FlattenTypes ==
    ASSUME NEW T, NEW seqs \in Seq(Seq(T))
    PROVE  FlattenSeq(seqs) \in Seq(T)
<1> DEFINE L == Len(seqs)
           U == Seq(T)
<1>0. L \in Nat /\ \A n \in 1 .. L : seqs[n] \in U OBVIOUS
<1>e. CASE L = 0
  <2>1. seqs = <<>> BY <1>e
  <2>2. FlattenSeq(seqs) = seqs BY <1>e DEF FlattenSeq
  <2>3. <<>> \in Seq(T) OBVIOUS
  <2> QED BY <2>1, <2>2, <2>3
<1>f. CASE L # 0
  <2>1. \A a, b \in U : a \o b \in U OBVIOUS
  <2> DEFINE P(n) == \E f \in [1 .. n -> U] :
                        f[1] = seqs[1] /\ \A k \in 2 .. n : f[k] = f[k - 1] \o seqs[k]
             S == {n \in Nat : (n >= 1 /\ n <= L) => P(n)}
             R(f) == f = [i \in 1 .. L |-> IF i = 1 THEN seqs[i] ELSE f[i - 1] \o seqs[i]]
  <2>2. FlattenSeq(seqs) = (CHOOSE f : R(f))[L] BY <1>f DEF FlattenSeq
  <2> HIDE DEF L, U
  <2>3. 0 \in S OBVIOUS
  <2>4. ASSUME NEW n \in S PROVE n + 1 \in S
    <3>0. n \in Nat OBVIOUS
    <3> SUFFICES ASSUME n + 1 <= L PROVE P(n + 1)
      <4> HIDE DEF P
      <4> QED BY <3>0
    <3>1. n <= L /\ n + 1 \in 1 .. L BY <3>0, <1>0
    <3>2. CASE n = 0
      <4> DEFINE f == [k \in 1 .. 1 |-> seqs[1]]
      <4>1. 1 \in 1 .. L /\ 1 \in 1 .. 1 BY <3>1, <3>2
      <4>2. f[1] = seqs[1] /\ f \in [1 .. 1 -> U] BY <4>1, <1>0
      <4> HIDE DEF f
      <4>3. n + 1 = 1 /\ \A k \in 2 .. 1 : FALSE BY <3>2
      <4> QED BY <4>2, <4>3
    <3>3. CASE n # 0
      <4>0. n >= 1 BY <3>0, <3>3
      <4>1. n \in 1 .. n BY <3>0, <4>0
      <4>2. PICK old \in [1 .. n -> U] : old[1] = seqs[1] /\ \A k \in 2 .. n : old[k] = old[k - 1] \o seqs[k]
        <5>1. P(n)
          <6> HIDE DEF P
          <6> QED BY <4>0, <3>1
        <5> QED BY <5>1
      <4> DEFINE new == [k \in 1 .. n + 1 |-> IF k = n + 1 THEN old[n] \o seqs[n + 1] ELSE old[k]]
      <4>3. old[n] \o seqs[n + 1] \in U
        <5>1. old[n] \in U /\ seqs[n + 1] \in U BY <4>1, <4>2, <3>1, <1>0
        <5> QED BY <5>1, <2>1
      <4>4. new \in [1 .. n + 1 -> U]
        <5>1. \A k \in 1 .. n + 1 : k # n + 1 => k \in 1 .. n BY <3>0
        <5> QED BY <5>1, <4>3
      <4>5. new[n + 1] = old[n] \o seqs[n + 1] /\ \A k \in 1 .. n : new[k] = old[k]
        <5> DEFINE e == old[n] \o seqs[n + 1]
        <5>1. new = [k \in 1 .. n + 1 |-> IF k = n + 1 THEN e ELSE old[k]] OBVIOUS
        <5> HIDE DEF e, new
        <5>2. n + 1 \in 1 .. n + 1 /\ \A k \in 1 .. n : k \in 1 .. n + 1 /\ k # n + 1 BY <3>0
        <5>3. new[n + 1] = e BY <5>1, <5>2
        <5>4. \A k \in 1 .. n : new[k] = old[k] BY <5>1, <5>2
        <5> QED BY <5>3, <5>4 DEF e
      <4> HIDE DEF new
      <4>6. ASSUME NEW k \in 2 .. n + 1 PROVE new[k] = new[k - 1] \o seqs[k]
        <5>1. CASE k = n + 1
          <6>1. k - 1 = n BY <5>1, <3>0
          <6> QED BY <6>1, <5>1, <4>1, <4>5
        <5>2. CASE k # n + 1
          <6>1. k \in 2 .. n /\ k \in 1 .. n /\ k - 1 \in 1 .. n BY <5>2, <3>0
          <6> QED BY <6>1, <4>2, <4>5
        <5> QED BY <5>1, <5>2
      <4>7. new[1] = seqs[1]
        <5>1. 1 \in 1 .. n BY <4>0, <3>0
        <5> QED BY <5>1, <4>2, <4>5
      <4> QED BY <4>4, <4>6, <4>7
    <3> QED BY <3>2, <3>3
  <2>5. L \in S
    <3>1. S \in SUBSET Nat OBVIOUS
    <3> HIDE DEF S
    <3> QED BY <3>1, <1>0, <2>3, <2>4, AllNumbers
  <2>6. L >= 1 /\ L <= L BY <1>0, <1>f
  <2>7. PICK g \in [1 .. L -> U] : g[1] = seqs[1] /\ \A k \in 2 .. L : g[k] = g[k - 1] \o seqs[k]
    BY <2>5, <2>6
  <2> HIDE DEF S
  <2>8. R(g)
    <3>1. g = [n \in 1 .. L |-> g[n]] BY <2>7
    <3>2. \A n \in 1 .. L : n # 1 => n \in 2 .. L BY <1>0
    <3>3. ASSUME NEW n \in 1 .. L PROVE g[n] = IF n = 1 THEN seqs[n] ELSE g[n - 1] \o seqs[n]
      BY <3>2, <2>7
    <3> QED BY <3>1, <3>3
  <2>9. PICK f : R(f) /\ f = CHOOSE x : R(x)
    <3> HIDE DEF R
    <3> QED BY <2>8
  <2>10. \A n \in 1 .. L : f[n] = IF n = 1 THEN seqs[n] ELSE f[n - 1] \o seqs[n] BY <2>9
  <2>11. FlattenSeq(seqs) = f[L] BY <2>2, <2>9
  <2> HIDE DEF R
  <2> DEFINE A == {n \in Nat : (n >= 1 /\ n <= L) => f[n] \in U}
  <2>12. 0 \in A OBVIOUS
  <2>13. ASSUME NEW n \in A PROVE n + 1 \in A
    <3> SUFFICES ASSUME n + 1 <= L PROVE f[n + 1] \in U OBVIOUS
    <3>1. n \in Nat /\ n <= L /\ n + 1 \in 1 .. L /\ (n + 1) - 1 = n /\ (n = 0 \/ (n >= 1 /\ n + 1 # 1))
      BY <1>0
    <3>2. CASE n = 0 BY <3>1, <3>2, <2>10, <1>0
    <3>3. CASE n # 0
      <4>1. f[n] \in U /\ seqs[n + 1] \in U BY <3>1, <3>3, <1>0
      <4>2. f[n + 1] = f[n] \o seqs[n + 1] BY <3>1, <3>3, <2>10
      <4> QED BY <4>1, <4>2, <2>1
    <3> QED BY <3>2, <3>3
  <2>14. L \in A
    <3>1. A \in SUBSET Nat OBVIOUS
    <3> HIDE DEF A
    <3> QED BY <3>1, <1>0, <2>12, <2>13, AllNumbers
  <2>15. f[L] \in U BY <2>6, <2>14
  <2> QED BY <2>11, <2>15 DEF U
<1> QED BY <1>e, <1>f

Chains == [Instances -> Seq(Entry)]

\* Proofs with the ids of ledger entries, whatever decision they show.
LedgerProofs ==
    {p \in StoredProofType : \E i \in Instances : \E n \in DOMAIN ledger[i] :
        p.ledger = [current_hash |-> ledger[i][n].current_hash, sequence_id |-> n]}

LEMMA StoredAreLedgerProofs ==
    ASSUME ledger \in Chains, NEW i \in Instances, NEW n \in DOMAIN ledger[i]
    PROVE  StoredProof(ledger[i], n) \in LedgerProofs
<1>1. ledger[i] \in Seq(Entry) BY DEF Chains
<1>2. StoredProof(ledger[i], n) \in StoredProofType BY <1>1, StoredProofTypes
<1>3. StoredProof(ledger[i], n).ledger
        = [current_hash |-> ledger[i][n].current_hash, sequence_id |-> n]
  BY DEF StoredProof
<1> QED BY <1>2, <1>3 DEF LedgerProofs

\* _fetch_proofs reads stored proofs.
LEMMA FetchedTypes ==
    ASSUME ledger \in Chains, NEW from_date, NEW to_date
    PROVE  _fetch_proofs(from_date, to_date) \in Seq(LedgerProofs)
<1> DEFINE c == Cardinality(Instances)
           seqs == [m \in 1 .. c |-> Selected(ledger[SetToSeq(Instances)[m]], from_date, to_date)]
<1>1. c \in Nat BY BatchAssumption, FS_CardinalityType
<1>2. ASSUME NEW m \in 1 .. c
      PROVE  Selected(ledger[SetToSeq(Instances)[m]], from_date, to_date) \in Seq(LedgerProofs)
  <2>1. SetToSeq(Instances)[m] \in Instances BY InstanceOrder
  <2>2. ledger[SetToSeq(Instances)[m]] \in Seq(Entry) BY <2>1 DEF Chains
  <2>3. \A n \in DOMAIN ledger[SetToSeq(Instances)[m]] :
           StoredProof(ledger[SetToSeq(Instances)[m]], n) \in LedgerProofs
    BY <2>1, StoredAreLedgerProofs
  <2> QED BY <2>2, <2>3, SelectedTypes
<1>3. seqs \in Seq(Seq(LedgerProofs)) BY <1>1, <1>2
<1>4. _fetch_proofs(from_date, to_date) = FlattenSeq(seqs) BY DEF _fetch_proofs
<1> QED BY <1>3, <1>4, FlattenTypes

\* The ids of stored proofs are the ids of their ledger entries.
LEMMA IdsOfStored ==
    ASSUME NEW proofs \in Seq(StoredProofType)
    PROVE  /\ ProofIds(proofs) \in Seq(ProofId)
           /\ ProofIds(proofs) = [n \in 1 .. Len(proofs) |-> proofs[n].ledger]
<1>1. DOMAIN proofs = 1 .. Len(proofs) /\ Len(proofs) \in Nat OBVIOUS
<1>2. ASSUME NEW n \in 1 .. Len(proofs)
      PROVE  ~HasProofId(proofs[n]) /\ proofs[n].ledger \in ProofId
  <2>1. proofs[n] \in StoredProofType BY <1>1
  <2>2. DOMAIN proofs[n] = {"decision", "ledger"} BY <2>1 DEF StoredProofType
  <2>3. "proof_id" \notin {"decision", "ledger"} OBVIOUS
  <2> QED BY <2>1, <2>2, <2>3 DEF HasProofId, StoredProofType
<1>3. ProofIds(proofs) = [n \in 1 .. Len(proofs) |-> proofs[n].ledger]
  BY <1>1, <1>2 DEF ProofIds, _derive_proof_id
<1> QED BY <1>1, <1>2, <1>3

\* An altered list of proofs with ids of the ledger is such a list.
LEMMA AlteredTypes ==
    ASSUME ledger \in Chains, NEW old \in Seq(LedgerProofs), NEW new \in Alterations(old)
    PROVE  new \in Seq(LedgerProofs)
<1> DEFINE T == LedgerProofs
<1>0. DOMAIN old = 1 .. Len(old) /\ Len(old) \in Nat OBVIOUS
<1>1. PICK n \in DOMAIN old :
         \/ new = RemoveAt(old, n) \/ new = InsertAt(old, n, old[n])
         \/ \E p \in StoredProofs : new = ReplaceAt(old, n, p)
         \/ \E c \in Contents : new = ReplaceAt(old, n, [old[n] EXCEPT !.decision = c])
  BY DEF Alterations
<1>2. n \in Nat /\ n >= 1 /\ n <= Len(old) /\ old[n] \in T BY <1>0
<1>3. ASSUME NEW p \in T PROVE ReplaceAt(old, n, p) \in Seq(T) BY <1>2 DEF ReplaceAt
<1>4. ASSUME NEW p \in StoredProofs PROVE p \in T
  <2>1. PICK r \in Recorded : p = StoredProof(ledger[r[1]], r[2]) BY DEF StoredProofs
  <2>2. r[1] \in Instances /\ r[2] \in DOMAIN ledger[r[1]] BY DEF Recorded
  <2> QED BY <2>1, <2>2, StoredAreLedgerProofs
<1>5. ASSUME NEW c \in Contents PROVE [old[n] EXCEPT !.decision = c] \in T
  <2> DEFINE p == [old[n] EXCEPT !.decision = c]
  <2>1. old[n] \in StoredProofType BY <1>2 DEF LedgerProofs
  <2>2. p \in StoredProofType /\ p.ledger = old[n].ledger BY <2>1 DEF StoredProofType
  <2> HIDE DEF p
  <2>3. p \in LedgerProofs BY <2>2, <1>2 DEF LedgerProofs
  <2> QED BY <2>3 DEF p
<1>6. \A a, b \in Seq(T) : a \o b \in Seq(T) OBVIOUS
<1>7. /\ SubSeq(old, 1, n - 1) \in Seq(T) /\ SubSeq(old, n, Len(old)) \in Seq(T)
      /\ SubSeq(old, n + 1, Len(old)) \in Seq(T)
  <2>1. n - 1 \in Nat /\ n + 1 \in Nat BY <1>2
  <2>2. \A i \in 1 .. n - 1 : old[i] \in T BY <1>0, <1>2
  <2>3. \A i \in n .. Len(old) : old[i] \in T BY <1>0, <1>2
  <2>4. \A i \in n + 1 .. Len(old) : old[i] \in T BY <1>0, <1>2
  <2> HIDE DEF T
  <2> QED BY <2>1, <2>2, <2>3, <2>4, <1>0, <1>2, SubSeqProperties DEF T
<1>8. <<old[n]>> \in Seq(T) BY <1>2
<1> HIDE DEF T
<1>9. RemoveAt(old, n) \in Seq(T) BY <1>6, <1>7 DEF RemoveAt
<1>10. InsertAt(old, n, old[n]) \in Seq(T) BY <1>6, <1>7, <1>8 DEF InsertAt
<1> QED BY <1>1, <1>3, <1>4, <1>5, <1>9, <1>10 DEF T

-----------------------------------------------------------------------------
(* The files.                                                              *)

\* A batch file of some proofs whose Merkle root was signed.
File(proofs, root) ==
    [type             |-> "zorynex-batch-v1",
     proofs           |-> proofs,
     merkle_root      |-> root,
     merkle_signature |-> [value |-> sign_hash(root), public_key |-> SigningKey]]

LEMMA FileIs ==
    ASSUME NEW proofs, NEW root
    PROVE  /\ File(proofs, root) # NoBatch
           /\ File(proofs, root).proofs = proofs
           /\ File(proofs, root).merkle_root = root
           /\ File(proofs, root).merkle_signature.value = sign_hash(root)
           /\ File(proofs, root).merkle_signature.public_key = SigningKey
           /\ \A q : [File(proofs, root) EXCEPT !.proofs = q] = File(q, root)
<1>1. File(proofs, root).type = "zorynex-batch-v1" /\ NoBatch.type = "none" BY DEF File, NoBatch
<1> QED BY <1>1 DEF File

\* The proofs that were signed are those of the delivered file; the file on its way
\* still has their root.
FilesOK ==
    \/ batch = NoBatch /\ delivered = NoBatch
    \/ \E signed, now \in Seq(LedgerProofs) :
          /\ delivered = File(signed, merkle_root(ProofIds(signed)))
          /\ batch = File(now, merkle_root(ProofIds(signed)))

\* Every hash in a chain is one of the hash before it and of the decision.
HashBefore(chain, n) == IF n = 1 THEN 0 ELSE chain[n - 1].current_hash
ChainOK(chain) ==
    \A n \in DOMAIN chain :
        chain[n].current_hash = ChainHash(HashBefore(chain, n), chain[n].content)

BatchIInv ==
    /\ ledger \in Chains /\ time \in Times /\ FilesOK
    /\ \A i \in Instances : ChainOK(ledger[i])

\* The leading digits of a number.
LEMMA LeadingDigit ==
    ASSUME NEW a \in Nat, NEW b \in Nat, NEW k \in Nat, NEW c \in Nat, NEW d \in Nat,
           c < k, d < k, a * k + c = b * k + d
    PROVE  a = b
OBVIOUS

\* A hash of a hash and a decision is a number above 0 that tells the hash it is of.
LEMMA ChainHashIs ==
    ASSUME NEW previous \in Nat, NEW c \in Contents
    PROVE  /\ ChainHash(previous, c) \in Nat /\ ChainHash(previous, c) > 0
           /\ \A other \in Nat, d \in Contents :
                 ChainHash(previous, c) = ChainHash(other, d) => previous = other
<1>1. PICK n \in Nat : Contents = 1 .. n BY BatchAssumption, FS_CardinalityType
<1>2. n \in Contents /\ \A y \in Contents : n >= y /\ y \in Nat BY <1>1
<1>3. Max(Contents) \in Contents /\ \A y \in Contents : Max(Contents) >= y BY <1>2 DEF Max
<1> DEFINE M == Max(Contents)
<1>4. M \in Nat /\ \A y \in Contents : y \in Nat /\ y >= 1 /\ y <= M BY <1>1, <1>2, <1>3
<1>5. \A x, y : ChainHash(x, y) = x * (M + 1) + y BY DEF ChainHash
<1> HIDE DEF M
<1>6. previous * (M + 1) + c \in Nat /\ previous * (M + 1) + c > 0
  <2>1. previous * (M + 1) \in Nat BY <1>4
  <2>2. c \in Nat /\ c >= 1 BY <1>4
  <2> HIDE DEF M
  <2> QED BY <2>1, <2>2
<1>7. ASSUME NEW other \in Nat, NEW d \in Contents,
             previous * (M + 1) + c = other * (M + 1) + d
      PROVE  previous = other
  <2>1. c \in Nat /\ d \in Nat /\ c < M + 1 /\ d < M + 1 /\ M + 1 \in Nat BY <1>4
  <2> QED BY <2>1, <1>7, LeadingDigit
<1> QED BY <1>5, <1>6, <1>7

LEMMA BatchInitInv == BatchInit => BatchIInv
<1> SUFFICES ASSUME BatchInit PROVE BatchIInv OBVIOUS
<1>1. ledger \in Chains /\ \A i \in Instances : ChainOK(ledger[i])
  BY DEF BatchInit, Chains, ChainOK
<1>2. time \in Times BY BatchAssumption DEF BatchInit, Times
<1> QED BY <1>1, <1>2 DEF BatchInit, BatchIInv, FilesOK

LEMMA BatchNextInv == BatchIInv /\ [BatchNext]_batchVars => BatchIInv'
<1> SUFFICES ASSUME BatchIInv, [BatchNext]_batchVars PROVE BatchIInv' OBVIOUS
<1>0. ledger \in Chains /\ time \in Times /\ FilesOK /\ \A i \in Instances : ChainOK(ledger[i])
  BY DEF BatchIInv
<1>1. ASSUME NEW i \in Instances, NEW c \in Contents, Decide(i, c) PROVE BatchIInv'
  <2> DEFINE chain == ledger[i]
             previous == IF chain = <<>> THEN 0 ELSE Last(chain).current_hash
             entry == [content |-> c, timestamp |-> time, current_hash |-> ChainHash(previous, c)]
  <2>1. chain \in Seq(Entry) BY <1>0 DEF Chains
  <2>2. previous \in Nat
    <3>1. CASE chain = <<>> BY <3>1
    <3>2. CASE chain # <<>>
      <4>1. Last(chain) \in Entry BY <3>2, <2>1 DEF Last
      <4> QED BY <4>1, <3>2 DEF Entry
    <3> QED BY <3>1, <3>2
  <2>3. ledger' = [ledger EXCEPT ![i] = Append(chain, entry)] BY <1>0, <1>1 DEF Decide, Chains
  <2> HIDE DEF chain, previous
  <2>4. ChainHash(previous, c) \in Nat BY <2>2, ChainHashIs
  <2>5. entry \in Entry BY <2>4, <1>0 DEF Entry
  <2>e. entry.current_hash = ChainHash(previous, c) /\ entry.content = c OBVIOUS
  <2> HIDE DEF entry
  <2> DEFINE new == Append(chain, entry)
             L == Len(chain)
  <2>6. /\ new \in Seq(Entry) /\ L \in Nat /\ DOMAIN new = 1 .. L + 1 /\ new[L + 1] = entry
        /\ \A n \in 1 .. L : new[n] = chain[n]
    BY <2>1, <2>5
  <2>7. ledger' \in Chains BY <2>3, <2>6, <1>0 DEF Chains
  <2>8. ChainOK(new)
    <3> SUFFICES ASSUME NEW n \in DOMAIN new
                 PROVE  new[n].current_hash = ChainHash(HashBefore(new, n), new[n].content)
      BY DEF ChainOK
    <3> HIDE DEF new
    <3>1. CASE n = L + 1
      <4>1. HashBefore(new, n) = previous
        <5>1. CASE chain = <<>>
          <6>1. L = 0 BY <5>1
          <6> QED BY <6>1, <5>1, <3>1, <2>6 DEF HashBefore, previous
        <5>2. CASE chain # <<>>
          <6>1. L # 0 /\ Last(chain) = chain[L] BY <5>2, <2>1 DEF Last
          <6>2. L \in 1 .. L /\ n # 1 /\ n - 1 = L BY <6>1, <3>1, <2>6
          <6> QED BY <6>1, <6>2, <5>2, <2>6 DEF HashBefore, previous
        <5> QED BY <5>1, <5>2
      <4> QED BY <4>1, <3>1, <2>6, <2>e
    <3>2. CASE n # L + 1
      <4>1. n \in 1 .. L /\ (n # 1 => n - 1 \in 1 .. L) BY <3>2, <2>6
      <4>2. HashBefore(new, n) = HashBefore(chain, n) BY <4>1, <2>6 DEF HashBefore
      <4>3. n \in DOMAIN chain BY <4>1, <2>1
      <4>4. chain[n].current_hash = ChainHash(HashBefore(chain, n), chain[n].content)
        BY <4>3, <1>0 DEF ChainOK, chain
      <4> QED BY <4>1, <4>2, <4>4, <2>6
    <3> QED BY <3>1, <3>2
  <2>9. \A j \in Instances : ChainOK(ledger'[j])
    <3> HIDE DEF new
    <3>1. \A j \in Instances : ledger'[j] = IF j = i THEN new ELSE ledger[j]
      BY <2>3, <1>0 DEF Chains, new
    <3> QED BY <3>1, <2>8, <1>0
  <2>10. time' = time /\ batch' = batch /\ delivered' = delivered /\ batch = NoBatch
    BY <1>1 DEF Decide
  <2>11. FilesOK'
    <3>1. delivered = NoBatch BY <2>10, <1>0, FileIs DEF FilesOK
    <3> QED BY <3>1, <2>10 DEF FilesOK
  <2> QED BY <2>7, <2>9, <2>10, <2>11, <1>0 DEF BatchIInv
<1>2. CASE TimePasses
  <2>1. ledger' = ledger /\ batch' = batch /\ delivered' = delivered BY <1>2 DEF TimePasses
  <2>2. time' \in Times BY <1>0, <1>2, BatchAssumption DEF TimePasses, Times
  <2> QED BY <2>1, <2>2, <1>0 DEF BatchIInv, FilesOK, LedgerProofs
<1>3. CASE Export
  <2>1. PICK from_date \in Dates, to_date \in Dates :
           batch' = build_batch_export(from_date, to_date) /\ delivered' = batch'
    BY <1>3 DEF Export
  <2> DEFINE proofs == _fetch_proofs(from_date, to_date)
  <2>2. proofs \in Seq(LedgerProofs) BY <1>0, FetchedTypes
  <2>3. batch' = File(proofs, merkle_root(ProofIds(proofs))) BY <2>1 DEF build_batch_export, File
  <2> HIDE DEF proofs
  <2>4. ledger' = ledger /\ time' = time BY <1>3 DEF Export
  <2>6. LedgerProofs' = LedgerProofs BY <2>4 DEF LedgerProofs
  <2>5. FilesOK' BY <2>1, <2>2, <2>3, <2>6 DEF FilesOK
  <2> QED BY <2>4, <2>5, <1>0 DEF BatchIInv
<1>4. CASE Alter
  <2>1. batch # NoBatch BY <1>4 DEF Alter
  <2>2. PICK signed \in Seq(LedgerProofs), now \in Seq(LedgerProofs) :
           /\ delivered = File(signed, merkle_root(ProofIds(signed)))
           /\ batch = File(now, merkle_root(ProofIds(signed)))
    BY <2>1, <1>0 DEF FilesOK
  <2>3. PICK new \in Alterations(batch.proofs) : batch' = [batch EXCEPT !.proofs = new]
    BY <1>4 DEF Alter
  <2>4. batch.proofs = now /\ batch' = File(new, merkle_root(ProofIds(signed))) BY <2>2, <2>3, FileIs
  <2>5. new \in Seq(LedgerProofs) BY <2>3, <2>4, <1>0, AlteredTypes
  <2>6. ledger' = ledger /\ time' = time /\ delivered' = delivered BY <1>4 DEF Alter
  <2>8. LedgerProofs' = LedgerProofs BY <2>6 DEF LedgerProofs
  <2>7. FilesOK' BY <2>2, <2>4, <2>5, <2>6, <2>8 DEF FilesOK
  <2> QED BY <2>6, <2>7, <1>0 DEF BatchIInv
<1>5. CASE UNCHANGED batchVars
  <2>1. ledger' = ledger /\ time' = time /\ batch' = batch /\ delivered' = delivered
    BY <1>5 DEF batchVars
  <2> QED BY <2>1, <1>0 DEF BatchIInv, FilesOK, LedgerProofs
<1> QED BY <1>1, <1>2, <1>3, <1>4, <1>5 DEF BatchNext

LEMMA BatchInvariant == BatchSpec => []BatchIInv
BY BatchInitInv, BatchNextInv, PTL DEF BatchSpec

\* The files of a state that has one.
LEMMA FilesAre ==
    ASSUME BatchIInv, batch # NoBatch
    PROVE  \E signed, now \in Seq(StoredProofType) :
              /\ signed \in Seq(LedgerProofs) /\ now \in Seq(LedgerProofs)
              /\ delivered = File(signed, merkle_root(ProofIds(signed)))
              /\ batch = File(now, merkle_root(ProofIds(signed)))
<1>1. LedgerProofs \in SUBSET StoredProofType BY DEF LedgerProofs
<1>2. \A s \in Seq(LedgerProofs) : s \in Seq(StoredProofType) BY <1>1
<1> QED BY <1>2 DEF BatchIInv, FilesOK

\* An inclusion proof of the delivered file, whatever leaf it is shown with.
LEMMA ProofsOfDelivered ==
    ASSUME NEW signed \in Seq(StoredProofType), delivered = File(signed, merkle_root(ProofIds(signed))),
           NEW id \in Range(Ids(delivered))
    PROVE  LET proof == compute_inclusion_proof(Ids(delivered), id, delivered)
           IN  /\ verify_inclusion_proof(proof)
               /\ \A h : verify_inclusion_proof([proof EXCEPT !.leaf_hash = h]) => h = Leaf(id)
<1> DEFINE ids == ProofIds(signed)
           top == InclusionPath(Leaves(ids), id)
           root == merkle_root(ids)
           proof == compute_inclusion_proof(ids, id, delivered)
<1>1. Ids(delivered) = ids /\ ids \in Seq(ProofId) BY FileIs, IdsOfStored DEF Ids
<1>2. id \in Range(ids) BY <1>1
<1>3. Head(top.level) = root /\ (\E p : List(top.path, p)) /\ Walk(Leaf(id), top.path) = root
  BY <1>1, <1>2, PathVerifies
<1>4. /\ delivered.merkle_root = root /\ delivered.merkle_signature.value = sign_hash(root)
      /\ delivered.merkle_signature.public_key = SigningKey
  BY FileIs
<1> HIDE DEF ids, top, root
<1>5. proof = [leaf_hash |-> Leaf(id), path |-> top.path, root |-> root, signed_root |-> root,
               signature |-> sign_hash(root), public_key |-> SigningKey]
  BY <1>3, <1>4 DEF compute_inclusion_proof, top
<1> HIDE DEF proof
<1>6. /\ proof.leaf_hash = Leaf(id) /\ proof.path = top.path /\ proof.root = root
      /\ proof.signed_root = root /\ proof.signature = sign_hash(root)
      /\ proof.public_key = SigningKey
  BY <1>5
<1>7. SignatureVerifies(root, sign_hash(root), SigningKey) BY DEF SignatureVerifies, sign_hash
<1>8. verify_inclusion_proof(proof) BY <1>3, <1>6, <1>7 DEF verify_inclusion_proof
<1>9. ASSUME NEW h, verify_inclusion_proof([proof EXCEPT !.leaf_hash = h]) PROVE h = Leaf(id)
  <2> DEFINE shown == [proof EXCEPT !.leaf_hash = h]
  <2>1. shown.leaf_hash = h /\ shown.path = top.path /\ shown.root = root BY <1>5
  <2> HIDE DEF shown
  <2>2. Walk(h, top.path) = root BY <2>1, <1>9 DEF verify_inclusion_proof, shown
  <2>3. PICK p : List(top.path, p) BY <1>3
  <2> DEFINE path == top.path
             bottom == Leaf(id)
  <2>4. Walk(h, path) = Walk(bottom, path) /\ List(path, p) BY <2>2, <2>3, <1>3
  <2> HIDE DEF path, bottom
  <2>5. h = bottom BY <2>4, WalkInjective
  <2> QED BY <2>5 DEF bottom
<1> QED BY <1>1, <1>8, <1>9 DEF proof

\* A batch that was delivered and not altered verifies against its signature, and the
\* inclusion proof of each of its proofs leads to the signed root, for every number of
\* proofs (build_merkle_tree, compute_inclusion_proof and verify_inclusion_proof agree).
THEOREM DeliveredVerify == BatchSpec => []DeliveredBatchesVerify
<1> SUFFICES BatchIInv => DeliveredBatchesVerify BY BatchInvariant, PTL
<1> SUFFICES ASSUME BatchIInv, Unaltered
             PROVE  /\ verify_batch_signature(delivered)
                    /\ \A id \in Range(Ids(delivered)) :
                          verify_inclusion_proof(compute_inclusion_proof(Ids(delivered), id, delivered))
  BY DEF DeliveredBatchesVerify
<1>1. batch # NoBatch BY DEF Unaltered
<1>2. PICK signed \in Seq(StoredProofType) : delivered = File(signed, merkle_root(ProofIds(signed)))
  BY <1>1, FilesAre
<1> DEFINE root == merkle_root(ProofIds(signed))
<1>3. /\ delivered.proofs = signed /\ delivered.merkle_root = root
      /\ delivered.merkle_signature.value = sign_hash(root)
      /\ delivered.merkle_signature.public_key = SigningKey
  BY <1>2, FileIs
<1>4. SignatureVerifies(root, sign_hash(root), SigningKey) BY DEF SignatureVerifies, sign_hash
<1>5. verify_batch_signature(delivered) BY <1>3, <1>4 DEF verify_batch_signature
<1>6. \A id \in Range(Ids(delivered)) :
         verify_inclusion_proof(compute_inclusion_proof(Ids(delivered), id, delivered))
  BY <1>2, ProofsOfDelivered
<1> QED BY <1>5, <1>6

\* Whatever happened to a batch file on its way, if it still verifies it holds the
\* proof ids that were delivered, no more and no fewer (verify_batch_signature).
THEOREM AlterationsNoticed == BatchSpec => []ValidBatchesHoldDeliveredIds
<1> SUFFICES BatchIInv => ValidBatchesHoldDeliveredIds BY BatchInvariant, PTL
<1> SUFFICES ASSUME BatchIInv, batch # NoBatch, verify_batch_signature(batch)
             PROVE  Range(Ids(batch)) = Range(Ids(delivered))
  BY DEF ValidBatchesHoldDeliveredIds
<1>1. PICK signed \in Seq(StoredProofType), now \in Seq(StoredProofType) :
         /\ delivered = File(signed, merkle_root(ProofIds(signed)))
         /\ batch = File(now, merkle_root(ProofIds(signed)))
  BY FilesAre
<1> DEFINE a == ProofIds(signed)
           b == ProofIds(now)
<1>2. /\ delivered.proofs = signed /\ batch.proofs = now /\ batch.merkle_root = merkle_root(a)
  BY <1>1, FileIs
<1>3. Ids(delivered) = a /\ Ids(batch) = b BY <1>2 DEF Ids
<1>4. a \in Seq(ProofId) /\ b \in Seq(ProofId) BY IdsOfStored
<1>5. merkle_root(b) = merkle_root(a) BY <1>2 DEF verify_batch_signature
<1> HIDE DEF a, b
<1>6. Range(a) \subseteq Range(b) /\ Range(b) \subseteq Range(a) BY <1>4, <1>5, RootHoldsIds
<1> QED BY <1>3, <1>6

\* An inclusion proof verifies with the leaf of the proof it was made for and with no
\* other (verify_inclusion_proof).
THEOREM PathsNotReusable == BatchSpec => []PathsProveOneProof
<1> SUFFICES BatchIInv => PathsProveOneProof BY BatchInvariant, PTL
<1> SUFFICES ASSUME BatchIInv, Unaltered, NEW id \in Range(Ids(delivered)), NEW p \in StoredProofs,
                    verify_inclusion_proof(
                       [compute_inclusion_proof(Ids(delivered), id, delivered)
                          EXCEPT !.leaf_hash = Leaf(_derive_proof_id(p))])
             PROVE  _derive_proof_id(p) = id
  BY DEF PathsProveOneProof
<1>1. batch # NoBatch BY DEF Unaltered
<1>2. PICK signed \in Seq(StoredProofType) : delivered = File(signed, merkle_root(ProofIds(signed)))
  BY <1>1, FilesAre
<1>3. Leaf(_derive_proof_id(p)) = Leaf(id) BY <1>2, ProofsOfDelivered
<1> QED BY <1>3, HashesDiffer

\* The hash in a ledger entry tells how many decisions are under it.
LEMMA HashNumbersDecisions ==
    ASSUME BatchIInv, NEW i \in Instances, NEW j \in Instances,
           NEW n \in DOMAIN ledger[i], NEW m \in DOMAIN ledger[j],
           ledger[i][n].current_hash = ledger[j][m].current_hash
    PROVE  n = m
<1> DEFINE hash(x, k) == ledger[x][k].current_hash
           before(x, k) == HashBefore(ledger[x], k)
           D(x) == DOMAIN ledger[x]
<1>1. ASSUME NEW x \in Instances, NEW k \in D(x)
      PROVE  /\ k \in Nat /\ k >= 1 /\ (k # 1 => k - 1 \in D(x))
             /\ hash(x, k) \in Nat /\ ledger[x][k].content \in Contents
  <2>1. ledger[x] \in Seq(Entry) BY DEF BatchIInv, Chains
  <2>2. ledger[x][k] \in Entry /\ D(x) = 1 .. Len(ledger[x]) /\ Len(ledger[x]) \in Nat BY <2>1
  <2>3. k \in Nat /\ k >= 1 /\ (k # 1 => k - 1 \in D(x)) BY <2>2
  <2> QED BY <2>2, <2>3 DEF Entry
<1>2. ASSUME NEW x \in Instances, NEW k \in D(x)
      PROVE  hash(x, k) = ChainHash(before(x, k), ledger[x][k].content)
  BY DEF BatchIInv, ChainOK
<1>3. \A x \in Instances : \A k \in D(x) : before(x, k) = IF k = 1 THEN 0 ELSE hash(x, k - 1)
  BY DEF HashBefore
<1> HIDE DEF hash, before, D
<1>4. ASSUME NEW x \in Instances, NEW k \in D(x) PROVE before(x, k) \in Nat
  <2>1. CASE k = 1
    <3>1. before(x, k) = 0 BY <2>1, <1>3
    <3> QED BY <3>1
  <2>2. CASE k # 1
    <3>1. before(x, k) = hash(x, k - 1) /\ k - 1 \in D(x) BY <2>2, <1>1, <1>3
    <3> QED BY <3>1, <1>1
  <2> QED BY <2>1, <2>2
<1>5. \A x \in Instances : \A k \in D(x) : hash(x, k) > 0 BY <1>1, <1>2, <1>4, ChainHashIs
<1>6. ASSUME NEW x \in Instances, NEW y \in Instances, NEW k \in D(x), NEW l \in D(y),
             hash(x, k) = hash(y, l)
      PROVE  before(x, k) = before(y, l)
  <2>1. ChainHash(before(x, k), ledger[x][k].content) = ChainHash(before(y, l), ledger[y][l].content)
    BY <1>2, <1>6
  <2> QED BY <2>1, <1>1, <1>4, ChainHashIs
<1> DEFINE Q(k) == \A x, y \in Instances : k \in D(x) =>
                      \A l \in D(y) : hash(x, k) = hash(y, l) => k = l
           S == {k \in Nat : Q(k)}
<1>7. 0 \in S
  <2>1. \A x \in Instances : 0 \notin D(x) BY <1>1
  <2> QED BY <2>1
<1>8. ASSUME NEW k \in S PROVE k + 1 \in S
  <2>0. k \in Nat /\ Q(k) OBVIOUS
  <2> SUFFICES ASSUME NEW x \in Instances, NEW y \in Instances, k + 1 \in D(x),
                      NEW l \in D(y), hash(x, k + 1) = hash(y, l)
               PROVE  k + 1 = l
    BY <2>0
  <2>1. before(x, k + 1) = before(y, l) BY <1>6
  <2>2. l \in Nat /\ l >= 1 /\ (l # 1 => l - 1 \in D(y)) BY <1>1
  <2>3. CASE k = 0
    <3>1. before(x, k + 1) = 0 BY <2>3, <1>3
    <3>2. l = 1
      <4> SUFFICES ASSUME l # 1 PROVE FALSE OBVIOUS
      <4>1. l - 1 \in D(y) /\ before(y, l) = hash(y, l - 1) BY <2>2, <1>3
      <4>2. hash(y, l - 1) > 0 /\ hash(y, l - 1) = 0 BY <4>1, <3>1, <2>1, <1>5
      <4> QED BY <4>2
    <3> QED BY <3>2, <2>3
  <2>4. CASE k # 0
    <3>1. k + 1 # 1 /\ (k + 1) - 1 = k BY <2>0, <2>4
    <3>2. k \in D(x) BY <3>1, <1>1
    <3>3. before(x, k + 1) = hash(x, k) /\ hash(x, k) > 0 BY <3>1, <3>2, <1>3, <1>5
    <3>4. l # 1
      <4> SUFFICES ASSUME l = 1 PROVE FALSE OBVIOUS
      <4>1. before(y, l) = 0 BY <1>3
      <4>2. hash(x, k) = 0 BY <4>1, <3>3, <2>1
      <4> QED BY <4>2, <3>3
    <3>5. l - 1 \in D(y) /\ before(y, l) = hash(y, l - 1) BY <3>4, <2>2, <1>3
    <3>6. k = l - 1 BY <3>2, <3>3, <3>5, <2>0, <2>1
    <3> QED BY <3>6, <2>0, <2>2
  <2> QED BY <2>3, <2>4
<1>9. S = Nat
  <2>1. S \in SUBSET Nat OBVIOUS
  <2> HIDE DEF S
  <2> QED BY <2>1, <1>7, <1>8, AllNumbers
<1>10. n \in D(i) /\ m \in D(j) /\ hash(i, n) = hash(j, m) BY DEF D, hash
<1>11. n \in Nat BY <1>1, <1>10
<1>12. Q(n) BY <1>9, <1>11
<1> QED BY <1>10, <1>12

\* So it tells ids apart.
LEMMA IdsTold ==
    ASSUME BatchIInv, NEW proofs \in Seq(LedgerProofs),
           NEW x \in Range(ProofIds(proofs)), NEW y \in Range(ProofIds(proofs)),
           x.current_hash = y.current_hash
    PROVE  x = y
<1>1. proofs \in Seq(StoredProofType)
  <2>1. LedgerProofs \in SUBSET StoredProofType BY DEF LedgerProofs
  <2> QED BY <2>1
<1>2. ProofIds(proofs) = [n \in 1 .. Len(proofs) |-> proofs[n].ledger] BY <1>1, IdsOfStored
<1>3. \A n \in 1 .. Len(proofs) : proofs[n] \in LedgerProofs OBVIOUS
<1>4. ASSUME NEW z \in Range(ProofIds(proofs))
      PROVE  \E i \in Instances : \E n \in DOMAIN ledger[i] :
                z = [current_hash |-> ledger[i][n].current_hash, sequence_id |-> n]
  <2>1. PICK k \in 1 .. Len(proofs) : z = proofs[k].ledger BY <1>2 DEF Range
  <2> QED BY <2>1, <1>3 DEF LedgerProofs
<1>5. PICK i \in Instances : \E n \in DOMAIN ledger[i] :
         x = [current_hash |-> ledger[i][n].current_hash, sequence_id |-> n]
  BY <1>4
<1>6. PICK n \in DOMAIN ledger[i] :
         x = [current_hash |-> ledger[i][n].current_hash, sequence_id |-> n]
  BY <1>5
<1>7. PICK j \in Instances : \E m \in DOMAIN ledger[j] :
         y = [current_hash |-> ledger[j][m].current_hash, sequence_id |-> m]
  BY <1>4
<1>8. PICK m \in DOMAIN ledger[j] :
         y = [current_hash |-> ledger[j][m].current_hash, sequence_id |-> m]
  BY <1>7
<1>9. ledger[i][n].current_hash = ledger[j][m].current_hash BY <1>6, <1>8
<1>10. n = m BY <1>9, HashNumbersDecisions
<1> QED BY <1>6, <1>8, <1>9, <1>10

\* The types, and the Merkle root of every file: the loop over padded levels computes
\* the root of the reference tree, for every number of proofs, with ids that occur twice
\* and in whatever order the proofs are read (build_merkle_tree).
THEOREM RootsAreReference == BatchSpec => []BatchInv
<1> SUFFICES BatchIInv => BatchInv BY BatchInvariant, PTL
<1> SUFFICES ASSUME BatchIInv PROVE BatchTypeOK /\ RootMatchesReference BY DEF BatchInv
<1>1. BatchTypeOK
  <2>1. /\ ledger \in [Instances -> Seq([content : Contents, timestamp : Times, current_hash : Nat])]
        /\ time \in Times
    BY DEF BatchIInv, Chains, Entry
  <2>2. batch # NoBatch => batch.proofs \in Seq(StoredProofType) /\ delivered.proofs \in Seq(StoredProofType)
    BY FilesAre, FileIs
  <2>3. batch = NoBatch => delivered = NoBatch BY FileIs DEF BatchIInv, FilesOK
  <2> QED BY <2>1, <2>2, <2>3 DEF BatchTypeOK
<1>2. RootMatchesReference
  <2> SUFFICES ASSUME batch # NoBatch, Ids(batch) # <<>>
               PROVE  LET leaves == Leaves(Ids(batch))
                      IN  /\ merkle_root(Ids(batch)) = ReferenceNode(leaves, Height(Len(leaves)), 1)
                          /\ merkle_root(Reverse(Ids(batch))) = merkle_root(Ids(batch))
    BY DEF RootMatchesReference
  <2>1. PICK signed \in Seq(StoredProofType), now \in Seq(StoredProofType) :
           now \in Seq(LedgerProofs) /\ batch = File(now, merkle_root(ProofIds(signed)))
    BY FilesAre
  <2>2. Ids(batch) = ProofIds(now) /\ ProofIds(now) \in Seq(ProofId) BY <2>1, FileIs, IdsOfStored DEF Ids
  <2>3. \A x, y \in Range(ProofIds(now)) : x.current_hash = y.current_hash => x = y
    BY <2>1, IdsTold
  <2> DEFINE ids == ProofIds(now)
  <2> HIDE DEF ids
  <2>4. merkle_root(ids) = ReferenceNode(Leaves(ids), Height(Len(Leaves(ids))), 1)
    BY <2>2, RootIsReference DEF ids
  <2>5. merkle_root(Reverse(ids)) = merkle_root(ids) BY <2>2, <2>3, ReverseArranged DEF ids
  <2> QED BY <2>2, <2>4, <2>5 DEF ids
<1> QED BY <1>1, <1>2
=============================================================================
