--------------------------- MODULE WebhookReceiver --------------------------
(***************************************************************************)
(* Signed webhooks (webhook.py) from the sender's sign_webhook to the      *)
(* receiver's POST /webhook/receive (main.py, auth.py).  The network may   *)
(* lose, delay, duplicate, reorder and damage what is sent, and a sender   *)
(* that got no answer sends the same webhook again.  A server process      *)
(* handles several requests on one event loop: a handler runs to its       *)
(* await, and others run in between.  Each process has its own nonce       *)
(* store, which a restart empties.                                         *)
(*                                                                         *)
(* Time is counted in ticks, several to a second, because a timestamp is   *)
(* in whole seconds and the receiver's clock is not.                       *)
(***************************************************************************)
EXTENDS Integers, SequencesExt

CONSTANTS Nonces,           \* webhooks that are sent, by their nonce
          Processes,        \* server processes behind the URL
          Handlers,         \* requests a process handles at a time
          TIMESTAMP_TOLERANCE,  \* TIMESTAMP_TOLERANCE_S, in ticks
          TicksPerSecond,
          SenderSkews,      \* how far a sender's clock may be ahead, in ticks
          MaxClock,         \* bound: length of a behaviour, in ticks
          MaxCopies,        \* bound: copies of webhooks that come in
          MaxRestarts       \* bound: restarts of server processes

ASSUME WebhookReceiverAssumption ==
    /\ {TIMESTAMP_TOLERANCE, TicksPerSecond} \subseteq Nat \ {0}
    /\ SenderSkews \subseteq Nat
    /\ {MaxClock, MaxCopies, MaxRestarts} \subseteq Nat

VARIABLES
    clock,
    sent,        \* nonce -> timestamp, of the webhooks signed so far
    nonceStore,  \* per process: _NonceStore._store, nonce -> expiry
    handler,     \* per process and handler: the webhook it is verifying
    copies,      \* copies that have come in
    epoch,       \* per process: how often it has been restarted
    accepted,    \* webhooks accepted, oldest first
    burnt,       \* nonces that copies used up which were then found broken
    refused      \* nonces of genuine copies that were refused as replays

seen == <<accepted, burnt, refused>>
receiverVars == <<clock, sent, nonceStore, handler, copies, epoch, seen>>

Roles == {"admin", "auditor", "system"}
Allowed == {"admin", "system"}    \* on /webhook/receive
NoWebhook == [phase |-> "none"]

ReceiverInit ==
    /\ clock = 0
    /\ sent = << >>
    /\ nonceStore = [p \in Processes |-> << >>]
    /\ handler = [p \in Processes |-> [h \in Handlers |-> NoWebhook]]
    /\ copies = 0
    /\ epoch = [p \in Processes |-> 0]
    /\ accepted = <<>>
    /\ burnt = {}
    /\ refused = {}

-----------------------------------------------------------------------------
\* sign_webhook: a fresh nonce and the sender's clock in whole seconds.
sign_webhook(n, skew) ==
    /\ n \notin DOMAIN sent
    /\ sent' = [x \in (DOMAIN sent) \cup {n} |->
                  IF x # n THEN sent[x]
                  ELSE ((clock + skew) \div TicksPerSecond) * TicksPerSecond]
    /\ UNCHANGED <<clock, nonceStore, handler, copies, epoch, seen>>

\* age = |time.time() - ts| is at most TIMESTAMP_TOLERANCE_S.
TimestampInTolerance(ts) ==
    /\ clock <= ts + TIMESTAMP_TOLERANCE
    /\ ts <= clock + TIMESTAMP_TOLERANCE

Unexpired(store) ==
    [n \in {n \in DOMAIN store : store[n] > clock} |-> store[n]]

NonceIsNew(p, n) == n \notin DOMAIN Unexpired(nonceStore[p])

\* Mutant: the nonce lives as long as the tolerance, not twice as long.
check_and_store_once(p, n) ==
    LET store == Unexpired(nonceStore[p])
    IN  nonceStore' = [nonceStore EXCEPT ![p] =
          [x \in (DOMAIN store) \cup {n} |->
              IF x \in DOMAIN store THEN store[x] ELSE clock + TIMESTAMP_TOLERANCE]]

check_and_store(p, n) ==
    LET store == Unexpired(nonceStore[p])
    IN  nonceStore' = [nonceStore EXCEPT ![p] =
          [x \in (DOMAIN store) \cup {n} |->
              IF x \in DOMAIN store THEN store[x]
              ELSE clock + 2 * TIMESTAMP_TOLERANCE]]

\* The event loop is at an await, not between the two clock readings of a handler.
AtAwait(p) == \A h \in Handlers : handler[p][h].phase # "nonce"

\* Mutant: the nonce is stored whatever the timestamp is.
CheckTimestampLate(p, h, n, intact, role) ==
    /\ handler[p][h] = NoWebhook /\ AtAwait(p)
    /\ n \in DOMAIN sent
    /\ copies < MaxCopies
    /\ copies' = copies + 1
    /\ IF TimestampInTolerance(sent[n])
       THEN /\ handler' = [handler EXCEPT ![p][h] =
                  [phase |-> "nonce", nonce |-> n, checked |-> clock, stored |-> clock,
                   valid |-> intact /\ role \in Allowed]]
            /\ UNCHANGED nonceStore
       ELSE check_and_store(p, n) /\ UNCHANGED handler
    /\ UNCHANGED <<clock, sent, epoch, seen>>

\* The headers of a copy of webhook n are read, and its timestamp is compared with the
\* clock.  The copy may be damaged in its body, its connection may break before the body
\* is in, or it comes with an unsuitable API key; the handler finds out when it awaits
\* the body.
CheckTimestamp(p, h, n, intact, role) ==
    /\ handler[p][h] = NoWebhook /\ AtAwait(p)
    /\ n \in DOMAIN sent
    /\ copies < MaxCopies
    /\ copies' = copies + 1
    /\ handler' = IF ~TimestampInTolerance(sent[n]) THEN handler
                  ELSE [handler EXCEPT ![p][h] =
                          [phase |-> "nonce", nonce |-> n, checked |-> clock, stored |-> clock,
                           valid |-> intact /\ role \in Allowed]]
    /\ UNCHANGED <<clock, sent, nonceStore, epoch, seen>>

\* The nonce is looked up, and stored if it is new.  check_and_store reads the clock
\* again.
StoreNonce(p, h) ==
    LET w == handler[p][h]
    IN  /\ w.phase = "nonce"
        /\ check_and_store(p, w.nonce)
        /\ IF NonceIsNew(p, w.nonce)
           THEN /\ handler' = [handler EXCEPT ![p][h] = [w EXCEPT !.phase = "body", !.stored = clock]]
                /\ UNCHANGED refused
           ELSE /\ handler' = [handler EXCEPT ![p][h] = NoWebhook]
                /\ refused' = IF w.valid
                              THEN refused \cup {[nonce |-> w.nonce, by |-> p, epoch |-> epoch[p]]}
                              ELSE refused
        /\ UNCHANGED <<clock, sent, copies, epoch, accepted, burnt>>

\* The body has come in: HMAC over timestamp, nonce and body, then require_role.
VerifyBody(p, h) ==
    LET w == handler[p][h]
    IN  /\ w.phase = "body" /\ AtAwait(p)
        /\ IF w.valid
           THEN /\ accepted' = Append(accepted, [nonce |-> w.nonce, checked |-> w.checked,
                                                 stored |-> w.stored, by |-> p, epoch |-> epoch[p]])
                /\ UNCHANGED burnt
           ELSE /\ burnt' = burnt \cup {[nonce |-> w.nonce, by |-> p, epoch |-> epoch[p]]}
                /\ UNCHANGED accepted
        /\ handler' = [handler EXCEPT ![p][h] = NoWebhook]
        /\ UNCHANGED <<clock, sent, nonceStore, copies, epoch, refused>>

Restart(p) ==
    /\ epoch[p] < MaxRestarts
    /\ epoch' = [epoch EXCEPT ![p] = @ + 1]
    /\ nonceStore' = [nonceStore EXCEPT ![p] = << >>]
    /\ handler' = [handler EXCEPT ![p] = [h \in Handlers |-> NoWebhook]]
    /\ UNCHANGED <<clock, sent, copies, seen>>

Tick ==
    /\ clock < MaxClock
    /\ clock' = clock + 1
    /\ UNCHANGED <<sent, nonceStore, handler, copies, epoch, seen>>

ReceiverNext ==
    \/ \E n \in Nonces, skew \in SenderSkews : sign_webhook(n, skew)
    \/ \E p \in Processes :
          \/ \E h \in Handlers :
                \/ \E n \in Nonces, intact \in BOOLEAN, role \in Roles :
                      CheckTimestamp(p, h, n, intact, role)
                \/ StoreNonce(p, h) \/ VerifyBody(p, h)
          \/ Restart(p)
    \/ Tick

ReceiverSpec == ReceiverInit /\ [][ReceiverNext]_receiverVars

-----------------------------------------------------------------------------
(* Properties                                                              *)

\* The store holds nonces of signed webhooks only, each for no longer than the
\* TTL of check_and_store, and handlers verify copies of signed webhooks.
ReceiverTypeOK ==
    /\ clock \in 0..MaxClock
    /\ copies \in 0..MaxCopies
    /\ DOMAIN sent \subseteq Nonces
    /\ \A p \in Processes :
          /\ DOMAIN nonceStore[p] \subseteq DOMAIN sent
          /\ \A n \in DOMAIN nonceStore[p] :
                nonceStore[p][n] <= clock + 2 * TIMESTAMP_TOLERANCE
          /\ \A h \in Handlers : handler[p][h] # NoWebhook =>
                /\ handler[p][h].nonce \in DOMAIN sent
                /\ handler[p][h].checked \in 0..clock
                /\ handler[p][h].stored \in 0..clock

\* A webhook that reaches a process twice is accepted once, however long its
\* copies take and however their handlers interleave.  There is one exception: the
\* clock is read for the timestamp (webhook.py:192) and again for the nonce
\* (webhook.py:77), and the nonce may be forgotten when the tolerance has passed.  So a
\* copy that is looked up exactly or almost TIMESTAMP_TOLERANCE before its timestamp
\* does not keep out one whose two readings lie on both sides of the same time after it.
DuplicatesRefused ==
    \A m, n \in DOMAIN accepted :
        LET a == accepted[m]
            b == accepted[n]
            end == sent[a.nonce] + TIMESTAMP_TOLERANCE
        IN  (/\ m # n /\ a.nonce = b.nonce /\ a.by = b.by /\ a.epoch = b.epoch
             /\ a.stored <= b.stored) =>
                /\ a.stored + 2 * TIMESTAMP_TOLERANCE <= b.stored
                /\ b.checked <= end /\ end <= b.stored

\* What holds of the receiver whatever the network does: the types, and one process
\* that accepts no webhook twice but at the edge.
ReceiverInv == ReceiverTypeOK /\ DuplicatesRefused

\* The nonce is used up before the body is looked at, so that a genuine copy, intact,
\* allowed and in time, may be refused as a replay.  But in one life of a process only
\* because of another copy that got as far as the body: it was accepted, its body is
\* awaited, or it was found broken.  A copy refused for its timestamp blocks no other.
RefusalsHaveACause ==
    \A r \in refused : r.epoch = epoch[r.by] =>
        \/ \E m \in DOMAIN accepted : /\ accepted[m].nonce = r.nonce
                                      /\ accepted[m].by = r.by /\ accepted[m].epoch = r.epoch
        \/ \E h \in Handlers : /\ handler[r.by][h].phase = "body"
                               /\ handler[r.by][h].nonce = r.nonce
        \/ r \in burnt
=============================================================================
