----------------------------- MODULE SiemRouter -----------------------------
(***************************************************************************)
(* SIEMRouter and its transports (siem.py): request threads emit audit     *)
(* events to a bounded queue, worker threads hand each event to every      *)
(* transport in turn, and flush() runs once before the process ends.  The  *)
(* workers are daemon threads and end with it.                             *)
(*                                                                         *)
(* The Splunk transport keeps events in a buffer and posts them a batch at *)
(* a time, under its lock; the others send each event by itself.  A send   *)
(* that fails is logged and the event is not tried again.                  *)
(***************************************************************************)
EXTENDS Naturals, SequencesExt

CONSTANTS Emitters,     \* threads that call emit
          Workers,      \* the router's worker threads
          Transports,   \* the configured transports, in order
          QueueSize,    \* maxsize of the queue
          BatchSize,    \* ZORYNEX_SIEM_SPLUNK_BATCH
          min_level,    \* the threshold, as a number
          MaxEvents     \* bound: events emitted above the threshold

ASSUME SiemRouterAssumption ==
    /\ Transports \in Seq({"webhook", "syslog", "splunk", "datadog"})
    /\ IsInjective(Transports)
    /\ {QueueSize, BatchSize} \subseteq Nat \ {0}
    /\ {min_level, MaxEvents} \subseteq Nat

VARIABLES
    emitted,   \* the counter _emitted; events are numbered by it
    dropped,   \* events dropped because the queue was full
    emitter,   \* per emitter: the event it is about to enqueue, or 0
    queue,     \* event numbers
    worker,    \* per worker: the event it holds and the next transport
    fate,      \* per transport and event: what has become of it
    main,      \* the main thread: where flush() is
    before     \* events that were on their way when flush() was called

routerVars == <<emitted, dropped, emitter, queue, worker, fate, main, before>>

Events == 1..MaxEvents
NoEvent == [event |-> 0, next |-> 1]
Fates == {"none", "buffered", "delivered", "failed"}

Levels == [debug |-> 0, info |-> 1, warning |-> 2, error |-> 3, critical |-> 4,
           unknown |-> 1]

RouterInit ==
    /\ emitted = 0
    /\ dropped = {}
    /\ emitter = [c \in Emitters |-> 0]
    /\ queue = <<>>
    /\ worker = [w \in Workers |-> NoEvent]
    /\ fate = [t \in ToSet(Transports) |-> [e \in Events |-> "none"]]
    /\ main = [at |-> "serving", next |-> 1]
    /\ before = {}

Running == main.at # "exited"

-----------------------------------------------------------------------------
(* emit                                                                    *)

\* Events below the threshold are discarded: nothing happens.
Emit(c, level) ==
    /\ Running
    /\ emitter[c] = 0
    /\ Levels[level] >= min_level
    /\ emitted < MaxEvents
    /\ emitted' = emitted + 1
    /\ emitter' = [emitter EXCEPT ![c] = emitted + 1]
    /\ UNCHANGED <<dropped, queue, worker, fate, main, before>>

put_nowait(c) ==
    /\ Running
    /\ emitter[c] # 0
    /\ IF Len(queue) < QueueSize
       THEN queue' = Append(queue, emitter[c]) /\ UNCHANGED dropped
       ELSE dropped' = dropped \cup {emitter[c]} /\ UNCHANGED queue
    /\ emitter' = [emitter EXCEPT ![c] = 0]
    /\ UNCHANGED <<emitted, worker, fate, main, before>>

-----------------------------------------------------------------------------
(* Workers and transports                                                  *)

\* The queue's get.
Get(w) ==
    /\ Running
    /\ worker[w] = NoEvent
    /\ queue # <<>>
    /\ worker' = [worker EXCEPT ![w] = [event |-> Head(queue), next |-> 1]]
    /\ queue' = Tail(queue)
    /\ UNCHANGED <<emitted, dropped, emitter, fate, main, before>>

Buffer == IF "splunk" \in DOMAIN fate
          THEN {e \in Events : fate["splunk"][e] = "buffered"} ELSE {}

\* _flush_locked: the buffer is cleared whatever becomes of the batch.
Posted(batch, outcome) ==
    [fate EXCEPT !["splunk"] =
        [e \in Events |-> IF e \in batch THEN outcome ELSE @[e]]]

\* send of the other transports: the event by itself, once; any failure, the
\* exceptions included, is logged.
SentAlone(t, e, outcome) == [fate EXCEPT ![t][e] = outcome]

\* Mutant: the event that fills the batch is left out of it.
SentLoses(t, e, outcome) ==
    IF t # "splunk" THEN SentAlone(t, e, outcome)
    ELSE IF Cardinality(Buffer) + 1 >= BatchSize
         THEN Posted(Buffer, outcome)
         ELSE [fate EXCEPT ![t][e] = "buffered"]

\* transport.send for one event.
Sent(t, e, outcome) ==
    IF t # "splunk" THEN SentAlone(t, e, outcome)
    ELSE IF Cardinality(Buffer) + 1 >= BatchSize
         THEN Posted(Buffer \cup {e}, outcome)
         ELSE [fate EXCEPT ![t][e] = "buffered"]

\* Mutant: an exception of one transport ends the loop over them.
SendRaises(w) ==
    /\ Running
    /\ worker[w].event # 0
    /\ worker[w].next <= Len(Transports)
    /\ \E outcome \in {"delivered", "failed"} :
          /\ fate' = Sent(Transports[worker[w].next], worker[w].event, outcome)
          /\ worker' = [worker EXCEPT ![w] =
                IF outcome = "failed" THEN NoEvent ELSE [@ EXCEPT !.next = @ + 1]]
    /\ UNCHANGED <<emitted, dropped, emitter, queue, main, before>>

Send(w) ==
    /\ Running
    /\ worker[w].event # 0
    /\ worker[w].next <= Len(Transports)
    /\ \E outcome \in {"delivered", "failed"} :
          fate' = Sent(Transports[worker[w].next], worker[w].event, outcome)
    /\ worker' = [worker EXCEPT ![w].next = @ + 1]
    /\ UNCHANGED <<emitted, dropped, emitter, queue, main, before>>

task_done(w) ==
    /\ Running
    /\ worker[w].event # 0
    /\ worker[w].next > Len(Transports)
    /\ worker' = [worker EXCEPT ![w] = NoEvent]
    /\ UNCHANGED <<emitted, dropped, emitter, queue, fate, main, before>>

-----------------------------------------------------------------------------
(* flush and the end of the process                                        *)

\* The events that have been emitted and not dropped.
OnTheirWay == (1..emitted) \ dropped

StartFlush ==
    /\ main.at = "serving"
    /\ main' = [at |-> "transports", next |-> 1]
    /\ before' = OnTheirWay \ Range(emitter)
    /\ UNCHANGED <<emitted, dropped, emitter, queue, worker, fate>>

\* transport.flush for each of them; only Splunk's has something to send.
FlushTransport ==
    /\ main.at = "transports"
    /\ main.next <= Len(Transports)
    /\ IF Transports[main.next] = "splunk" /\ Buffer # {}
       THEN \E outcome \in {"delivered", "failed"} :
               fate' = Posted(Buffer, outcome)
       ELSE UNCHANGED fate
    /\ main' = [main EXCEPT !.next = @ + 1]
    /\ UNCHANGED <<emitted, dropped, emitter, queue, worker, before>>

\* Mutant: flush returns when the transports are flushed.
DrainedAtOnce == TRUE

\* The loop's condition: not self._queue.empty().
Drained == queue = <<>>

\* The loop ends: the queue is empty, or the deadline has passed.
FinishFlush ==
    /\ main.at = "transports"
    /\ main.next > Len(Transports)
    /\ \/ Drained /\ main' = [main EXCEPT !.at = "flushed"]
       \/ ~Drained /\ main' = [main EXCEPT !.at = "timed_out"]
    /\ UNCHANGED <<emitted, dropped, emitter, queue, worker, fate, before>>

\* With or without a flush.
Exit ==
    /\ Running
    /\ main' = [main EXCEPT !.at = "exited"]
    /\ UNCHANGED <<emitted, dropped, emitter, queue, worker, fate, before>>

-----------------------------------------------------------------------------
WorkerStep(w) == Get(w) \/ Send(w) \/ task_done(w)

RouterNext ==
    \/ \E c \in Emitters :
          \/ \E level \in DOMAIN Levels : Emit(c, level)
          \/ put_nowait(c)
    \/ \E w \in Workers : Get(w) \/ Send(w) \/ task_done(w)
    \/ StartFlush \/ FlushTransport \/ FinishFlush \/ Exit

\* Threads that can run do run: every transport's send has a timeout, and the
\* worker loop catches what it raises.
RouterSpec == /\ RouterInit /\ [][RouterNext]_routerVars
              /\ \A w \in Workers : WF_routerVars(WorkerStep(w))

-----------------------------------------------------------------------------
(* Properties                                                              *)

\* The queue and the workers hold events that emit has counted, within the bounds.
RouterTypeOK ==
    /\ emitted \in 0..MaxEvents
    /\ dropped \subseteq 1..emitted
    /\ emitter \in [Emitters -> 0..emitted]
    /\ queue \in Seq(1..emitted) /\ Len(queue) <= QueueSize
    /\ worker \in [Workers -> [event : 0..emitted, next : 1..(Len(Transports) + 1)]]
    /\ fate \in [ToSet(Transports) -> [Events -> Fates]]
    /\ main.at \in {"serving", "transports", "flushed", "timed_out", "exited"}
    /\ before \subseteq 1..emitted

InHand == {worker[w].event : w \in Workers} \ {0}

\* Transport number k of the list has been handed event e.
Handed(k, e) == fate[Transports[k]][e] # "none"

\* The router's own books, while the process runs: no event is forgotten and none is
\* handed over twice.  Every event counted by emit is in exactly one place - with the
\* emitter, dropped, queued, held by one worker, or done - and has been handed to
\* exactly the transports that place implies.  It says nothing of the sends: an event
\* that was dropped, or whose send failed, is accounted for and not delivered.
NothingVanishes ==
    \A e \in 1..emitted :
        LET places == Cardinality({c \in Emitters : emitter[c] = e})
                      + Cardinality({n \in DOMAIN queue : queue[n] = e})
                      + Cardinality({w \in Workers : worker[w].event = e})
        IN  /\ e \in dropped => places = 0
            /\ places <= 1
            /\ \A k \in DOMAIN Transports :
                  Handed(k, e) <=>
                    \/ places = 0 /\ e \notin dropped
                    \/ \E w \in Workers : worker[w].event = e /\ worker[w].next > k

\* What holds of the router whatever the threads do: the types, and one place for
\* every event.
RouterInv == RouterTypeOK /\ NothingVanishes

\* "Call flush() on graceful shutdown to drain the queue."  What flush() leaves
\* undelivered when it returns in time: of the events queued when it was
\* called, only those the workers hold and those that have come into Splunk's
\* buffer since it was flushed, which are less than a batch.
FlushLeavesLittle ==
    main.at = "flushed" =>
        /\ Cardinality(Buffer) < BatchSize
        /\ \A t \in ToSet(Transports) : \A e \in before :
              fate[t][e] \in {"none", "buffered"} => e \in InHand \cup Buffer

\* While the process runs, every event that got into the queue is taken out
\* and handed to every transport: workers do not block each other, and the
\* queue is taken in order.
EveryEventHandled ==
    \A e \in Events :
        (e \in Range(queue)) ~>
            (~Running \/ \A k \in DOMAIN Transports : Handed(k, e))
=============================================================================
