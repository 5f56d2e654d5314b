----------------------------- MODULE RateLimiter ----------------------------
(***************************************************************************)
(* The rate limiter of a server process (rate_limit.py): a global sliding  *)
(* window, one per tenant, and one per tenant for decisions.  rate_limit() *)
(* is a synchronous dependency, which FastAPI runs in a pool of threads,   *)
(* so that checks interleave.  Every window has a lock of its own, but     *)
(* neither the making of the limiter nor that of a window has: threads     *)
(* that come first together make one each, and the last one stays.  A      *)
(* thread finds a limiter and a window once it has made one, so that it    *)
(* makes at most one of each, and is what names them here.                 *)
(*                                                                         *)
(* Time is counted in ticks, several to a second, because Retry-After is   *)
(* in whole seconds.                                                       *)
(***************************************************************************)
EXTENDS Naturals, SequencesExt

CONSTANTS Tenants, NoTenant,
          Threads, NoThread,   \* the pool's threads; None
          global_rpm, tenant_rpm, decision_rpm,
          Window,           \* 60 seconds, in ticks
          TicksPerSecond,
          MaxDelay,         \* bound: ticks that a check may take
          MaxClock,         \* bound: length of a behaviour, in ticks
          MaxRequests       \* bound: requests that come in

ASSUME RateLimiterAssumption ==
    /\ NoTenant \notin Tenants /\ NoThread \notin Threads
    /\ {global_rpm, tenant_rpm, decision_rpm} \subseteq Nat \ {0}
    /\ {Window, TicksPerSecond} \subseteq Nat \ {0}
    /\ MaxDelay \in Nat /\ MaxDelay < Window
    /\ {MaxClock, MaxRequests} \subseteq Nat

VARIABLES
    clock,
    requests,     \* requests that have come in
    limiter,      \* _limiter: the thread that made it, or None
    windows,      \* the defaultdicts of every limiter: who made the window, or None
    timestamps,   \* per window: _Window.timestamps, in the order of the lock
    thread,       \* per thread: the check it is making
    admitted,     \* per window: when requests passed, the last 60 seconds
    retryAt       \* per window: when a refused client was told to retry

made == <<limiter, windows>>
limiterVars == <<clock, requests, made, timestamps, thread, admitted, retryAt>>

-----------------------------------------------------------------------------
(* Sliding windows                                                         *)

\* The entries of the defaultdicts, and every window a thread may make: a limiter's
\* own global window, or one for an entry.
Entries == [limiter : Threads, layer : {"tenant", "write"}, tenant : Tenants]
GlobalWindow(l) == [limiter |-> l, layer |-> "global", tenant |-> NoTenant, maker |-> l]
WindowIds == {GlobalWindow(l) : l \in Threads}
             \cup [limiter : Threads, layer : {"tenant", "write"}, tenant : Tenants,
                   maker : Threads]

EntryOf(w) == [limiter |-> w.limiter, layer |-> w.layer, tenant |-> w.tenant]

Limit(w) == CASE w.layer = "global" -> global_rpm
              [] w.layer = "tenant" -> tenant_rpm
              [] w.layer = "write"  -> decision_rpm

\* "t > window_start", kept clear of negative numbers.
Fresh(ts, now) ==
    LET kept[n \in 0 .. Len(ts)] ==
          IF n = 0 THEN <<>>
          ELSE IF ts[n] + Window > now THEN Append(kept[n - 1], ts[n])
          ELSE kept[n - 1]
    IN  kept[Len(ts)]

\* Mutant: the second that int() cut off is not added.
retry_after_short(oldest, now) ==
    ((Window + oldest - now) \div TicksPerSecond) * TicksPerSecond

\* int(60 - (now - oldest)) + 1 seconds: int() drops the fraction.
retry_after(oldest, now) ==
    (((Window + oldest - now) \div TicksPerSecond) + 1) * TicksPerSecond

NoCheck == [layer |-> "idle"]
Check == [layer : {"get", "global", "tenant", "write"}, tenant : Tenants,
          action : {"read", "write"}, since : 0..MaxClock,
          limiter : Threads \cup {NoThread}, maker : Threads \cup {NoThread},
          creating : BOOLEAN]

\* The window a check has got hold of.
WindowOf(c) ==
    IF c.layer = "global" THEN GlobalWindow(c.limiter)
    ELSE [limiter |-> c.limiter, layer |-> c.layer, tenant |-> c.tenant, maker |-> c.maker]

\* The layer after this one.
NextLayer(c) ==
    CASE c.layer = "global" -> "tenant"
      [] c.layer = "tenant" /\ c.action = "write" -> "write"
      [] OTHER -> "served"

-----------------------------------------------------------------------------
(* get_limiter                                                             *)

\* A request comes in: "if _limiter is None".
StartCheck(th, tenant, action) ==
    /\ thread[th] = NoCheck
    /\ requests < MaxRequests
    /\ requests' = requests + 1
    /\ thread' = [thread EXCEPT ![th] =
          [layer |-> "get", tenant |-> tenant, action |-> action, since |-> clock,
           limiter |-> NoThread, maker |-> NoThread, creating |-> limiter = NoThread]]
    /\ UNCHANGED <<clock, made, timestamps, admitted, retryAt>>

\* "_limiter = RateLimiter()", over one that another thread has assigned meanwhile.
MakeLimiter(th) ==
    /\ thread[th].layer = "get"
    /\ thread[th].creating
    /\ limiter' = th
    /\ timestamps' = [timestamps EXCEPT ![GlobalWindow(th)] = <<>>]
    /\ thread' = [thread EXCEPT ![th].creating = FALSE]
    /\ UNCHANGED <<clock, requests, windows, admitted, retryAt>>

\* "return _limiter": the one there is now.
GetLimiter(th) ==
    /\ thread[th].layer = "get"
    /\ ~thread[th].creating
    /\ thread' = [thread EXCEPT ![th].layer = "global", ![th].limiter = limiter,
                                ![th].maker = limiter]
    /\ UNCHANGED <<clock, requests, made, timestamps, admitted, retryAt>>

-----------------------------------------------------------------------------
(* RateLimiter.check                                                       *)

\* The window of the tenant is looked up.
FindWindow(th) ==
    LET c == thread[th]
    IN  /\ c.layer \in {"tenant", "write"}
        /\ c.maker = NoThread /\ ~c.creating
        /\ thread' = [thread EXCEPT
              ![th].maker = windows[EntryOf(c)],
              ![th].creating = windows[EntryOf(c)] = NoThread]
        /\ UNCHANGED <<clock, requests, made, timestamps, admitted, retryAt>>

\* There was none: defaultdict has called _Window() and stores the result, over one
\* that another thread has stored meanwhile.
StoreWindow(th) ==
    LET c == thread[th]
    IN  /\ c.layer \in {"tenant", "write"}
        /\ c.creating
        /\ windows' = [windows EXCEPT ![EntryOf(c)] = th]
        /\ timestamps' = [timestamps EXCEPT ![WindowOf([c EXCEPT !.maker = th])] = <<>>]
        /\ thread' = [thread EXCEPT ![th].maker = th, ![th].creating = FALSE]
        /\ UNCHANGED <<clock, requests, limiter, admitted, retryAt>>

Pass(th, now, kept) ==
    LET c == thread[th]
        w == WindowOf(c)
    IN  /\ timestamps' = [timestamps EXCEPT ![w] = Append(kept, now)]
        /\ admitted' = [admitted EXCEPT ![w] = Append(Fresh(@, clock), clock)]
        /\ retryAt' = [retryAt EXCEPT ![w] = 0]
        /\ thread' = [thread EXCEPT ![th] =
              IF NextLayer(c) = "served" THEN NoCheck
              ELSE [c EXCEPT !.layer = NextLayer(c), !.maker = NoThread]]

\* HTTPException 429; what the layers before have counted stays counted.
Reject(th, now, kept) ==
    LET w == WindowOf(thread[th])
    IN  /\ timestamps' = [timestamps EXCEPT ![w] = kept]
        /\ retryAt' = [retryAt EXCEPT ![w] = now + retry_after(kept[1], now)]
        /\ thread' = [thread EXCEPT ![th] = NoCheck]
        /\ UNCHANGED admitted

\* Mutant: one request too many passes.
FullStrict(kept, w) == Len(kept) > Limit(w)

Full(kept, w) == Len(kept) >= Limit(w)

\* The clock is read before the lock is taken: now may be in the past.
count_and_check(th) ==
    LET c == thread[th]
        w == WindowOf(c)
    IN  /\ c.layer \in {"global", "tenant", "write"}
        /\ c.maker # NoThread
        /\ \E now \in c.since..clock :
              LET kept == Fresh(timestamps[w], now)
              IN  IF Full(kept, w) THEN Reject(th, now, kept)
                                   ELSE Pass(th, now, kept)
        /\ UNCHANGED <<clock, requests, made>>

-----------------------------------------------------------------------------
Tick ==
    /\ clock < MaxClock
    /\ \A th \in Threads :
          thread[th] # NoCheck => clock < thread[th].since + MaxDelay
    /\ clock' = clock + 1
    /\ UNCHANGED <<requests, made, timestamps, thread, admitted, retryAt>>

LimiterInit ==
    /\ clock = 0
    /\ requests = 0
    /\ limiter = NoThread
    /\ windows = [e \in Entries |-> NoThread]
    /\ timestamps = [w \in WindowIds |-> <<>>]
    /\ thread = [th \in Threads |-> NoCheck]
    /\ admitted = [w \in WindowIds |-> <<>>]
    /\ retryAt = [w \in WindowIds |-> 0]

LimiterNext ==
    \/ \E th \in Threads :
          \/ \E tenant \in Tenants, action \in {"read", "write"} :
                StartCheck(th, tenant, action)
          \/ MakeLimiter(th) \/ GetLimiter(th)
          \/ FindWindow(th) \/ StoreWindow(th)
          \/ count_and_check(th)
    \/ Tick

LimiterSpec == LimiterInit /\ [][LimiterNext]_limiterVars

-----------------------------------------------------------------------------
(* Properties                                                              *)

\* The limiter and its windows keep the shape rate_limit.py gives them, and no window
\* ever holds more timestamps than its limit.
LimiterTypeOK ==
    /\ clock \in 0..MaxClock
    /\ requests \in 0..MaxRequests
    /\ limiter \in Threads \cup {NoThread}
    /\ windows \in [Entries -> Threads \cup {NoThread}]
    /\ \A w \in WindowIds : /\ timestamps[w] \in Seq(0..MaxClock)
                            /\ Len(timestamps[w]) <= Limit(w)
    /\ thread \in [Threads -> Check \cup {NoCheck}]

\* No window is exceeded, measured by when requests really pass: whatever the threads'
\* order at the lock, in any stretch of 60 seconds less the time a check may take from
\* reading the clock to the lock, a window lets at most its limit of requests pass.
\* No thread makes the same window again, which would forget what it has counted.
LimitsHold ==
    \A w \in WindowIds : \A n \in DOMAIN admitted[w] :
        Cardinality({m \in 1..n :
            admitted[w][m] + (Window - MaxDelay) > admitted[w][n]}) <= Limit(w)

\* The window that stays in the place of w.
Current(w) == [w EXCEPT !.maker = windows[EntryOf(w)]]

\* Threads that come first together make a limiter, or a window of a tenant, each, and
\* let a limit of requests pass each; but only while they last: once a request has
\* passed the one that stays, nothing passes a replaced one any more but the checks that
\* were under way then, so nothing later than the time of a check.
ReplacedWindowsFade ==
    \A w \in WindowIds : \A n \in DOMAIN admitted[w] :
        /\ w.limiter # limiter =>
              \A m \in DOMAIN admitted[GlobalWindow(limiter)] :
                  admitted[w][n] <= admitted[GlobalWindow(limiter)][m] + MaxDelay
        /\ (w.layer # "global" /\ w.maker # windows[EntryOf(w)]) =>
              \A m \in DOMAIN admitted[Current(w)] :
                  admitted[w][n] <= admitted[Current(w)][m] + MaxDelay

\* What holds of the limiter whatever the threads do: the types, windows of which none
\* lets more than its limit pass, and replaced ones that are soon left.
LimiterInv == LimiterTypeOK /\ LimitsHold /\ ReplacedWindowsFade

\* The Retry-After a refused client is given is long enough: when it has
\* passed, and nobody else has taken the place meanwhile, the window that
\* refused has room, though timestamps[0] need not be the oldest.
RetryAfterSuffices ==
    \A w \in WindowIds :
        (retryAt[w] # 0 /\ clock >= retryAt[w]) =>
            ~Full(Fresh(timestamps[w], clock), w)
=============================================================================
