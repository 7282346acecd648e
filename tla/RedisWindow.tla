----------------------------- MODULE RedisWindow -----------------------------
(***************************************************************************)
(* The shared rate limiter (ratelimit.py, RedisRateLimiter): one counter   *)
(* in Redis for each API key and minute, INCRemented by every call and     *)
(* made to expire by the call that created it.  INCR and EXPIRE are two    *)
(* requests to Redis, with an await at each: handlers of any process may   *)
(* come in between, stall, or die there.                                   *)
(*                                                                         *)
(* One API key is modelled, with a positive limit: the counters of two     *)
(* keys have different names, and a key without a limit asks Redis         *)
(* nothing.  The processes' clocks (time.time) are taken to agree.  Redis  *)
(* is external: INCR creates a missing counter, a counter that has expired *)
(* is missing, and a Redis that restarts without persistence is empty.     *)
(***************************************************************************)
EXTENDS Integers, FiniteSets

CONSTANTS
    Handlers,       \* the handlers that can be in allow at the same time
    Rpm,            \* the limit of the key
    Steps,          \* by how many seconds the clock may advance
    MaxTime,        \* BOUND on the clock
    MaxLost,        \* BOUND on the requests to Redis that fail
    MaxFlushes      \* BOUND on the restarts of Redis

ASSUME WindowAssumption ==
    /\ Rpm \in Nat \ {0}
    /\ Steps \subseteq Nat \ {0}
    /\ MaxTime \in Nat /\ MaxLost \in Nat /\ MaxFlushes \in Nat

VARIABLES
    now,            \* time.time(), in seconds
    count,          \* Redis: the counter of each window, 0 when there is none
    expires,        \* Redis: when it expires
    stage, window,  \* where a handler is in allow, and the window it computed
    verdict,        \* what its last call of allow returned
    \* history
    taken,          \* the INCRs made within their own window that were let through
    lost, flushes

redis == <<count, expires>>
vars == <<now, redis, stage, window, verdict, taken, lost, flushes>>

Minute(t) == t \div 60

Windows == 0 .. Minute(MaxTime)

\* The value of expires[w] of a counter without a time to live.
Never == -1

Init ==
    /\ now = 0
    /\ count = [w \in Windows |-> 0]
    /\ expires = [w \in Windows |-> Never]
    /\ stage = [h \in Handlers |-> "idle"]
    /\ window = [h \in Handlers |-> 0]
    /\ verdict = [h \in Handlers |-> "none"]
    /\ taken = [w \in Windows |-> 0]
    /\ lost = 0
    /\ flushes = 0

GoTo(h, s) == stage' = [stage EXCEPT ![h] = s]

Return(h, v) ==
    /\ GoTo(h, "idle")
    /\ verdict' = [verdict EXCEPT ![h] = v]

\* Mutant: the minute is rounded, not cut off.
BeginRounded(h) ==
    /\ stage[h] = "idle"
    /\ window' = [window EXCEPT ![h] = Minute(now + 30)]
    /\ verdict' = [verdict EXCEPT ![h] = "none"]
    /\ GoTo(h, "incr")
    /\ UNCHANGED <<now, redis, taken, lost, flushes>>

\* allow computes the window it belongs to.
Begin(h) ==
    /\ stage[h] = "idle"
    /\ window' = [window EXCEPT ![h] = Minute(now)]
    /\ verdict' = [verdict EXCEPT ![h] = "none"]
    /\ GoTo(h, "incr")
    /\ UNCHANGED <<now, redis, taken, lost, flushes>>

Expired(w) == expires[w] # Never /\ expires[w] <= now

Value(w) == IF Expired(w) THEN 0 ELSE count[w]

\* A counter past the limit is kept just past it: every higher value means no.
Capped(n) == IF n > Rpm + 1 THEN Rpm + 1 ELSE n

\* What INCR does to the counter of w.
Incr(w) ==
    /\ count' = [count EXCEPT ![w] = Capped(Value(w) + 1)]
    /\ expires' = [expires EXCEPT ![w] = IF Expired(w) THEN Never ELSE @]

\* Mutant: the limit itself is refused.
BelowLimit(n) == n < Rpm

\* Whether the call that brought a counter to n is let through.
WithinLimit(n) == n <= Rpm

\* Mutant: the counter is told to expire by its second call, not its first.
CountExpireLate(h) ==
    LET w == window[h] IN
    /\ stage[h] = "incr"
    /\ Incr(w)
    /\ IF count'[w] = 2
         THEN GoTo(h, "expire") /\ UNCHANGED verdict
         ELSE Return(h, IF WithinLimit(count'[w]) THEN "allow" ELSE "deny")
    /\ taken' = [taken EXCEPT ![w] = IF WithinLimit(count'[w]) /\ Minute(now) = w THEN @ + 1 ELSE @]
    /\ UNCHANGED <<now, window, lost, flushes>>

\* The call that created the counter goes on to EXPIRE; any other returns.
Count(h) ==
    LET w == window[h] IN
    /\ stage[h] = "incr"
    /\ Incr(w)
    /\ IF count'[w] = 1
         THEN GoTo(h, "expire") /\ UNCHANGED verdict
         ELSE Return(h, IF WithinLimit(count'[w]) THEN "allow" ELSE "deny")
    /\ taken' = [taken EXCEPT ![w] = IF WithinLimit(count'[w]) /\ Minute(now) = w THEN @ + 1 ELSE @]
    /\ UNCHANGED <<now, window, lost, flushes>>

\* Mutant: the counter lives for half a window.
SetTtlHalf(w) == expires' = [expires EXCEPT ![w] = IF Value(w) > 0 THEN now + 30 ELSE @]

\* What EXPIRE does: nothing to a counter that is gone.
SetTtl(w) == expires' = [expires EXCEPT ![w] = IF Value(w) > 0 THEN now + 60 ELSE @]

Expire(h) ==
    /\ stage[h] = "expire"
    /\ SetTtl(window[h])
    /\ Return(h, "allow")
    /\ UNCHANGED <<now, count, window, taken, lost, flushes>>

\* The request fails, before or after Redis has carried it out, or the
\* process dies: allow raises, and the call it guards is not let through.
Lose(h) ==
    /\ lost < MaxLost
    /\ lost' = lost + 1
    /\ \/ stage[h] \in {"incr", "expire"} /\ UNCHANGED redis
       \/ stage[h] = "incr" /\ Incr(window[h])
       \/ stage[h] = "expire" /\ SetTtl(window[h]) /\ UNCHANGED count
    /\ Return(h, "error")
    /\ UNCHANGED <<now, window, taken, flushes>>

Tick ==
    /\ \E d \in Steps : now' = now + d
    /\ now' <= MaxTime
    /\ UNCHANGED <<redis, stage, window, verdict, taken, lost, flushes>>

\* Redis restarts empty.
Flush ==
    /\ flushes < MaxFlushes
    /\ flushes' = flushes + 1
    /\ count' = [w \in Windows |-> 0]
    /\ expires' = [w \in Windows |-> Never]
    /\ UNCHANGED <<now, stage, window, verdict, taken, lost>>

Next ==
    \/ \E h \in Handlers : Begin(h) \/ Count(h) \/ Expire(h) \/ Lose(h)
    \/ Tick
    \/ Flush

Spec == Init /\ [][Next]_vars

-----------------------------------------------------------------------------
TypeOK ==
    /\ now \in 0..MaxTime
    /\ count \in [Windows -> 0 .. Rpm + 1]
    /\ expires \in [Windows -> Nat \cup {Never}]
    /\ stage \in [Handlers -> {"idle", "incr", "expire"}]
    /\ window \in [Handlers -> Windows]
    /\ verdict \in [Handlers -> {"none", "allow", "deny", "error"}]
    /\ taken \in [Windows -> Nat]
    /\ lost \in 0..MaxLost
    /\ flushes \in 0..MaxFlushes

\* Within a minute no more calls get through than the limit says, whatever
\* process they come to and however INCR and EXPIRE interleave; a restart of
\* Redis gives the limit once more.  (A handler that stalls into a later
\* minute before its INCR is counted in the window it had computed.)
MinuteBounded == \A w \in Windows : taken[w] <= Rpm * (1 + flushes)

\* A call within its minute is refused only when the minute's places are
\* taken, by calls that got through or by requests that failed midway.
RefusedOnlyWhenTaken ==
    [][\A h \in Handlers :
          stage[h] = "incr" /\ verdict'[h] = "deny" /\ Minute(now) = window[h]
              => taken[window[h]] + lost >= Rpm]_vars

\* The counters that no call is going to give a time to live any more.
Immortal ==
    {w \in Windows : /\ Value(w) > 0
                     /\ expires[w] = Never
                     /\ \A h \in Handlers : ~(stage[h] = "expire" /\ window[h] = w)}

\* INCR and EXPIRE are not atomic, so a counter may be left in Redis for good,
\* but only by a failure between the two, one for each failure.
LeaksBounded == Cardinality(Immortal) <= lost
=============================================================================
