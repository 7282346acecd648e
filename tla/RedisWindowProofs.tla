-------------------------- MODULE RedisWindowProofs --------------------------
(* What RedisWindow promises, for any number of handlers, any limit, any    *)
(* steps of the clock, and any number of failures and restarts.             *)
EXTENDS RedisWindow, FiniteSetTheorems, TLAPS

\* The places of w that its counter says are taken.
Counted(w) == IF count[w] <= Rpm THEN count[w] ELSE Rpm

\* A handler in allow is in the window it computed, or past it, and has no
\* verdict yet.
Behind ==
    \A h \in Handlers : stage[h] # "idle" => 60 * window[h] <= now /\ verdict[h] = "none"

\* A counter that expires does not do so before its window is over.
LivesOut == \A w \in Windows : expires[w] # Never => 60 * (w + 1) <= expires[w]

\* While a window is not over, its counter and the calls let through differ
\* only by what a restart of Redis has forgotten, and what a failure has added.
CounterTells ==
    \A w \in Windows : now < 60 * (w + 1) =>
        /\ taken[w] <= Rpm * flushes + Counted(w)
        /\ Counted(w) <= taken[w] + lost

WindowInv == TypeOK /\ Behind /\ LivesOut /\ CounterTells /\ MinuteBounded

\* The arithmetic of minutes.
LEMMA MinuteOf ==
    ASSUME NEW t \in Nat
    PROVE  /\ Minute(t) \in Nat
           /\ 60 * Minute(t) <= t
           /\ t < 60 * (Minute(t) + 1)
BY SMT DEF Minute

LEMMA MinuteIs ==
    ASSUME NEW t \in Nat, NEW m \in Nat, 60 * m <= t, t < 60 * (m + 1)
    PROVE  Minute(t) = m
BY SMT DEF Minute

LEMMA MinuteMonotone ==
    ASSUME NEW t \in 0..MaxTime
    PROVE  Minute(t) \in Windows
BY WindowAssumption, SMT DEF Minute, Windows

\* Multiples of the limit.
LEMMA OneMore ==
    ASSUME NEW n \in Nat
    PROVE  /\ Rpm * n \in Nat
           /\ Rpm * (1 + n) = Rpm * n + Rpm
           /\ Rpm * (1 + (n + 1)) = Rpm * (n + 1) + Rpm
           /\ Rpm * (n + 1) = Rpm * n + Rpm
BY WindowAssumption, SMT

-----------------------------------------------------------------------------
LEMMA WindowInvInit == Init => WindowInv
<1> SUFFICES ASSUME Init PROVE WindowInv
  OBVIOUS
<1>1. 0 \in 0..MaxTime /\ 0 \in Windows
  BY WindowAssumption, MinuteMonotone DEF Minute, Windows
<1>2. TypeOK
  BY <1>1, WindowAssumption DEF Init, TypeOK, Never
<1>3. Behind /\ LivesOut
  BY DEF Init, Behind, LivesOut
<1>4. \A w \in Windows : Counted(w) = 0 /\ taken[w] = 0
  BY WindowAssumption DEF Init, Counted
<1>5. CounterTells
  BY <1>4, OneMore, WindowAssumption DEF Init, CounterTells
<1>6. MinuteBounded
  BY <1>4, OneMore, WindowAssumption DEF Init, MinuteBounded
<1> QED BY <1>2, <1>3, <1>5, <1>6 DEF WindowInv

\* What INCR does to a counter whose window is not over, and that it keeps
\* the counters' types and their times to live.
LEMMA IncrEffect ==
    ASSUME WindowInv, NEW w \in Windows, Incr(w)
    PROVE  /\ count' \in [Windows -> 0 .. Rpm + 1]
           /\ expires' \in [Windows -> Nat \cup {Never}]
           /\ LivesOut'
           /\ \A v \in Windows \ {w} : count'[v] = count[v]
           /\ now < 60 * (w + 1) => count'[w] = Capped(count[w] + 1)
<1> USE WindowAssumption
<1>1. count[w] \in 0 .. Rpm + 1 /\ Value(w) \in 0 .. Rpm + 1
  BY DEF WindowInv, TypeOK, Value
<1>2. Capped(Value(w) + 1) \in 0 .. Rpm + 1
  BY <1>1 DEF Capped
<1>3. now < 60 * (w + 1) => ~Expired(w)
  <2>1. w \in Nat
    BY DEF Windows
  <2>2. now \in Nat /\ expires[w] \in Nat \cup {Never}
    BY DEF WindowInv, TypeOK
  <2>3. expires[w] # Never => 60 * (w + 1) <= expires[w]
    BY DEF WindowInv, LivesOut
  <2> QED BY <2>1, <2>2, <2>3 DEF Expired, Never
<1>4. count' \in [Windows -> 0 .. Rpm + 1]
  BY <1>2 DEF WindowInv, TypeOK, Incr
<1>5. expires' \in [Windows -> Nat \cup {Never}]
  BY DEF WindowInv, TypeOK, Incr
<1>6. LivesOut'
  BY DEF WindowInv, TypeOK, LivesOut, Incr
<1>7. \A v \in Windows \ {w} : count'[v] = count[v]
  BY DEF WindowInv, TypeOK, Incr
<1>8. now < 60 * (w + 1) => count'[w] = Capped(count[w] + 1)
  BY <1>3 DEF WindowInv, TypeOK, Incr, Value
<1> QED BY <1>4, <1>5, <1>6, <1>7, <1>8

\* EXPIRE comes after the beginning of the window, so the counter outlives it.
LEMMA TtlEffect ==
    ASSUME WindowInv, NEW h \in Handlers, stage[h] = "expire", SetTtl(window[h])
    PROVE  expires' \in [Windows -> Nat \cup {Never}] /\ LivesOut'
<1>1. now \in Nat /\ window[h] \in Windows /\ window[h] \in Nat
  BY WindowAssumption DEF WindowInv, TypeOK, Windows
<1>2. 60 * window[h] <= now
  BY DEF WindowInv, Behind
<1>3. expires' \in [Windows -> Nat \cup {Never}]
  BY <1>1 DEF WindowInv, TypeOK, SetTtl
<1>4. ASSUME NEW w \in Windows, expires'[w] # Never
      PROVE  60 * (w + 1) <= expires'[w]
  <2>1. expires'[w] = expires[w] \/ (w = window[h] /\ expires'[w] = now + 60)
    BY <1>1 DEF WindowInv, TypeOK, SetTtl
  <2>2. CASE expires'[w] = expires[w]
    BY <2>2, <1>4 DEF WindowInv, LivesOut
  <2>3. CASE w = window[h] /\ expires'[w] = now + 60
    BY <2>3, <1>1, <1>2
  <2> QED BY <2>1, <2>2, <2>3
<1> QED BY <1>3, <1>4 DEF LivesOut

\* A counter that gains one says that one place more is taken, unless it was
\* past the limit already.
LEMMA CountedStep ==
    ASSUME NEW c \in 0 .. Rpm + 1
    PROVE  \/ c < Rpm /\ Capped(c + 1) = c + 1 /\ WithinLimit(Capped(c + 1))
           \/ c >= Rpm /\ Capped(c + 1) = Rpm + 1 /\ ~WithinLimit(Capped(c + 1))
BY WindowAssumption DEF Capped, WithinLimit

\* The INCR of a handler that gets its answer.
LEMMA CountStep ==
    ASSUME WindowInv, NEW h \in Handlers, Count(h)
    PROVE  WindowInv'
<1> USE WindowAssumption
<1>0. PICK w \in Windows : w = window[h]
  BY DEF WindowInv, TypeOK
<1>1. /\ w = window[h] /\ w \in Nat /\ now \in Nat /\ lost \in Nat /\ flushes \in Nat
      /\ taken \in [Windows -> Nat] /\ count \in [Windows -> 0 .. Rpm + 1]
  BY <1>0 DEF WindowInv, TypeOK, Windows
<1>2. /\ Incr(w)
      /\ UNCHANGED <<now, window, lost, flushes>>
      /\ \A v \in Windows \ {w} : taken'[v] = taken[v]
      /\ taken'[w] = IF WithinLimit(count'[w]) /\ Minute(now) = w THEN taken[w] + 1 ELSE taken[w]
      /\ taken' \in [Windows -> Nat]
  BY <1>1 DEF Count
<1>3. /\ count' \in [Windows -> 0 .. Rpm + 1]
      /\ expires' \in [Windows -> Nat \cup {Never}]
      /\ LivesOut'
      /\ \A v \in Windows \ {w} : count'[v] = count[v]
      /\ now < 60 * (w + 1) => count'[w] = Capped(count[w] + 1)
  BY <1>1, <1>2, IncrEffect
<1>4. now < 60 * (w + 1) => Minute(now) = w
  <2>1. 60 * w <= now
    BY <1>1 DEF WindowInv, Behind, Count
  <2> QED BY <1>1, <2>1, MinuteIs
<1>5. now >= 60 * (w + 1) => Minute(now) # w
  BY <1>1, MinuteOf
<1>6. /\ stage' \in [Handlers -> {"idle", "incr", "expire"}]
      /\ verdict' \in [Handlers -> {"none", "allow", "deny", "error"}]
      /\ \A g \in Handlers : stage'[g] # "idle" => stage[g] # "idle" /\ verdict'[g] = verdict[g]
  BY DEF WindowInv, TypeOK, Count, GoTo, Return
<1>7. TypeOK'
  BY <1>2, <1>3, <1>6 DEF WindowInv, TypeOK
<1>8. Behind'
  BY <1>2, <1>6 DEF WindowInv, Behind
<1>9. CASE now < 60 * (w + 1)
  <2>1. \/ count[w] < Rpm /\ Counted(w)' = Counted(w) + 1 /\ taken'[w] = taken[w] + 1
        \/ Counted(w) = Rpm /\ Counted(w)' = Rpm /\ taken'[w] = taken[w]
    <3>1. count[w] \in 0 .. Rpm + 1 /\ count'[w] = Capped(count[w] + 1)
      BY <1>1, <1>3, <1>9
    <3> QED BY <3>1, <1>1, <1>2, <1>4, <1>9, CountedStep DEF Counted
  <2>2. \A v \in Windows \ {w} : Counted(v)' = Counted(v)
    BY <1>3 DEF Counted
  <2>3. \A v \in Windows : Counted(v) \in Nat
    BY <1>1 DEF Counted
  <2>4. CounterTells'
    <3>1. SUFFICES ASSUME NEW v \in Windows, now < 60 * (v + 1)
                   PROVE  /\ taken'[v] <= Rpm * flushes + Counted(v)'
                          /\ Counted(v)' <= taken'[v] + lost
      BY <1>2 DEF CounterTells
    <3>2. /\ taken[v] <= Rpm * flushes + Counted(v)
          /\ Counted(v) <= taken[v] + lost
      BY <3>1 DEF WindowInv, CounterTells
    <3>3. Rpm * flushes \in Nat /\ taken[v] \in Nat
      BY <1>1, OneMore
    <3>4. CASE v = w
      <4> DEFINE B == Rpm * flushes
      <4>1. B \in Nat /\ taken[w] \in Nat /\ lost \in Nat /\ Counted(w) \in Nat /\ Rpm \in Nat
        BY <1>1, <2>3, <3>3, <3>4
      <4>2. taken[w] <= B + Counted(w) /\ Counted(w) <= taken[w] + lost
        BY <3>2, <3>4
      <4> HIDE DEF B
      <4>3. taken'[w] <= B + Counted(w)' /\ Counted(w)' <= taken'[w] + lost
        BY <4>1, <4>2, <2>1
      <4> QED BY <4>3, <3>4 DEF B
    <3>5. CASE v # w
      BY <3>2, <3>5, <2>2, <1>2
    <3> QED BY <3>4, <3>5
  <2>5. MinuteBounded'
    <3>1. SUFFICES ASSUME NEW v \in Windows PROVE taken'[v] <= Rpm * (1 + flushes)
      BY <1>2 DEF MinuteBounded
    <3>2. taken[v] <= Rpm * (1 + flushes)
      BY DEF WindowInv, MinuteBounded
    <3>3. CASE v = w
      <4>1. taken'[w] <= Rpm * flushes + Counted(w)'
        BY <2>4, <1>9, <1>1, <1>2 DEF CounterTells
      <4>2. Counted(w)' <= Rpm /\ Counted(w)' \in Nat /\ taken'[w] \in Nat
        BY <1>1, <1>2, <1>3 DEF Counted
      <4>3. Rpm * (1 + flushes) = Rpm * flushes + Rpm /\ Rpm * flushes \in Nat
        BY <1>1, OneMore
      <4> QED BY <3>3, <4>1, <4>2, <4>3
    <3>4. CASE v # w
      BY <3>2, <3>4, <1>2
    <3> QED BY <3>3, <3>4
  <2> QED BY <1>3, <1>7, <1>8, <2>4, <2>5 DEF WindowInv
<1>10. CASE ~(now < 60 * (w + 1))
  <2>1. \A v \in Windows : taken'[v] = taken[v]
    <3>1. taken'[w] = taken[w]
      BY <1>1, <1>2, <1>5, <1>10
    <3> QED BY <1>1, <1>2, <3>1
  <2>2. CounterTells'
    <3>1. \A v \in Windows : now < 60 * (v + 1) => Counted(v)' = Counted(v)
      BY <1>3, <1>10 DEF Counted
    <3> QED BY <3>1, <2>1, <1>2 DEF WindowInv, CounterTells
  <2>3. MinuteBounded'
    BY <2>1, <1>2 DEF WindowInv, MinuteBounded
  <2> QED BY <1>3, <1>7, <1>8, <2>2, <2>3 DEF WindowInv
<1> QED BY <1>9, <1>10

\* A request that fails: its INCR may have been carried out, and is then
\* one of those that lost counts.
LEMMA LoseStep ==
    ASSUME WindowInv, NEW h \in Handlers, Lose(h)
    PROVE  WindowInv'
<1> USE WindowAssumption
<1>0. PICK w \in Windows : w = window[h]
  BY DEF WindowInv, TypeOK
<1>1. /\ w = window[h] /\ w \in Nat /\ now \in Nat /\ lost \in Nat /\ flushes \in Nat
      /\ taken \in [Windows -> Nat] /\ count \in [Windows -> 0 .. Rpm + 1]
  BY <1>0 DEF WindowInv, TypeOK, Windows
<1>2. /\ lost' = lost + 1 /\ lost' \in 0..MaxLost
      /\ UNCHANGED <<now, window, taken, flushes>>
      /\ stage' \in [Handlers -> {"idle", "incr", "expire"}]
      /\ verdict' \in [Handlers -> {"none", "allow", "deny", "error"}]
      /\ \A g \in Handlers : stage'[g] # "idle" => stage[g] # "idle" /\ verdict'[g] = verdict[g]
  BY DEF WindowInv, TypeOK, Lose, Return, GoTo
<1>3. \/ UNCHANGED redis
      \/ Incr(w)
      \/ stage[h] = "expire" /\ SetTtl(w) /\ UNCHANGED count
  BY <1>1 DEF Lose
<1>4. /\ count' \in [Windows -> 0 .. Rpm + 1]
      /\ expires' \in [Windows -> Nat \cup {Never}]
      /\ LivesOut'
  <2>1. CASE UNCHANGED redis
    BY <2>1 DEF WindowInv, TypeOK, LivesOut, redis
  <2>2. CASE Incr(w)
    BY <2>2, <1>1, IncrEffect
  <2>3. CASE stage[h] = "expire" /\ SetTtl(w) /\ UNCHANGED count
    BY <2>3, <1>1, TtlEffect
  <2> QED BY <1>3, <2>1, <2>2, <2>3
<1>5. ASSUME NEW v \in Windows, now < 60 * (v + 1)
      PROVE  Counted(v) <= Counted(v)' /\ Counted(v)' <= Counted(v) + 1
  <2>1. \/ count'[v] = count[v]
        \/ count'[v] = Capped(count[v] + 1)
    <3>1. CASE UNCHANGED redis
      BY <3>1 DEF redis
    <3>2. CASE Incr(w)
      BY <3>2, <1>1, <1>5, IncrEffect
    <3>3. CASE UNCHANGED count
      BY <3>3
    <3> QED BY <1>3, <3>1, <3>2, <3>3
  <2>2. count[v] \in 0 .. Rpm + 1
    BY <1>1
  <2> QED BY <2>1, <2>2, CountedStep DEF Counted
<1>6. CounterTells'
  <2>1. SUFFICES ASSUME NEW v \in Windows, now < 60 * (v + 1)
                 PROVE  /\ taken[v] <= Rpm * flushes + Counted(v)'
                        /\ Counted(v)' <= taken[v] + (lost + 1)
    <3>1. now' = now /\ taken' = taken /\ flushes' = flushes /\ lost' = lost + 1
      BY <1>2
    <3> QED BY <3>1 DEF CounterTells
  <2>2. /\ taken[v] <= Rpm * flushes + Counted(v)
        /\ Counted(v) <= taken[v] + lost
    BY <2>1 DEF WindowInv, CounterTells
  <2>3. Rpm * flushes \in Nat /\ taken[v] \in Nat /\ Counted(v) \in Nat /\ Counted(v)' \in Nat
    BY <1>1, <1>4, OneMore DEF Counted
  <2>4. Counted(v)' <= Counted(v) + 1
    BY <2>1, <1>5
  <2>5. Counted(v) <= Counted(v)'
    BY <2>1, <1>5
  <2> QED BY <2>2, <2>3, <2>4, <2>5, <1>1
<1>7. TypeOK'
  BY <1>1, <1>2, <1>4 DEF WindowInv, TypeOK
<1>8. Behind' /\ MinuteBounded'
  BY <1>2 DEF WindowInv, Behind, MinuteBounded
<1> QED BY <1>4, <1>6, <1>7, <1>8 DEF WindowInv

\* Every step keeps what the window knows.
LEMMA WindowInvStep == WindowInv /\ [Next]_vars => WindowInv'
<1> SUFFICES ASSUME WindowInv, [Next]_vars PROVE WindowInv'
  OBVIOUS
<1> USE WindowAssumption
<1>1. ASSUME NEW h \in Handlers, Begin(h) PROVE WindowInv'
  <2>1. now \in 0..MaxTime /\ now \in Nat
    BY DEF WindowInv, TypeOK
  <2>2. Minute(now) \in Windows /\ 60 * Minute(now) <= now
    BY <2>1, MinuteOf, MinuteMonotone
  <2>3. TypeOK'
    BY <1>1, <2>2 DEF WindowInv, TypeOK, Begin, redis, GoTo
  <2>4. Behind'
    BY <1>1, <2>2 DEF WindowInv, TypeOK, Behind, Begin, redis, GoTo
  <2>5. UNCHANGED <<now, count, expires, taken, lost, flushes>>
    BY <1>1 DEF Begin, redis
  <2> QED BY <2>3, <2>4, <2>5
      DEF WindowInv, LivesOut, CounterTells, Counted, MinuteBounded
<1>2. ASSUME NEW h \in Handlers, Count(h) PROVE WindowInv'
  BY <1>2, CountStep
<1>3. ASSUME NEW h \in Handlers, Expire(h) PROVE WindowInv'
  <2>1. expires' \in [Windows -> Nat \cup {Never}] /\ LivesOut'
    BY <1>3, TtlEffect DEF Expire
  <2>2. UNCHANGED <<now, count, window, taken, lost, flushes>>
    BY <1>3 DEF Expire
  <2>3. /\ stage' \in [Handlers -> {"idle", "incr", "expire"}]
        /\ verdict' \in [Handlers -> {"none", "allow", "deny", "error"}]
        /\ \A g \in Handlers : stage'[g] # "idle" => stage[g] # "idle" /\ verdict'[g] = verdict[g]
    BY <1>3 DEF WindowInv, TypeOK, Expire, Return, GoTo
  <2>4. TypeOK'
    BY <2>1, <2>2, <2>3 DEF WindowInv, TypeOK
  <2> QED BY <2>1, <2>2, <2>3, <2>4
      DEF WindowInv, Behind, CounterTells, Counted, MinuteBounded
<1>4. ASSUME NEW h \in Handlers, Lose(h) PROVE WindowInv'
  BY <1>4, LoseStep
<1>5. CASE Tick
  <2>1. now \in Nat /\ now' \in 0..MaxTime /\ now <= now'
    BY <1>5 DEF WindowInv, TypeOK, Tick
  <2>2. UNCHANGED <<count, expires, stage, window, verdict, taken, lost, flushes>>
    BY <1>5 DEF Tick, redis
  <2>3. TypeOK' /\ MinuteBounded'
    BY <2>1, <2>2 DEF WindowInv, TypeOK, MinuteBounded
  <2>4. Behind'
    <3>1. \A h \in Handlers : 60 * window[h] \in Nat
      BY DEF WindowInv, TypeOK, Windows
    <3> QED BY <2>1, <2>2, <3>1 DEF WindowInv, Behind
  <2>5. CounterTells'
    <3>1. \A w \in Windows : 60 * (w + 1) \in Nat
      BY DEF Windows
    <3> QED BY <2>1, <2>2, <3>1 DEF WindowInv, CounterTells, Counted
  <2> QED BY <2>2, <2>3, <2>4, <2>5 DEF WindowInv, LivesOut
<1>6. CASE Flush
  <2>1. /\ flushes \in Nat /\ lost \in Nat /\ taken \in [Windows -> Nat]
        /\ flushes' = flushes + 1 /\ flushes' \in 0..MaxFlushes
        /\ UNCHANGED <<now, stage, window, verdict, taken, lost>>
    BY <1>6 DEF WindowInv, TypeOK, Flush
  <2>2. \A w \in Windows : count'[w] = 0 /\ expires'[w] = Never /\ Counted(w)' = 0
    BY <1>6 DEF Flush, Counted
  <2>3. TypeOK'
    BY <1>6, <2>1 DEF WindowInv, TypeOK, Flush
  <2>4. Behind' /\ LivesOut'
    BY <2>1, <2>2 DEF WindowInv, Behind, LivesOut
  <2>5. ASSUME NEW w \in Windows
        PROVE  taken[w] <= Rpm * (flushes + 1) /\ taken[w] <= Rpm * (1 + (flushes + 1))
    <3>1. taken[w] <= Rpm * (1 + flushes) /\ taken[w] \in Nat
      BY <2>1 DEF WindowInv, MinuteBounded
    <3>2. /\ Rpm * (1 + flushes) = Rpm * flushes + Rpm
          /\ Rpm * (1 + (flushes + 1)) = Rpm * (flushes + 1) + Rpm
          /\ Rpm * (flushes + 1) = Rpm * flushes + Rpm
          /\ Rpm * flushes \in Nat /\ Rpm \in Nat
      BY <2>1, OneMore
    <3> QED BY <3>1, <3>2
  <2>6. MinuteBounded'
    BY <2>1, <2>5 DEF MinuteBounded
  <2>7. CounterTells'
    <3>1. \A w \in Windows : taken[w] \in Nat
      BY <2>1
    <3>2. Rpm * (flushes + 1) \in Nat
      BY <2>1, OneMore
    <3> QED BY <2>1, <2>2, <2>5, <3>1, <3>2 DEF CounterTells
  <2> QED BY <2>3, <2>4, <2>6, <2>7 DEF WindowInv
<1>7. CASE UNCHANGED vars
  BY <1>7 DEF vars, redis, WindowInv, TypeOK, Behind, LivesOut, CounterTells, Counted, MinuteBounded
<1> QED BY <1>1, <1>2, <1>3, <1>4, <1>5, <1>6, <1>7 DEF Next

\* The counter, its time to live, and the handlers in allow have their types.
THEOREM TypeCorrect == Spec => []TypeOK
BY WindowInvInit, WindowInvStep, PTL DEF Spec, WindowInv

\* Within a minute, no more calls of a key get through than its limit, for any
\* number of handlers and whatever they and Redis do; once more per restart.
THEOREM MinuteAlwaysBounded == Spec => []MinuteBounded
BY WindowInvInit, WindowInvStep, PTL DEF Spec, WindowInv

\* A call that is refused in its minute finds its counter full, and so as many
\* places taken, or lost to failures, as the limit has.
THEOREM RefusalAlwaysExplained == Spec => RefusedOnlyWhenTaken
<1> DEFINE Explained ==
      \A h \in Handlers :
          stage[h] = "incr" /\ verdict'[h] = "deny" /\ Minute(now) = window[h]
              => taken[window[h]] + lost >= Rpm
<1>1. WindowInv /\ [Next]_vars => [Explained]_vars
  <2> SUFFICES ASSUME WindowInv, Next,
                      NEW h \in Handlers,
                      stage[h] = "incr", verdict'[h] = "deny", Minute(now) = window[h]
               PROVE  taken[window[h]] + lost >= Rpm
    OBVIOUS
  <2> USE WindowAssumption
  <2>1. PICK w \in Windows : w = window[h]
    BY DEF WindowInv, TypeOK
  <2>2. /\ w \in Nat /\ now \in Nat /\ lost \in Nat /\ taken[w] \in Nat
        /\ count[w] \in 0 .. Rpm + 1 /\ now < 60 * (w + 1)
    BY <2>1, MinuteOf DEF WindowInv, TypeOK, Windows
  <2>3. verdict[h] = "none" /\ verdict \in [Handlers -> {"none", "allow", "deny", "error"}]
    BY DEF WindowInv, TypeOK, Behind
  <2>4. Count(h)
    <3>1. ASSUME NEW g \in Handlers, Begin(g) PROVE FALSE
      BY <3>1, <2>3 DEF Begin
    <3>2. ASSUME NEW g \in Handlers, Count(g) PROVE g = h
      BY <3>2, <2>3 DEF Count, Return
    <3>3. ASSUME NEW g \in Handlers, Expire(g) PROVE FALSE
      BY <3>3, <2>3 DEF Expire, Return
    <3>4. ASSUME NEW g \in Handlers, Lose(g) PROVE FALSE
      BY <3>4, <2>3 DEF Lose, Return
    <3>5. CASE Tick \/ Flush
      BY <3>5, <2>3 DEF Tick, Flush
    <3> QED BY <3>1, <3>2, <3>3, <3>4, <3>5 DEF Next
  <2>5. Incr(w) /\ ~WithinLimit(count'[w])
    BY <2>1, <2>3, <2>4 DEF Count, Return
  <2>6. count'[w] = Capped(count[w] + 1)
    BY <2>1, <2>2, <2>5, IncrEffect
  <2>7. Counted(w) = Rpm
    BY <2>2, <2>5, <2>6, CountedStep DEF Counted
  <2>8. Counted(w) <= taken[w] + lost
    BY <2>2 DEF WindowInv, CounterTells
  <2> QED BY <2>1, <2>2, <2>7, <2>8
<1> QED BY <1>1, WindowInvInit, WindowInvStep, PTL DEF Spec, RefusedOnlyWhenTaken

-----------------------------------------------------------------------------
(* Counters left without a time to live.                                   *)

LEMMA WindowsFinite == IsFiniteSet(Windows)
<1>1. Minute(MaxTime) \in Int
  BY WindowAssumption, MinuteOf
<1> QED BY <1>1, FS_Interval DEF Windows

\* A step without a failure leaves no new counter behind.
LEMMA NoNewImmortal ==
    ASSUME WindowInv, Next, ~ \E h \in Handlers : Lose(h)
    PROVE  Immortal' \subseteq Immortal
<1> USE WindowAssumption
<1> SUFFICES ASSUME NEW v \in Windows,
                    Value(v)' > 0, expires'[v] = Never,
                    \A h \in Handlers : ~(stage'[h] = "expire" /\ window'[h] = v)
             PROVE  /\ Value(v) > 0
                    /\ expires[v] = Never
                    /\ \A h \in Handlers : ~(stage[h] = "expire" /\ window[h] = v)
  BY DEF Immortal
<1>1. Value(v)' = count'[v]
  BY DEF Value, Expired
<1>2. /\ expires[v] = Never => Value(v) = count[v]
      /\ Value(v) \in 0 .. Rpm + 1 /\ v \in Nat
  BY DEF WindowInv, TypeOK, Value, Expired, Windows
<1>3. ASSUME NEW h \in Handlers, Begin(h)
      PROVE  /\ Value(v) > 0
             /\ expires[v] = Never
             /\ \A g \in Handlers : ~(stage[g] = "expire" /\ window[g] = v)
  BY <1>1, <1>2, <1>3 DEF WindowInv, TypeOK, Begin, GoTo, redis
<1>4. ASSUME NEW h \in Handlers, Count(h)
      PROVE  /\ Value(v) > 0
             /\ expires[v] = Never
             /\ \A g \in Handlers : ~(stage[g] = "expire" /\ window[g] = v)
  <2>1. \A g \in Handlers : ~(stage[g] = "expire" /\ window[g] = v)
    BY <1>4 DEF WindowInv, TypeOK, Count, GoTo, Return
  <2>2. CASE v # window[h]
    BY <2>1, <2>2, <1>1, <1>2, <1>4 DEF WindowInv, TypeOK, Count, Incr
  <2>3. CASE v = window[h]
    <3>1. count'[v] = Capped(Value(v) + 1) /\ expires'[v] = (IF Expired(v) THEN Never ELSE expires[v])
      BY <2>3, <1>4 DEF WindowInv, TypeOK, Count, Incr
    <3>2. count'[v] # 1
      BY <2>3, <1>4 DEF WindowInv, TypeOK, Count, GoTo
    <3>3. Value(v) # 0
      BY <3>1, <3>2 DEF Capped
    <3>4. ~Expired(v)
      BY <3>3 DEF Value
    <3> QED BY <2>1, <3>1, <3>3, <3>4, <1>2
  <2> QED BY <2>2, <2>3
<1>5. ASSUME NEW h \in Handlers, Expire(h)
      PROVE  /\ Value(v) > 0
             /\ expires[v] = Never
             /\ \A g \in Handlers : ~(stage[g] = "expire" /\ window[g] = v)
  <2>1. CASE v # window[h]
    BY <2>1, <1>1, <1>2, <1>5 DEF WindowInv, TypeOK, Expire, SetTtl, GoTo, Return
  <2>2. CASE v = window[h]
    <3>1. expires'[v] = IF Value(v) > 0 THEN now + 60 ELSE expires[v]
      BY <2>2, <1>5 DEF WindowInv, TypeOK, Expire, SetTtl
    <3>2. now + 60 # Never
      BY DEF WindowInv, TypeOK, Never
    <3>3. ~(Value(v) > 0) /\ expires[v] = Never
      BY <3>1, <3>2
    <3>4. count'[v] = count[v]
      BY <1>5 DEF Expire
    <3> QED BY <3>3, <3>4, <1>1, <1>2
  <2> QED BY <2>1, <2>2
<1>6. CASE Tick
  BY <1>1, <1>2, <1>6 DEF Tick, redis
<1>7. CASE Flush
  BY <1>1, <1>7 DEF Flush
<1> QED BY <1>3, <1>4, <1>5, <1>6, <1>7 DEF Next

\* A failure leaves at most the counter of its handler behind.
LEMMA OneNewImmortal ==
    ASSUME WindowInv, NEW h \in Handlers, Lose(h)
    PROVE  Immortal' \subseteq Immortal \cup {window[h]}
<1> SUFFICES ASSUME NEW v \in Windows, v # window[h],
                    Value(v)' > 0, expires'[v] = Never,
                    \A g \in Handlers : ~(stage'[g] = "expire" /\ window'[g] = v)
             PROVE  /\ Value(v) > 0
                    /\ expires[v] = Never
                    /\ \A g \in Handlers : ~(stage[g] = "expire" /\ window[g] = v)
  BY DEF Immortal
<1>1. count'[v] = count[v] /\ expires'[v] = expires[v]
  BY DEF WindowInv, TypeOK, Lose, redis, Incr, SetTtl
<1>2. Value(v) = count[v] /\ Value(v)' = count'[v]
  BY <1>1 DEF Value, Expired
<1>3. \A g \in Handlers : ~(stage[g] = "expire" /\ window[g] = v)
  BY DEF WindowInv, TypeOK, Lose, GoTo, Return
<1> QED BY <1>1, <1>2, <1>3

\* Each counter that nobody will give a time to live was left by a failure of
\* its own, for any number of handlers.
THEOREM LeaksAlwaysBounded == Spec => []LeaksBounded
<1>1. Init => LeaksBounded
  <2> SUFFICES ASSUME Init PROVE LeaksBounded
    OBVIOUS
  <2>1. Immortal = {}
    BY DEF Init, Immortal, Value
  <2> QED BY <2>1, FS_EmptySet DEF Init, LeaksBounded
<1>2. WindowInv /\ WindowInv' /\ LeaksBounded /\ [Next]_vars => LeaksBounded'
  <2> SUFFICES ASSUME WindowInv, WindowInv', LeaksBounded, [Next]_vars PROVE LeaksBounded'
    OBVIOUS
  <2>1. /\ IsFiniteSet(Immortal) /\ IsFiniteSet(Immortal')
        /\ Cardinality(Immortal) \in Nat /\ Cardinality(Immortal') \in Nat
    <3>1. Immortal \in SUBSET Windows /\ Immortal' \in SUBSET Windows
      BY DEF Immortal
    <3>2. IsFiniteSet(Immortal) /\ IsFiniteSet(Immortal')
      BY <3>1, WindowsFinite, FS_Subset
    <3> QED BY <3>2, FS_CardinalityType
  <2>2. lost \in Nat /\ Cardinality(Immortal) <= lost
    BY DEF WindowInv, TypeOK, LeaksBounded
  <2>3. ASSUME NEW h \in Handlers, Lose(h) PROVE LeaksBounded'
    <3>1. lost' = lost + 1
      BY <2>3 DEF Lose
    <3>2. /\ IsFiniteSet(Immortal \cup {window[h]})
          /\ Cardinality(Immortal \cup {window[h]}) <= Cardinality(Immortal) + 1
          /\ Cardinality(Immortal \cup {window[h]}) \in Nat
      <4>1. IsFiniteSet(Immortal \cup {window[h]})
        BY <2>1, FS_AddElement
      <4>2. Cardinality(Immortal \cup {window[h]})
              = IF window[h] \in Immortal THEN Cardinality(Immortal) ELSE Cardinality(Immortal) + 1
        BY <2>1, FS_AddElement
      <4> QED BY <2>1, <4>1, <4>2
    <3>3. Cardinality(Immortal') <= Cardinality(Immortal \cup {window[h]})
      BY <2>3, <3>2, OneNewImmortal, FS_Subset
    <3> QED BY <2>1, <2>2, <3>1, <3>2, <3>3 DEF LeaksBounded
  <2>4. CASE Next /\ ~ \E h \in Handlers : Lose(h)
    <3>1. Cardinality(Immortal') <= Cardinality(Immortal)
      BY <2>1, <2>4, NoNewImmortal, FS_Subset
    <3>2. lost' = lost
      BY <2>4 DEF Next, Begin, Count, Expire, Tick, Flush
    <3> QED BY <2>1, <2>2, <3>1, <3>2 DEF LeaksBounded
  <2>5. CASE UNCHANGED vars
    <3>1. Immortal' = Immortal /\ lost' = lost
      BY <2>5 DEF vars, redis, Immortal, Value, Expired
    <3> QED BY <2>2, <3>1 DEF LeaksBounded
  <2> QED BY <2>3, <2>4, <2>5
<1> QED BY <1>1, <1>2, WindowInvInit, WindowInvStep, PTL DEF Spec
=============================================================================
