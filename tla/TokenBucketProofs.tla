-------------------------- MODULE TokenBucketProofs --------------------------
(***************************************************************************)
(* The in-memory limiter bounds how many calls of a key get through        *)
(* between any two moments, and refuses a call only soon after it has      *)
(* allowed one, for every set of keys and every limit.                     *)
(***************************************************************************)
EXTENDS TokenBucket, TLAPS

Limited == {k \in Keys : Rpm[k] > 0}

\* The seconds from the start of the observation to the last update of k.
Watched(k) == IF updated[k] < since THEN 0 ELSE updated[k] - since

\* What a key has been allowed and what its bucket still holds come out of the
\* full buckets it has had and the time watched.  A key without a bucket has
\* used up none of its next one.
Conserved(k) ==
    /\ k \in known =>
          /\ updated[k] < since => granted[k] = 0
          /\ 60 * granted[k] + tokens[k] <= 60 * Rpm[k] * (1 + renewed) + Rpm[k] * Watched(k)
    /\ k \notin known =>
          60 * granted[k] <= 60 * Rpm[k] * renewed + Rpm[k] * (now - since)

\* A bucket holds at least what was refilled since it last paid for a call.
Refills(k) == k \in known => tokens[k] >= Rpm[k] * (updated[k] - lastGrant[k])

BucketInv == TypeOK /\ \A k \in Limited : Conserved(k) /\ Refills(k)

-----------------------------------------------------------------------------
\* Products with a limit distribute over sums, and grow with the time.
LEMMA Products ==
    ASSUME NEW r \in Nat, NEW a \in Int, NEW b \in Int
    PROVE  /\ r * a \in Int
           /\ r * (a + b) = r * a + r * b
           /\ r * (a - b) = r * a - r * b
           /\ a <= b => r * a <= r * b
<1>1. r * a \in Int /\ r * (a + b) = r * a + r * b /\ r * (a - b) = r * a - r * b
  BY SMT
<1>2. ASSUME a <= b PROVE r * a <= r * b
  <2>1. b - a \in Nat
    BY <1>2
  <2>2. r * (b - a) \in Nat
    BY <2>1, SMT
  <2>3. r * (b - a) = r * b - r * a
    BY SMT
  <2> QED BY <2>2, <2>3, <1>1
<1> QED BY <1>1, <1>2

\* A refilled bucket holds at least what it held, at most a full bucket, and
\* either a full bucket or the whole refill.
LEMMA RefilledRange ==
    ASSUME TypeOK, NEW k \in known
    PROVE  /\ Rpm[k] \in Nat \ {0} /\ Refilled(k) \in 0 .. 60 * Rpm[k]
           /\ tokens[k] <= Refilled(k)
           /\ Refilled(k) <= tokens[k] + Rpm[k] * (now - updated[k])
           /\ \/ Refilled(k) = 60 * Rpm[k]
              \/ Refilled(k) = tokens[k] + Rpm[k] * (now - updated[k])
<1>1. /\ Rpm[k] \in Nat \ {0} /\ tokens[k] \in 0 .. 60 * Rpm[k]
      /\ now - updated[k] \in Nat
  BY BucketAssumption DEF TypeOK
<1>2. Rpm[k] * (now - updated[k]) \in Nat
  BY <1>1, SMT
<1>3. (now - updated[k]) * Rpm[k] = Rpm[k] * (now - updated[k])
  BY <1>1, SMT
<1> QED BY <1>1, <1>2, <1>3 DEF Refilled

\* The first call of a key, and every later one, keep the types.
LEMMA TypeStep == TypeOK /\ [Next]_vars => TypeOK'
<1> SUFFICES ASSUME TypeOK, [Next]_vars PROVE TypeOK'
  OBVIOUS
<1> USE DEF bucket, observer, Grant, Deny
<1>1. ASSUME NEW k \in Keys, AllowUnlimited(k) PROVE TypeOK'
  BY <1>1 DEF AllowUnlimited, TypeOK
<1>2. ASSUME NEW k \in Keys, AllowFirst(k) PROVE TypeOK'
  <2>1. Rpm[k] \in Nat \ {0} /\ 60 * (Rpm[k] - 1) \in 0 .. 60 * Rpm[k]
    BY <1>2, BucketAssumption DEF AllowFirst
  <2> QED BY <1>2, <2>1 DEF AllowFirst, TypeOK
<1>3. ASSUME NEW k \in Keys, AllowNext(k) PROVE TypeOK'
  <2>1. k \in known /\ Refilled(k) \in 0 .. 60 * Rpm[k] /\ Rpm[k] \in Nat
    BY <1>3, RefilledRange DEF AllowNext
  <2>2. \E t \in 0 .. 60 * Rpm[k] : tokens' = [tokens EXCEPT ![k] = t]
    <3>1. Refilled(k) >= 60 => Refilled(k) - 60 \in 0 .. 60 * Rpm[k]
      BY <2>1
    <3> QED BY <1>3, <2>1, <3>1 DEF AllowNext
  <2>3. /\ UNCHANGED <<now, known, restarts, since, renewed>>
        /\ updated' = [updated EXCEPT ![k] = now]
        /\ \E v \in {"allow", "deny"} : verdict' = [verdict EXCEPT ![k] = v]
        /\ granted' = [granted EXCEPT ![k] = @ + 1] \/ granted' = granted
        /\ lastGrant' = [lastGrant EXCEPT ![k] = now] \/ lastGrant' = lastGrant
    BY <1>3 DEF AllowNext
  <2> QED BY <2>1, <2>2, <2>3 DEF TypeOK
<1>4. CASE Tick
  <2>1. now' \in Nat /\ now <= now'
    BY <1>4, BucketAssumption DEF Tick, TypeOK
  <2> QED BY <1>4, <2>1 DEF Tick, TypeOK
<1>5. CASE Restart
  BY <1>5 DEF Restart, TypeOK
<1>6. CASE Observe
  BY <1>6 DEF Observe, TypeOK
<1>7. CASE UNCHANGED vars
  BY <1>7 DEF vars, TypeOK
<1> QED BY <1>1, <1>2, <1>3, <1>4, <1>5, <1>6, <1>7 DEF Next

\* A call of one key leaves the bucket of another alone.
LEMMA OtherKey ==
    ASSUME TypeOK, NEW q \in Keys, AllowFirst(q) \/ AllowNext(q),
           NEW k \in Keys, k # q, Conserved(k), Refills(k)
    PROVE  Conserved(k)' /\ Refills(k)'
<1>1. /\ UNCHANGED <<now, since, renewed>>
      /\ k \in known' <=> k \in known
      /\ tokens'[k] = tokens[k] /\ updated'[k] = updated[k]
      /\ granted'[k] = granted[k] /\ lastGrant'[k] = lastGrant[k]
  BY DEF AllowFirst, AllowNext, Grant, Deny, TypeOK
<1> QED BY <1>1 DEF Conserved, Refills, Watched

\* The first call takes one token of a full bucket.
LEMMA FirstCall ==
    ASSUME TypeOK, NEW k \in Keys, AllowFirst(k), Conserved(k)
    PROVE  Conserved(k)' /\ Refills(k)'
<1> DEFINE R == Rpm[k]
           g == granted[k]
           elapsed == now - since
<1>1. R \in Nat /\ g \in Nat /\ elapsed \in Nat /\ renewed \in Nat /\ now \in Nat
  <2>1. R \in Nat
    BY BucketAssumption DEF AllowFirst
  <2>2. g \in Nat /\ renewed \in Nat /\ now \in Nat
    BY DEF TypeOK
  <2>3. elapsed \in Nat
    BY <2>2 DEF TypeOK
  <2> QED BY <2>1, <2>2, <2>3
<1>2. /\ UNCHANGED <<now, since, renewed>>
      /\ k \in known' /\ tokens'[k] = 60 * (R - 1) /\ updated'[k] = now
      /\ granted'[k] = g + 1 /\ lastGrant'[k] = now
  BY DEF AllowFirst, Grant, TypeOK
<1>3. since <= now /\ since \in Nat
  BY DEF TypeOK
<1>4. Watched(k)' = elapsed /\ ~(updated'[k] < since')
  BY <1>1, <1>2, <1>3 DEF Watched
<1>5. 60 * g <= 60 * R * renewed + R * elapsed
  BY DEF Conserved, AllowFirst
<1>6. 60 * R * (1 + renewed) = 60 * R * renewed + 60 * R /\ R * (now - now) = 0
  BY <1>1, SMT
<1>7. R * elapsed \in Int /\ 60 * R * renewed \in Int
  BY <1>1, SMT
<1> HIDE DEF R, g, elapsed
<1>8. 60 * (g + 1) + 60 * (R - 1) <= 60 * R * (1 + renewed) + R * elapsed
  BY <1>1, <1>5, <1>6, <1>7, SMT
<1>9. 60 * (R - 1) >= 0
  BY <1>1 DEF AllowFirst, R
<1> QED BY <1>1, <1>2, <1>4, <1>6, <1>8, <1>9 DEF Conserved, Refills, R, g, elapsed

\* A later call moves into the bucket no more than was earned since the last
\* one; and a refusal keeps the whole refill.
LEMMA LaterCall ==
    ASSUME TypeOK, NEW k \in Keys, AllowNext(k), Conserved(k), Refills(k)
    PROVE  Conserved(k)' /\ Refills(k)'
<1> DEFINE R == Rpm[k]
           g == granted[k]
           t == tokens[k]
           u == updated[k]
           f == Refilled(k)
           full == 60 * R * (1 + renewed)
<1>1. R \in Nat \ {0} /\ f \in 0 .. 60 * R /\ t <= f /\ f <= t + R * (now - u)
      /\ (f = 60 * R \/ f = t + R * (now - u))
  BY RefilledRange DEF AllowNext
<1>2. /\ g \in Nat /\ renewed \in Nat /\ now \in Nat /\ since \in Nat /\ u \in Nat
      /\ t \in Int /\ lastGrant[k] \in Nat /\ since <= now /\ u <= now
  BY DEF TypeOK, AllowNext
<1>3. /\ UNCHANGED <<now, known, since, renewed>>
      /\ k \in known /\ updated'[k] = now
      /\ \/ /\ f >= 60 /\ tokens'[k] = f - 60
            /\ granted'[k] = g + 1 /\ lastGrant'[k] = now
         \/ /\ f < 60 /\ tokens'[k] = f
            /\ granted'[k] = g /\ lastGrant'[k] = lastGrant[k]
  BY DEF AllowNext, Grant, Deny, TypeOK
<1>4. /\ u < since => g = 0
      /\ 60 * g + t <= full + R * Watched(k)
      /\ t >= R * (u - lastGrant[k])
  BY <1>3 DEF Conserved, Refills
<1>5. Watched(k)' = now - since /\ ~(updated'[k] < since')
  BY <1>2, <1>3 DEF Watched
<1>6. /\ R * (now - since) \in Nat /\ R * (now - u) \in Int /\ full \in Nat
      /\ 60 * R <= full
  <2>1. now - since \in Nat /\ now - u \in Int
    BY <1>2
  <2>2. R * renewed \in Nat /\ full = 60 * R + 60 * (R * renewed)
    BY <1>1, <1>2, SMT
  <2> HIDE DEF full
  <2>3. full \in Nat /\ 60 * R <= full
    BY <2>2, <1>1
  <2>4. R * (now - since) \in Nat /\ R * (now - u) \in Int
    BY <2>1, <1>1, SMT
  <2> QED BY <2>3, <2>4
<1> HIDE DEF full
<1>7. 60 * g + f <= full + R * (now - since)
  <2>1. CASE u < since
    <3> HIDE DEF R, g, f
    <3> QED BY <1>1, <1>2, <1>4, <1>6, <2>1
  <2>2. CASE ~(u < since)
    <3>1. Watched(k) = u - since
      BY <2>2 DEF Watched
    <3>2. R * (u - since) + R * (now - u) = R * (now - since)
      BY <1>1, <1>2, SMT
    <3>3. R * (u - since) \in Int
      BY <1>1, <1>2, SMT
    <3>4. 60 * g + t <= full + R * (u - since)
      BY <1>4, <3>1
    <3> HIDE DEF R, g, f, t, u
    <3> QED BY <1>1, <1>2, <1>6, <3>2, <3>3, <3>4
  <2> QED BY <2>1, <2>2
<1>8. 60 * granted'[k] + tokens'[k] <= full + R * (now - since)
  <2> HIDE DEF R, g, f
  <2> QED BY <1>1, <1>2, <1>3, <1>6, <1>7
<1>9. Conserved(k)'
  <2>1. k \in known' /\ full = 60 * Rpm[k] * (1 + renewed')
    BY <1>3 DEF full
  <2> QED BY <1>3, <1>5, <1>8, <2>1 DEF Conserved
<1>10. tokens'[k] >= R * (updated'[k] - lastGrant'[k])
  <2>1. CASE f >= 60
    <3>1. lastGrant'[k] = now /\ tokens'[k] >= 0
      BY <1>1, <1>3, <2>1
    <3>2. R * (now - now) = 0
      BY <1>1, <1>2, SMT
    <3> QED BY <1>3, <3>1, <3>2
  <2>2. CASE f < 60
    <3>1. f = t + R * (now - u)
      BY <1>1, <2>2
    <3>2. R * (u - lastGrant[k]) + R * (now - u) = R * (now - lastGrant[k])
      BY <1>1, <1>2, SMT
    <3>3. R * (u - lastGrant[k]) \in Int /\ R * (now - lastGrant[k]) \in Int
      BY <1>1, <1>2, SMT
    <3>4. tokens'[k] = f /\ updated'[k] - lastGrant'[k] = now - lastGrant[k]
      BY <1>1, <1>3, <2>2
    <3> HIDE DEF R, f, t, u
    <3> QED BY <1>1, <1>2, <1>4, <1>6, <3>1, <3>2, <3>3, <3>4
  <2> QED BY <1>1, <2>1, <2>2
<1> QED BY <1>9, <1>10 DEF Refills

\* The clock, a restart and the observer use up nothing.
LEMMA NoCall ==
    ASSUME TypeOK, Tick \/ Restart \/ Observe, NEW k \in Limited, Conserved(k), Refills(k)
    PROVE  Conserved(k)' /\ Refills(k)'
<1> DEFINE R == Rpm[k]
           past == 60 * R * renewed
<1>1. /\ R \in Nat \ {0} /\ k \in Keys /\ granted[k] \in Nat /\ renewed \in Nat /\ now \in Nat
      /\ since \in Nat /\ since <= now /\ updated[k] \in Nat
      /\ k \in known => updated[k] <= now /\ tokens[k] \in 0 .. 60 * R
  BY BucketAssumption DEF TypeOK, Limited
<1>2. past \in Nat /\ 60 * R * (1 + renewed) = past + 60 * R
  <2>1. R * renewed \in Nat /\ past = 60 * (R * renewed)
    BY <1>1, SMT
  <2>2. 60 * R * (1 + renewed) = 60 * (R * renewed) + 60 * R
    <3> HIDE DEF R
    <3> QED BY <1>1, SMT
  <2> QED BY <2>1, <2>2
<1>3. CASE Tick
  <2>1. now <= now' /\ now' \in Nat
    BY <1>1, <1>3, BucketAssumption DEF Tick
  <2>2. R * (now - since) <= R * (now' - since)
    BY <1>1, <2>1, Products
  <2>3. R * (now - since) \in Int /\ R * (now' - since) \in Int
    BY <1>1, <2>1, Products
  <2>4. UNCHANGED <<known, tokens, updated, since, granted, renewed, lastGrant>>
    BY <1>3 DEF Tick, bucket, observer
  <2>5. 60 * granted[k] <= past + R * (now - since) => 60 * granted[k] <= past + R * (now' - since)
    <3> HIDE DEF past, R
    <3> QED BY <1>1, <1>2, <2>2, <2>3
  <2> QED BY <2>4, <2>5 DEF Conserved, Refills, Watched
<1>4. CASE Restart
  <2>1. /\ k \notin known' /\ renewed' = renewed + 1
        /\ UNCHANGED <<now, since, granted>>
    BY <1>4 DEF Restart
  <2>2. 60 * R * renewed' = past + 60 * R
    BY <1>1, <1>2, <2>1
  <2>3. R * (now - since) \in Nat
    <3>1. now - since \in Nat
      BY <1>1
    <3> QED BY <3>1, <1>1, SMT
  <2>4. k \in known => Watched(k) <= now - since /\ Watched(k) \in Int /\ now - since \in Int
    BY <1>1 DEF Watched
  <2>5. k \in known => R * Watched(k) <= R * (now - since) /\ R * Watched(k) \in Int
    BY <1>1, <2>4, Products
  <2>6. 60 * granted[k] <= past + 60 * R + R * (now - since)
    <3>1. CASE k \in known
      <4>1. 60 * granted[k] + tokens[k] <= past + 60 * R + R * Watched(k)
        BY <3>1, <1>2 DEF Conserved
      <4> HIDE DEF past, R
      <4> QED BY <1>1, <1>2, <2>3, <2>5, <3>1, <4>1
    <3>2. CASE k \notin known
      <4>1. 60 * granted[k] <= past + R * (now - since)
        BY <3>2 DEF Conserved
      <4> HIDE DEF past, R
      <4> QED BY <1>1, <1>2, <2>3, <4>1
    <3> QED BY <3>1, <3>2
  <2> QED BY <2>1, <2>2, <2>6 DEF Conserved, Refills
<1>5. CASE Observe
  <2>1. /\ since' = now /\ granted'[k] = 0 /\ renewed' = 0
        /\ UNCHANGED <<now, known, tokens, updated, lastGrant>>
    BY <1>1, <1>5 DEF Observe, bucket
  <2>2. k \in known => Watched(k)' = 0
    BY <1>1, <2>1 DEF Watched
  <2>3. R * 0 = 0 /\ 60 * R * 0 = 0 /\ 60 * R * (1 + 0) = 60 * R /\ R * (now - now) = 0
    BY <1>1, SMT
  <2>4. Conserved(k)'
    <3>1. CASE k \in known
      <4>1. /\ 60 * Rpm[k] * (1 + renewed') = 60 * R
            /\ Rpm[k] * Watched(k)' = 0
        BY <2>1, <2>2, <2>3, <3>1
      <4>2. 60 * granted'[k] + tokens'[k] <= 60 * R
        BY <1>1, <2>1, <3>1
      <4>3. 60 * R + 0 = 60 * R
        BY <1>1
      <4>4. 60 * granted'[k] + tokens'[k]
               <= 60 * Rpm[k] * (1 + renewed') + Rpm[k] * Watched(k)'
        BY <4>1, <4>2, <4>3
      <4> QED BY <2>1, <3>1, <4>4 DEF Conserved
    <3>2. CASE k \notin known
      <4>1. 60 * Rpm[k] * renewed' = 0 /\ Rpm[k] * (now' - since') = 0 /\ 60 * granted'[k] = 0
        BY <2>1, <2>3
      <4> QED BY <2>1, <3>2, <4>1 DEF Conserved
    <3> QED BY <3>1, <3>2
  <2> QED BY <2>1, <2>4 DEF Refills
<1> QED BY <1>3, <1>4, <1>5

\* Every step keeps the inductive invariant.
LEMMA BucketInvStep == BucketInv /\ [Next]_vars => BucketInv'
<1> SUFFICES ASSUME BucketInv, [Next]_vars PROVE BucketInv'
  OBVIOUS
<1>1. TypeOK /\ TypeOK'
  BY TypeStep DEF BucketInv
<1> SUFFICES ASSUME NEW k \in Limited PROVE Conserved(k)' /\ Refills(k)'
  BY <1>1 DEF BucketInv, Limited
<1>2. k \in Keys /\ Rpm[k] > 0 /\ Conserved(k) /\ Refills(k)
  BY DEF BucketInv, Limited
<1>3. ASSUME NEW q \in Keys, AllowUnlimited(q) PROVE Conserved(k)' /\ Refills(k)'
  BY <1>2, <1>3 DEF AllowUnlimited, bucket, observer, Conserved, Refills, Watched
<1>4. ASSUME NEW q \in Keys, AllowFirst(q) PROVE Conserved(k)' /\ Refills(k)'
  BY <1>1, <1>2, <1>4, FirstCall, OtherKey
<1>5. ASSUME NEW q \in Keys, AllowNext(q) PROVE Conserved(k)' /\ Refills(k)'
  BY <1>1, <1>2, <1>5, LaterCall, OtherKey
<1>6. CASE Tick \/ Restart \/ Observe
  BY <1>1, <1>2, <1>6, NoCall
<1>7. CASE UNCHANGED vars
  BY <1>2, <1>7 DEF vars, bucket, observer, Conserved, Refills, Watched
<1> QED BY <1>3, <1>4, <1>5, <1>6, <1>7 DEF Next

\* It holds at the start, when no key has a bucket.
LEMMA BucketInvInit == Init => BucketInv
<1> SUFFICES ASSUME Init PROVE BucketInv
  OBVIOUS
<1>1. TypeOK
  BY DEF Init, TypeOK
<1>2. ASSUME NEW k \in Limited PROVE Conserved(k) /\ Refills(k)
  <2>1. Rpm[k] \in Nat
    BY BucketAssumption DEF Limited
  <2>2. 60 * Rpm[k] * 0 = 0 /\ Rpm[k] * (0 - 0) = 0
    BY <2>1, SMT
  <2> QED BY <2>2 DEF Init, Conserved, Refills, Limited
<1> QED BY <1>1, <1>2 DEF BucketInv

\* A bucket always holds between nothing and its size, at times in the past.
THEOREM TypeCorrect == Spec => []TypeOK
<1>1. BucketInv => TypeOK
  BY DEF BucketInv
<1> QED BY <1>1, BucketInvInit, BucketInvStep, PTL DEF Spec

\* What is conserved bounds what was allowed.
LEMMA BoundFromInv == BucketInv => RateBounded
<1> SUFFICES ASSUME BucketInv, NEW k \in Keys, Rpm[k] > 0
             PROVE  60 * granted[k] <= Rpm[k] * (60 * (1 + renewed) + (now - since))
  BY DEF RateBounded
<1> DEFINE R == Rpm[k]
<1>1. Conserved(k)
  BY DEF BucketInv, Limited
<1>2. /\ R \in Nat \ {0} /\ granted[k] \in Nat /\ renewed \in Nat /\ now - since \in Nat
      /\ k \in known => tokens[k] \in Nat
      /\ k \in known => Watched(k) \in Nat /\ Watched(k) <= now - since
  BY BucketAssumption DEF BucketInv, TypeOK, Watched
<1>3. /\ R * (60 * (1 + renewed) + (now - since)) = 60 * R * renewed + 60 * R + R * (now - since)
      /\ 60 * R * (1 + renewed) = 60 * R * renewed + 60 * R
      /\ 60 * R * renewed \in Int /\ R * (now - since) \in Int
  BY <1>2, SMT
<1>4. k \in known => R * Watched(k) <= R * (now - since) /\ R * Watched(k) \in Int
  BY <1>2, Products
<1>5. CASE k \in known
  <2>1. 60 * granted[k] + tokens[k] <= 60 * R * renewed + 60 * R + R * Watched(k)
    BY <1>1, <1>3, <1>5 DEF Conserved
  <2> QED BY <1>2, <1>3, <1>4, <1>5, <2>1
<1>6. CASE k \notin known
  <2>1. 60 * granted[k] <= 60 * R * renewed + R * (now - since)
    BY <1>1, <1>6 DEF Conserved
  <2> QED BY <1>2, <1>3, <2>1
<1> QED BY <1>5, <1>6

\* Between any two moments a key gets through at most a full bucket of calls,
\* what the time refills, and a full bucket for each restart.
THEOREM RateAlwaysBounded == Spec => []RateBounded
BY BoundFromInv, BucketInvInit, BucketInvStep, PTL DEF Spec

\* A refusal finds less than a token in the bucket, so less than a token has
\* been refilled since the last call that was allowed.
LEMMA DenialStep ==
    BucketInv /\ [Next]_vars =>
        [\A k \in Keys : updated'[k] # updated[k] /\ verdict'[k] = "deny"
            => Rpm[k] * (now - lastGrant[k]) < 60]_vars
<1> SUFFICES ASSUME BucketInv, Next, NEW k \in Keys,
                    updated'[k] # updated[k], verdict'[k] = "deny"
             PROVE  Rpm[k] * (now - lastGrant[k]) < 60
  BY DEF vars, BucketInv, TypeOK
<1>1. TypeOK
  BY DEF BucketInv
<1>2. AllowNext(k) /\ Refilled(k) < 60
  BY <1>1 DEF Next, AllowUnlimited, AllowFirst, AllowNext, Grant, Deny, Tick, Restart, Observe,
              bucket, observer, TypeOK
<1>3. k \in known /\ tokens[k] >= Rpm[k] * (updated[k] - lastGrant[k])
  BY <1>2, BucketAssumption DEF BucketInv, Limited, Refills, AllowNext
<1>4. /\ Rpm[k] \in Nat \ {0} /\ Refilled(k) \in Int
      /\ Refilled(k) = tokens[k] + Rpm[k] * (now - updated[k])
  BY <1>1, <1>2, <1>3, RefilledRange
<1>5. /\ now \in Nat /\ updated[k] \in Nat /\ lastGrant[k] \in Nat /\ tokens[k] \in Int
  BY <1>1 DEF TypeOK
<1>6. /\ Rpm[k] * (updated[k] - lastGrant[k]) + Rpm[k] * (now - updated[k])
           = Rpm[k] * (now - lastGrant[k])
      /\ Rpm[k] * (updated[k] - lastGrant[k]) \in Int /\ Rpm[k] * (now - updated[k]) \in Int
  BY <1>4, <1>5, SMT
<1> QED BY <1>2, <1>3, <1>4, <1>5, <1>6

\* Refused calls do not push a client back.
THEOREM DenialAlwaysSoonAfterGrant == Spec => DeniedOnlySoonAfterGrant
<1>1. BucketInv /\ [Next]_vars =>
        [\A k \in Keys : updated'[k] # updated[k] /\ verdict'[k] = "deny"
            => Rpm[k] * (now - lastGrant[k]) < 60]_vars
  BY DenialStep
<1> QED BY <1>1, BucketInvInit, BucketInvStep, PTL DEF Spec, DeniedOnlySoonAfterGrant
=============================================================================
