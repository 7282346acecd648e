----------------------------- MODULE TokenBucket -----------------------------
(***************************************************************************)
(* The in-memory rate limiter (ratelimit.py, InMemoryRateLimiter): one     *)
(* token bucket for each API key, in the memory of one process.  allow     *)
(* never awaits, so a call of it is one step.  A restart of the process    *)
(* forgets every bucket.                                                   *)
(*                                                                         *)
(* The code keeps tokens and seconds as floats and refills rpm / 60.0      *)
(* tokens a second.  Here the unit of tokens is a sixtieth and time is in  *)
(* whole seconds, which keeps every value an integer: a call costs 60, a   *)
(* second refills rpm, and a full bucket holds 60 * rpm.                   *)
(***************************************************************************)
EXTENDS Integers

CONSTANTS
    Keys,           \* API keys
    Rpm,            \* the limit of each key; 0 or less is no limit
    Steps,          \* by how much the clock may advance between two calls
    MaxTime,        \* BOUND on the clock
    MaxRestarts     \* BOUND on the restarts of the process

ASSUME BucketAssumption ==
    /\ Rpm \in [Keys -> Int]
    /\ Steps \subseteq Nat
    /\ MaxTime \in Nat
    /\ MaxRestarts \in Nat

VARIABLES
    now,        \* time.monotonic()
    known,      \* the keys that have a bucket
    tokens,     \* _Bucket.tokens, in sixtieths
    updated,    \* _Bucket.updated
    verdict,    \* the last answer each key got
    restarts,
    \* an observer, who may start counting at any moment
    since,      \* when it did
    granted,    \* the calls of each key allowed since
    renewed,    \* the restarts since
    lastGrant   \* when each key was last allowed a call

bucket == <<known, tokens, updated>>
observer == <<since, granted, renewed>>
vars == <<now, bucket, verdict, restarts, observer, lastGrant>>

Init ==
    /\ now = 0
    /\ known = {}
    /\ tokens = [k \in Keys |-> 0]
    /\ updated = [k \in Keys |-> 0]
    /\ verdict = [k \in Keys |-> "none"]
    /\ restarts = 0
    /\ since = 0
    /\ granted = [k \in Keys |-> 0]
    /\ renewed = 0
    /\ lastGrant = [k \in Keys |-> 0]

Grant(k) ==
    /\ verdict' = [verdict EXCEPT ![k] = "allow"]
    /\ granted' = [granted EXCEPT ![k] = @ + 1]
    /\ lastGrant' = [lastGrant EXCEPT ![k] = now]

Deny(k) ==
    /\ verdict' = [verdict EXCEPT ![k] = "deny"]
    /\ UNCHANGED <<granted, lastGrant>>

\* A key whose limit is not positive has no bucket; the observer does not
\* count its calls.
AllowUnlimited(k) ==
    /\ Rpm[k] <= 0
    /\ verdict' = [verdict EXCEPT ![k] = "allow"]
    /\ UNCHANGED <<now, bucket, restarts, observer, lastGrant>>

\* Mutant: the first call is not taken out of the new bucket.
AllowFirstFree(k) ==
    /\ Rpm[k] > 0
    /\ k \notin known
    /\ known' = known \cup {k}
    /\ tokens' = [tokens EXCEPT ![k] = 60 * Rpm[k]]
    /\ updated' = [updated EXCEPT ![k] = now]
    /\ Grant(k)
    /\ UNCHANGED <<now, restarts, since, renewed>>

\* The first call of a key finds a full bucket and takes one token of it.
AllowFirst(k) ==
    /\ Rpm[k] > 0
    /\ k \notin known
    /\ known' = known \cup {k}
    /\ tokens' = [tokens EXCEPT ![k] = 60 * (Rpm[k] - 1)]
    /\ updated' = [updated EXCEPT ![k] = now]
    /\ Grant(k)
    /\ UNCHANGED <<now, restarts, since, renewed>>

\* Mutant: a bucket may fill beyond its size.
RefilledUncapped(k) == tokens[k] + (now - updated[k]) * Rpm[k]

\* What the bucket holds once it is refilled up to now.
Refilled(k) ==
    LET full == 60 * Rpm[k]
        sum == tokens[k] + (now - updated[k]) * Rpm[k]
    IN  IF sum < full THEN sum ELSE full

\* Mutant: a denied call moves updated but does not keep the refill.
AllowNextForgetful(k) ==
    /\ Rpm[k] > 0
    /\ k \in known
    /\ updated' = [updated EXCEPT ![k] = now]
    /\ \/ /\ Refilled(k) >= 60
          /\ tokens' = [tokens EXCEPT ![k] = Refilled(k) - 60]
          /\ Grant(k)
       \/ /\ Refilled(k) < 60
          /\ Deny(k)
          /\ UNCHANGED tokens
    /\ UNCHANGED <<now, known, restarts, since, renewed>>

\* A later call refills the bucket, and takes a token if there is a whole one.
AllowNext(k) ==
    /\ Rpm[k] > 0
    /\ k \in known
    /\ updated' = [updated EXCEPT ![k] = now]
    /\ \/ /\ Refilled(k) >= 60
          /\ tokens' = [tokens EXCEPT ![k] = Refilled(k) - 60]
          /\ Grant(k)
       \/ /\ Refilled(k) < 60
          /\ tokens' = [tokens EXCEPT ![k] = Refilled(k)]
          /\ Deny(k)
    /\ UNCHANGED <<now, known, restarts, since, renewed>>

Tick ==
    /\ \E d \in Steps : now' = now + d
    /\ now' <= MaxTime
    /\ UNCHANGED <<bucket, verdict, restarts, observer, lastGrant>>

\* A new process, or the reset of the limiter.
Restart ==
    /\ restarts < MaxRestarts
    /\ restarts' = restarts + 1
    /\ renewed' = renewed + 1
    /\ known' = {}
    /\ UNCHANGED <<now, tokens, updated, verdict, since, granted, lastGrant>>

\* The observer starts anew.
Observe ==
    /\ since' = now
    /\ granted' = [k \in Keys |-> 0]
    /\ renewed' = 0
    /\ UNCHANGED <<now, bucket, verdict, restarts, lastGrant>>

Next ==
    \/ \E k \in Keys : AllowUnlimited(k) \/ AllowFirst(k) \/ AllowNext(k)
    \/ Tick
    \/ Restart
    \/ Observe

Spec == Init /\ [][Next]_vars

-----------------------------------------------------------------------------
TypeOK ==
    /\ now \in Nat
    /\ known \in SUBSET {k \in Keys : Rpm[k] > 0}
    /\ tokens \in [Keys -> Int]
    /\ \A k \in known : tokens[k] \in 0 .. 60 * Rpm[k] /\ updated[k] <= now
    /\ updated \in [Keys -> Nat]
    /\ verdict \in [Keys -> {"none", "allow", "deny"}]
    /\ restarts \in Nat
    /\ since \in 0..now
    /\ granted \in [Keys -> Nat]
    /\ renewed \in Nat
    /\ lastGrant \in [Keys -> Nat]

\* Between any two moments a key is allowed at most one full bucket of calls,
\* plus what the time between them refills, plus a full bucket for each
\* restart: in one minute without restarts, twice its limit and no more.
RateBounded ==
    \A k \in Keys : Rpm[k] > 0 =>
        60 * granted[k] <= Rpm[k] * (60 * (1 + renewed) + (now - since))

\* A denied call comes less than a refill of one token after the key was last
\* allowed one, however often the key has tried in between: a client that
\* keeps trying is not pushed back by its own refused calls.
DeniedOnlySoonAfterGrant ==
    [][\A k \in Keys :
          updated'[k] # updated[k] /\ verdict'[k] = "deny"
              => Rpm[k] * (now - lastGrant[k]) < 60]_vars
=============================================================================
