------------------------ MODULE PrepaidAccountProofs ------------------------
(***************************************************************************)
(* The prepaid account keeps its books for every number of workspaces and  *)
(* concurrent calls, every maximal cost and every set of top-ups.  All     *)
(* three invariants are inductive together with TypeOK.                    *)
(***************************************************************************)
EXTENDS PrepaidAccount, FiniteSetTheorems, TLAPS

\* The type invariant of the account.
THEOREM TypeCorrect == AccountAssumption => (Spec => []TypeOK)
<1> SUFFICES ASSUME AccountAssumption PROVE Spec => []TypeOK
  OBVIOUS
<1> USE DEF AccountAssumption
<1>1. Init => TypeOK
  BY DEF Init, TypeOK
<1>2. TypeOK /\ [Next]_vars => TypeOK'
  <2> SUFFICES ASSUME TypeOK, [Next]_vars PROVE TypeOK'
    OBVIOUS
  <2> USE DEF TypeOK
  <2>1. CASE \E r \in Requests, w \in Workspaces : Authorise(r, w)
    BY <2>1 DEF Authorise
  <2>2. CASE \E r \in Requests, c \in 0..MaxCost : Settle(r, c)
    <3>1. PICK r \in Requests, c \in 0..MaxCost : Settle(r, c)
      BY <2>2
    <3>2. c \in Int /\ open[r] \in Workspaces
      BY <3>1 DEF Settle
    <3> QED BY <3>1, <3>2 DEF Settle
  <2>3. CASE \E S \in SUBSET Requests : Release(S)
    BY <2>3 DEF Release
  <2>4. CASE \E w \in Workspaces, a \in Credits : Credit(w, a)
    <3>1. PICK w \in Workspaces, a \in Credits : Credit(w, a)
      BY <2>4
    <3>2. a \in Int
      OBVIOUS
    <3> QED BY <3>1, <3>2 DEF Credit
  <2>5. CASE UNCHANGED vars
    BY <2>5 DEF vars
  <2> QED BY <2>1, <2>2, <2>3, <2>4, <2>5 DEF Next
<1> QED BY <1>1, <1>2, PTL DEF Spec

\* The balance of an account never drifts from its ledger.
THEOREM BalancedAlways == AccountAssumption => (Spec => []Balanced)
<1> SUFFICES ASSUME AccountAssumption PROVE Spec => []Balanced
  OBVIOUS
<1> USE DEF AccountAssumption
<1>1. Init => Balanced
  BY DEF Init, Balanced
<1>2. TypeOK /\ Balanced /\ [Next]_vars => Balanced'
  <2> SUFFICES ASSUME TypeOK, Balanced, [Next]_vars PROVE Balanced'
    OBVIOUS
  <2> USE DEF TypeOK, Balanced
  <2>1. CASE \E r \in Requests, w \in Workspaces : Authorise(r, w)
    BY <2>1 DEF Authorise
  <2>2. CASE \E r \in Requests, c \in 0..MaxCost : Settle(r, c)
    <3>1. PICK r \in Requests, c \in 0..MaxCost : Settle(r, c)
      BY <2>2
    <3>2. c \in Int /\ open[r] \in Workspaces
      BY <3>1 DEF Settle
    <3> QED BY <3>1, <3>2 DEF Settle
  <2>3. CASE \E S \in SUBSET Requests : Release(S)
    BY <2>3 DEF Release
  <2>4. CASE \E w \in Workspaces, a \in Credits : Credit(w, a)
    <3>1. PICK w \in Workspaces, a \in Credits : Credit(w, a)
      BY <2>4
    <3>2. a \in Int
      OBVIOUS
    <3> QED BY <3>1, <3>2 DEF Credit
  <2>5. CASE UNCHANGED vars
    BY <2>5 DEF vars
  <2> QED BY <2>1, <2>2, <2>3, <2>4, <2>5 DEF Next
<1> QED BY <1>1, <1>2, TypeCorrect, PTL DEF Spec

-----------------------------------------------------------------------------
\* The number of handlers that do not hold an authorisation on w.
Idle(w) == Cardinality(Requests) - Cardinality(Holders(w))

\* Any set of handlers is finite, and leaves a natural number of others.
LEMMA OthersAreNat ==
    ASSUME AccountAssumption, NEW S, S \subseteq Requests
    PROVE  IsFiniteSet(S) /\ Cardinality(Requests) - Cardinality(S) \in Nat
<1>1. /\ IsFiniteSet(S)
      /\ Cardinality(S) \in Nat
      /\ Cardinality(Requests) \in Nat
      /\ Cardinality(S) <= Cardinality(Requests)
  BY AccountAssumption, FS_Subset, FS_CardinalityType DEF AccountAssumption
<1> QED BY <1>1

\* So holders are finitely many, and idle handlers a natural number.
LEMMA IdleIsNat ==
    AccountAssumption => \A w : IsFiniteSet(Holders(w)) /\ Idle(w) \in Nat
BY OthersAreNat DEF Holders, Idle

\* At the start no handler holds anything.
LEMMA IdleAtInit == AccountAssumption /\ Init => \A w \in Workspaces : Idle(w) >= 1
<1> SUFFICES ASSUME AccountAssumption, Init, NEW w \in Workspaces PROVE Idle(w) >= 1
  OBVIOUS
<1>1. Holders(w) = {}
  BY AccountAssumption DEF Init, Holders, AccountAssumption
<1>2. Cardinality(Holders(w)) = 0
  BY <1>1, FS_EmptySet
<1>3. Cardinality(Requests) \in Nat /\ Cardinality(Requests) # 0
  BY AccountAssumption, FS_CardinalityType, FS_EmptySet DEF AccountAssumption
<1> QED BY <1>2, <1>3 DEF Idle

\* Losing holders, or gaining none, does not lower the number of idle handlers.
LEMMA IdleMonotone ==
    ASSUME AccountAssumption, NEW w, Holders(w)' \subseteq Holders(w)
    PROVE  Idle(w) <= Idle(w)' /\ Idle(w)' \in Nat
<1>1. IsFiniteSet(Holders(w)) /\ Idle(w) \in Nat
  BY IdleIsNat
<1>2. /\ Cardinality(Holders(w)') \in Nat
      /\ Cardinality(Holders(w)) \in Nat
      /\ Cardinality(Holders(w)') <= Cardinality(Holders(w))
  BY <1>1, FS_Subset, FS_CardinalityType
<1>3. Cardinality(Requests) \in Nat /\ Cardinality(Requests)' = Cardinality(Requests)
  BY AccountAssumption, FS_CardinalityType DEF AccountAssumption
<1> QED BY <1>1, <1>2, <1>3 DEF Idle

\* A call that is billed is one holder less.
LEMMA IdleAfterSettle ==
    ASSUME AccountAssumption, NEW w, NEW r \in Holders(w), Holders(w)' = Holders(w) \ {r}
    PROVE  Idle(w)' = Idle(w) + 1
<1>1. IsFiniteSet(Holders(w)) /\ Idle(w) \in Nat
  BY IdleIsNat
<1>2. Cardinality(Holders(w)') = Cardinality(Holders(w)) - 1
  BY <1>1, FS_RemoveElement
<1>3. Cardinality(Holders(w)) \in Nat /\ Cardinality(Requests) \in Nat
  BY <1>1, AccountAssumption, FS_CardinalityType DEF AccountAssumption
<1> QED BY <1>2, <1>3 DEF Idle

\* A maximal cost for each of n handlers, and what one more or less of them makes.
LEMMA CostOfMore ==
    ASSUME AccountAssumption, NEW m \in Nat, NEW n \in Nat
    PROVE  MaxCost * n \in Nat /\ (m <= n => MaxCost * m <= MaxCost * n)
           /\ MaxCost * (n + 1) = MaxCost * n + MaxCost
BY AccountAssumption DEF AccountAssumption

\* The overdraft of an account is bounded by the calls that can be in progress.
THEOREM OverdraftAlways == AccountAssumption => (Spec => []Overdraft)
<1> SUFFICES ASSUME AccountAssumption PROVE Spec => []Overdraft
  OBVIOUS
<1>1. Init => Overdraft
  <2> SUFFICES ASSUME Init, NEW w \in Workspaces PROVE balance[w] > -MaxCost * Idle(w)
    BY DEF Overdraft, Idle
  <2>1. Idle(w) \in Nat /\ Idle(w) >= 1
    BY IdleIsNat, IdleAtInit
  <2>2. MaxCost * Idle(w) >= 1
    BY <2>1, CostOfMore, AccountAssumption DEF AccountAssumption
  <2>3. balance[w] \in Nat
    BY AccountAssumption DEF Init, AccountAssumption
  <2> QED BY <2>1, <2>2, <2>3, AccountAssumption DEF AccountAssumption
<1>2. TypeOK /\ Overdraft /\ [Next]_vars => Overdraft'
  <2> SUFFICES ASSUME TypeOK, Overdraft, [Next]_vars, NEW w \in Workspaces
               PROVE  balance[w]' > -MaxCost * Idle(w)'
    BY DEF Overdraft, Idle
  <2> DEFINE owed == MaxCost * Idle(w)
  <2>1. /\ Idle(w) \in Nat /\ owed \in Nat /\ MaxCost \in Nat
        /\ balance[w] \in Int /\ balance[w] > -owed
    BY IdleIsNat, CostOfMore, AccountAssumption DEF TypeOK, Overdraft, Idle, AccountAssumption
  <2>2. ASSUME Holders(w)' \subseteq Holders(w), balance[w]' >= balance[w], balance[w]' \in Int
        PROVE  balance[w]' > -MaxCost * Idle(w)'
    <3>1. Idle(w)' \in Nat /\ Idle(w) <= Idle(w)'
      BY <2>2, IdleMonotone
    <3>2. MaxCost * Idle(w)' \in Nat /\ owed <= MaxCost * Idle(w)'
      BY <2>1, <3>1, CostOfMore
    <3> QED BY <2>1, <2>2, <3>1, <3>2
  <2>3. CASE \E r \in Requests, v \in Workspaces : Authorise(r, v)
    <3>1. PICK r \in Requests, v \in Workspaces : Authorise(r, v)
      BY <2>3
    <3>2. balance[w]' = balance[w]
      BY <3>1 DEF Authorise
    <3>3. CASE v = w
      <4>1. balance[w]' > 0
        BY <3>1, <3>2, <3>3 DEF Authorise
      <4>2. Idle(w)' \in Nat
        BY OthersAreNat DEF Holders, Idle
      <4>3. MaxCost * Idle(w)' \in Nat
        BY <4>2, CostOfMore
      <4> QED BY <2>1, <3>2, <4>1, <4>2, <4>3
    <3>4. CASE v # w
      <4>1. Holders(w)' \subseteq Holders(w)
        BY <3>1, <3>4 DEF Authorise, Holders, TypeOK
      <4> QED BY <2>1, <2>2, <3>2, <4>1
    <3> QED BY <3>3, <3>4
  <2>4. CASE \E r \in Requests, c \in 0..MaxCost : Settle(r, c)
    <3>1. PICK r \in Requests, c \in 0..MaxCost : Settle(r, c)
      BY <2>4
    <3>2. CASE open[r] = w
      <4>1. balance[w]' = balance[w] - c
        BY <3>1, <3>2 DEF Settle, TypeOK
      <4>2. r \in Holders(w) /\ Holders(w)' = Holders(w) \ {r}
        BY <3>1, <3>2, AccountAssumption DEF Settle, TypeOK, Holders, AccountAssumption
      <4>3. Idle(w)' = Idle(w) + 1
        BY <4>2, IdleAfterSettle
      <4>4. MaxCost * Idle(w)' = owed + MaxCost
        BY <2>1, <4>3, CostOfMore
      <4> QED BY <2>1, <4>1, <4>3, <4>4
    <3>3. CASE open[r] # w
      <4>1. balance[w]' = balance[w]
        BY <3>1, <3>3 DEF Settle, TypeOK
      <4>2. Holders(w)' \subseteq Holders(w)
        BY <3>1, AccountAssumption DEF Settle, TypeOK, Holders, AccountAssumption
      <4> QED BY <2>1, <2>2, <4>1, <4>2
    <3> QED BY <3>2, <3>3
  <2>5. CASE \E S \in SUBSET Requests : Release(S)
    <3>1. balance[w]' = balance[w]
      BY <2>5 DEF Release
    <3>2. Holders(w)' \subseteq Holders(w)
      BY <2>5, AccountAssumption DEF Release, Holders, AccountAssumption
    <3> QED BY <2>1, <2>2, <3>1, <3>2
  <2>6. CASE \E v \in Workspaces, a \in Credits : Credit(v, a)
    <3>1. PICK v \in Workspaces, a \in Credits : Credit(v, a)
      BY <2>6
    <3>2. a \in Nat
      BY AccountAssumption DEF AccountAssumption
    <3>3. balance[w]' \in Int /\ balance[w]' >= balance[w]
      BY <2>1, <3>1, <3>2 DEF Credit, TypeOK
    <3>4. Holders(w)' \subseteq Holders(w)
      BY <3>1 DEF Credit, Holders
    <3> QED BY <2>2, <3>3, <3>4
  <2>7. CASE UNCHANGED vars
    <3>1. balance[w]' = balance[w] /\ Holders(w)' \subseteq Holders(w)
      BY <2>7 DEF vars, Holders
    <3> QED BY <2>1, <2>2, <3>1
  <2> QED BY <2>3, <2>4, <2>5, <2>6, <2>7 DEF Next
<1> QED BY <1>1, <1>2, TypeCorrect, PTL DEF Spec
=============================================================================
