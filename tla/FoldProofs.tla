----------------------------- MODULE FoldProofs -----------------------------
(***************************************************************************)
(* What the folds that the models use compute: a sum over a finite set     *)
(* (Functions.tla), and a fold over a sequence from left to right          *)
(* (SequencesExt.tla).  Both are recursive functions on the subsets of a   *)
(* finite set, the elements being removed one by one.                      *)
(*                                                                         *)
(* The induction principles are stated for a set instead of a predicate,   *)
(* and the recursion theorem for functions instead of operators, so that   *)
(* the provers can instantiate them.                                       *)
(***************************************************************************)
EXTENDS SequencesExt, FiniteSetTheorems, TLAPS

\* Induction over the subsets of a finite set: what holds of the empty set,
\* and of a set when it holds of the set without one of its elements, holds of
\* all of them.
LEMMA SubsetInduction ==
    ASSUME NEW D, IsFiniteSet(D), NEW Q, {} \in Q,
           \A s \in SUBSET D : s # {} => \E x \in s : s \ {x} \in Q => s \in Q
    PROVE  SUBSET D \subseteq Q
<1> DEFINE T == (SUBSET D) \ Q
<1> SUFFICES ASSUME T # {} PROVE FALSE
  OBVIOUS
<1>1. T \subseteq FiniteSubsetsOf(D)
  BY FS_Subset DEF FiniteSubsetsOf
<1>2. IsWellFoundedOn(StrictSubsetOrdering(D), FiniteSubsetsOf(D))
  BY FS_StrictSubsetOrderingWellFounded
<1>3. PICK s \in T : \A t \in T : <<t, s>> \notin StrictSubsetOrdering(D)
  BY <1>1, <1>2, WFMin
<1>4. PICK x \in s : s \ {x} \in Q => s \in Q
  OBVIOUS
<1>5. <<s \ {x}, s>> \in StrictSubsetOrdering(D)
  BY DEF StrictSubsetOrdering
<1> QED BY <1>3, <1>4, <1>5

\* h removes from each set what c picks of it and applies G to that and to what
\* it computes for the rest; for the empty set it is base.
Recurses(h, D, base, c, G) ==
    \A s \in SUBSET D : h[s] = IF s = {} THEN base ELSE G[<<c[s], h[s \ {c[s]}]>>]

\* There is such a function: it is defined for the sets with at most n
\* elements, for each n up to the number of all.
LEMMA SetRecursion ==
    ASSUME NEW D, IsFiniteSet(D), NEW V, NEW base \in V,
           NEW c, \A s \in SUBSET D : s # {} => c[s] \in s,
           NEW G \in [D \X V -> V]
    PROVE  \E h \in [SUBSET D -> V] : Recurses(h, D, base, c, G)
<1> DEFINE Next(h) == [s \in SUBSET D |-> IF s = {} THEN base ELSE G[<<c[s], h[s \ {c[s]}]>>]]
           Upto(t, h) == \A s \in SUBSET D : Cardinality(s) <= Cardinality(t) => h[s] = Next(h)[s]
           Q == {t \in SUBSET D : \E h \in [SUBSET D -> V] : Upto(t, h)}
<1>1. \A s \in SUBSET D :
        IsFiniteSet(s) /\ Cardinality(s) \in Nat /\ (Cardinality(s) = 0 <=> s = {})
  BY FS_Subset, FS_CardinalityType, FS_EmptySet
<1>2. \A s \in SUBSET D : \A x \in s :
        s \ {x} \in SUBSET D /\ Cardinality(s \ {x}) = Cardinality(s) - 1
  BY <1>1, FS_RemoveElement
<1>3. \A h \in [SUBSET D -> V] : Next(h) \in [SUBSET D -> V]
  OBVIOUS
<1>4. {} \in Q
  <2>1. [s \in SUBSET D |-> base] \in [SUBSET D -> V]
    OBVIOUS
  <2>2. Upto({}, [s \in SUBSET D |-> base])
    BY <1>1
  <2> QED BY <2>1, <2>2
<1>5. ASSUME NEW t \in SUBSET D, NEW x \in t, t \ {x} \in Q PROVE t \in Q
  <2>1. PICK h \in [SUBSET D -> V] : Upto(t \ {x}, h)
    BY <1>5
  <2>2. SUFFICES Upto(t, Next(h))
    BY <1>3
  <2>3. SUFFICES ASSUME NEW s \in SUBSET D, s # {}, Cardinality(s) <= Cardinality(t)
                 PROVE  Next(h)[s \ {c[s]}] = h[s \ {c[s]}]
    BY DEF Next
  <2>4. s \ {c[s]} \in SUBSET D /\ Cardinality(s \ {c[s]}) <= Cardinality(t \ {x})
    BY <1>1, <1>2, <2>3
  <2> QED BY <2>1, <2>4
<1>6. D \in Q
  <2> HIDE DEF Q
  <2>1. \A s \in SUBSET D : s # {} => \E x \in s : s \ {x} \in Q => s \in Q
    BY <1>5
  <2> QED BY <1>4, <2>1, SubsetInduction
<1>7. PICK h \in [SUBSET D -> V] : Upto(D, h)
  BY <1>6
<1>8. \A s \in SUBSET D : Cardinality(s) <= Cardinality(D)
  BY FS_Subset
<1> QED BY <1>7, <1>8 DEF Recurses

-----------------------------------------------------------------------------
(* Sums.                                                                   *)

First(s) == CHOOSE x \in s : TRUE

\* The function that SumFunctionOnSet(f, D) evaluates at D.
Sums(f, D) == CHOOSE h : h = [s \in SUBSET D |->
    IF s = {} THEN 0 ELSE f[First(s)] + h[s \ {First(s)}]]

\* What Sums(f, D) is applied to a set, from what it is applied to smaller ones.
Step(f, D, h) == [s \in SUBSET D |-> IF s = {} THEN 0 ELSE f[First(s)] + h[s \ {First(s)}]]

\* First picks an element.
LEMMA FirstIn == ASSUME NEW s, s # {} PROVE First(s) \in s
BY DEF First

\* Sums(f, D) is well defined.
LEMMA SumsDefined ==
    ASSUME NEW D, IsFiniteSet(D), NEW f \in [D -> Int]
    PROVE  Sums(f, D) = Step(f, D, Sums(f, D))
<1> DEFINE c == [s \in SUBSET D |-> First(s)]
           G == [p \in D \X Int |-> f[p[1]] + p[2]]
<1>1. \A s \in SUBSET D : s # {} => c[s] \in s
  BY FirstIn
<1>2. G \in [D \X Int -> Int]
  OBVIOUS
<1>3. PICK h \in [SUBSET D -> Int] : Recurses(h, D, 0, c, G)
  <2>1. 0 \in Int
    OBVIOUS
  <2> HIDE DEF c, G
  <2> QED BY <1>1, <1>2, <2>1, SetRecursion
<1>4. ASSUME NEW s \in SUBSET D PROVE h[s] = Step(f, D, h)[s]
  <2>1. CASE s = {}
    BY <1>3, <2>1 DEF Recurses, Step
  <2>2. CASE s # {}
    <3>1. First(s) \in D /\ s \ {First(s)} \in SUBSET D
      BY <2>2, FirstIn
    <3> QED BY <1>3, <2>2, <3>1 DEF Recurses, Step
  <2> QED BY <2>1, <2>2
<1>5. h = Step(f, D, h)
  BY <1>4 DEF Step
<1> QED BY <1>5 DEF Sums, Step

\* A set without elements adds up to nothing.
LEMMA SumsEmpty ==
    ASSUME NEW D, IsFiniteSet(D), NEW f \in [D -> Int]
    PROVE  Sums(f, D)[{}] = 0
BY SumsDefined DEF Step

\* Any other set adds up to its first element and the others.
LEMMA SumsRest ==
    ASSUME NEW D, IsFiniteSet(D), NEW f \in [D -> Int], NEW s \in SUBSET D, s # {}
    PROVE  Sums(f, D)[s] = f[First(s)] + Sums(f, D)[s \ {First(s)}]
<1>1. Sums(f, D)[s] = Step(f, D, Sums(f, D))[s]
  BY SumsDefined
<1> QED BY <1>1 DEF Step

\* Sums are integers.
LEMMA SumsType ==
    ASSUME NEW D, IsFiniteSet(D), NEW f \in [D -> Int], NEW s \in SUBSET D
    PROVE  Sums(f, D)[s] \in Int
<1> DEFINE Q == {t \in SUBSET D : Sums(f, D)[t] \in Int}
<1>1. {} \in Q
  BY SumsEmpty
<1>2. ASSUME NEW t \in SUBSET D, t # {}
      PROVE  \E x \in t : t \ {x} \in Q => t \in Q
  <2> DEFINE x == First(t)
  <2>1. x \in t /\ Sums(f, D)[t] = f[x] + Sums(f, D)[t \ {x}]
    BY <1>2, FirstIn, SumsRest
  <2> HIDE DEF x
  <2>2. ASSUME t \ {x} \in Q PROVE t \in Q
    <3>1. f[x] \in Int /\ Sums(f, D)[t \ {x}] \in Int
      BY <2>1, <2>2
    <3>2. Sums(f, D)[t] \in Int
      BY <2>1, <3>1
    <3> QED BY <3>2
  <2> QED BY <2>1, <2>2
<1>3. SUBSET D \subseteq Q
  <2> HIDE DEF Q
  <2> QED BY <1>1, <1>2, SubsetInduction
<1> QED BY <1>3

\* SumFunction is the value of Sums at the whole domain.
LEMMA SumIs ==
    ASSUME NEW D, NEW f \in [D -> Int]
    PROVE  SumFunction(f) = Sums(f, D)[D]
<1>1. SumFunctionOnSet(f, D) = Sums(f, D)[D]
  BY DEF SumFunctionOnSet, FoldFunctionOnSet, MapThenFoldSet, Sums, First
<1> QED BY <1>1 DEF SumFunction

\* A sum is an integer, and a natural number if its summands are.
LEMMA SumType ==
    ASSUME NEW D, IsFiniteSet(D), NEW f \in [D -> Int]
    PROVE  /\ SumFunction(f) \in Int
           /\ f \in [D -> Nat] => SumFunction(f) \in Nat
<1>1. SumFunction(f) \in Int
  BY SumsType, SumIs
<1>2. ASSUME f \in [D -> Nat] PROVE SumFunction(f) \in Nat
  <2> DEFINE Q == {s \in SUBSET D : Sums(f, D)[s] \in Nat}
  <2>1. {} \in Q
    BY SumsEmpty
  <2>2. ASSUME NEW s \in SUBSET D, s # {}
        PROVE  \E x \in s : s \ {x} \in Q => s \in Q
    <3> DEFINE x == First(s)
    <3>1. x \in s /\ Sums(f, D)[s] = f[x] + Sums(f, D)[s \ {x}]
      BY <2>2, FirstIn, SumsRest
    <3> HIDE DEF x
    <3>2. f[x] \in Nat
      BY <1>2, <3>1
    <3>3. ASSUME Sums(f, D)[s \ {x}] \in Nat PROVE Sums(f, D)[s] \in Nat
      BY <3>1, <3>2, <3>3
    <3> QED BY <3>1, <3>3
  <2>3. SUBSET D \subseteq Q
    <3> HIDE DEF Q
    <3> QED BY <2>1, <2>2, SubsetInduction
  <2>4. Sums(f, D)[D] \in Nat
    BY <2>3
  <2> QED BY <2>4, SumIs
<1> QED BY <1>1, <1>2

\* The sum of nothing but zeros is zero.
LEMMA SumOfZeros ==
    ASSUME NEW D, IsFiniteSet(D), NEW f \in [D -> Int], \A x \in D : f[x] = 0
    PROVE  SumFunction(f) = 0
<1> DEFINE Q == {s \in SUBSET D : Sums(f, D)[s] = 0}
<1>1. {} \in Q
  BY SumsEmpty
<1>2. ASSUME NEW s \in SUBSET D, s # {}
      PROVE  \E x \in s : s \ {x} \in Q => s \in Q
  <2> DEFINE x == First(s)
  <2>1. x \in s /\ Sums(f, D)[s] = f[x] + Sums(f, D)[s \ {x}]
    BY <1>2, FirstIn, SumsRest
  <2> HIDE DEF x
  <2>2. f[x] = 0
    BY <2>1
  <2>3. ASSUME Sums(f, D)[s \ {x}] = 0 PROVE Sums(f, D)[s] = 0
    BY <2>1, <2>2, <2>3
  <2> QED BY <2>1, <2>3
<1>3. SUBSET D \subseteq Q
  <2> HIDE DEF Q
  <2> QED BY <1>1, <1>2, SubsetInduction
<1>4. Sums(f, D)[D] = 0
  BY <1>3
<1> QED BY <1>4, SumIs

\* A sum changes by what one of its summands changes by.
LEMMA SumChanges ==
    ASSUME NEW D, IsFiniteSet(D), NEW f \in [D -> Int], NEW g \in [D -> Int],
           NEW q \in D, \A x \in D \ {q} : g[x] = f[x]
    PROVE  SumFunction(g) = SumFunction(f) + (g[q] - f[q])
<1> DEFINE Shift(s) == IF q \in s THEN g[q] - f[q] ELSE 0
           Q == {s \in SUBSET D : Sums(g, D)[s] = Sums(f, D)[s] + Shift(s)}
<1>1. {} \in Q
  BY SumsEmpty
<1>2. ASSUME NEW s \in SUBSET D, s # {}
      PROVE  \E x \in s : s \ {x} \in Q => s \in Q
  <2> DEFINE x == First(s)
  <2>1. /\ x \in s
        /\ Sums(f, D)[s] = f[x] + Sums(f, D)[s \ {x}]
        /\ Sums(g, D)[s] = g[x] + Sums(g, D)[s \ {x}]
    BY <1>2, FirstIn, SumsRest
  <2>2. Sums(f, D)[s \ {x}] \in Int /\ Sums(g, D)[s \ {x}] \in Int
    BY SumsType
  <2> HIDE DEF x
  <2>3. ASSUME Sums(g, D)[s \ {x}] = Sums(f, D)[s \ {x}] + Shift(s \ {x})
        PROVE  Sums(g, D)[s] = Sums(f, D)[s] + Shift(s)
    <3>1. f[x] \in Int /\ g[x] \in Int /\ f[q] \in Int /\ g[q] \in Int
      BY <2>1
    <3>2. CASE x = q
      BY <2>1, <2>2, <2>3, <3>1, <3>2
    <3>3. CASE x # q
      <4>1. g[x] = f[x] /\ Shift(s) = Shift(s \ {x}) /\ Shift(s) \in Int
        BY <2>1, <3>1, <3>3
      <4> HIDE DEF Shift
      <4> QED BY <2>1, <2>2, <2>3, <3>1, <4>1
    <3> QED BY <3>2, <3>3
  <2> QED BY <2>1, <2>3
<1>3. SUBSET D \subseteq Q
  <2> HIDE DEF Q
  <2> QED BY <1>1, <1>2, SubsetInduction
<1>4. Sums(g, D)[D] = Sums(f, D)[D] + (g[q] - f[q])
  BY <1>3
<1> QED BY <1>4, SumIs

-----------------------------------------------------------------------------
(* Folds over sequences.                                                   *)

\* A set of finitely many numbers has a largest and a smallest one.
LEMMA MaxMin ==
    ASSUME NEW n \in Nat, NEW s \in SUBSET (1..n), s # {}
    PROVE  /\ Max(s) \in s /\ \A i \in s : i <= Max(s)
           /\ Min(s) \in s /\ \A i \in s : Min(s) <= i
<1> DEFINE D == 1..n
           Q == {t \in SUBSET D : t # {} => /\ \E m \in t : \A i \in t : m >= i
                                            /\ \E m \in t : \A i \in t : m <= i}
<1>1. IsFiniteSet(D) /\ D \subseteq Int
  BY FS_Interval
<1>2. {} \in Q
  OBVIOUS
<1>3. ASSUME NEW t \in SUBSET D, NEW x \in t, t \ {x} \in Q PROVE t \in Q
  <2>1. CASE t = {x}
    BY <1>1, <2>1
  <2>2. CASE t # {x}
    <3>1. PICK lo \in t \ {x}, hi \in t \ {x} : \A i \in t \ {x} : lo <= i /\ hi >= i
      BY <1>3, <2>2
    <3>2. x \in Int /\ lo \in Int /\ hi \in Int /\ \A i \in t : i \in Int
      BY <1>1
    <3> HIDE DEF D
    <3>3. \E m \in t : \A i \in t : m >= i
      BY <3>1, <3>2
    <3>4. \E m \in t : \A i \in t : m <= i
      BY <3>1, <3>2
    <3> QED BY <3>3, <3>4
  <2> QED BY <2>1, <2>2
<1>4. SUBSET D \subseteq Q
  <2>1. \A t \in SUBSET D : t # {} => \E x \in t : t \ {x} \in Q => t \in Q
    BY <1>3
  <2> HIDE DEF D, Q
  <2> QED BY ONLY <1>1, <1>2, <2>1, SubsetInduction
<1>5. /\ \E m \in s : \A i \in s : m >= i
      /\ \E m \in s : \A i \in s : m <= i
  BY <1>4
<1> QED BY <1>1, <1>5 DEF Max, Min

\* h is the function that a fold over s from left to right, with Op and from base
\* in V on, evaluates at the indices of s: it removes the last index first.
Folds(h, s, base, Op, L, V) ==
    /\ s \in Seq(L) /\ base \in V /\ Op \in [V \X L -> V]
    /\ \A t \in SUBSET (1..Len(s)) :
           h[t] = IF t = {} THEN base ELSE Op[<<h[t \ {Max(t)}], s[Max(t)]>>]

\* There is one.
LEMMA FoldDefined ==
    ASSUME NEW L, NEW V, NEW base \in V, NEW s \in Seq(L), NEW Op \in [V \X L -> V]
    PROVE  \E h \in [SUBSET (1..Len(s)) -> V] : Folds(h, s, base, Op, L, V)
<1> DEFINE D == 1..Len(s)
           c == [t \in SUBSET D |-> Max(t)]
           G == [p \in D \X V |-> Op[<<p[2], s[p[1]]>>]]
<1>1. IsFiniteSet(D)
  BY FS_Interval
<1>2. G \in [D \X V -> V]
  OBVIOUS
<1>3. \A t \in SUBSET D : t # {} => c[t] \in t
  <2>1. Len(s) \in Nat
    OBVIOUS
  <2> QED BY <2>1, MaxMin
<1>4. \E h \in [SUBSET D -> V] : Recurses(h, D, base, c, G)
  <2> HIDE DEF D, G, c
  <2> QED BY ONLY <1>1, <1>2, <1>3, base \in V, SetRecursion
<1>5. PICK h \in [SUBSET D -> V] : Recurses(h, D, base, c, G)
  BY <1>4
<1>6. ASSUME NEW t \in SUBSET D
      PROVE  h[t] = IF t = {} THEN base ELSE Op[<<h[t \ {Max(t)}], s[Max(t)]>>]
  <2>1. CASE t = {}
    BY <1>5, <2>1 DEF Recurses
  <2>2. CASE t # {}
    <3>1. c[t] = Max(t) /\ Max(t) \in D /\ h[t \ {Max(t)}] \in V
      BY <1>3, <2>2
    <3>2. h[t] = G[<<c[t], h[t \ {c[t]}]>>]
      BY <1>5, <2>2 DEF Recurses
    <3> QED BY <2>2, <3>1, <3>2
  <2> QED BY <2>1, <2>2
<1> QED BY <1>6 DEF Folds

\* What it computes has its type.
LEMMA FoldType ==
    ASSUME NEW L, NEW V, NEW base, NEW s, NEW Op, NEW h, Folds(h, s, base, Op, L, V)
    PROVE  \A t \in SUBSET (1..Len(s)) : h[t] \in V
<1> DEFINE D == 1..Len(s)
           Q == {t \in SUBSET D : h[t] \in V}
<1>0. s \in Seq(L) /\ base \in V /\ Op \in [V \X L -> V]
  BY DEF Folds
<1>1. IsFiniteSet(D) /\ Len(s) \in Nat
  BY <1>0, FS_Interval
<1>2. {} \in Q
  BY <1>0 DEF Folds
<1>3. ASSUME NEW t \in SUBSET D, t # {}, t \ {Max(t)} \in Q PROVE t \in Q
  <2>1. s[Max(t)] \in L
    <3>1. Max(t) \in 1..Len(s)
      BY <1>1, <1>3, MaxMin
    <3> QED BY <1>0, <3>1
  <2>2. h[t] = Op[<<h[t \ {Max(t)}], s[Max(t)]>>]
    BY <1>3 DEF Folds
  <2> QED BY <1>0, <1>3, <2>1, <2>2
<1>4. \A t \in SUBSET D : t # {} => \E i \in t : t \ {i} \in Q => t \in Q
  <2> SUFFICES ASSUME NEW t \in SUBSET D, t # {} PROVE \E i \in t : t \ {i} \in Q => t \in Q
    OBVIOUS
  <2>1. Max(t) \in t
    BY <1>1, MaxMin
  <2> HIDE DEF D, Q
  <2> QED BY <1>3, <2>1
<1>5. SUBSET D \subseteq Q
  <2> HIDE DEF D, Q
  <2> QED BY ONLY <1>1, <1>2, <1>4, SubsetInduction
<1> QED BY <1>5

\* A fold from left to right over z, which is s and one element more, is the one
\* over s, and then that element.
LEMMA FoldLast ==
    ASSUME NEW L, NEW V, NEW base, NEW Op,
           NEW s, NEW h, Folds(h, s, base, Op, L, V),
           NEW z, NEW k, Folds(k, z, base, Op, L, V),
           Len(z) = Len(s) + 1, \A i \in 1..Len(s) : z[i] = s[i]
    PROVE  k[1..Len(z)] = Op[<<h[1..Len(s)], z[Len(z)]>>]
<1> DEFINE n == Len(s)
           Q == {t \in SUBSET (1..n) : k[t] = h[t]}
<1>0. s \in Seq(L)
  BY DEF Folds
<1>1. n \in Nat /\ IsFiniteSet(1..n)
  BY <1>0, FS_Interval
<1>2. /\ \A t \in SUBSET (1..n) :
            h[t] = IF t = {} THEN base ELSE Op[<<h[t \ {Max(t)}], s[Max(t)]>>]
      /\ \A t \in SUBSET (1..(n + 1)) :
            k[t] = IF t = {} THEN base ELSE Op[<<k[t \ {Max(t)}], z[Max(t)]>>]
  BY DEF Folds
<1>3. {} \in Q
  BY <1>2
<1>4. \A t \in SUBSET (1..n) : t # {} => \E i \in t : t \ {i} \in Q => t \in Q
  <2> TAKE t \in SUBSET (1..n)
  <2> HAVE t # {}
  <2>1. t \in SUBSET (1..(n + 1))
    BY <1>1
  <2>2. Max(t) \in t
    BY <1>1, MaxMin
  <2>3. z[Max(t)] = s[Max(t)]
    <3>1. Max(t) \in 1..Len(s)
      BY <2>2
    <3> QED BY <1>0, <3>1
  <2>4. /\ h[t] = Op[<<h[t \ {Max(t)}], s[Max(t)]>>]
        /\ k[t] = Op[<<k[t \ {Max(t)}], s[Max(t)]>>]
    BY <1>2, <2>1, <2>3
  <2> QED BY <2>2, <2>4
<1>5. k[1..n] = h[1..n]
  <2> DEFINE D == 1..n
  <2>1. IsFiniteSet(D)
    BY <1>1
  <2>2. {} \in Q /\ \A t \in SUBSET D : t # {} => \E i \in t : t \ {i} \in Q => t \in Q
    BY <1>3, <1>4
  <2> HIDE DEF D, Q
  <2>3. SUBSET D \subseteq Q
    BY ONLY <2>1, <2>2, SubsetInduction
  <2> QED BY <2>3 DEF D, Q
<1>6. 1 \in 1..(n + 1) /\ 1..(n + 1) \in SUBSET (1..(n + 1))
  BY <1>1
<1>7. Max(1..(n + 1)) = n + 1
  <2>1. n + 1 \in 1..(n + 1) /\ n + 1 \in Nat
    BY <1>1
  <2>2. Max(1..(n + 1)) \in 1..(n + 1) /\ n + 1 <= Max(1..(n + 1))
    BY <1>6, <2>1, MaxMin
  <2> QED BY <1>1, <2>2
<1>8. (1..(n + 1)) \ {n + 1} = 1..n
  BY <1>1
<1>9. k[1..(n + 1)] = Op[<<k[1..n], z[n + 1]>>]
  <2> DEFINE t == 1..(n + 1)
  <2>1. t # {} /\ k[t] = Op[<<k[t \ {Max(t)}], z[Max(t)]>>]
    BY <1>2, <1>6
  <2> QED BY <1>7, <1>8, <2>1
<1> QED BY <1>5, <1>9
=============================================================================
