---------------------------- MODULE StreamsProofs ----------------------------
(***************************************************************************)
(* The connection pool, for any number of handlers and any capacity: it    *)
(* hands out no more than it has, and only streams that are billing, each  *)
(* with the session of its request still open, can wait in a circle.  And  *)
(* the bill of a stream of any length, in any of the three formats: it is  *)
(* what the provider reported last in one piece.                           *)
(***************************************************************************)
EXTENDS Streams, FoldProofs

\* Who holds which connection, and where.  A stream has one of its own from
\* the start of its billing to the commit, and again from the refresh on; a
\* request keeps its own until it ends, except that the commit of the billing
\* of a plain call lets it go.
Holding ==
    /\ \A h \in fresh : Streaming(h) /\ stage[h] \in {"bill", "log"}
    /\ \A h \in request :
          IF Streaming(h) THEN HeldUntilSent /\ stage[h] \in {"receive", "bill", "refresh", "log"}
          ELSE stage[h] \in {"upstream", "bill", "log"}
    /\ \A h \in Handlers :
          /\ stage[h] = "receive" => Streaming(h)
          /\ stage[h] = "upstream" => ~Streaming(h)

\* The types of everything but what the parsers make of the lines.
HandlersOK ==
    /\ stage \in [Handlers -> {"idle", "guard", "upstream", "receive", "bill", "refresh", "log"}]
    /\ api \in [Handlers -> Apis \cup {"plain"}]
    /\ told \in [Handlers -> Nat \X Nat] /\ legible \in [Handlers -> Nat \X Nat]
    /\ request \subseteq Handlers
    /\ fresh \subseteq Handlers

IInv == HandlersOK /\ Holding /\ Free >= 0

\* Connections are counted by natural numbers.
LEMMA Counts ==
    ASSUME NEW S, S \subseteq Handlers
    PROVE  /\ IsFiniteSet(S) /\ Cardinality(S) \in Nat
           /\ \A h \in Handlers : Cardinality(S \cup {h}) <= Cardinality(S) + 1
           /\ \A T \in SUBSET S : Cardinality(T) <= Cardinality(S) /\ Cardinality(T) \in Nat
<1>1. IsFiniteSet(S) /\ Cardinality(S) \in Nat
  BY StreamsAssumption, FS_Subset, FS_CardinalityType
<1>2. ASSUME NEW h \in Handlers PROVE Cardinality(S \cup {h}) <= Cardinality(S) + 1
  <2>1. Cardinality(S) \in Nat
    BY <1>1
  <2>2. Cardinality(S \cup {h}) = IF h \in S THEN Cardinality(S) ELSE Cardinality(S) + 1
    BY <1>1, FS_AddElement
  <2> QED BY <2>1, <2>2
<1>3. ASSUME NEW T \in SUBSET S PROVE Cardinality(T) <= Cardinality(S) /\ Cardinality(T) \in Nat
  BY <1>1, FS_Subset, FS_CardinalityType
<1> QED BY <1>1, <1>2, <1>3

\* The pool is left with a natural number of connections by a step that gives
\* connections back, and by one that takes one when there is one to take.
LEMMA PoolStep ==
    ASSUME HandlersOK, HandlersOK', Free >= 0,
           \/ request' \subseteq request /\ fresh' \subseteq fresh
           \/ /\ Free > 0
              /\ \E h \in Handlers : \/ request' = request \cup {h} /\ fresh' = fresh
                                     \/ request' = request /\ fresh' = fresh \cup {h}
    PROVE  Free' >= 0
<1>1. /\ Cardinality(request) \in Nat /\ Cardinality(fresh) \in Nat
      /\ Cardinality(request') \in Nat /\ Cardinality(fresh') \in Nat
  BY Counts DEF HandlersOK
<1>2. Capacity \in Nat /\ Free = Capacity - Cardinality(request) - Cardinality(fresh)
      /\ Free' = Capacity - Cardinality(request') - Cardinality(fresh')
  BY StreamsAssumption DEF Free
<1>3. CASE request' \subseteq request /\ fresh' \subseteq fresh
  <2>1. Cardinality(request') <= Cardinality(request) /\ Cardinality(fresh') <= Cardinality(fresh)
    BY <1>3, Counts DEF HandlersOK
  <2> QED BY <1>1, <1>2, <2>1
<1>4. ASSUME Free > 0, NEW h \in Handlers, request' = request \cup {h}, fresh' = fresh
      PROVE  Free' >= 0
  <2>1. Cardinality(request') <= Cardinality(request) + 1 /\ Cardinality(fresh') = Cardinality(fresh)
    BY <1>4, Counts DEF HandlersOK
  <2> QED BY <1>1, <1>2, <1>4, <2>1
<1>5. ASSUME Free > 0, NEW h \in Handlers, request' = request, fresh' = fresh \cup {h}
      PROVE  Free' >= 0
  <2>1. Cardinality(fresh') <= Cardinality(fresh) + 1 /\ Cardinality(request') = Cardinality(request)
    BY <1>5, Counts DEF HandlersOK
  <2> QED BY <1>1, <1>2, <1>5, <2>1
<1> QED BY <1>3, <1>4, <1>5

LEMMA IInvInit == Init => IInv
<1> SUFFICES ASSUME Init PROVE IInv
  OBVIOUS
<1>1. HandlersOK /\ Holding
  BY DEF Init, HandlersOK, Holding, None, Streaming
<1>2. Free = Capacity
  <2>1. Cardinality({}) = 0
    BY FS_EmptySet
  <2> QED BY <2>1, StreamsAssumption DEF Free, Init
<1> QED BY <1>1, <1>2, StreamsAssumption DEF IInv

\* A call that ends leaves the others alone, and gives its connections back.
LEMMA FinishStep == ASSUME IInv, NEW h \in Handlers, Finish(h) PROVE IInv'
<1>1. /\ request' = request \ {h} /\ fresh' = fresh \ {h}
      /\ stage' = [stage EXCEPT ![h] = "idle"]
      /\ api' = [api EXCEPT ![h] = "plain"]
      /\ told' = [told EXCEPT ![h] = None] /\ legible' = [legible EXCEPT ![h] = None]
  BY DEF Finish, GoTo
<1>2. HandlersOK'
  BY <1>1 DEF IInv, HandlersOK, None
<1>3. Holding'
  BY <1>1 DEF IInv, HandlersOK, Holding, Streaming
<1>4. Free' >= 0
  BY <1>1, <1>2, PoolStep DEF IInv
<1> QED BY <1>2, <1>3, <1>4 DEF IInv

\* Every step preserves IInv.
LEMMA IInvStep == IInv /\ [Next]_vars => IInv'
<1> SUFFICES ASSUME IInv, [Next]_vars PROVE IInv'
  OBVIOUS
<1> USE DEF GoTo, call, pool
<1>0. HandlersOK /\ Holding /\ Free >= 0
  BY DEF IInv
<1>1. ASSUME NEW h \in Handlers, Arrive(h) PROVE IInv'
  <2>1. HandlersOK'
    BY <1>0, <1>1 DEF Arrive, HandlersOK
  <2>2. Holding'
    BY <1>0, <1>1 DEF Arrive, HandlersOK, Holding, Streaming
  <2> QED BY <1>0, <1>1, <2>1, <2>2, PoolStep DEF Arrive, IInv
<1>2. ASSUME NEW h \in Handlers, Guard(h) PROVE IInv'
  <2>1. CASE Finish(h)
    BY <2>1, FinishStep
  <2>2. CASE ~Finish(h)
    <3>1. /\ stage[h] = "guard" /\ Free > 0
          /\ request' = IF Streaming(h) /\ ~HeldUntilSent THEN request ELSE request \cup {h}
          /\ stage' = [stage EXCEPT ![h] = IF Streaming(h) THEN "receive" ELSE "upstream"]
          /\ UNCHANGED <<call, fresh>>
      BY <1>2, <2>2 DEF Guard
    <3>2. HandlersOK'
      BY <1>0, <3>1 DEF HandlersOK
    <3>3. Holding'
      BY <1>0, <3>1 DEF HandlersOK, Holding, Streaming
    <3> QED BY <1>0, <3>1, <3>2, <3>3, PoolStep DEF IInv
  <2> QED BY <2>1, <2>2
<1>3. ASSUME NEW h \in Handlers, Upstream(h) PROVE IInv'
  <2>1. CASE Finish(h)
    BY <2>1, FinishStep
  <2>2. CASE ~Finish(h)
    <3>1. /\ stage[h] = "upstream" /\ UNCHANGED <<api, pool>>
          /\ \E s \in {"bill", "log"} : stage' = [stage EXCEPT ![h] = s]
          /\ \/ UNCHANGED <<told, legible>>
             \/ \E u \in Reports \cup {None} :
                   told' = [told EXCEPT ![h] = u] /\ legible' = [legible EXCEPT ![h] = u]
      BY <1>3, <2>2 DEF Upstream
    <3>2. HandlersOK'
      <4>1. CASE UNCHANGED <<told, legible>>
        BY <1>0, <3>1, <4>1 DEF HandlersOK
      <4>2. ASSUME NEW u \in Reports \cup {None},
                   told' = [told EXCEPT ![h] = u], legible' = [legible EXCEPT ![h] = u]
            PROVE  HandlersOK'
        <5>1. u \in Nat \X Nat
          BY StreamsAssumption DEF None
        <5> QED BY <1>0, <3>1, <4>2, <5>1 DEF HandlersOK
      <4> QED BY <3>1, <4>1, <4>2
    <3>3. Holding'
      BY <1>0, <3>1 DEF HandlersOK, Holding, Streaming
    <3> QED BY <1>0, <3>1, <3>2, <3>3, PoolStep DEF IInv
  <2> QED BY <2>1, <2>2
<1>4. ASSUME NEW h \in Handlers, Receive(h) PROVE IInv'
  <2>1. HandlersOK'
    <3>1. UNCHANGED <<stage, api, pool>>
      BY <1>4 DEF Receive
    <3>2. CASE UNCHANGED <<told, legible>>
      BY <1>0, <3>1, <3>2 DEF HandlersOK
    <3>3. ASSUME NEW now \in Reports, told' = [told EXCEPT ![h] = now],
                 legible' = legible \/ legible' = [legible EXCEPT ![h] = now]
          PROVE  HandlersOK'
      <4>1. now \in Nat \X Nat
        BY StreamsAssumption
      <4> QED BY <1>0, <3>1, <3>3, <4>1 DEF HandlersOK
    <3> QED BY <1>4, <3>2, <3>3 DEF Receive
  <2>2. Holding'
    BY <1>0, <1>4 DEF Receive, HandlersOK, Holding, Streaming
  <2> QED BY <1>0, <1>4, <2>1, <2>2, PoolStep DEF Receive, IInv
<1>5. ASSUME NEW h \in Handlers, EndStream(h) PROVE IInv'
  <2>1. HandlersOK'
    BY <1>0, <1>5 DEF EndStream, HandlersOK
  <2>2. Holding'
    BY <1>0, <1>5 DEF EndStream, HandlersOK, Holding, Streaming
  <2> QED BY <1>0, <1>5, <2>1, <2>2, PoolStep DEF EndStream, IInv
<1>6. ASSUME NEW h \in Handlers, Acquire(h) PROVE IInv'
  <2>1. HandlersOK'
    BY <1>0, <1>6 DEF Acquire, Connect, HandlersOK
  <2>2. Holding'
    BY <1>0, <1>6 DEF Acquire, Connect, HandlersOK, Holding, Streaming
  <2> QED BY <1>0, <1>6, <2>1, <2>2, PoolStep DEF Acquire, Connect, IInv
<1>7. ASSUME NEW h \in Handlers, Bill(h) PROVE IInv'
  <2>1. HandlersOK'
    BY <1>0, <1>7 DEF Bill, Disconnect, HandlersOK
  <2>2. Holding'
    BY <1>0, <1>7 DEF Bill, Disconnect, Connected, HandlersOK, Holding, Streaming
  <2>3. request' \subseteq request /\ fresh' \subseteq fresh
    BY <1>7 DEF Bill, Disconnect
  <2> QED BY <1>0, <2>1, <2>2, <2>3, PoolStep DEF IInv
<1>8. ASSUME NEW h \in Handlers, Log(h) \/ PoolTimeout(h) \/ Cancel(h) PROVE IInv'
  BY <1>8, FinishStep DEF Log, PoolTimeout, Cancel
<1>9. CASE UNCHANGED vars
  <2>1. HandlersOK' /\ Holding'
    BY <1>0, <1>9 DEF vars, HandlersOK, Holding, Streaming
  <2> QED BY <1>0, <1>9, <2>1, PoolStep DEF vars, IInv
<1> QED BY <1>1, <1>2, <1>3, <1>4, <1>5, <1>6, <1>7, <1>8, <1>9 DEF Next, Continue

\* The handlers have their types, and the pool hands out what it has.
THEOREM TypeCorrect == Spec => []TypeOK
<1>1. IInv => TypeOK
  BY DEF IInv, HandlersOK, Holding, TypeOK
<1> QED BY <1>1, IInvInit, IInvStep, PTL DEF Spec

\* Only streams that are billing while FastAPI keeps their requests' sessions
\* open, and as many of them as there are connections, can wait in a circle.
THEOREM CircleAlwaysNeedsStreams == Spec => []CircleNeedsStreams
<1>1. IInv => CircleNeedsStreams
  <2> SUFFICES ASSUME IInv, Stuck PROVE HeldUntilSent /\ Cardinality(Finalizing) >= Capacity
    BY DEF CircleNeedsStreams
  <2>1. fresh = {}
    BY DEF IInv, HandlersOK, Holding, Stuck, Waits, Connected, Streaming
  <2>2. request \subseteq Finalizing /\ (request # {} => HeldUntilSent)
    BY DEF IInv, HandlersOK, Holding, Stuck, Waits, Connected, Finalizing, Streaming
  <2>3. Cardinality(request) = Capacity
    <3>1. Cardinality(fresh) = 0 /\ Cardinality(request) \in Nat
      BY <2>1, FS_EmptySet, Counts DEF IInv, HandlersOK
    <3> QED BY <3>1, StreamsAssumption DEF Stuck, Free
  <2>4. request # {}
    BY <2>3, FS_EmptySet, StreamsAssumption
  <2>5. Cardinality(request) <= Cardinality(Finalizing)
    BY <2>2, Counts DEF Finalizing
  <2> QED BY <2>2, <2>3, <2>4, <2>5
<1> QED BY <1>1, IInvInit, IInvStep, PTL DEF Spec

\* Two ways out of the circle: a FastAPI that closes the session of a request
\* before it sends the response, and a pool with more connections than the
\* process serves calls at a time.
THEOREM NeverStuck ==
    ~HeldUntilSent \/ Cardinality(Handlers) < Capacity => (Spec => []~Stuck)
<1> SUFFICES ASSUME ~HeldUntilSent \/ Cardinality(Handlers) < Capacity PROVE Spec => []~Stuck
  OBVIOUS
<1>1. Cardinality(Finalizing) <= Cardinality(Handlers)
  BY Counts DEF Finalizing
<1>2. CircleNeedsStreams => ~Stuck
  BY <1>1, Counts, StreamsAssumption DEF CircleNeedsStreams, Finalizing
<1> QED BY <1>2, CircleAlwaysNeedsStreams, PTL

-----------------------------------------------------------------------------
(* What the parsers read off a stream.                                     *)

Tokens == Nat \X Nat

\* The function that StreamUsageOf folds the lines of a stream with.
Reads(a, s) == CHOOSE h : h = [t \in SUBSET DOMAIN s |->
    IF t = {} THEN <<0, 0>> ELSE ReadLine(a, h[t \ {Max(t)}], s[Max(t)])]

ReadLines(a) == [p \in Tokens \X Lines |-> ReadLine(a, p[1], p[2])]

\* A line is a report of some numbers or of none, and reading it gives numbers.
LEMMA ReadLineType ==
    ASSUME NEW a, NEW tokens \in Tokens, NEW l \in Lines
    PROVE  ReadLine(a, tokens, l) \in Tokens
<1>1. \A x \in Nat \cup {Absent} : x = Absent \/ x \in Nat
  OBVIOUS
<1>2. /\ l.input \in Nat \cup {Absent} /\ l.output \in Nat \cup {Absent}
      /\ l.total \in Nat \cup {Absent}
  BY DEF Lines
<1>3. tokens[1] \in Nat /\ tokens[2] \in Nat
  BY DEF Tokens
<1>4. \A x \in Nat \cup {Absent}, d \in Nat : Given(x, d) \in Nat
  BY DEF Given
<1>5. AnthropicLine(tokens, l) \in Tokens
  BY <1>2, <1>3, <1>4 DEF AnthropicLine, Tokens
<1>6. GeminiLine(tokens, l) \in Tokens
  <2>1. Given(l.input, 0) \in Nat /\ Given(l.total, 0) \in Nat
    BY <1>2, <1>4
  <2> DEFINE rest == Given(l.total, 0) - Given(l.input, 0)
             most == IF rest > 0 THEN rest ELSE 0
  <2>2. most \in Nat
    BY <2>1
  <2>3. FromGemini(l) = <<Given(l.input, 0), Given(l.output, most)>>
    BY DEF FromGemini
  <2>4. Given(l.output, most) \in Nat
    <3> HIDE DEF most
    <3> QED BY <1>2, <1>4, <2>2
  <2>5. FromGemini(l) \in Tokens
    BY <2>1, <2>3, <2>4 DEF Tokens
  <2> QED BY <2>5 DEF GeminiLine
<1> QED BY <1>5, <1>6 DEF ReadLine

\* The fold is well defined, and is one in the sense of FoldProofs.
LEMMA ReadsDefined ==
    ASSUME NEW a, NEW s \in Seq(Lines)
    PROVE  Folds(Reads(a, s), s, <<0, 0>>, ReadLines(a), Lines, Tokens)
<1> DEFINE Unfold(h) == [t \in SUBSET DOMAIN s |->
               IF t = {} THEN <<0, 0>> ELSE ReadLine(a, h[t \ {Max(t)}], s[Max(t)])]
<1>1. ReadLines(a) \in [Tokens \X Lines -> Tokens] /\ <<0, 0>> \in Tokens
  BY ReadLineType DEF ReadLines, Tokens
<1>2. PICK h \in [SUBSET (1..Len(s)) -> Tokens] : Folds(h, s, <<0, 0>>, ReadLines(a), Lines, Tokens)
  BY <1>1, FoldDefined
<1>3. DOMAIN s = 1..Len(s)
  OBVIOUS
<1>4. \A t \in SUBSET (1..Len(s)) : t # {} => Max(t) \in t /\ s[Max(t)] \in Lines
  <2>1. Len(s) \in Nat
    OBVIOUS
  <2>2. \A t \in SUBSET (1..Len(s)) : t # {} => Max(t) \in t
    BY <2>1, MaxMin
  <2>3. \A i \in 1..Len(s) : s[i] \in Lines
    OBVIOUS
  <2> QED BY <2>2, <2>3
<1>5. ASSUME NEW g, \A t \in SUBSET (1..Len(s)) : t # {} => g[t \ {Max(t)}] \in Tokens
      PROVE  \A t \in SUBSET (1..Len(s)) : t # {} =>
                ReadLines(a)[<<g[t \ {Max(t)}], s[Max(t)]>>]
                   = ReadLine(a, g[t \ {Max(t)}], s[Max(t)])
  <2> SUFFICES ASSUME NEW t \in SUBSET (1..Len(s)), t # {}
               PROVE  ReadLines(a)[<<g[t \ {Max(t)}], s[Max(t)]>>]
                         = ReadLine(a, g[t \ {Max(t)}], s[Max(t)])
    OBVIOUS
  <2>1. g[t \ {Max(t)}] \in Tokens /\ s[Max(t)] \in Lines
    BY <1>4, <1>5
  <2> QED BY <2>1 DEF ReadLines
<1>6. h = Unfold(h)
  <2>1. \A t \in SUBSET (1..Len(s)) : h[t \ {Max(t)}] \in Tokens
    OBVIOUS
  <2>2. \A t \in SUBSET (1..Len(s)) : h[t] = Unfold(h)[t]
    BY <1>2, <1>3, <1>5, <2>1 DEF Folds
  <2> QED BY <1>3, <2>2
<1>7. Reads(a, s) = Unfold(Reads(a, s))
  BY <1>6 DEF Reads
<1> DEFINE r == Reads(a, s)
           D == 1..Len(s)
           Q == {t \in SUBSET D : r[t] \in Tokens}
<1>8. \A t \in SUBSET D : r[t] = IF t = {} THEN <<0, 0>> ELSE ReadLine(a, r[t \ {Max(t)}], s[Max(t)])
  <2> HIDE DEF r
  <2> QED BY <1>3, <1>7 DEF r
<1> HIDE DEF r
<1>9. SUBSET D \subseteq Q
  <2>1. IsFiniteSet(D)
    BY FS_Interval
  <2>2. {} \in Q
    BY <1>1, <1>8
  <2>3. ASSUME NEW t \in SUBSET D, t # {} PROVE \E i \in t : t \ {i} \in Q => t \in Q
    <3>1. Max(t) \in t /\ s[Max(t)] \in Lines
      BY <1>4, <2>3
    <3>2. ASSUME r[t \ {Max(t)}] \in Tokens PROVE r[t] \in Tokens
      <4>1. r[t] = ReadLine(a, r[t \ {Max(t)}], s[Max(t)])
        BY <1>8, <2>3
      <4> QED BY <3>1, <3>2, <4>1, ReadLineType
    <3> QED BY <3>1, <3>2
  <2>4. \A t \in SUBSET D : t # {} => \E i \in t : t \ {i} \in Q => t \in Q
    BY <2>3
  <2> HIDE DEF D, Q
  <2> QED BY ONLY <2>1, <2>2, <2>4, SubsetInduction
<1>10. \A t \in SUBSET D : t # {} => r[t \ {Max(t)}] \in Tokens
  BY <1>9
<1>11. \A t \in SUBSET D : t # {} =>
          ReadLines(a)[<<r[t \ {Max(t)}], s[Max(t)]>>] = ReadLine(a, r[t \ {Max(t)}], s[Max(t)])
  BY <1>5, <1>10
<1>12. ASSUME NEW t \in SUBSET D
       PROVE  r[t] = IF t = {} THEN <<0, 0>> ELSE ReadLines(a)[<<r[t \ {Max(t)}], s[Max(t)]>>]
  <2>1. CASE t = {}
    BY <1>8, <2>1
  <2>2. CASE t # {}
    BY <1>8, <1>11, <2>2
  <2> QED BY <2>1, <2>2
<1> QED BY <1>1, <1>12 DEF Folds, r

\* What has been read off a stream is two numbers; nothing off an empty one; and
\* one line more is read with what was read before.
LEMMA ReadAppend ==
    ASSUME NEW a, a # "openai", NEW s \in Seq(Lines)
    PROVE  /\ StreamUsageOf(a, s) \in Tokens
           /\ StreamUsageOf(a, <<>>) = <<0, 0>>
           /\ \A l \in Lines :
                 StreamUsageOf(a, Append(s, l)) = ReadLine(a, StreamUsageOf(a, s), l)
<1>1. ReadLines(a) \in [Tokens \X Lines -> Tokens] /\ <<0, 0>> \in Tokens
  BY ReadLineType DEF ReadLines, Tokens
<1>2. ASSUME NEW z \in Seq(Lines) PROVE StreamUsageOf(a, z) = Reads(a, z)[1..Len(z)]
  <2>1. StreamUsageOf(a, z) = FoldLeft(LAMBDA tokens, l : ReadLine(a, tokens, l), <<0, 0>>, z)
    BY a # "openai" DEF StreamUsageOf
  <2>2. FoldLeft(LAMBDA tokens, l : ReadLine(a, tokens, l), <<0, 0>>, z) = Reads(a, z)[DOMAIN z]
    BY Zenon DEF FoldLeft, MapThenFoldSet, Reads
  <2>3. DOMAIN z = 1..Len(z)
    OBVIOUS
  <2> QED BY <2>1, <2>2, <2>3
<1>3. StreamUsageOf(a, s) \in Tokens
  <2>1. \A t \in SUBSET (1..Len(s)) : Reads(a, s)[t] \in Tokens
    BY <1>1, ReadsDefined, FoldType
  <2> QED BY <1>2, <2>1
<1>4. StreamUsageOf(a, <<>>) = <<0, 0>>
  <2>1. <<>> \in Seq(Lines) /\ 1..Len(<<>>) = {}
    OBVIOUS
  <2>2. Reads(a, <<>>)[{}] = <<0, 0>>
    BY <2>1, ReadsDefined DEF Folds
  <2> QED BY <1>2, <2>1, <2>2
<1>5. ASSUME NEW l \in Lines
      PROVE  StreamUsageOf(a, Append(s, l)) = ReadLine(a, StreamUsageOf(a, s), l)
  <2>1. Append(s, l) \in Seq(Lines) /\ Len(Append(s, l)) = Len(s) + 1
    OBVIOUS
  <2>2. Reads(a, Append(s, l))[1..(Len(s) + 1)] = ReadLines(a)[<<Reads(a, s)[1..Len(s)], l>>]
    <3> DEFINE z == Append(s, l)
               base == <<0, 0>>
               Op == ReadLines(a)
               h == Reads(a, s)
               k == Reads(a, z)
    <3>1. /\ Folds(h, s, base, Op, Lines, Tokens)
          /\ Folds(k, z, base, Op, Lines, Tokens)
      BY <2>1, ReadsDefined
    <3>2. Len(z) = Len(s) + 1 /\ z[Len(z)] = l /\ \A i \in 1..Len(s) : z[i] = s[i]
      OBVIOUS
    <3> HIDE DEF z, base, Op, h, k
    <3>3. k[1..Len(z)] = Op[<<h[1..Len(s)], z[Len(z)]>>]
      BY <3>1, <3>2, FoldLast
    <3> QED BY <3>2, <3>3 DEF z, Op, h, k
  <2>3. ReadLines(a)[<<StreamUsageOf(a, s), l>>] = ReadLine(a, StreamUsageOf(a, s), l)
    BY <1>3 DEF ReadLines
  <2> QED BY <1>2, <2>1, <2>2, <2>3
<1> QED BY <1>3, <1>4, <1>5

\* OpenAIUsage reads u if every report says u, and there is one unless u is none.
LEMMA OpenAIReads ==
    ASSUME NEW s \in Seq(Lines), NEW u \in Tokens,
           \A i \in DOMAIN s : s[i].type = "usage" => s[i].input = u[1] /\ s[i].output = u[2],
           u # <<0, 0>> => \E i \in DOMAIN s : s[i].type = "usage"
    PROVE  OpenAIUsage(s) = u
<1> DEFINE reported == {i \in DOMAIN s : s[i].type = "usage"}
<1>1. u[1] \in Nat /\ u[2] \in Nat /\ u = <<u[1], u[2]>>
  BY DEF Tokens
<1>2. CASE reported = {}
  BY <1>2 DEF OpenAIUsage
<1>3. CASE reported # {}
  <2>1. Len(s) \in Nat /\ reported \in SUBSET (1..Len(s))
    OBVIOUS
  <2>2. Min(reported) \in reported
    <3> HIDE DEF reported
    <3> QED BY <1>3, <2>1, MaxMin
  <2>3. s[Min(reported)].input = u[1] /\ s[Min(reported)].output = u[2]
    BY <2>2
  <2>4. Given(u[1], 0) = u[1] /\ Given(u[2], 0) = u[2]
    BY <1>1 DEF Given, Absent
  <2>5. OpenAIUsage(s) = <<Given(s[Min(reported)].input, 0), Given(s[Min(reported)].output, 0)>>
    BY <1>3 DEF OpenAIUsage
  <2> QED BY <1>1, <2>3, <2>4, <2>5
<1> QED BY <1>2, <1>3

-----------------------------------------------------------------------------
(* What a call is billed.                                                  *)

\* The lines s of a stream of kind a say that the provider has reported u: to the
\* parser of OpenAI, which takes the first report, because there is only one; to
\* the others because their parsers go along with the reports.
Tells(a, s, u) ==
    IF a = "openai"
      THEN /\ \A i \in DOMAIN s : s[i].type = "usage" => s[i].input = u[1] /\ s[i].output = u[2]
           /\ u # None <=> \E i \in DOMAIN s : s[i].type = "usage"
      ELSE StreamUsageOf(a, s) = u

\* A stream that has just begun tells nothing.
LEMMA TellsNothing == ASSUME NEW a PROVE Tells(a, <<>>, None)
<1>1. <<>> \in Seq(Lines) /\ DOMAIN <<>> = {}
  OBVIOUS
<1>2. a # "openai" => StreamUsageOf(a, <<>>) = None
  BY <1>1, ReadAppend DEF None
<1> QED BY <1>1, <1>2 DEF Tells

\* What a stream tells is what the parser reads.
LEMMA TellsUsage ==
    ASSUME NEW a, NEW s \in Seq(Lines), NEW u \in Tokens, Tells(a, s, u)
    PROVE  StreamUsageOf(a, s) = u
<1>1. CASE a = "openai"
  <2>1. OpenAIUsage(s) = u
    BY <1>1, OpenAIReads DEF Tells, None
  <2> QED BY <1>1, <2>1 DEF StreamUsageOf
<1>2. CASE a # "openai"
  BY <1>2 DEF Tells
<1> QED BY <1>1, <1>2

\* The lines of Append(s, l).
LEMMA AppendLines ==
    ASSUME NEW s \in Seq(Lines), NEW l \in Lines
    PROVE  /\ Append(s, l) \in Seq(Lines)
           /\ DOMAIN Append(s, l) = DOMAIN s \cup {Len(s) + 1}
           /\ \A i \in DOMAIN s : Append(s, l)[i] = s[i]
           /\ Append(s, l)[Len(s) + 1] = l
OBVIOUS

\* A line that reports nothing tells nothing new.
LEMMA TellsNoise ==
    ASSUME NEW a, NEW s \in Seq(Lines), NEW u \in Tokens, Tells(a, s, u)
    PROVE  Noise \in Lines /\ Tells(a, Append(s, Noise), u)
<1>1. Noise \in Lines /\ Noise.type = "noise"
  BY DEF Noise, Line, Lines
<1>2. CASE a = "openai"
  <2> DEFINE z == Append(s, Noise)
  <2>1. /\ DOMAIN z = DOMAIN s \cup {Len(s) + 1}
        /\ \A i \in DOMAIN s : z[i] = s[i]
        /\ z[Len(s) + 1].type = "noise"
    BY <1>1, AppendLines
  <2> HIDE DEF z
  <2>2. Tells(a, z, u)
    BY <1>2, <2>1 DEF Tells
  <2> QED BY <1>1, <2>2 DEF z
<1>3. CASE a # "openai"
  <2>1. StreamUsageOf(a, Append(s, Noise)) = ReadLine(a, u, Noise)
    BY <1>1, <1>3, ReadAppend DEF Tells
  <2>2. ReadLine(a, u, Noise) = u
    BY <1>1 DEF ReadLine, AnthropicLine, GeminiLine
  <2> QED BY <1>1, <1>3, <2>1, <2>2 DEF Tells
<1> QED BY <1>2, <1>3

\* A report is read as it was meant.
LEMMA ReportRead ==
    ASSUME NEW a \in {"anthropic", "gemini"}, NEW u \in Tokens,
           NEW now \in (Nat \ {0}) \X Nat, NEW l \in Says(a, u, now)
    PROVE  ReadLine(a, u, l) = now
<1>1. now[1] \in Nat /\ now[1] # 0 /\ now[2] \in Nat /\ now = <<now[1], now[2]>>
  OBVIOUS
<1>2. \A d : Given(now[1], d) = now[1] /\ Given(now[2], d) = now[2] /\ Given(Absent, d) = d
  BY <1>1 DEF Given, Absent
<1>3. CASE a = "anthropic"
  <2>1. CASE l = Line("message_start", now[1], now[2])
    BY <1>1, <1>2, <1>3, <2>1 DEF ReadLine, AnthropicLine, Line
  <2>2. CASE l = Line("message_delta", Absent, now[2]) /\ now[1] = u[1]
    BY <1>1, <1>2, <1>3, <2>2 DEF ReadLine, AnthropicLine, Line
  <2> QED BY <1>3, <2>1, <2>2 DEF Says
<1>4. CASE a = "gemini"
  <2>1. CASE l = Line("metadata", now[1], now[2])
    <3>1. l.type = "metadata" /\ l.input = now[1] /\ l.output = now[2]
      BY <2>1 DEF Line
    <3>2. FromGemini(l) = now
      BY <1>1, <1>2, <3>1 DEF FromGemini
    <3> QED BY <1>1, <1>4, <3>1, <3>2 DEF ReadLine, GeminiLine
  <2>2. CASE l = [Line("metadata", now[1], Absent) EXCEPT !.total = now[1] + now[2]]
    <3>1. l.type = "metadata" /\ l.input = now[1] /\ l.output = Absent /\ l.total = now[1] + now[2]
      BY <2>2 DEF Line
    <3>2. Given(l.total, 0) = now[1] + now[2]
      BY <1>1, <3>1 DEF Given, Absent
    <3>3. FromGemini(l) = now
      BY <1>1, <1>2, <3>1, <3>2 DEF FromGemini
    <3> QED BY <1>1, <1>4, <3>1, <3>3 DEF ReadLine, GeminiLine
  <2> QED BY <1>4, <2>1, <2>2 DEF Says
<1> QED BY <1>3, <1>4

\* A line with a report tells what it reports.
LEMMA TellsReport ==
    ASSUME NEW a \in {"openai", "anthropic", "gemini"},
           NEW s \in Seq(Lines), NEW u \in Tokens, Tells(a, s, u),
           NEW now \in (Nat \ {0}) \X Nat, NEW l \in Says(a, u, now)
    PROVE  l \in Lines /\ Tells(a, Append(s, l), now)
<1>1. now[1] \in Nat /\ now[2] \in Nat /\ now # None /\ now = <<now[1], now[2]>>
  BY DEF None
<1>2. l \in Lines
  BY <1>1 DEF Says, Line, Lines
<1>3. CASE a = "openai"
  <2> DEFINE z == Append(s, l)
  <2>1. l.type = "usage" /\ l.input = now[1] /\ l.output = now[2] /\ u = None
    BY <1>3 DEF Says, Line, None
  <2>2. /\ DOMAIN z = DOMAIN s \cup {Len(s) + 1}
        /\ \A i \in DOMAIN s : z[i] = s[i]
        /\ z[Len(s) + 1] = l
    BY <1>2, AppendLines
  <2> HIDE DEF z
  <2>3. Tells(a, z, now)
    BY <1>1, <1>3, <2>1, <2>2 DEF Tells
  <2> QED BY <1>2, <2>3 DEF z
<1>4. CASE a # "openai"
  <2>1. StreamUsageOf(a, Append(s, l)) = ReadLine(a, u, l)
    BY <1>2, <1>4, ReadAppend DEF Tells
  <2>2. ReadLine(a, u, l) = now
    BY <1>4, ReportRead
  <2> QED BY <1>2, <1>4, <2>1, <2>2 DEF Tells
<1> QED BY <1>3, <1>4

\* From the report to the line, to the parser, to the bill.
BillOK(h) ==
    /\ stage[h] \in {"idle", "guard", "upstream"} =>
          lines[h] = <<>> /\ told[h] = None /\ legible[h] = None
    /\ stage[h] \in {"idle", "guard", "upstream", "receive", "bill"} => billed[h] = Unbilled
    /\ stage[h] = "receive" => Tells(api[h], lines[h], legible[h])
    /\ stage[h] = "bill" => usage[h] = legible[h]
    /\ billed[h] # Unbilled => billed[h] = legible[h]
    /\ api[h] # "gemini" => legible[h] = told[h]

BillTypes ==
    /\ lines \in [Handlers -> Seq(Lines)]
    /\ usage \in [Handlers -> Tokens]
    /\ billed \in [Handlers -> Tokens \cup {Unbilled}]

BillInv == BillTypes /\ \A h \in Handlers : BillOK(h)

LEMMA BillInit == Init => BillInv
<1> SUFFICES ASSUME Init PROVE BillInv
  OBVIOUS
<1>1. <<>> \in Seq(Lines) /\ None \in Tokens
  BY DEF None, Tokens
<1> QED BY <1>1 DEF Init, BillInv, BillTypes, BillOK

\* A step that leaves everything of g as it was.
LEMMA BillQuiet ==
    ASSUME NEW g \in Handlers, BillOK(g),
           stage'[g] = stage[g], api'[g] = api[g], lines'[g] = lines[g],
           told'[g] = told[g], legible'[g] = legible[g],
           usage'[g] = usage[g], billed'[g] = billed[g]
    PROVE  BillOK(g)'
BY DEF BillOK

\* A call that ends forgets what it has read and billed.
LEMMA BillFinish == ASSUME HandlersOK, BillInv, NEW h \in Handlers, Finish(h) PROVE BillInv'
<1>1. /\ stage' = [stage EXCEPT ![h] = "idle"]
      /\ api' = [api EXCEPT ![h] = "plain"]
      /\ lines' = [lines EXCEPT ![h] = <<>>]
      /\ told' = [told EXCEPT ![h] = None] /\ legible' = [legible EXCEPT ![h] = None]
      /\ usage' = [usage EXCEPT ![h] = None]
      /\ billed' = [billed EXCEPT ![h] = Unbilled]
  BY DEF Finish, GoTo
<1>2. BillTypes'
  <2>1. <<>> \in Seq(Lines) /\ None \in Tokens
    BY DEF None, Tokens
  <2> QED BY <1>1, <2>1 DEF BillInv, BillTypes
<1>3. BillOK(h)'
  BY <1>1 DEF BillOK, HandlersOK, BillInv, BillTypes
<1>4. ASSUME NEW g \in Handlers \ {h} PROVE BillOK(g)'
  BY <1>1, <1>4, BillQuiet DEF HandlersOK, BillInv, BillTypes
<1> QED BY <1>2, <1>3, <1>4 DEF BillInv

\* Every step keeps bills and legible reports together.
LEMMA BillStep == IInv /\ BillInv /\ [Next]_vars => BillInv'
<1> SUFFICES ASSUME IInv, BillInv, [Next]_vars PROVE BillInv'
  OBVIOUS
<1>0. /\ HandlersOK /\ Holding /\ BillTypes /\ \A g \in Handlers : BillOK(g)
      /\ stage \in [Handlers -> {"idle", "guard", "upstream", "receive", "bill", "refresh", "log"}]
      /\ api \in [Handlers -> Apis \cup {"plain"}]
      /\ told \in [Handlers -> Tokens] /\ legible \in [Handlers -> Tokens]
      /\ lines \in [Handlers -> Seq(Lines)]
      /\ usage \in [Handlers -> Tokens]
      /\ billed \in [Handlers -> Tokens \cup {Unbilled}]
  BY DEF IInv, BillInv, HandlersOK, BillTypes, Tokens
<1> USE DEF GoTo, call, pool
<1>1. ASSUME NEW h \in Handlers, Arrive(h) PROVE BillInv'
  <2>1. /\ stage[h] = "idle" /\ stage' = [stage EXCEPT ![h] = "guard"]
        /\ \E a \in Apis : api' = [api EXCEPT ![h] = a]
        /\ UNCHANGED <<lines, told, legible, usage, billed>>
    BY <1>1 DEF Arrive
  <2>2. BillOK(h)'
    BY <1>0, <2>1 DEF BillOK
  <2>3. ASSUME NEW g \in Handlers \ {h} PROVE BillOK(g)'
    BY <1>0, <2>1, <2>3, BillQuiet
  <2> QED BY <1>0, <2>1, <2>2, <2>3 DEF BillInv, BillTypes
<1>2. ASSUME NEW h \in Handlers, Guard(h) PROVE BillInv'
  <2>1. CASE Finish(h)
    BY <1>0, <2>1, BillFinish
  <2>2. CASE ~Finish(h)
    <3>1. /\ stage[h] = "guard"
          /\ stage' = [stage EXCEPT ![h] = IF Streaming(h) THEN "receive" ELSE "upstream"]
          /\ UNCHANGED call
      BY <1>2, <2>2 DEF Guard
    <3>2. Tells(api'[h], lines'[h], legible'[h])
      BY <1>0, <3>1, TellsNothing DEF BillOK
    <3>3. BillOK(h)'
      BY <1>0, <3>1, <3>2 DEF BillOK
    <3>4. ASSUME NEW g \in Handlers \ {h} PROVE BillOK(g)'
      BY <1>0, <3>1, <3>4, BillQuiet
    <3> QED BY <1>0, <3>1, <3>3, <3>4 DEF BillInv, BillTypes
  <2> QED BY <2>1, <2>2
<1>3. ASSUME NEW h \in Handlers, Upstream(h) PROVE BillInv'
  <2>1. CASE Finish(h)
    BY <1>0, <2>1, BillFinish
  <2>2. ASSUME NEW u \in Reports \cup {None},
               told' = [told EXCEPT ![h] = u], legible' = [legible EXCEPT ![h] = u], usage' = [usage EXCEPT ![h] = u],
               stage' = [stage EXCEPT ![h] = "bill"], UNCHANGED <<api, lines, billed>>,
               stage[h] = "upstream"
        PROVE  BillInv'
    <3>1. u \in Tokens
      BY StreamsAssumption DEF None, Tokens
    <3>2. BillOK(h)'
      BY <1>0, <2>2 DEF BillOK
    <3>3. ASSUME NEW g \in Handlers \ {h} PROVE BillOK(g)'
      BY <1>0, <2>2, <3>3, BillQuiet
    <3> QED BY <1>0, <2>2, <3>1, <3>2, <3>3 DEF BillInv, BillTypes
  <2>3. CASE stage' = [stage EXCEPT ![h] = "log"] /\ UNCHANGED call
    <3>1. BillOK(h)'
      BY <1>0, <1>3, <2>3 DEF BillOK, Upstream
    <3>2. ASSUME NEW g \in Handlers \ {h} PROVE BillOK(g)'
      BY <1>0, <2>3, <3>2, BillQuiet
    <3> QED BY <1>0, <2>3, <3>1, <3>2 DEF BillInv, BillTypes
  <2> QED BY <1>3, <2>1, <2>2, <2>3 DEF Upstream
<1>4. ASSUME NEW h \in Handlers, Receive(h) PROVE BillInv'
  <2>1. /\ stage[h] = "receive" /\ UNCHANGED <<stage, api, usage, billed>>
        /\ api[h] \in {"openai", "anthropic", "gemini"}
        /\ lines[h] \in Seq(Lines) /\ legible[h] \in Tokens /\ Tells(api[h], lines[h], legible[h])
        /\ api[h] # "gemini" => legible[h] = told[h]
        /\ billed[h] = Unbilled
    BY <1>0, <1>4, StreamsAssumption DEF Receive, Holding, Streaming, BillOK
  <2>2. ASSUME NEW l \in Lines, lines' = [lines EXCEPT ![h] = Append(@, l)],
               NEW u \in Tokens, legible' = [legible EXCEPT ![h] = u],
               Tells(api[h], Append(lines[h], l), u),
               NEW v \in Tokens, told' = [told EXCEPT ![h] = v],
               api[h] # "gemini" => u = v
        PROVE  BillInv'
    <3>1. Append(lines[h], l) \in Seq(Lines)
      BY <1>0
    <3>2. lines'[h] = Append(lines[h], l) /\ legible'[h] = u /\ told'[h] = v
      BY <1>0, <2>2
    <3>3. BillOK(h)'
      BY <1>0, <2>1, <2>2, <3>2 DEF BillOK
    <3>4. ASSUME NEW g \in Handlers \ {h} PROVE BillOK(g)'
      BY <1>0, <2>1, <2>2, <3>4, BillQuiet
    <3>5. BillTypes'
      BY <1>0, <2>1, <2>2, <3>1 DEF BillTypes
    <3> QED BY <3>3, <3>4, <3>5 DEF BillInv
  <2>3. Noise \in Lines /\ Tells(api[h], Append(lines[h], Noise), legible[h])
    BY <2>1, TellsNoise
  <2>4. CASE lines' = [lines EXCEPT ![h] = Append(@, Noise)] /\ UNCHANGED <<told, legible>>
    <3>1. /\ told[h] \in Tokens /\ told' = [told EXCEPT ![h] = told[h]]
          /\ legible' = [legible EXCEPT ![h] = legible[h]]
      BY <1>0, <2>4
    <3> QED BY <2>1, <2>2, <2>3, <2>4, <3>1
  <2>5. ASSUME NEW now \in Reports, NEW cut \in Cuts(api[h]), NEW l \in Says(api[h], told[h], now),
               lines' = [lines EXCEPT ![h] = Append(@, Piece(l, cut))],
               told' = [told EXCEPT ![h] = now],
               legible' = IF cut THEN legible ELSE [legible EXCEPT ![h] = now]
        PROVE  BillInv'
    <3>1. now \in (Nat \ {0}) \X Nat /\ now \in Tokens
      BY StreamsAssumption DEF Tokens
    <3>2. CASE cut
      <4>1. api[h] = "gemini" /\ Piece(l, cut) = Noise
        BY <3>2 DEF Cuts, Piece
      <4>2. legible' = [legible EXCEPT ![h] = legible[h]]
        BY <1>0, <2>5, <3>2
      <4> QED BY <2>1, <2>2, <2>3, <2>5, <3>1, <4>1, <4>2
    <3>3. CASE ~cut
      <4>1. Piece(l, cut) = l /\ legible' = [legible EXCEPT ![h] = now]
        BY <2>5, <3>3 DEF Piece
      <4>2. l \in Says(api[h], legible[h], now)
        BY <2>1, <2>5 DEF Says
      <4>3. l \in Lines /\ Tells(api[h], Append(lines[h], l), now)
        BY <2>1, <3>1, <4>2, TellsReport
      <4> QED BY <2>2, <2>5, <3>1, <4>1, <4>3
    <3>4. cut \in BOOLEAN
      BY DEF Cuts
    <3> QED BY <3>2, <3>3, <3>4
  <2> QED BY <1>4, <2>4, <2>5 DEF Receive
<1>5. ASSUME NEW h \in Handlers, EndStream(h) PROVE BillInv'
  <2>1. /\ stage[h] = "receive" /\ Tells(api[h], lines[h], legible[h])
        /\ usage' = [usage EXCEPT ![h] = StreamUsageOf(api[h], lines[h])]
        /\ lines' = [lines EXCEPT ![h] = <<>>]
        /\ stage' = [stage EXCEPT ![h] = "bill"]
        /\ UNCHANGED <<api, told, legible, billed>>
    BY <1>0, <1>5 DEF EndStream, BillOK
  <2>2. StreamUsageOf(api[h], lines[h]) = legible[h] /\ legible[h] \in Tokens
    BY <1>0, <2>1, TellsUsage
  <2>3. BillOK(h)'
    BY <1>0, <2>1, <2>2 DEF BillOK
  <2>4. ASSUME NEW g \in Handlers \ {h} PROVE BillOK(g)'
    BY <1>0, <2>1, <2>4, BillQuiet
  <2>5. BillTypes'
    <3>1. <<>> \in Seq(Lines)
      OBVIOUS
    <3> QED BY <1>0, <2>1, <2>2, <3>1 DEF BillTypes
  <2> QED BY <2>3, <2>4, <2>5 DEF BillInv
<1>6. ASSUME NEW h \in Handlers, Acquire(h) PROVE BillInv'
  <2>1. /\ stage' = [stage EXCEPT ![h] = IF stage[h] = "refresh" THEN "log" ELSE stage[h]]
        /\ UNCHANGED call
    BY <1>6 DEF Acquire
  <2>2. BillOK(h)'
    BY <1>0, <2>1 DEF BillOK
  <2>3. ASSUME NEW g \in Handlers \ {h} PROVE BillOK(g)'
    BY <1>0, <2>1, <2>3, BillQuiet
  <2> QED BY <1>0, <2>1, <2>2, <2>3 DEF BillInv, BillTypes
<1>7. ASSUME NEW h \in Handlers, Bill(h) PROVE BillInv'
  <2>1. /\ stage[h] = "bill" /\ stage' = [stage EXCEPT ![h] = "refresh"]
        /\ billed' = [billed EXCEPT ![h] = usage[h]]
        /\ UNCHANGED <<api, lines, told, legible, usage>>
    BY <1>7 DEF Bill
  <2>2. BillOK(h)'
    BY <1>0, <2>1 DEF BillOK
  <2>3. ASSUME NEW g \in Handlers \ {h} PROVE BillOK(g)'
    BY <1>0, <2>1, <2>3, BillQuiet
  <2> QED BY <1>0, <2>1, <2>2, <2>3 DEF BillInv, BillTypes
<1>8. ASSUME NEW h \in Handlers, Log(h) \/ PoolTimeout(h) \/ Cancel(h) PROVE BillInv'
  BY <1>0, <1>8, BillFinish DEF Log, PoolTimeout, Cancel
<1>9. CASE UNCHANGED vars
  <2>1. \A g \in Handlers : BillOK(g)'
    BY <1>0, <1>9, BillQuiet DEF vars
  <2> QED BY <1>0, <1>9, <2>1 DEF vars, BillInv, BillTypes
<1> QED BY <1>1, <1>2, <1>3, <1>4, <1>5, <1>6, <1>7, <1>8, <1>9 DEF Next, Continue

\* What a call is billed is what its provider last reported in one piece, in any of
\* the three formats, however long the stream and wherever it ended; and what it
\* last reported at all, but for Gemini.
THEOREM BilledAlwaysAsLegible == Spec => []BilledAsLegible
<1>1. BillInv => BilledAsLegible
  BY DEF BillInv, BillOK, BilledAsLegible
<1> QED BY <1>1, BillStep, BillInit, IInvInit, IInvStep, PTL DEF Spec
=============================================================================
