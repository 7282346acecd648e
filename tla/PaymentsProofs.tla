--------------------------- MODULE PaymentsProofs ---------------------------
(***************************************************************************)
(* Settlement of payments, for any number of payments, handlers and faults *)
(* and both modes: no credits before payment, no event acknowledged before *)
(* it is settled, a bound on how often a payment can be credited, balances *)
(* that are the sums of their ledger rows, and every step one of the       *)
(* prepaid account.                                                        *)
(***************************************************************************)
EXTENDS PaymentsAccount, FoldProofs

\* A handler at work has a payment, and that payment's row exists.
RowExists ==
    \A h \in Handlers : stage[h] # "idle" =>
        pay[h] \in Payments /\ owner[pay[h]] \in Workspaces

\* A row that was created has a workspace; Stripe knows only created rows.
OwnerKnown ==
    \A p \in Payments :
        /\ status[p] # "none" => owner[p] \in Workspaces
        /\ session[p] # "none" => status[p] # "none"

\* A session is created once: by the one handler that inserted the row.
PostsOnce ==
    \A h \in Handlers : stage[h] = "post" =>
        /\ status[pay[h]] # "none" /\ session[pay[h]] = "none"
        /\ \A g \in Handlers \ {h} : stage[g] = "post" => pay[g] # pay[h]

\* Only a completed session brings a handler to settle a stripe payment.
SettlesCompleted ==
    \A h \in Handlers : stage[h] \in {"settle", "mark"} /\ Stripe[pay[h]] =>
        session[pay[h]] = "completed"

\* The credits come before the status, and the status before the answer.
CreditsFirst ==
    /\ \A h \in Handlers : stage[h] = "mark" => applied[pay[h]] > 0
    /\ \A p \in Payments : status[p] = "paid" => applied[p] > 0
    /\ \A p \in Payments : acked[p] => status[p] = "paid"

IInv ==
    /\ TypeOK
    /\ RowExists
    /\ OwnerKnown
    /\ PostsOnce
    /\ NoCreditBeforePayment
    /\ SettlesCompleted
    /\ CreditsFirst

\* IInv holds at the start.
LEMMA IInvInit == Init => IInv
BY PaymentsAssumption DEF Init, IInv, TypeOK, RowExists, OwnerKnown, PostsOnce,
   NoCreditBeforePayment, SettlesCompleted, CreditsFirst

\* Every step preserves IInv.
LEMMA IInvStep == IInv /\ [Next]_vars => IInv'
<1> SUFFICES ASSUME IInv, [Next]_vars PROVE IInv'
  OBVIOUS
<1> USE PaymentsAssumption
        DEF IInv, TypeOK, RowExists, OwnerKnown, PostsOnce, NoCreditBeforePayment,
            SettlesCompleted, CreditsFirst, rows, stripe, At, Answer
<1>1. ASSUME NEW h \in Handlers, NEW p \in Payments, NEW w \in Workspaces, CreateTopup(h, p, w)
      PROVE  IInv'
  BY <1>1 DEF CreateTopup, Insert
<1>2. ASSUME NEW h \in Handlers, NEW p \in Payments, NEW w \in Workspaces, CreateCheckout(h, p, w)
      PROVE  IInv'
  BY <1>2 DEF CreateCheckout, Insert
<1>3. ASSUME NEW h \in Handlers, NEW p \in Payments, Deliver(h, p) PROVE IInv'
  <2>1. CASE status[p] = "paid"
    <3>1. /\ acked' = [acked EXCEPT ![p] = TRUE] \/ acked' = acked
          /\ stage' = [stage EXCEPT ![h] = "idle"]
          /\ pay' = [pay EXCEPT ![h] = NoPayment]
          /\ UNCHANGED <<rows, session, interrupted, faults>>
      BY <1>3, <2>1 DEF Deliver, AnswerStripe
    <3>2. TypeOK'
      <4>1. acked' \in [Payments -> BOOLEAN]
        BY <3>1
      <4> QED BY <3>1, <4>1
    <3>3. RowExists' /\ OwnerKnown' /\ PostsOnce'
      BY <3>1
    <3>4. NoCreditBeforePayment' /\ SettlesCompleted'
      BY <3>1
    <3>5. CreditsFirst'
      BY <2>1, <3>1
    <3> QED BY <3>2, <3>3, <3>4, <3>5
  <2>2. CASE status[p] # "paid"
    <3>1. /\ session[p] = "completed" /\ owner[p] \in Workspaces
          /\ stage' = [stage EXCEPT ![h] = "settle"]
          /\ pay' = [pay EXCEPT ![h] = p]
          /\ UNCHANGED <<rows, session, acked, interrupted, faults>>
      BY <1>3, <2>2 DEF Deliver
    <3>2. TypeOK' /\ RowExists' /\ OwnerKnown'
      BY <3>1
    <3>3. PostsOnce'
      BY <3>1
    <3>4. NoCreditBeforePayment' /\ SettlesCompleted'
      BY <3>1
    <3>5. CreditsFirst'
      BY <3>1
    <3> QED BY <3>2, <3>3, <3>4, <3>5
  <2> QED BY <2>1, <2>2
<1>4. ASSUME NEW h \in Handlers, PostSession(h) PROVE IInv'
  <2> DEFINE p == pay[h]
  <2>1. /\ p \in Payments /\ stage[h] = "post"
        /\ session' = session \/ session' = [session EXCEPT ![p] = "open"]
        /\ \/ stage' = [stage EXCEPT ![h] = "ref"] /\ pay' = [pay EXCEPT ![h] = p]
           \/ stage' = [stage EXCEPT ![h] = "idle"] /\ pay' = [pay EXCEPT ![h] = NoPayment]
        /\ UNCHANGED <<rows, acked, interrupted, faults>>
    BY <1>4 DEF PostSession
  <2> QED BY <2>1
<1>5. ASSUME NEW h \in Handlers, SaveRef(h) PROVE IInv'
  BY <1>5 DEF SaveRef
<1>6. ASSUME NEW h \in Handlers, ApplyCredits(h) PROVE IInv'
  <2> DEFINE p == pay[h]
  <2>1. /\ p \in Payments /\ owner[p] \in Workspaces /\ Amount[p] \in Nat
        /\ stage[h] = "settle"
        /\ stage' = [stage EXCEPT ![h] = "mark"]
        /\ pay' = [pay EXCEPT ![h] = p]
        /\ applied' = [applied EXCEPT ![p] = @ + 1]
        /\ credit' = [credit EXCEPT ![owner[p]] = @ + Amount[p]]
        /\ UNCHANGED <<status, owner, provider_ref, session, acked, interrupted, faults>>
    BY <1>6 DEF ApplyCredits
  <2> HIDE DEF p
  <2>2. applied' \in [Payments -> Nat] /\ applied'[p] > 0
        /\ \A q \in Payments : applied'[q] >= applied[q]
    BY <2>1
  <2>3. credit' \in [Workspaces -> Nat]
    BY <2>1
  <2>4. TypeOK'
    BY <2>1, <2>2, <2>3
  <2>5. RowExists' /\ OwnerKnown' /\ PostsOnce' /\ SettlesCompleted'
    BY <2>1 DEF p
  <2>6. NoCreditBeforePayment'
    BY <2>1 DEF p
  <2>7. CreditsFirst'
    BY <2>1, <2>2
  <2> QED BY <2>4, <2>5, <2>6, <2>7
<1>7. ASSUME NEW h \in Handlers, MarkPaid(h) PROVE IInv'
  <2> DEFINE p == pay[h]
  <2>1. /\ p \in Payments /\ stage[h] = "mark" /\ applied[p] > 0
        /\ stage' = [stage EXCEPT ![h] = "idle"]
        /\ pay' = [pay EXCEPT ![h] = NoPayment]
        /\ status' = [status EXCEPT ![p] = "paid"]
        /\ acked' = [acked EXCEPT ![p] = TRUE] \/ acked' = acked
        /\ UNCHANGED <<owner, provider_ref, applied, credit, session, interrupted, faults>>
    BY <1>7 DEF MarkPaid, AnswerStripe
  <2> HIDE DEF p
  <2>2. TypeOK' /\ RowExists' /\ NoCreditBeforePayment' /\ SettlesCompleted'
    BY <2>1
  <2>3. OwnerKnown' /\ PostsOnce'
    BY <1>7, <2>1 DEF p
  <2>4. CreditsFirst'
    BY <2>1
  <2> QED BY <2>2, <2>3, <2>4
<1>8. ASSUME NEW h \in Handlers, Fail(h) PROVE IInv'
  BY <1>8 DEF Fail
<1>9. ASSUME NEW p \in Payments, CustomerPays(p) PROVE IInv'
  BY <1>9 DEF CustomerPays
<1>10. CASE UNCHANGED vars
  BY <1>10 DEF vars
<1> QED BY <1>1, <1>2, <1>3, <1>4, <1>5, <1>6, <1>7, <1>8, <1>9, <1>10 DEF Next, Handle

\* The rows, Stripe's sessions and the handlers always have their types.
THEOREM TypeCorrect == Spec => []TypeOK
BY IInvInit, IInvStep, PTL DEF Spec, IInv

\* Credits of stripe payments are granted only for completed sessions.
THEOREM NoCreditBeforePaymentAlways == Spec => []NoCreditBeforePayment
BY IInvInit, IInvStep, PTL DEF Spec, IInv

\* An acknowledged event has been settled, whatever failed or overlapped.
THEOREM AckedIsSettledAlways == Spec => []AckedIsSettled
<1>1. IInv => AckedIsSettled
  BY DEF IInv, CreditsFirst, AckedIsSettled
<1> QED BY <1>1, IInvInit, IInvStep, PTL DEF Spec

-----------------------------------------------------------------------------
(* Mock payments.                                                          *)

\* A mock payment is unknown to Stripe, is in the hands of at most one handler,
\* and is credited when that handler has settled it.
MockInv ==
    /\ \A h \in Handlers : stage[h] = "post" => Stripe[pay[h]]
    /\ \A p \in Payments : ~Stripe[p] =>
          /\ session[p] = "none"
          /\ applied[p] \in {0, 1}
          /\ status[p] = "none" => applied[p] = 0
    /\ \A h \in Handlers : stage[h] # "idle" =>
          /\ status[pay[h]] # "none"
          /\ ~Stripe[pay[h]] /\ stage[h] = "settle" => applied[pay[h]] = 0
          /\ \A g \in Handlers \ {h} :
                ~Stripe[pay[h]] /\ stage[g] # "idle" => pay[g] # pay[h]

\* Every step preserves MockInv.
LEMMA MockInvStep == IInv /\ MockInv /\ [Next]_vars => MockInv'
<1> SUFFICES ASSUME IInv, MockInv, [Next]_vars PROVE MockInv'
  OBVIOUS
<1> USE PaymentsAssumption DEF IInv, TypeOK, RowExists, MockInv, rows, stripe, At, Answer
<1>1. ASSUME NEW h \in Handlers, NEW p \in Payments, NEW w \in Workspaces, CreateTopup(h, p, w)
      PROVE  MockInv'
  BY <1>1 DEF CreateTopup, Insert
<1>2. ASSUME NEW h \in Handlers, NEW p \in Payments, NEW w \in Workspaces, CreateCheckout(h, p, w)
      PROVE  MockInv'
  BY <1>2 DEF CreateCheckout, Insert
<1>3. ASSUME NEW h \in Handlers, NEW p \in Payments, Deliver(h, p) PROVE MockInv'
  BY <1>3 DEF Deliver, OwnerKnown
<1>4. ASSUME NEW h \in Handlers, PostSession(h) PROVE MockInv'
  BY <1>4 DEF PostSession
<1>5. ASSUME NEW h \in Handlers, SaveRef(h) PROVE MockInv'
  BY <1>5 DEF SaveRef
<1>6. ASSUME NEW h \in Handlers, ApplyCredits(h) PROVE MockInv'
  <2> DEFINE p == pay[h]
  <2>1. /\ p \in Payments /\ stage[h] = "settle"
        /\ stage' = [stage EXCEPT ![h] = "mark"]
        /\ pay' = pay
        /\ applied' = [applied EXCEPT ![p] = @ + 1]
        /\ UNCHANGED <<status, session>>
    BY <1>6 DEF ApplyCredits
  <2>2. /\ p \in Payments /\ ~Stripe[p] => applied[p] = 0 /\ applied'[p] = 1
        /\ status[p] # "none"
        /\ \A q \in Payments : q # p => applied'[q] = applied[q]
    BY <2>1
  <2> QED BY <2>1, <2>2
<1>7. ASSUME NEW h \in Handlers, MarkPaid(h) PROVE MockInv'
  BY <1>7 DEF MarkPaid
<1>8. ASSUME NEW h \in Handlers, Fail(h) PROVE MockInv'
  BY <1>8 DEF Fail
<1>9. ASSUME NEW p \in Payments, CustomerPays(p) PROVE MockInv'
  BY <1>9 DEF CustomerPays
<1>10. CASE UNCHANGED vars
  BY <1>10 DEF vars
<1> QED BY <1>1, <1>2, <1>3, <1>4, <1>5, <1>6, <1>7, <1>8, <1>9, <1>10 DEF Next, Handle

\* A mock payment is credited at most once.
THEOREM MockCreditedAtMostOnceAlways == Spec => []MockCreditedAtMostOnce
<1>1. Init => MockInv
  BY PaymentsAssumption DEF Init, MockInv
<1>2. TypeOK /\ MockInv => MockCreditedAtMostOnce
  BY DEF TypeOK, MockInv, MockCreditedAtMostOnce
<1>3. IInv => TypeOK
  BY DEF IInv
<1> QED BY <1>1, <1>2, <1>3, IInvInit, IInvStep, MockInvStep, PTL DEF Spec

-----------------------------------------------------------------------------
(* How often a payment is credited.                                        *)

\* The handlers about to apply a payment, and those that have just done so.
Settling(p) == {h \in Handlers : stage[h] = "settle" /\ pay[h] = p}
Marking(p) == {h \in Handlers : stage[h] = "mark" /\ pay[h] = p}

\* Before the row says paid, every application is one whose handler is about
\* to say so, or was cut off; after that, only those handlers that had read
\* the row before can still apply it.
CountOf(p) ==
    IF status[p] = "paid"
      THEN applied[p] + Cardinality(Settling(p)) <= interrupted[p] + Cardinality(Handlers)
      ELSE applied[p] <= interrupted[p] + Cardinality(Marking(p))

CountInv == \A p \in Payments : CountOf(p)

\* Sets of handlers are finite, smaller ones have no more members, and two
\* disjoint ones together have no more than there are.
LEMMA HandlerSets ==
    ASSUME NEW S, NEW T, S \subseteq Handlers, T \subseteq Handlers
    PROVE  /\ IsFiniteSet(S) /\ Cardinality(S) \in Nat
           /\ Cardinality(S) <= Cardinality(Handlers) /\ Cardinality(Handlers) \in Nat
           /\ S \subseteq T => Cardinality(S) <= Cardinality(T)
           /\ S \cap T = {} => Cardinality(S) + Cardinality(T) <= Cardinality(Handlers)
<1>1. /\ IsFiniteSet(S) /\ Cardinality(S) \in Nat /\ Cardinality(S) <= Cardinality(Handlers)
      /\ IsFiniteSet(T) /\ Cardinality(T) \in Nat /\ Cardinality(Handlers) \in Nat
  BY PaymentsAssumption, FS_Subset, FS_CardinalityType
<1>2. S \subseteq T => Cardinality(S) <= Cardinality(T)
  BY <1>1, FS_Subset
<1>3. ASSUME S \cap T = {} PROVE Cardinality(S) + Cardinality(T) <= Cardinality(Handlers)
  <2>0. Cardinality(S \cap T) = 0
    BY <1>3, FS_EmptySet
  <2>1. Cardinality(S \cup T) = Cardinality(S) + Cardinality(T) - Cardinality(S \cap T)
    BY <1>1, FS_Union
  <2>2. Cardinality(S \cup T) <= Cardinality(Handlers)
    BY PaymentsAssumption, FS_Subset
  <2> QED BY <1>1, <2>0, <2>1, <2>2
<1> QED BY <1>1, <1>2, <1>3

\* The two kinds of handlers of a payment.
LEMMA Counts ==
    ASSUME NEW p
    PROVE  /\ IsFiniteSet(Settling(p)) /\ Cardinality(Settling(p)) \in Nat
           /\ IsFiniteSet(Marking(p)) /\ Cardinality(Marking(p)) \in Nat
           /\ Cardinality(Handlers) \in Nat
           /\ Cardinality(Marking(p)) <= Cardinality(Handlers)
           /\ Cardinality(Marking(p)) + Cardinality(Settling(p)) <= Cardinality(Handlers)
<1>1. /\ Settling(p) \subseteq Handlers /\ Marking(p) \subseteq Handlers
      /\ Marking(p) \cap Settling(p) = {}
  BY DEF Settling, Marking
<1> QED BY <1>1, HandlerSets

\* A step that neither applies nor marks p keeps its count.
LEMMA CountQuiet ==
    ASSUME NEW p \in Payments, TypeOK, CountOf(p),
           applied'[p] = applied[p], interrupted'[p] = interrupted[p],
           status[p] = "paid" <=> status'[p] = "paid",
           Marking(p)' = Marking(p),
           status[p] = "paid" => Settling(p)' \subseteq Settling(p)
    PROVE  CountOf(p)'
<1>1. CASE status[p] = "paid"
  <2>1. Cardinality(Settling(p)') <= Cardinality(Settling(p)) /\ Cardinality(Settling(p)') \in Nat
    BY <1>1, Counts, FS_Subset, FS_CardinalityType
  <2> QED BY <1>1, <2>1, Counts DEF CountOf, TypeOK
<1>2. CASE status[p] # "paid"
  BY <1>2 DEF CountOf
<1> QED BY <1>1, <1>2

\* A handler applies p.
LEMMA CountApply ==
    ASSUME IInv, NEW h \in Handlers, ApplyCredits(h), CountOf(pay[h])
    PROVE  \A p \in Payments : p = pay[h] => CountOf(p)'
<1> SUFFICES ASSUME NEW p \in Payments, p = pay[h] PROVE CountOf(p)'
  OBVIOUS
<1>1. /\ h \in Settling(p) /\ h \notin Marking(p)
      /\ applied' = [applied EXCEPT ![p] = @ + 1]
      /\ UNCHANGED <<status, interrupted>>
  BY DEF IInv, TypeOK, RowExists, ApplyCredits, Settling, Marking, At
<1>2. /\ Settling(p)' = Settling(p) \ {h}
      /\ Marking(p)' = Marking(p) \cup {h}
  BY <1>1 DEF IInv, TypeOK, ApplyCredits, Settling, Marking, At
<1>3. /\ Cardinality(Settling(p)') = Cardinality(Settling(p)) - 1
      /\ Cardinality(Marking(p)') = Cardinality(Marking(p)) + 1
  <2>1. IsFiniteSet(Settling(p)) /\ IsFiniteSet(Marking(p))
    BY Counts
  <2>2. Cardinality(Settling(p) \ {h}) = Cardinality(Settling(p)) - 1
    BY <1>1, <2>1, FS_RemoveElement
  <2>3. Cardinality(Marking(p) \cup {h}) = Cardinality(Marking(p)) + 1
    BY <1>1, <2>1, FS_AddElement
  <2> QED BY <1>2, <2>2, <2>3
<1>4. applied[p] \in Nat /\ interrupted[p] \in Nat /\ applied'[p] = applied[p] + 1
  BY <1>1 DEF IInv, TypeOK
<1> QED BY <1>1, <1>3, <1>4, Counts DEF CountOf

\* A handler marks p paid.
LEMMA CountMark ==
    ASSUME IInv, NEW h \in Handlers, MarkPaid(h), CountOf(pay[h])
    PROVE  \A p \in Payments : p = pay[h] => CountOf(p)'
<1> SUFFICES ASSUME NEW p \in Payments, p = pay[h] PROVE CountOf(p)'
  OBVIOUS
<1>1. /\ status'[p] = "paid" /\ applied' = applied /\ interrupted' = interrupted
      /\ Settling(p)' = Settling(p)
  BY DEF IInv, TypeOK, MarkPaid, Settling, Answer, At
<1>2. applied[p] \in Nat /\ interrupted[p] \in Nat
  BY DEF IInv, TypeOK
<1>3. applied[p] + Cardinality(Settling(p)) <= interrupted[p] + Cardinality(Handlers)
  BY <1>2, Counts DEF CountOf
<1> QED BY <1>1, <1>3 DEF CountOf

\* A handler that has applied p is cut off before it marks it.
LEMMA CountFail ==
    ASSUME IInv, NEW h \in Handlers, Fail(h), stage[h] = "mark", CountOf(pay[h])
    PROVE  \A p \in Payments : p = pay[h] => CountOf(p)'
<1> SUFFICES ASSUME NEW p \in Payments, p = pay[h] PROVE CountOf(p)'
  OBVIOUS
<1>1. /\ UNCHANGED <<status, applied>>
      /\ interrupted'[p] = interrupted[p] + 1
      /\ h \in Marking(p) /\ Marking(p)' = Marking(p) \ {h}
      /\ Settling(p)' = Settling(p)
  BY DEF IInv, TypeOK, Fail, Settling, Marking, Answer, At, rows
<1>2. Cardinality(Marking(p)') = Cardinality(Marking(p)) - 1
  BY <1>1, Counts, FS_RemoveElement
<1>3. applied[p] \in Nat /\ interrupted[p] \in Nat
  BY DEF IInv, TypeOK
<1> QED BY <1>1, <1>2, <1>3, Counts DEF CountOf

\* Every step keeps the count of every payment.
LEMMA CountStep == IInv /\ CountInv /\ [Next]_vars => CountInv'
<1> SUFFICES ASSUME IInv, CountInv, [Next]_vars, NEW q \in Payments PROVE CountOf(q)'
  BY DEF CountInv
<1>a. TypeOK /\ CountOf(q)
  BY DEF IInv, CountInv
<1> USE DEF TypeOK, Settling, Marking, rows, At, Answer
<1>1. ASSUME NEW h \in Handlers, NEW p \in Payments, NEW w \in Workspaces,
             CreateTopup(h, p, w) \/ CreateCheckout(h, p, w)
      PROVE  CountOf(q)'
  <2>1. /\ applied' = applied /\ interrupted' = interrupted
        /\ status[q] = "paid" <=> status'[q] = "paid"
    BY <1>1, <1>a DEF CreateTopup, CreateCheckout, Insert
  <2>2. Marking(q)' = Marking(q)
    BY <1>1, <1>a DEF CreateTopup, CreateCheckout, Insert
  <2>3. status[q] = "paid" => Settling(q)' \subseteq Settling(q)
    BY <1>1, <1>a DEF CreateTopup, CreateCheckout, Insert
  <2> QED BY <1>a, <2>1, <2>2, <2>3, CountQuiet
<1>2. ASSUME NEW h \in Handlers, NEW p \in Payments, Deliver(h, p) PROVE CountOf(q)'
  BY <1>2, <1>a, CountQuiet DEF Deliver
<1>3. ASSUME NEW h \in Handlers, PostSession(h) \/ SaveRef(h) PROVE CountOf(q)'
  BY <1>3, <1>a, CountQuiet DEF PostSession, SaveRef
<1>4. ASSUME NEW h \in Handlers, ApplyCredits(h) PROVE CountOf(q)'
  <2>1. CASE q = pay[h]
    BY <1>4, <1>a, <2>1, CountApply
  <2>2. CASE q # pay[h]
    BY <1>4, <1>a, <2>2, CountQuiet DEF ApplyCredits
  <2> QED BY <2>1, <2>2
<1>5. ASSUME NEW h \in Handlers, MarkPaid(h) PROVE CountOf(q)'
  <2>1. CASE q = pay[h]
    BY <1>5, <1>a, <2>1, CountMark
  <2>2. CASE q # pay[h]
    BY <1>5, <1>a, <2>2, CountQuiet DEF MarkPaid
  <2> QED BY <2>1, <2>2
<1>6. ASSUME NEW h \in Handlers, Fail(h) PROVE CountOf(q)'
  <2>1. CASE q = pay[h] /\ stage[h] = "mark"
    BY <1>6, <1>a, <2>1, CountFail
  <2>2. CASE ~(q = pay[h] /\ stage[h] = "mark")
    BY <1>6, <1>a, <2>2, CountQuiet DEF Fail
  <2> QED BY <2>1, <2>2
<1>7. ASSUME NEW p \in Payments, CustomerPays(p) PROVE CountOf(q)'
  BY <1>7, <1>a, CountQuiet DEF CustomerPays
<1>8. CASE UNCHANGED vars
  BY <1>8, <1>a, CountQuiet DEF vars
<1> QED BY <1>1, <1>2, <1>3, <1>4, <1>5, <1>6, <1>7, <1>8 DEF Next, Handle

\* A payment is credited at most once by each handler that can be running,
\* and once more for each settlement that was cut off between its commits.
THEOREM OverCreditAlwaysBounded == Spec => []OverCreditBounded
<1>1. Init => CountInv
  <2> SUFFICES ASSUME Init, NEW p \in Payments PROVE CountOf(p)
    BY DEF CountInv
  <2>1. status[p] # "paid" /\ applied[p] = 0 /\ interrupted[p] = 0
    BY DEF Init
  <2> QED BY <2>1, Counts DEF CountOf
<1>2. TypeOK /\ CountInv => OverCreditBounded
  <2> SUFFICES ASSUME TypeOK, CountInv, NEW p \in Payments
               PROVE  applied[p] <= Cardinality(Handlers) + interrupted[p]
    BY DEF OverCreditBounded
  <2>1. applied[p] \in Nat /\ interrupted[p] \in Nat /\ CountOf(p)
    BY DEF TypeOK, CountInv
  <2> QED BY <2>1, Counts DEF CountOf
<1>3. IInv => TypeOK
  BY DEF IInv
<1> QED BY <1>1, <1>2, <1>3, IInvInit, IInvStep, CountStep, PTL DEF Spec

-----------------------------------------------------------------------------
(* Balances and ledger rows, and the prepaid account.                      *)

\* A payment whose row does not exist has no workspace, and no ledger rows.
NoRowNoMoney ==
    \A p \in Payments : status[p] = "none" => owner[p] = NoWorkspace /\ applied[p] = 0

\* Every step preserves it.
LEMMA NoRowNoMoneyStep == IInv /\ NoRowNoMoney /\ [Next]_vars => NoRowNoMoney'
<1> SUFFICES ASSUME IInv, NoRowNoMoney, [Next]_vars PROVE NoRowNoMoney'
  OBVIOUS
<1> USE PaymentsAssumption DEF IInv, TypeOK, RowExists, NoRowNoMoney, rows
<1>1. ASSUME NEW h \in Handlers, NEW p \in Payments, NEW w \in Workspaces,
             CreateTopup(h, p, w) \/ CreateCheckout(h, p, w)
      PROVE  NoRowNoMoney'
  BY <1>1 DEF CreateTopup, CreateCheckout, Insert
<1>2. ASSUME NEW h \in Handlers, ApplyCredits(h) PROVE NoRowNoMoney'
  <2>1. /\ pay[h] \in Payments /\ status[pay[h]] # "none"
        /\ applied' = [applied EXCEPT ![pay[h]] = @ + 1]
        /\ UNCHANGED <<status, owner>>
    BY <1>2 DEF ApplyCredits
  <2> QED BY <2>1
<1>3. ASSUME NEW h \in Handlers, MarkPaid(h) PROVE NoRowNoMoney'
  BY <1>3 DEF MarkPaid
<1>4. CASE UNCHANGED <<status, owner, applied>>
  BY <1>4
<1>5. ASSUME NEW h \in Handlers,
             PostSession(h) \/ SaveRef(h) \/ Fail(h) \/ \E p \in Payments : Deliver(h, p)
      PROVE  UNCHANGED <<status, owner, applied>>
  BY <1>5 DEF PostSession, SaveRef, Fail, Deliver
<1>6. ASSUME NEW p \in Payments, CustomerPays(p) PROVE UNCHANGED <<status, owner, applied>>
  BY <1>6 DEF CustomerPays
<1>7. CASE UNCHANGED vars
  BY <1>4, <1>7 DEF vars
<1> QED BY <1>1, <1>2, <1>3, <1>4, <1>5, <1>6, <1>7 DEF Next, Handle

\* The summands of a ledger are numbers.
LEMMA GrantedType ==
    ASSUME TypeOK, NEW w \in Workspaces
    PROVE  [p \in Payments |-> Granted(p, w)] \in [Payments -> Nat]
<1>1. ASSUME NEW p \in Payments PROVE Granted(p, w) \in Nat
  <2>1. applied[p] \in Nat /\ Amount[p] \in Nat
    BY PaymentsAssumption DEF TypeOK
  <2> QED BY <2>1 DEF Granted
<1> QED BY <1>1

\* What a step does to the account: nothing, or one payment is credited to its
\* workspace.
Grants(p) ==
    /\ owner[p] \in Workspaces
    /\ applied' = [applied EXCEPT ![p] = @ + 1]
    /\ credit' = [credit EXCEPT ![owner[p]] = @ + Amount[p]]
    /\ owner' = owner

Keeps == credit' = credit /\ \A w \in Workspaces : LedgerOf(w)' = LedgerOf(w)

\* Ledgers whose summands stay stay.
LEMMA SameLedger ==
    ASSUME \A w \in Workspaces, p \in Payments : Granted(p, w)' = Granted(p, w)
    PROVE  \A w \in Workspaces : LedgerOf(w)' = LedgerOf(w)
<1> SUFFICES ASSUME NEW w \in Workspaces PROVE LedgerOf(w)' = LedgerOf(w)
  OBVIOUS
<1>1. [p \in Payments |-> Granted(p, w)'] = [p \in Payments |-> Granted(p, w)]
  OBVIOUS
<1> QED BY <1>1 DEF LedgerOf

\* Crediting p raises the ledger of its workspace by its amount, and no other.
LEMMA CreditedLedger ==
    ASSUME TypeOK, TypeOK', NEW p \in Payments, Grants(p), NEW w \in Workspaces
    PROVE  LedgerOf(w)' = LedgerOf(w) + IF w = owner[p] THEN Amount[p] ELSE 0
<1> DEFINE f == [q \in Payments |-> Granted(q, w)]
           g == [q \in Payments |-> Granted(q, w)']
<1>1. f \in [Payments -> Int] /\ g \in [Payments -> Int]
  <2>1. f \in [Payments -> Nat]
    BY GrantedType
  <2>2. g \in [Payments -> Nat]
    <3>1. ASSUME NEW q \in Payments PROVE Granted(q, w)' \in Nat
      <4>1. applied'[q] \in Nat /\ Amount[q] \in Nat
        BY PaymentsAssumption DEF TypeOK
      <4> QED BY <4>1 DEF Granted
    <3> QED BY <3>1
  <2> QED BY <2>1, <2>2
<1>2. \A q \in Payments \ {p} : g[q] = f[q]
  BY DEF Grants, Granted, TypeOK
<1>3. g[p] - f[p] = IF w = owner[p] THEN Amount[p] ELSE 0
  <2>1. applied[p] \in Nat /\ Amount[p] \in Nat /\ applied'[p] = applied[p] + 1 /\ owner' = owner
    BY PaymentsAssumption DEF Grants, TypeOK
  <2>2. f[p] = Granted(p, w) /\ g[p] = Granted(p, w)'
    OBVIOUS
  <2>3. CASE w = owner[p]
    <3>1. f[p] = applied[p] * Amount[p] /\ g[p] = (applied[p] + 1) * Amount[p]
      BY <2>1, <2>2, <2>3 DEF Granted
    <3>2. (applied[p] + 1) * Amount[p] = applied[p] * Amount[p] + Amount[p]
      BY <2>1
    <3>3. applied[p] * Amount[p] \in Nat
      BY <2>1
    <3> QED BY <2>1, <2>3, <3>1, <3>2, <3>3
  <2>4. CASE w # owner[p]
    BY <2>1, <2>2, <2>4 DEF Granted
  <2> QED BY <2>3, <2>4
<1>4. SumFunction(g) = SumFunction(f) + (g[p] - f[p])
  <2> HIDE DEF f, g
  <2> QED BY PaymentsAssumption, <1>1, <1>2, SumChanges
<1> QED BY <1>3, <1>4 DEF LedgerOf

\* Every step keeps the account or credits a payment.
LEMMA MoneyStep ==
    ASSUME IInv, NoRowNoMoney, [Next]_vars
    PROVE  Keeps \/ \E p \in Payments : Grants(p)
<1>1. ASSUME NEW h \in Handlers, NEW q \in Payments, NEW v \in Workspaces,
             CreateTopup(h, q, v) \/ CreateCheckout(h, q, v)
      PROVE  Keeps
  <2>1. /\ credit' = credit /\ applied' = applied /\ applied[q] = 0 /\ Amount \in [Payments -> Nat]
        /\ owner' = [owner EXCEPT ![q] = v]
    BY <1>1, PaymentsAssumption DEF CreateTopup, CreateCheckout, Insert, NoRowNoMoney
  <2>2. ASSUME NEW w \in Workspaces, NEW p \in Payments PROVE Granted(p, w)' = Granted(p, w)
    <3>1. CASE p = q
      <4>1. applied[p] * Amount[p] = 0
        BY <2>1, <3>1
      <4> QED BY <2>1, <3>1, <4>1 DEF Granted
    <3>2. CASE p # q
      BY <2>1, <3>2 DEF Granted, IInv, TypeOK
    <3> QED BY <3>1, <3>2
  <2> QED BY <2>1, <2>2, SameLedger DEF Keeps
<1>2. ASSUME NEW h \in Handlers, ApplyCredits(h) PROVE Grants(pay[h]) /\ pay[h] \in Payments
  BY <1>2 DEF ApplyCredits, Grants, IInv, RowExists
<1>3. CASE UNCHANGED <<credit, applied, owner>>
  <2>1. \A w \in Workspaces, p \in Payments : Granted(p, w)' = Granted(p, w)
    BY <1>3 DEF Granted
  <2> QED BY <1>3, <2>1, SameLedger DEF Keeps
<1>4. ASSUME NEW h \in Handlers,
             \/ PostSession(h) \/ SaveRef(h) \/ MarkPaid(h) \/ Fail(h)
             \/ \E p \in Payments : Deliver(h, p)
      PROVE  UNCHANGED <<credit, applied, owner>>
  BY <1>4 DEF PostSession, SaveRef, MarkPaid, Fail, Deliver, rows
<1>5. ASSUME NEW p \in Payments, CustomerPays(p) PROVE UNCHANGED <<credit, applied, owner>>
  BY <1>5 DEF CustomerPays, rows
<1>6. CASE UNCHANGED vars
  BY <1>3, <1>6 DEF vars, rows
<1> QED BY <1>1, <1>2, <1>3, <1>4, <1>5, <1>6 DEF Next, Handle

\* At the start there are no rows, and nothing in any ledger.
LEMMA MoneyInit ==
    ASSUME Init
    PROVE  NoRowNoMoney /\ \A w \in Workspaces : credit[w] = 0 /\ LedgerOf(w) = 0
<1>1. ASSUME NEW w \in Workspaces PROVE LedgerOf(w) = 0
  <2> DEFINE f == [p \in Payments |-> Granted(p, w)]
  <2>1. \A p \in Payments : Granted(p, w) = 0
    BY PaymentsAssumption DEF Init, Granted
  <2>2. f \in [Payments -> Int] /\ \A p \in Payments : f[p] = 0
    BY <2>1
  <2>3. SumFunction(f) = 0
    <3> HIDE DEF f
    <3> QED BY <2>2, PaymentsAssumption, SumOfZeros
  <2> QED BY <2>3 DEF LedgerOf
<1> QED BY <1>1 DEF Init, NoRowNoMoney

\* The ledger of a workspace is a number.
LEMMA LedgerType == ASSUME TypeOK, NEW w \in Workspaces PROVE LedgerOf(w) \in Nat
<1> DEFINE f == [p \in Payments |-> Granted(p, w)]
<1>1. f \in [Payments -> Nat] /\ f \in [Payments -> Int]
  <2>1. f \in [Payments -> Nat]
    BY GrantedType
  <2> QED BY <2>1
<1>2. SumFunction(f) \in Nat
  <2> HIDE DEF f
  <2> QED BY <1>1, PaymentsAssumption, SumType
<1> QED BY <1>2 DEF LedgerOf

\* A balance is what the ledger rows of its workspace add up to: every row that
\* is written comes with its amount, and inserting a payment adds nothing.
THEOREM CreditMatchesRowsAlways == Spec => []CreditMatchesRows
<1> DEFINE Inv == IInv /\ NoRowNoMoney /\ CreditMatchesRows
<1>1. Init => Inv
  BY IInvInit, MoneyInit DEF CreditMatchesRows
<1>2. Inv /\ [Next]_vars => Inv'
  <2> SUFFICES ASSUME Inv, [Next]_vars PROVE CreditMatchesRows'
    BY IInvStep, NoRowNoMoneyStep
  <2>0. TypeOK /\ TypeOK'
    BY IInvStep DEF IInv
  <2>1. CASE Keeps
    BY <2>1 DEF CreditMatchesRows, Keeps
  <2>2. ASSUME NEW p \in Payments, Grants(p), NEW w \in Workspaces
        PROVE  credit'[w] = LedgerOf(w)'
    <3>1. LedgerOf(w)' = LedgerOf(w) + IF w = owner[p] THEN Amount[p] ELSE 0
      BY <2>0, <2>2, CreditedLedger
    <3>2. credit[w] = LedgerOf(w) /\ credit[w] \in Nat /\ Amount[p] \in Nat
      BY <2>0, PaymentsAssumption DEF CreditMatchesRows, TypeOK
    <3>3. credit'[w] = credit[w] + IF w = owner[p] THEN Amount[p] ELSE 0
      BY <2>0, <2>2, <3>2 DEF Grants, TypeOK
    <3> QED BY <3>1, <3>2, <3>3
  <2> QED BY <2>1, <2>2, MoneyStep DEF CreditMatchesRows
<1>3. Inv => CreditMatchesRows
  OBVIOUS
<1> QED BY <1>1, <1>2, <1>3, PTL DEF Spec

\* Payments implement the prepaid account that the proxy implements: their one
\* movement of money is a credit, of the amount of a payment, to its workspace.
THEOREM Refinement == Spec => ImplementsAccount
<1> DEFINE Inv == IInv /\ NoRowNoMoney
<1>1. Init => Inv
  BY IInvInit, MoneyInit
<1>2. Inv /\ [Next]_vars => Inv'
  BY IInvStep, NoRowNoMoneyStep
<1>3. Init => Account!Init
  BY MoneyInit DEF Init, Account!Init
<1>4. Inv /\ [Next]_vars => [Account!Next]_(Account!vars)
  <2> SUFFICES ASSUME Inv, [Next]_vars PROVE [Account!Next]_(Account!vars)
    OBVIOUS
  <2>0. TypeOK /\ TypeOK'
    BY IInvStep DEF IInv
  <2>1. CASE Keeps
    BY <2>1 DEF Keeps, Account!vars
  <2>2. ASSUME NEW p \in Payments, Grants(p) PROVE Account!Next
    <3>1. ASSUME NEW w \in Workspaces
          PROVE  LedgerOf(w)' = LedgerOf(w) + IF w = owner[p] THEN Amount[p] ELSE 0
      BY <2>0, <2>2, <3>1, CreditedLedger
    <3>2. \A w \in Workspaces : LedgerOf(w) \in Nat
      BY <2>0, LedgerType
    <3>3. [w \in Workspaces |-> LedgerOf(w)'] =
             [[w \in Workspaces |-> LedgerOf(w)] EXCEPT ![owner[p]] = @ + Amount[p]]
      BY <3>1, <3>2
    <3>4. Account!Credit(owner[p], Amount[p])
      BY <2>2, <3>3 DEF Account!Credit, Grants
    <3> QED BY <2>2, <3>4 DEF Account!Next, Grants
  <2> QED BY <2>1, <2>2, MoneyStep
<1> QED BY <1>1, <1>2, <1>3, <1>4, PTL DEF Spec, ImplementsAccount, Account!Spec
=============================================================================
