------------------------------ MODULE Payments ------------------------------
(***************************************************************************)
(* Credit top-ups (payments.py, and the routes of admin.py that call it).  *)
(* A payment row is created pending; in mock mode it is settled at once,   *)
(* in stripe mode when the webhook of a completed checkout session comes   *)
(* in.  Stripe delivers an event at least once and again until it is       *)
(* answered 200, to any process, while an earlier delivery may still be at *)
(* work.  Settling is two transactions: the credits, then the status.      *)
(*                                                                         *)
(* Stripe itself is external: what it does is read off the calls the code  *)
(* makes to it and the events the code accepts from it.  Events of another *)
(* type, for no known payment, or with a bad signature change nothing.     *)
(***************************************************************************)
EXTENDS Integers, FiniteSets, Functions

CONSTANTS
    Payments,       \* the payment rows there can be
    NoPayment,      \* the value of pay[h] when h serves none
    Workspaces, NoWorkspace,
    Handlers,       \* the handlers that can be running at the same time
    Stripe,         \* Payment.provider: "stripe", as is_stripe_enabled() said when the
                    \* row was created, or "mock"
    Amount,         \* Payment.credits_micros, fixed from amount_cents
    MaxFaults       \* BOUND on crashes and failed commits

ASSUME PaymentsAssumption ==
    /\ IsFiniteSet(Payments) /\ IsFiniteSet(Handlers)
    /\ NoPayment \notin Payments
    /\ NoWorkspace \notin Workspaces
    /\ Stripe \in [Payments -> BOOLEAN]
    /\ Amount \in [Payments -> Nat]
    /\ MaxFaults \in Nat

VARIABLES
    \* the database
    status,         \* Payment.status, "none" before the row exists
    owner,          \* Payment.workspace_id
    provider_ref,   \* whether Payment.provider_ref is set
    applied,        \* LedgerEntry rows with reason topup:<provider>:<payment>
    credit,         \* Workspace.credit_micros
    \* Stripe
    session,        \* the checkout session of a payment
    acked,          \* whether an event of the payment was answered 200
    \* the handlers
    stage, pay,     \* where a handler is and the payment it serves
    \* history
    interrupted,    \* settlements of a payment that died between their two commits
    faults

rows == <<status, owner, provider_ref, applied, credit>>
stripe == <<session, acked>>
vars == <<rows, stripe, stage, pay, interrupted, faults>>

Init ==
    /\ status = [p \in Payments |-> "none"]
    /\ owner = [p \in Payments |-> NoWorkspace]
    /\ provider_ref = [p \in Payments |-> FALSE]
    /\ applied = [p \in Payments |-> 0]
    /\ credit = [w \in Workspaces |-> 0]
    /\ session = [p \in Payments |-> "none"]
    /\ acked = [p \in Payments |-> FALSE]
    /\ stage = [h \in Handlers |-> "idle"]
    /\ pay = [h \in Handlers |-> NoPayment]
    /\ interrupted = [p \in Payments |-> 0]
    /\ faults = 0

\* Handler h goes on at s with payment p; or it has answered.
At(h, s, p) ==
    /\ stage' = [stage EXCEPT ![h] = s]
    /\ pay' = [pay EXCEPT ![h] = p]

Answer(h) == At(h, "idle", NoPayment)

Insert(p, w) ==
    /\ status[p] = "none"
    /\ status' = [status EXCEPT ![p] = "pending"]
    /\ owner' = [owner EXCEPT ![p] = w]

-----------------------------------------------------------------------------
(* POST /workspaces/{w}/topup and /checkout.                               *)

\* Mutant: the mode is not looked at before settling.
CreateTopupAlwaysSettles(h, p, w) ==
    /\ stage[h] = "idle"
    /\ Insert(p, w)
    /\ At(h, "settle", p)
    /\ UNCHANGED <<provider_ref, applied, credit, stripe, interrupted, faults>>

\* create_topup: the row is committed, and settled only in mock mode.
CreateTopup(h, p, w) ==
    /\ stage[h] = "idle"
    /\ Insert(p, w)
    /\ IF Stripe[p] THEN Answer(h) ELSE At(h, "settle", p)
    /\ UNCHANGED <<provider_ref, applied, credit, stripe, interrupted, faults>>

\* create_checkout_session: the row is committed before Stripe is called.
CreateCheckout(h, p, w) ==
    /\ Stripe[p]
    /\ stage[h] = "idle"
    /\ Insert(p, w)
    /\ At(h, "post", p)
    /\ UNCHANGED <<provider_ref, applied, credit, stripe, interrupted, faults>>

\* Stripe creates the session and answers; or it does not, or its answer is
\* an error or lost, and the handler raises, leaving the row pending.
PostSession(h) ==
    /\ stage[h] = "post"
    /\ \/ /\ session' = [session EXCEPT ![pay[h]] = "open"]
          /\ At(h, "ref", pay[h])
       \/ /\ session' \in {session, [session EXCEPT ![pay[h]] = "open"]}
          /\ Answer(h)
    /\ UNCHANGED <<rows, acked, interrupted, faults>>

\* The session id is stored, and its URL goes out to the customer.
SaveRef(h) ==
    /\ stage[h] = "ref"
    /\ provider_ref' = [provider_ref EXCEPT ![pay[h]] = TRUE]
    /\ Answer(h)
    /\ UNCHANGED <<status, owner, applied, credit, stripe, interrupted, faults>>

\* The customer completes a session whose URL was handed out.
CustomerPays(p) ==
    /\ session[p] = "open"
    /\ provider_ref[p]
    /\ session' = [session EXCEPT ![p] = "completed"]
    /\ UNCHANGED <<rows, acked, stage, pay, interrupted, faults>>

-----------------------------------------------------------------------------
(* The webhook, and settle_payment.                                        *)

\* The webhook answers 200, and Stripe may or may not get to see it.
AnswerStripe(p) == acked' \in {acked, [acked EXCEPT ![p] = TRUE]}

\* Mutant: the event is acknowledged before it is processed.
DeliverAckFirst(h, p) ==
    /\ session[p] = "completed"
    /\ stage[h] = "idle"
    /\ acked' = [acked EXCEPT ![p] = TRUE]
    /\ IF status[p] = "paid" THEN Answer(h) ELSE At(h, "settle", p)
    /\ UNCHANGED <<rows, session, interrupted, faults>>

\* Mutant: settle_payment does not look at the status.
DeliverUnchecked(h, p) ==
    /\ session[p] = "completed"
    /\ stage[h] = "idle"
    /\ At(h, "settle", p)
    /\ UNCHANGED <<rows, stripe, interrupted, faults>>

\* checkout.session.completed comes in, for the first time or again.  The row
\* is loaded; one that is already paid is answered at once.  The status that
\* was read is not read again before the credits are applied.
Deliver(h, p) ==
    /\ session[p] = "completed"
    /\ stage[h] = "idle"
    /\ \/ /\ status[p] = "paid"
          /\ AnswerStripe(p)
          /\ Answer(h)
       \/ /\ status[p] # "paid"
          /\ At(h, "settle", p)
          /\ UNCHANGED acked
    /\ UNCHANGED <<rows, session, interrupted, faults>>

\* billing.top_up: ledger row and balance in one commit.
ApplyCredits(h) ==
    /\ stage[h] = "settle"
    /\ applied' = [applied EXCEPT ![pay[h]] = @ + 1]
    /\ credit' = [credit EXCEPT ![owner[pay[h]]] = @ + Amount[pay[h]]]
    /\ At(h, "mark", pay[h])
    /\ UNCHANGED <<status, owner, provider_ref, stripe, interrupted, faults>>

\* Mutant: the status written is not one that the readers of the row know.
MarkSettled(h) ==
    /\ stage[h] = "mark"
    /\ status' = [status EXCEPT ![pay[h]] = "settled"]
    /\ IF Stripe[pay[h]] THEN AnswerStripe(pay[h]) ELSE UNCHANGED acked
    /\ Answer(h)
    /\ UNCHANGED <<owner, provider_ref, applied, credit, session, interrupted, faults>>

\* The second commit, and the answer.
MarkPaid(h) ==
    /\ stage[h] = "mark"
    /\ status' = [status EXCEPT ![pay[h]] = "paid"]
    /\ IF Stripe[pay[h]] THEN AnswerStripe(pay[h]) ELSE UNCHANGED acked
    /\ Answer(h)
    /\ UNCHANGED <<owner, provider_ref, applied, credit, session, interrupted, faults>>

\* Mutant: a failed settlement is answered 200 all the same.
FailAnsweredOk(h) ==
    /\ stage[h] # "idle"
    /\ faults < MaxFaults
    /\ faults' = faults + 1
    /\ interrupted' = IF stage[h] = "mark" THEN [interrupted EXCEPT ![pay[h]] = @ + 1]
                      ELSE interrupted
    /\ IF stage[h] \in {"settle", "mark"} THEN AnswerStripe(pay[h]) ELSE UNCHANGED acked
    /\ Answer(h)
    /\ UNCHANGED <<rows, session>>

\* Mutant: the ledger row is committed apart from the balance.
FailHalfway(h) ==
    /\ stage[h] # "idle"
    /\ faults < MaxFaults
    /\ faults' = faults + 1
    /\ interrupted' = IF stage[h] = "settle" THEN [interrupted EXCEPT ![pay[h]] = @ + 1]
                      ELSE interrupted
    /\ applied' = IF stage[h] = "settle" THEN [applied EXCEPT ![pay[h]] = @ + 1] ELSE applied
    /\ Answer(h)
    /\ UNCHANGED <<status, owner, provider_ref, credit, stripe>>

\* Mutant: settling is tried again from the start when its second commit fails.
FailRetried(h) ==
    /\ stage[h] # "idle"
    /\ faults < MaxFaults
    /\ faults' = faults + 1
    /\ IF stage[h] = "mark" THEN At(h, "settle", pay[h]) ELSE Answer(h)
    /\ UNCHANGED <<rows, stripe, interrupted>>

\* Mutant: a settlement that fails after its first commit takes it back.
FailTakenBack(h) ==
    /\ stage[h] # "idle"
    /\ faults < MaxFaults
    /\ faults' = faults + 1
    /\ IF stage[h] = "mark"
         THEN /\ applied' = [applied EXCEPT ![pay[h]] = @ - 1]
              /\ credit' = [credit EXCEPT ![owner[pay[h]]] = @ - Amount[pay[h]]]
         ELSE UNCHANGED <<applied, credit>>
    /\ Answer(h)
    /\ UNCHANGED <<status, owner, provider_ref, stripe, interrupted>>

\* The commit a handler is at fails, or its process dies there: what it had
\* committed stays, and the caller gets an error or nothing.
Fail(h) ==
    /\ stage[h] # "idle"
    /\ faults < MaxFaults
    /\ faults' = faults + 1
    /\ interrupted' = IF stage[h] = "mark" THEN [interrupted EXCEPT ![pay[h]] = @ + 1]
                      ELSE interrupted
    /\ Answer(h)
    /\ UNCHANGED <<rows, stripe>>

Handle(h) == PostSession(h) \/ SaveRef(h) \/ ApplyCredits(h) \/ MarkPaid(h)

Next ==
    \/ \E h \in Handlers, p \in Payments, w \in Workspaces :
          CreateTopup(h, p, w) \/ CreateCheckout(h, p, w)
    \/ \E h \in Handlers, p \in Payments : Deliver(h, p)
    \/ \E h \in Handlers : Handle(h) \/ Fail(h)
    \/ \E p \in Payments : CustomerPays(p)

Spec == Init /\ [][Next]_vars

\* The event loop runs every handler that can go on, and Stripe delivers an
\* event again until some handler has answered 200; handlers are idle often
\* enough for that, though not all the time.
Fairness ==
    /\ \A h \in Handlers : WF_vars(Handle(h))
    /\ \A p \in Payments : SF_vars(\E h \in Handlers : ~acked[p] /\ Deliver(h, p))

FairSpec == Spec /\ Fairness

-----------------------------------------------------------------------------
(* Properties.                                                             *)

TypeOK ==
    /\ status \in [Payments -> {"none", "pending", "paid"}]
    /\ owner \in [Payments -> Workspaces \cup {NoWorkspace}]
    /\ provider_ref \in [Payments -> BOOLEAN]
    /\ applied \in [Payments -> Nat]
    /\ credit \in [Workspaces -> Nat]
    /\ session \in [Payments -> {"none", "open", "completed"}]
    /\ acked \in [Payments -> BOOLEAN]
    /\ stage \in [Handlers -> {"idle", "post", "ref", "settle", "mark"}]
    /\ pay \in [Handlers -> Payments \cup {NoPayment}]
    /\ interrupted \in [Payments -> Nat]
    /\ faults \in 0..MaxFaults

\* What the ledger rows of payment p grant workspace w.
Granted(p, w) == IF owner[p] = w THEN applied[p] * Amount[p] ELSE 0

\* What the ledger rows of workspace w add up to.
LedgerOf(w) == SumFunction([p \in Payments |-> Granted(p, w)])

\* The balance of a workspace is what its payments' ledger rows add up to.
CreditMatchesRows == \A w \in Workspaces : credit[w] = LedgerOf(w)

\* No credits of a stripe payment are granted before the customer has paid,
\* however its row came to be.
NoCreditBeforePayment ==
    \A p \in Payments : Stripe[p] /\ applied[p] > 0 => session[p] = "completed"

\* An event that Stripe will not send again has been honoured: its credits
\* are applied and the row says so, whatever failed or overlapped before.
AckedIsSettled ==
    \A p \in Payments : acked[p] => status[p] = "paid" /\ applied[p] > 0

\* Settling twice needs overlapping deliveries or a death between the two
\* commits: each handler applies a payment at most once, plus once more for
\* each settlement that was cut off.
OverCreditBounded ==
    \A p \in Payments : applied[p] <= Cardinality(Handlers) + interrupted[p]

\* A payment the customer has completed is eventually settled, after any
\* number of failures up to MaxFaults.
CompletedEventuallyPaid ==
    \A p \in Payments : session[p] = "completed" ~> status[p] = "paid"

\* A mock payment is settled by the request that creates it and by nobody else:
\* it is credited at most once, whatever fails or runs beside it.
MockCreditedAtMostOnce == \A p \in Payments : ~Stripe[p] => applied[p] <= 1

\* payments.py on settle_payment: "Mark paid + apply credits (idempotent)."
CreditedAtMostOnce == \A p \in Payments : applied[p] <= 1
=============================================================================
