----------------------------- MODULE ProxyProofs -----------------------------
(***************************************************************************)
(* The proxy, for any number of handlers, keys and workspaces: that it     *)
(* implements the prepaid account, and what follows from it (the balances  *)
(* agree with the ledger, the overdraft is bounded); what the records of   *)
(* one call say of each other (charge and answer, log and charge, metrics  *)
(* and log), and that a call with a key revoked before it arrived gets     *)
(* nowhere; and the bound on the overshoot of a budget.                    *)
(***************************************************************************)
EXTENDS ProxyAccount, FiniteSetTheorems, TLAPS

\* A handler that has passed authentication serves a call with a stored key.
KeyKnown == \A r \in Requests : stage[r] \notin {"idle", "auth", "done"} => req[r].key \in Keys

TypeInv == TypeOK /\ KeyKnown

\* The workspace of a stored key exists.
LEMMA WorkspaceOfKey ==
    ASSUME NEW r, req[r].key \in Keys
    PROVE  WorkspaceOf(r) \in Workspaces
BY ProxyAssumption DEF WorkspaceOf

\* The type invariant, together with KeyKnown, holds initially.
LEMMA TypeInvInit == Init => TypeInv
<1> SUFFICES ASSUME Init PROVE TypeInv
  OBVIOUS
<1>1. (CHOOSE m \in Models : TRUE) \in Models
  BY ProxyAssumption
<1> QED BY <1>1, ProxyAssumption DEF Init, TypeInv, TypeOK, KeyKnown, Stages, Answers, Calls

\* Every step preserves it.
LEMMA TypeInvStep == TypeInv /\ [Next]_vars => TypeInv'
<1> SUFFICES ASSUME TypeInv, [Next]_vars PROVE TypeInv'
  OBVIOUS
<1> USE DEF TypeInv, TypeOK, KeyKnown, call, trail, money, settings
<1>0. ASSUME NEW r \in Requests, NEW c \in Calls, NEW s \in {"auth", "done"}, NEW a \in Answers,
             Start(r, c),
             stage' = [stage EXCEPT ![r] = s],
             answer' = [answer EXCEPT ![r] = a]
      PROVE  TypeInv'
  BY <1>0, ProxyAssumption DEF Start, Stages
<1>1. ASSUME NEW r \in Requests, Arrive(r) PROVE TypeInv'
  <2>1. PICK k \in Keys \cup {NoKey}, m \in Models, kd \in Kinds :
            /\ Start(r, [key |-> k, model |-> m, kind |-> kd, late |-> k \in revoked])
            /\ GoTo(r, "auth")
            /\ answer' = [answer EXCEPT ![r] = "none"]
    BY <1>1 DEF Arrive
  <2> DEFINE c == [key |-> k, model |-> m, kind |-> kd, late |-> k \in revoked]
  <2>2. (k \in revoked) \in BOOLEAN
    OBVIOUS
  <2>3. kd \in {"json", "translated", "stream"}
    BY ProxyAssumption
  <2>4. c \in Calls
    <3> HIDE DEF TypeOK
    <3> QED BY <2>2, <2>3 DEF Calls
  <2>5. /\ Start(r, c)
        /\ stage' = [stage EXCEPT ![r] = "auth"]
        /\ answer' = [answer EXCEPT ![r] = "none"]
    BY <2>1 DEF GoTo
  <2> HIDE DEF c
  <2> QED BY <1>0, <2>4, <2>5 DEF Answers
<1>2. ASSUME NEW r \in Requests, BadBody(r) PROVE TypeInv'
  <2>1. PICK c \in Calls : Start(r, c) /\ Answer(r, "invalid_request_error")
    BY <1>2, ProxyAssumption DEF BadBody, Calls
  <2> QED BY <1>0, <2>1 DEF Answer, Answers
<1>3. ASSUME NEW r \in Requests, Guard(r) PROVE TypeInv'
  <2>1. CASE ResolveKey(r)
    <3>1. req[r].key \in Keys => WorkspaceOf(r) \in Workspaces
      BY WorkspaceOfKey
    <3> QED BY <2>1, <3>1 DEF ResolveKey, GoTo, Answer, Stages, Answers
  <2>2. CASE RateLimit(r)
    BY <2>2 DEF RateLimit, GoTo, Answer, Stages, Answers
  <2>3. CASE HasCredit(r)
    BY <2>3 DEF HasCredit, Check, GoTo, Answer, Stages, Answers
  <2>4. CASE WithinBudget(r)
    BY <2>4 DEF WithinBudget, Check, GoTo, Answer, Stages, Answers
  <2>5. CASE ModelEnabled(r)
    BY <2>5 DEF ModelEnabled, Check, GoTo, Answer, Stages, Answers
  <2>6. CASE GuardFails(r)
    BY <2>6 DEF GuardFails, Answer, Stages, Answers
  <2> QED BY <1>3, <2>1, <2>2, <2>3, <2>4, <2>5, <2>6 DEF Guard
<1>4. ASSUME NEW r \in Requests, Forward(r) PROVE TypeInv'
  <2> USE ProxyAssumption DEF GoTo, Answer, Stages, Answers, PassStatus, GiveUp, Retry
  <2>1. CASE UpstreamOk(r)
    BY <2>1 DEF UpstreamOk
  <2>2. CASE UpstreamMalformed(r)
    BY <2>2 DEF UpstreamMalformed
  <2>3. CASE UpstreamRejects(r)
    BY <2>3 DEF UpstreamRejects
  <2>4. CASE UpstreamTransient(r)
    BY <2>4 DEF UpstreamTransient
  <2>5. CASE UpstreamUnreachable(r)
    BY <2>5 DEF UpstreamUnreachable
  <2>6. CASE UpstreamBroken(r)
    BY <2>6 DEF UpstreamBroken
  <2> QED BY <1>4, <2>1, <2>2, <2>3, <2>4, <2>5, <2>6 DEF Forward
<1>5. ASSUME NEW r \in Requests, Finish(r) PROVE TypeInv'
  <2> USE DEF GoTo, Answer, Stages, Answers
  <2>1. CASE LogFailure(r)
    BY <2>1 DEF LogFailure
  <2>2. CASE UsageUnreadable(r)
    BY <2>2 DEF UsageUnreadable, Raised
  <2>3. CASE Bill(r)
    <3>1. cost[r] \in Nat /\ WorkspaceOf(r) \in Workspaces
      BY <2>3, ProxyAssumption, WorkspaceOfKey DEF Bill
    <3>2. /\ stage' \in [Requests -> Stages]
          /\ UNCHANGED <<answer, call, logged, counted, settings>>
      BY <2>3 DEF Bill
    <3>3. events' \in [Requests -> Nat]
      BY <2>3 DEF Bill
    <3>4. credit' \in [Workspaces -> Int] /\ ledger' \in [Workspaces -> Int]
      BY <2>3, <3>1 DEF Bill
    <3>5. spend' \in [Workspaces -> Nat]
      BY <2>3, <3>1 DEF Bill
    <3>6. KeyKnown'
      BY <2>3 DEF Bill
    <3> QED BY <3>2, <3>3, <3>4, <3>5, <3>6
  <2>4. CASE BillFails(r)
    BY <2>4 DEF BillFails, Raised
  <2>5. CASE Log(r)
    BY <2>5 DEF Log, Succeeded
  <2>6. CASE LogFails(r)
    BY <2>6 DEF LogFails, Raised
  <2> QED BY <1>5, <2>1, <2>2, <2>3, <2>4, <2>5, <2>6 DEF Finish
<1>6. ASSUME NEW r \in Requests, Chunk(r) \/ EndStream(r) \/ CancelFinalizer(r) PROVE TypeInv'
  BY <1>6 DEF Chunk, EndStream, CancelFinalizer, GoTo, Answer, Stages, Answers
<1>7. ASSUME NEW P \in SUBSET Requests, Crash(P) PROVE TypeInv'
  BY <1>7 DEF Crash, InFlight, Stages, Answers
<1>8. CASE Manage
  <2>1. ASSUME NEW w \in Workspaces, NEW a \in TopUps, TopUp(w, a) PROVE TypeInv'
    BY <2>1, ProxyAssumption DEF TopUp
  <2>2. ASSUME NEW w \in Workspaces, NEW b \in Budgets, SetBudget(w, b) PROVE TypeInv'
    BY <2>2, ProxyAssumption DEF SetBudget
  <2>3. ASSUME NEW k \in Keys, RevokeKey(k) PROVE TypeInv'
    BY <2>3 DEF RevokeKey
  <2>4. ASSUME NEW p \in Projects, NEW m \in Models, EnableModel(p, m) \/ DisableModel(p, m)
        PROVE  TypeInv'
    BY <2>4 DEF EnableModel, DisableModel
  <2> QED BY <1>8, <2>1, <2>2, <2>3, <2>4 DEF Manage
<1>9. CASE MonthRolls
  BY <1>9 DEF MonthRolls
<1>10. CASE UNCHANGED vars
  BY <1>10 DEF vars
<1> QED BY <1>1, <1>2, <1>3, <1>4, <1>5, <1>6, <1>7, <1>8, <1>9, <1>10 DEF Next

\* A handler past authentication always has a stored key, too.
LEMMA TypeInvAlways == Spec => []TypeInv
BY TypeInvInit, TypeInvStep, PTL DEF Spec

\* The rows and the handlers' state always have their types.
THEOREM TypeCorrect == Spec => []TypeOK
BY TypeInvAlways, PTL DEF TypeInv

-----------------------------------------------------------------------------
(* Refinement.                                                             *)

\* A step that moves no money and authorises no call only gives back
\* authorisations.
LEMMA ReleaseStep ==
    ASSUME UNCHANGED <<credit, ledger>>,
           \A q \in Requests : stage'[q] \in Authorised => stage[q] \in Authorised /\ req'[q] = req[q]
    PROVE  Account!Next
<1> DEFINE S == {q \in Requests : stage'[q] \notin Authorised}
<1>1. open' = [q \in Requests |-> IF q \in S THEN NoWorkspace ELSE open[q]]
  BY DEF open, WorkspaceOf
<1>2. Account!Release(S)
  BY <1>1 DEF Account!Release
<1> QED BY <1>2 DEF Account!Next

\* The initial states are initial states of the account.
LEMMA AccountInit == Init => Account!Init
BY DEF Init, Account!Init, open, Authorised

\* Every step of the proxy is a step of the account, or none.
LEMMA AccountStep == TypeInv /\ [Next]_vars => [Account!Next]_(Account!vars)
<1> SUFFICES ASSUME TypeInv, [Next]_vars PROVE Account!Next \/ UNCHANGED Account!vars
  OBVIOUS
<1> USE DEF call, trail, money, settings
<1>a. stage \in [Requests -> Stages] /\ req \in [Requests -> Calls]
  BY DEF TypeInv, TypeOK
<1>1. ASSUME NEW r \in Requests, Arrive(r) \/ BadBody(r) PROVE Account!Next
  BY <1>1, <1>a, ReleaseStep DEF Arrive, BadBody, Start, GoTo, Answer, Authorised
<1>2. ASSUME NEW r \in Requests, Guard(r) PROVE Account!Next
  <2>1. CASE ResolveKey(r)
    BY <2>1, <1>a, ReleaseStep DEF ResolveKey, GoTo, Answer, Authorised
  <2>2. CASE RateLimit(r)
    BY <2>2, <1>a, ReleaseStep DEF RateLimit, GoTo, Answer, Authorised
  <2>3. CASE HasCredit(r)
    <3>1. CASE credit[WorkspaceOf(r)] > 0 /\ GoTo(r, "budget")
      <4> DEFINE w == WorkspaceOf(r)
      <4>1. stage[r] = "credit" /\ UNCHANGED <<req, credit, ledger>>
        BY <2>3 DEF HasCredit, Check
      <4>2. w \in Workspaces
        BY <4>1, WorkspaceOfKey DEF TypeInv, KeyKnown
      <4>3. open[r] = NoWorkspace
        BY <4>1 DEF open, Authorised
      <4>4. open' = [open EXCEPT ![r] = w]
        BY <3>1, <4>1, <1>a DEF open, GoTo, Authorised, WorkspaceOf
      <4>5. Account!Authorise(r, w)
        BY <3>1, <4>1, <4>3, <4>4 DEF Account!Authorise
      <4> QED BY <4>2, <4>5 DEF Account!Next
    <3>2. CASE Answer(r, "insufficient_credits")
      BY <2>3, <3>2, <1>a, ReleaseStep DEF HasCredit, Check, Answer, Authorised
    <3> QED BY <2>3, <3>1, <3>2 DEF HasCredit, Check
  <2>4. CASE WithinBudget(r)
    BY <2>4, <1>a, ReleaseStep DEF WithinBudget, Check, GoTo, Answer, Authorised
  <2>5. CASE ModelEnabled(r)
    BY <2>5, <1>a, ReleaseStep DEF ModelEnabled, Check, GoTo, Answer, Authorised
  <2>6. CASE GuardFails(r)
    BY <2>6, <1>a, ReleaseStep DEF GuardFails, Answer, Authorised
  <2> QED BY <1>2, <2>1, <2>2, <2>3, <2>4, <2>5, <2>6 DEF Guard
<1>3. ASSUME NEW r \in Requests, Forward(r) PROVE Account!Next
  <2> USE DEF GoTo, Answer, PassStatus, GiveUp, Retry, Authorised
  <2>1. CASE UpstreamOk(r)
    BY <2>1, <1>a, ReleaseStep DEF UpstreamOk
  <2>2. CASE UpstreamMalformed(r)
    BY <2>2, <1>a, ReleaseStep DEF UpstreamMalformed
  <2>3. CASE UpstreamRejects(r)
    BY <2>3, <1>a, ReleaseStep DEF UpstreamRejects
  <2>4. CASE UpstreamTransient(r)
    BY <2>4, <1>a, ReleaseStep DEF UpstreamTransient
  <2>5. CASE UpstreamUnreachable(r)
    BY <2>5, <1>a, ReleaseStep DEF UpstreamUnreachable
  <2>6. CASE UpstreamBroken(r)
    BY <2>6, <1>a, ReleaseStep DEF UpstreamBroken
  <2> QED BY <1>3, <2>1, <2>2, <2>3, <2>4, <2>5, <2>6 DEF Forward
<1>4. ASSUME NEW r \in Requests, Finish(r) PROVE Account!Next
  <2> USE DEF GoTo, Answer, Authorised
  <2>1. CASE LogFailure(r)
    BY <2>1, <1>a, ReleaseStep DEF LogFailure
  <2>2. CASE UsageUnreadable(r)
    BY <2>2, <1>a, ReleaseStep DEF UsageUnreadable
  <2>3. CASE Bill(r)
    <3>1. stage[r] = "settle" /\ stage' = [stage EXCEPT ![r] = "log"] /\ UNCHANGED req
      BY <2>3 DEF Bill
    <3>2. WorkspaceOf(r) \in Workspaces /\ open[r] = WorkspaceOf(r) /\ cost[r] \in 0..MaxCost
      BY <3>1, WorkspaceOfKey DEF TypeInv, TypeOK, KeyKnown, open
    <3>3. open' = [open EXCEPT ![r] = NoWorkspace]
      BY <3>1, <1>a DEF open, WorkspaceOf
    <3>4. Account!Settle(r, cost[r])
      BY <2>3, <3>2, <3>3, NoWorkspaceAssumption DEF Bill, Account!Settle
    <3> QED BY <3>2, <3>4 DEF Account!Next
  <2>4. CASE BillFails(r)
    BY <2>4, <1>a, ReleaseStep DEF BillFails
  <2>5. CASE Log(r)
    BY <2>5, <1>a, ReleaseStep DEF Log
  <2>6. CASE LogFails(r)
    BY <2>6, <1>a, ReleaseStep DEF LogFails
  <2> QED BY <1>4, <2>1, <2>2, <2>3, <2>4, <2>5, <2>6 DEF Finish
<1>5. ASSUME NEW r \in Requests, Chunk(r) \/ EndStream(r) \/ CancelFinalizer(r) PROVE Account!Next
  BY <1>5, <1>a, ReleaseStep DEF Chunk, EndStream, CancelFinalizer, GoTo, Answer, Authorised
<1>6. ASSUME NEW P \in SUBSET Requests, Crash(P) PROVE Account!Next
  BY <1>6, <1>a, ReleaseStep DEF Crash, Authorised
<1>7. CASE Manage
  <2>1. ASSUME NEW w \in Workspaces, NEW a \in TopUps, TopUp(w, a) PROVE Account!Next
    <3>1. UNCHANGED open
      BY <2>1 DEF TopUp, open, WorkspaceOf
    <3>2. Account!Credit(w, a)
      BY <2>1, <3>1 DEF TopUp, Account!Credit
    <3> QED BY <3>2 DEF Account!Next
  <2>2. ASSUME NEW w \in Workspaces, NEW b \in Budgets, SetBudget(w, b) PROVE Account!Next
    BY <2>2, <1>a, ReleaseStep DEF SetBudget
  <2>3. ASSUME NEW k \in Keys, RevokeKey(k) PROVE Account!Next
    BY <2>3, <1>a, ReleaseStep DEF RevokeKey
  <2>4. ASSUME NEW p \in Projects, NEW m \in Models, EnableModel(p, m) \/ DisableModel(p, m)
        PROVE  Account!Next
    BY <2>4, <1>a, ReleaseStep DEF EnableModel, DisableModel
  <2> QED BY <1>7, <2>1, <2>2, <2>3, <2>4 DEF Manage
<1>8. CASE MonthRolls
  BY <1>8, <1>a, ReleaseStep DEF MonthRolls
<1>9. CASE UNCHANGED vars
  BY <1>9 DEF vars, Account!vars, open, WorkspaceOf
<1> QED BY <1>1, <1>2, <1>3, <1>4, <1>5, <1>6, <1>7, <1>8, <1>9 DEF Next

\* The proxy implements the prepaid account.
THEOREM Refinement == Spec => ImplementsAccount
<1>1. Spec => []TypeInv
  BY TypeInvAlways
<1> QED BY <1>1, AccountInit, AccountStep, PTL DEF Spec, ImplementsAccount, Account!Spec

-----------------------------------------------------------------------------
(* What the account guarantees, the proxy guarantees.                      *)

Proved == INSTANCE PrepaidAccountProofs WITH
    Opening <- OpeningCredit,
    Credits <- TopUps,
    balance <- credit

\* The constants of the proxy satisfy the assumption of the account.
LEMMA AccountConstants == Proved!AccountAssumption
<1>1. Proved!IsFiniteSet(Requests)
  BY ProxyAssumption DEF IsFiniteSet, Proved!IsFiniteSet
<1> QED BY <1>1, ProxyAssumption, NoWorkspaceAssumption DEF Proved!AccountAssumption

\* The account that the proxy implements is the one the theorems are about.
LEMMA SameAccount == Account!Spec => Proved!Spec
<1>1. Account!Init => Proved!Init
  BY DEF Account!Init, Proved!Init
<1>2. [Account!Next]_(Account!vars) => [Proved!Next]_(Proved!vars)
  BY DEF Account!Next, Proved!Next, Account!vars, Proved!vars,
         Account!Authorise, Proved!Authorise, Account!Settle, Proved!Settle,
         Account!Release, Proved!Release, Account!Credit, Proved!Credit
<1> QED BY <1>1, <1>2, PTL DEF Account!Spec, Proved!Spec

\* Every balance equals its opening credit plus its ledger rows.
THEOREM LedgerAlwaysBalances == Spec => []LedgerBalances
<1>1. Proved!Spec => []Proved!Balanced
  BY Proved!BalancedAlways, AccountConstants, PTL
<1>2. Proved!Balanced => LedgerBalances
  BY DEF Proved!Balanced, LedgerBalances
<1> QED BY <1>1, <1>2, Refinement, SameAccount, PTL DEF ImplementsAccount

\* No balance is overdrawn by more than the handlers in progress can spend.
THEOREM OverdraftAlwaysBounded == Spec => []OverdraftBounded
<1>1. Proved!Spec => []Proved!Overdraft
  BY Proved!OverdraftAlways, AccountConstants, PTL
<1>2. Proved!Overdraft => OverdraftBounded
  <2>1. ASSUME NEW w \in Workspaces
        PROVE  Proved!Holders(w) = Passed(w, Authorised)
    BY NoWorkspaceAssumption DEF Proved!Holders, Passed, open
  <2>2. ASSUME NEW S PROVE Proved!Cardinality(S) = Cardinality(S)
    BY DEF Cardinality, Proved!Cardinality
  <2> QED BY <2>1, <2>2 DEF Proved!Overdraft, OverdraftBounded, Authorised
<1> QED BY <1>1, <1>2, Refinement, SameAccount, PTL DEF ImplementsAccount

-----------------------------------------------------------------------------
(* The records of a call.                                                  *)


\* The answers that tell a client it was not served.
Refusals == Answers \ {"ok", "truncated", "gone", "lost", "internal_error"}

\* Charge, log and metrics of a call against the stage of its handler.
ChargeOK(r) ==
    /\ events[r] \in {0, 1}
    /\ stage[r] \notin {"log", "done"} => events[r] = 0
    /\ stage[r] = "log" => events[r] = 1
    /\ stage[r] # "done" => logged[r] = "none" /\ counted[r] # "ok"
    /\ logged[r] = "ok" => events[r] = 1
    /\ logged[r] = "failure" => events[r] = 0
    /\ counted[r] = "ok" => logged[r] = "ok"

\* What the client has got against the stage of the handler and the charge.
AnswerOK(r) ==
    /\ InFlight(r) => answer[r] \in {"none", "started", "truncated", "gone"}
    /\ stage[r] = "done" /\ answer[r] \in Refusals => events[r] = 0
    /\ stage[r] = "done" /\ answer[r] = "ok" => events[r] = 1
    /\ stage[r] = "done" => answer[r] \notin {"none", "started"}

\* A call that came late never passes authentication.
LateOK(r) ==
    req[r].late =>
        /\ req[r].key \in revoked
        /\ stage[r] \in {"auth", "done"}
        /\ events[r] = 0

CallOK(r) == ChargeOK(r) /\ AnswerOK(r) /\ LateOK(r)

CallInv == \A r \in Requests : CallOK(r)

\* Every call is in order at the start.
LEMMA CallInvInit == Init => CallInv
BY DEF Init, CallInv, CallOK, ChargeOK, AnswerOK, LateOK, InFlight

\* A step of another handler, or of nobody, leaves a call in order.
LEMMA CallQuiet ==
    ASSUME NEW r, CallOK(r),
           stage'[r] = stage[r], answer'[r] = answer[r], req'[r] = req[r], events'[r] = events[r],
           logged'[r] = logged[r], counted'[r] = counted[r], revoked \subseteq revoked'
    PROVE  CallOK(r)'
BY DEF CallOK, ChargeOK, AnswerOK, LateOK, InFlight

\* A new call is in order.
LEMMA CallStart ==
    ASSUME TypeInv, NEW q \in Requests, NEW c, Start(q, c), NEW s, NEW a,
           c.late => c.key \in revoked,
           stage' = [stage EXCEPT ![q] = s], answer' = [answer EXCEPT ![q] = a],
           \/ s = "auth" /\ a = "none"
           \/ s = "done" /\ a = "invalid_request_error",
           NEW r \in Requests, CallOK(r)
    PROVE  CallOK(r)'
<1>1. CASE r # q
  BY <1>1, CallQuiet DEF Start, TypeInv, TypeOK, settings
<1>2. CASE r = q
  <2>1. /\ stage'[r] = s /\ answer'[r] = a /\ req'[r] = c
        /\ events'[r] = 0 /\ logged'[r] = "none" /\ counted'[r] = "none" /\ revoked' = revoked
    BY <1>2 DEF Start, TypeInv, TypeOK, settings
  <2> QED BY <2>1 DEF CallOK, ChargeOK, AnswerOK, LateOK, InFlight, Answers
<1> QED BY <1>1, <1>2

\* A step of the guard leaves every call in order.
LEMMA CallGuard ==
    ASSUME TypeInv, NEW q \in Requests, Guard(q), NEW r \in Requests, CallOK(r)
    PROVE  CallOK(r)'
<1> USE DEF TypeInv, TypeOK, trail, settings, call
<1>1. CASE r # q
  BY <1>1, CallQuiet DEF Guard, ResolveKey, RateLimit, HasCredit, WithinBudget, ModelEnabled,
                         GuardFails, Check, GoTo, Answer
<1>2. CASE r = q
  <2>1. /\ UNCHANGED <<req, events, logged, counted, revoked>>
        /\ stage[r] \in {"auth", "rate", "credit", "budget", "models"}
        /\ \/ /\ stage'[r] \in {"rate", "credit", "budget", "models", "forward", "stream"}
              /\ answer'[r] = answer[r]
           \/ /\ stage'[r] = "done"
              /\ answer'[r] \in {"invalid_api_key", "rate_limited", "insufficient_credits",
                                 "budget_exceeded", "model_not_enabled",
                                 "internal_error"}
    <3>1. CASE ResolveKey(r)
      BY <3>1 DEF ResolveKey, GoTo, Answer
    <3>2. CASE RateLimit(r)
      BY <3>2 DEF RateLimit, GoTo, Answer
    <3>3. CASE HasCredit(r)
      BY <3>3 DEF HasCredit, Check, GoTo, Answer
    <3>4. CASE WithinBudget(r)
      BY <3>4 DEF WithinBudget, Check, GoTo, Answer
    <3>5. CASE ModelEnabled(r)
      BY <3>5 DEF ModelEnabled, Check, GoTo, Answer
    <3>6. CASE GuardFails(r)
      BY <3>6 DEF GuardFails, Answer
    <3> QED BY <1>2, <3>1, <3>2, <3>3, <3>4, <3>5, <3>6 DEF Guard
  <2>2. req[r].late => stage'[r] = "done"
    BY <1>2, <2>1 DEF CallOK, LateOK, Guard, ResolveKey, RateLimit, HasCredit, WithinBudget,
                      ModelEnabled, GuardFails, Check, Answer
  <2> QED BY <2>1, <2>2 DEF CallOK, ChargeOK, AnswerOK, LateOK, InFlight, Answers, Refusals
<1> QED BY <1>1, <1>2

\* An outcome of the upstream leaves every call in order.
LEMMA CallForward ==
    ASSUME TypeInv, NEW q \in Requests, Forward(q), NEW r \in Requests, CallOK(r)
    PROVE  CallOK(r)'
<1> USE DEF TypeInv, TypeOK, trail, settings, call
<1>1. /\ UNCHANGED <<req, events, logged, revoked>>
      /\ stage[q] = "forward"
      /\ counted' = counted \/ counted' = [counted EXCEPT ![q] = "failure"]
      /\ \/ UNCHANGED <<stage, answer>>
         \/ /\ stage' = [stage EXCEPT ![q] = "settle"] /\ UNCHANGED answer
         \/ /\ stage' = [stage EXCEPT ![q] = "logStatus"] /\ UNCHANGED answer
         \/ /\ stage' = [stage EXCEPT ![q] = "logUnavailable"] /\ UNCHANGED answer
         \/ /\ stage' = [stage EXCEPT ![q] = "done"]
            /\ \E a \in {"internal_error", "upstream_status", "upstream_unavailable"} :
                  answer' = [answer EXCEPT ![q] = a]
  <2> USE DEF GoTo, Answer, PassStatus, GiveUp, Retry
  <2>1. CASE UpstreamOk(q)
    BY <2>1 DEF UpstreamOk
  <2>2. CASE UpstreamMalformed(q)
    BY <2>2 DEF UpstreamMalformed
  <2>3. CASE UpstreamRejects(q)
    BY <2>3 DEF UpstreamRejects
  <2>4. CASE UpstreamTransient(q)
    BY <2>4 DEF UpstreamTransient
  <2>5. CASE UpstreamUnreachable(q)
    BY <2>5 DEF UpstreamUnreachable
  <2>6. CASE UpstreamBroken(q)
    BY <2>6 DEF UpstreamBroken
  <2> QED BY <2>1, <2>2, <2>3, <2>4, <2>5, <2>6 DEF Forward
<1>2. CASE r # q
  BY <1>1, <1>2, CallQuiet
<1>3. CASE r = q
  BY <1>1, <1>3 DEF CallOK, ChargeOK, AnswerOK, LateOK, InFlight, Answers, Refusals
<1> QED BY <1>2, <1>3

\* So does a step that records what became of a call.
LEMMA CallFinish ==
    ASSUME TypeInv, NEW q \in Requests, Finish(q), NEW r \in Requests, CallOK(r)
    PROVE  CallOK(r)'
<1> USE DEF TypeInv, TypeOK, trail, settings, call
<1>1. CASE r # q
  BY <1>1, CallQuiet DEF Finish, LogFailure, UsageUnreadable, Bill, BillFails, Log, LogFails,
                         GoTo, Answer
<1>2. CASE r = q
  <2> USE <1>2 DEF CallOK, ChargeOK, AnswerOK, LateOK, InFlight, Answers, Refusals, GoTo, Answer
  <2>1. CASE LogFailure(r)
    BY <2>1 DEF LogFailure
  <2>2. CASE UsageUnreadable(r)
    BY <2>2 DEF UsageUnreadable, Raised
  <2>3. CASE Bill(r)
    BY <2>3 DEF Bill
  <2>4. CASE BillFails(r)
    BY <2>4 DEF BillFails, Raised
  <2>5. CASE Log(r)
    BY <2>5 DEF Log, Succeeded
  <2>6. CASE LogFails(r)
    BY <2>6 DEF LogFails, Raised
  <2> QED BY <2>1, <2>2, <2>3, <2>4, <2>5, <2>6 DEF Finish
<1> QED BY <1>1, <1>2

\* And a step of a stream.
LEMMA CallStream ==
    ASSUME TypeInv, NEW q \in Requests, Chunk(q) \/ EndStream(q) \/ CancelFinalizer(q),
           NEW r \in Requests, CallOK(r)
    PROVE  CallOK(r)'
<1> USE DEF TypeInv, TypeOK, trail, settings, call, Chunk, EndStream, CancelFinalizer, GoTo, Answer
<1>1. CASE r # q
  BY <1>1, CallQuiet
<1>2. CASE r = q
  BY <1>2 DEF CallOK, ChargeOK, AnswerOK, LateOK, InFlight, Answers, Refusals
<1> QED BY <1>1, <1>2

\* Every step leaves every call in order.
LEMMA CallInvStep == TypeInv /\ CallInv /\ [Next]_vars => CallInv'
<1> SUFFICES ASSUME TypeInv, CallInv, [Next]_vars, NEW r \in Requests PROVE CallOK(r)'
  BY DEF CallInv
<1>a. CallOK(r)
  BY DEF CallInv
<1>1. ASSUME NEW q \in Requests, Arrive(q) PROVE CallOK(r)'
  <2>1. PICK k \in Keys \cup {NoKey}, m \in Models, kd \in Kinds :
            /\ Start(q, [key |-> k, model |-> m, kind |-> kd, late |-> k \in revoked])
            /\ GoTo(q, "auth")
            /\ answer' = [answer EXCEPT ![q] = "none"]
    BY <1>1 DEF Arrive
  <2> DEFINE c == [key |-> k, model |-> m, kind |-> kd, late |-> k \in revoked]
  <2>2. c.late => c.key \in revoked
    OBVIOUS
  <2>3. /\ Start(q, c)
        /\ stage' = [stage EXCEPT ![q] = "auth"]
        /\ answer' = [answer EXCEPT ![q] = "none"]
    BY <2>1 DEF GoTo
  <2> HIDE DEF c
  <2> QED BY <1>a, <2>2, <2>3, CallStart
<1>2. ASSUME NEW q \in Requests, BadBody(q) PROVE CallOK(r)'
  <2>1. PICK kd \in Kinds :
            /\ Start(q, [key |-> NoKey, model |-> CHOOSE m \in Models : TRUE,
                         kind |-> kd, late |-> FALSE])
            /\ Answer(q, "invalid_request_error")
    BY <1>2 DEF BadBody
  <2> DEFINE c == [key |-> NoKey, model |-> CHOOSE m \in Models : TRUE, kind |-> kd, late |-> FALSE]
  <2>2. c.late => c.key \in revoked
    OBVIOUS
  <2>3. /\ Start(q, c)
        /\ stage' = [stage EXCEPT ![q] = "done"]
        /\ answer' = [answer EXCEPT ![q] = "invalid_request_error"]
    BY <2>1 DEF Answer
  <2> HIDE DEF c
  <2> QED BY <1>a, <2>2, <2>3, CallStart
<1>3. ASSUME NEW P \in SUBSET Requests, Crash(P) PROVE CallOK(r)'
  BY <1>3, <1>a DEF Crash, CallOK, ChargeOK, AnswerOK, LateOK, InFlight, Answers, Refusals,
                    settings, call
<1>4. CASE Manage \/ MonthRolls
  BY <1>4, <1>a, CallQuiet DEF Manage, TopUp, SetBudget, RevokeKey, EnableModel, DisableModel,
                               MonthRolls, call, trail, settings
<1>5. CASE UNCHANGED vars
  BY <1>5, <1>a, CallQuiet DEF vars, call, trail, settings
<1> QED BY <1>a, <1>1, <1>2, <1>3, <1>4, <1>5, CallGuard, CallForward, CallFinish, CallStream
        DEF Next

\* Every call is always in order.
LEMMA CallInvAlways == Spec => []CallInv
BY TypeInvInit, TypeInvStep, CallInvInit, CallInvStep, PTL DEF Spec

\* Nobody is charged twice or for a refusal, and whoever got an answer is charged.
THEOREM ChargeAlwaysMatchesAnswer == Spec => []ChargeMatchesAnswer
<1>1. CallInv => ChargeMatchesAnswer
  BY DEF CallInv, CallOK, ChargeOK, AnswerOK, ChargeMatchesAnswer, Refusals
<1> QED BY <1>1, CallInvAlways, PTL

\* The log never says success without the charge, nor the metrics without the log.
THEOREM TrailAlwaysFollowsCharge == Spec => []TrailFollowsCharge
<1>1. CallInv => TrailFollowsCharge
  BY DEF CallInv, CallOK, ChargeOK, TrailFollowsCharge
<1> QED BY <1>1, CallInvAlways, PTL

\* A call made with a key already revoked is neither forwarded nor billed.
THEOREM RevokedKeyAlwaysStaysOut == Spec => []RevokedKeyStaysOut
<1>1. CallInv => RevokedKeyStaysOut
  BY DEF CallInv, CallOK, LateOK, RevokedKeyStaysOut
<1> QED BY <1>1, CallInvAlways, PTL

-----------------------------------------------------------------------------
(* The monthly budget: a workspace's spend passes its highest budget by    *)
(* less than one maximal cost for each handler, although the budget is     *)
(* compared with a row that was read earlier and may have changed since.   *)


\* The budgets a workspace can have had.
BudgetsOf(w) == Budgets \cup {OpeningBudget[w]}

\* A budget read by a handler is one its workspace has had.
SeenInv ==
    /\ \A w \in Workspaces : budget[w] \in BudgetsOf(w)
    /\ \A r \in Requests : stage[r] \in {"rate", "credit", "budget"} =>
          budgetSeen[r] \in BudgetsOf(WorkspaceOf(r))

Spenders == {"models", "forward", "stream", "settle"}

\* The handlers that do not hold a passed budget check of w.
Rest(w) == Cardinality(Requests) - Cardinality(Passed(w, Spenders))

Within(w, cap) == spend[w] < cap + MaxCost * Rest(w)

IsCap(w, cap) == cap \in BudgetsOf(w) /\ \A b \in BudgetsOf(w) : 0 < b /\ b <= cap

BudgetInv == \A w \in Workspaces : \A cap \in BudgetsOf(w) : IsCap(w, cap) => Within(w, cap)

\* Any set of handlers is finite, and leaves a natural number of others.
LEMMA RestIsNat ==
    ASSUME NEW S, S \subseteq Requests
    PROVE  IsFiniteSet(S) /\ Cardinality(S) \in Nat /\ Cardinality(Requests) \in Nat
           /\ Cardinality(Requests) - Cardinality(S) \in Nat
<1>1. /\ IsFiniteSet(S)
      /\ Cardinality(S) \in Nat
      /\ Cardinality(Requests) \in Nat
      /\ Cardinality(S) <= Cardinality(Requests)
  BY ProxyAssumption, FS_Subset, FS_CardinalityType
<1> QED BY <1>1

\* Costs of more handlers are more.
LEMMA CostOfMore ==
    ASSUME NEW m \in Nat, NEW n \in Nat
    PROVE  MaxCost \in Nat /\ MaxCost * n \in Nat
           /\ (m <= n => MaxCost * m <= MaxCost * n)
           /\ MaxCost * (n + 1) = MaxCost * n + MaxCost
BY ProxyAssumption

\* A cap is positive, and no month starts above it.
LEMMA CapIsPositive ==
    ASSUME NEW w \in Workspaces, NEW cap, IsCap(w, cap)
    PROVE  cap \in Int /\ cap > 0
BY ProxyAssumption DEF IsCap, BudgetsOf

\* A step that lets nobody through for w and does not raise its spend.
LEMMA WithinQuiet ==
    ASSUME TypeOK, TypeOK', NEW w \in Workspaces, NEW cap, IsCap(w, cap), Within(w, cap),
           spend'[w] <= spend[w],
           \A q \in Requests : stage'[q] \in Spenders => stage[q] \in Spenders /\ req'[q] = req[q]
    PROVE  Within(w, cap)'
<1>1. Passed(w, Spenders)' \subseteq Passed(w, Spenders) /\ Passed(w, Spenders) \subseteq Requests
  BY DEF Passed, WorkspaceOf
<1>2. Cardinality(Passed(w, Spenders)') <= Cardinality(Passed(w, Spenders))
  BY <1>1, RestIsNat, FS_Subset
<1>3. Rest(w) \in Nat /\ Rest(w)' \in Nat /\ Rest(w) <= Rest(w)'
  BY <1>1, <1>2, RestIsNat DEF Rest
<1>4. /\ MaxCost * Rest(w) \in Nat /\ MaxCost * Rest(w)' \in Nat
      /\ MaxCost * Rest(w) <= MaxCost * Rest(w)'
  BY <1>3, CostOfMore
<1>5. spend[w] \in Nat /\ spend'[w] \in Nat /\ cap \in Int
  BY CapIsPositive DEF TypeOK
<1> QED BY <1>4, <1>5 DEF Within

\* A call is billed: its cost is paid for by the handler that is free again.
LEMMA WithinBill ==
    ASSUME TypeInv, NEW r \in Requests, Bill(r), NEW w \in Workspaces, NEW cap,
           IsCap(w, cap), Within(w, cap), WorkspaceOf(r) = w
    PROVE  Within(w, cap)'
<1>1. /\ stage[r] = "settle" /\ stage' = [stage EXCEPT ![r] = "log"] /\ UNCHANGED req
      /\ spend' = [spend EXCEPT ![w] = @ + cost[r]]
  BY DEF Bill, GoTo, call
<1>2. spend[w] \in Nat /\ cost[r] \in 0..MaxCost /\ cap \in Int /\ spend'[w] = spend[w] + cost[r]
  BY <1>1, CapIsPositive DEF TypeInv, TypeOK
<1>3. r \in Passed(w, Spenders) /\ Passed(w, Spenders) \subseteq Requests
  BY <1>1 DEF Passed, Spenders
<1>4. Passed(w, Spenders)' = Passed(w, Spenders) \ {r}
  BY <1>1 DEF Passed, Spenders, WorkspaceOf, TypeInv, TypeOK
<1>5. Cardinality(Passed(w, Spenders)') = Cardinality(Passed(w, Spenders)) - 1
  BY <1>3, <1>4, RestIsNat, FS_RemoveElement
<1>6. Rest(w) \in Nat /\ Rest(w)' = Rest(w) + 1
  BY <1>3, <1>5, RestIsNat DEF Rest
<1>7. MaxCost \in Nat /\ MaxCost * Rest(w) \in Nat /\ MaxCost * Rest(w)' = MaxCost * Rest(w) + MaxCost
  BY <1>6, CostOfMore
<1> QED BY <1>2, <1>7 DEF Within

\* A call passes the budget check: the spend is below the budget it has read.
LEMMA WithinCheck ==
    ASSUME TypeInv, SeenInv, NEW r \in Requests, WithinBudget(r), NEW w \in Workspaces, NEW cap,
           IsCap(w, cap), Within(w, cap)
    PROVE  Within(w, cap)'
<1>1. /\ stage[r] = "budget" /\ UNCHANGED <<req, spend>>
      /\ \/ stage' = [stage EXCEPT ![r] = "done"]
         \/ /\ stage' = [stage EXCEPT ![r] = "models"]
            /\ budgetSeen[r] <= 0 \/ spend[WorkspaceOf(r)] < budgetSeen[r]
  BY DEF WithinBudget, Check, GoTo, Answer, call, money
<1>2. spend[w] \in Nat /\ cap \in Int /\ stage \in [Requests -> Stages]
  BY CapIsPositive DEF TypeInv, TypeOK
<1>3. CASE stage' = [stage EXCEPT ![r] = "models"] /\ WorkspaceOf(r) = w
  <2>1. 0 < budgetSeen[r] /\ budgetSeen[r] <= cap /\ budgetSeen[r] \in Int
    BY <1>1, <1>3 DEF SeenInv, IsCap, TypeInv, TypeOK
  <2>2. spend[w] < cap /\ spend'[w] = spend[w]
    BY <1>1, <1>2, <1>3, <2>1
  <2>3. Rest(w)' \in Nat
    BY RestIsNat DEF Rest, Passed
  <2>4. MaxCost * Rest(w)' \in Nat
    BY <2>3, CostOfMore
  <2> QED BY <1>2, <2>2, <2>4 DEF Within
<1>4. CASE ~(stage' = [stage EXCEPT ![r] = "models"] /\ WorkspaceOf(r) = w)
  <2>1. Passed(w, Spenders)' \subseteq Passed(w, Spenders) /\ Passed(w, Spenders) \subseteq Requests
    BY <1>1, <1>2, <1>4 DEF Passed, Spenders, WorkspaceOf
  <2>2. Cardinality(Passed(w, Spenders)') <= Cardinality(Passed(w, Spenders))
    BY <2>1, RestIsNat, FS_Subset
  <2>3. Rest(w) \in Nat /\ Rest(w)' \in Nat /\ Rest(w) <= Rest(w)'
    BY <2>1, <2>2, RestIsNat DEF Rest
  <2>4. /\ MaxCost * Rest(w) \in Nat /\ MaxCost * Rest(w)' \in Nat
        /\ MaxCost * Rest(w) <= MaxCost * Rest(w)'
    BY <2>3, CostOfMore
  <2> QED BY <1>1, <1>2, <2>4 DEF Within
<1> QED BY <1>3, <1>4

-----------------------------------------------------------------------------
\* Only the management API changes a budget, and to a value it may have; a
\* handler reads it when it resolves the key.
LEMMA SeenInvStep == TypeInv /\ SeenInv /\ [Next]_vars => SeenInv'
<1> SUFFICES ASSUME TypeInv, SeenInv, [Next]_vars PROVE SeenInv'
  OBVIOUS
<1> USE DEF SeenInv, TypeInv, TypeOK, call, trail, money, settings, GoTo, Answer, WorkspaceOf
<1>1. ASSUME NEW r \in Requests, Arrive(r) \/ BadBody(r) PROVE SeenInv'
  BY <1>1 DEF Arrive, BadBody, Start
<1>2. ASSUME NEW r \in Requests, Guard(r) PROVE SeenInv'
  <2>1. CASE ResolveKey(r)
    <3>1. req[r].key \in Keys => budget[WorkspaceOf(r)] \in BudgetsOf(WorkspaceOf(r))
      BY WorkspaceOfKey
    <3> QED BY <2>1, <3>1 DEF ResolveKey
  <2>2. CASE RateLimit(r)
    BY <2>2 DEF RateLimit
  <2>3. CASE HasCredit(r)
    BY <2>3 DEF HasCredit, Check
  <2>4. CASE WithinBudget(r)
    BY <2>4 DEF WithinBudget, Check
  <2>5. CASE ModelEnabled(r)
    BY <2>5 DEF ModelEnabled, Check
  <2>6. CASE GuardFails(r)
    BY <2>6 DEF GuardFails
  <2> QED BY <1>2, <2>1, <2>2, <2>3, <2>4, <2>5, <2>6 DEF Guard
<1>3. ASSUME NEW r \in Requests, Forward(r) PROVE SeenInv'
  BY <1>3 DEF Forward, UpstreamOk, UpstreamMalformed, UpstreamRejects, UpstreamTransient,
              UpstreamUnreachable, UpstreamBroken, PassStatus, GiveUp, Retry
<1>4. ASSUME NEW r \in Requests, Finish(r) PROVE SeenInv'
  BY <1>4 DEF Finish, LogFailure, UsageUnreadable, Bill, BillFails, Log, LogFails
<1>5. ASSUME NEW r \in Requests, Chunk(r) \/ EndStream(r) \/ CancelFinalizer(r) PROVE SeenInv'
  BY <1>5 DEF Chunk, EndStream, CancelFinalizer
<1>6. ASSUME NEW P \in SUBSET Requests, Crash(P) PROVE SeenInv'
  BY <1>6 DEF Crash
<1>7. CASE Manage \/ MonthRolls
  BY <1>7 DEF Manage, TopUp, SetBudget, RevokeKey, EnableModel, DisableModel, MonthRolls, BudgetsOf
<1>8. CASE UNCHANGED vars
  BY <1>8 DEF vars
<1> QED BY <1>1, <1>2, <1>3, <1>4, <1>5, <1>6, <1>7, <1>8 DEF Next

\* No step takes a workspace over the bound.
LEMMA BudgetInvStep == TypeInv /\ SeenInv /\ BudgetInv /\ [Next]_vars => BudgetInv'
<1> SUFFICES ASSUME TypeInv, SeenInv, BudgetInv, [Next]_vars,
                    NEW w \in Workspaces, NEW cap \in BudgetsOf(w), IsCap(w, cap)
             PROVE  Within(w, cap)'
  BY DEF BudgetInv, IsCap
<1>a. Within(w, cap) /\ TypeOK /\ TypeOK'
  BY TypeInvStep DEF BudgetInv, TypeInv
<1>b. /\ stage \in [Requests -> Stages] /\ req \in [Requests -> Calls]
      /\ spend \in [Workspaces -> Nat] /\ spend[w] <= spend[w]
  BY DEF TypeInv, TypeOK
<1> USE DEF call, trail, money, settings, GoTo, Answer, Spenders
<1>1. ASSUME NEW r \in Requests, Arrive(r) \/ BadBody(r) PROVE Within(w, cap)'
  BY <1>1, <1>a, <1>b, WithinQuiet DEF Arrive, BadBody, Start
<1>2. ASSUME NEW r \in Requests, Guard(r) PROVE Within(w, cap)'
  <2>1. CASE ResolveKey(r)
    BY <2>1, <1>a, <1>b, WithinQuiet DEF ResolveKey
  <2>2. CASE RateLimit(r)
    BY <2>2, <1>a, <1>b, WithinQuiet DEF RateLimit
  <2>3. CASE HasCredit(r)
    BY <2>3, <1>a, <1>b, WithinQuiet DEF HasCredit, Check
  <2>4. CASE WithinBudget(r)
    BY <2>4, <1>a, WithinCheck
  <2>5. CASE ModelEnabled(r)
    BY <2>5, <1>a, <1>b, WithinQuiet DEF ModelEnabled, Check
  <2>6. CASE GuardFails(r)
    BY <2>6, <1>a, <1>b, WithinQuiet DEF GuardFails
  <2> QED BY <1>2, <2>1, <2>2, <2>3, <2>4, <2>5, <2>6 DEF Guard
<1>3. ASSUME NEW r \in Requests, Forward(r) PROVE Within(w, cap)'
  BY <1>3, <1>a, <1>b, WithinQuiet DEF Forward, UpstreamOk, UpstreamMalformed, UpstreamRejects,
     UpstreamTransient, UpstreamUnreachable, UpstreamBroken, PassStatus, GiveUp, Retry
<1>4. ASSUME NEW r \in Requests, Finish(r) PROVE Within(w, cap)'
  <2>1. CASE Bill(r)
    <3>1. CASE WorkspaceOf(r) = w
      BY <2>1, <3>1, <1>a, WithinBill
    <3>2. CASE WorkspaceOf(r) # w
      BY <2>1, <3>2, <1>a, <1>b, WithinQuiet DEF Bill
    <3> QED BY <3>1, <3>2
  <2>2. CASE ~Bill(r)
    BY <1>4, <2>2, <1>a, <1>b, WithinQuiet DEF Finish, LogFailure, UsageUnreadable, BillFails,
       Log, LogFails
  <2> QED BY <2>1, <2>2
<1>5. ASSUME NEW r \in Requests, Chunk(r) \/ EndStream(r) \/ CancelFinalizer(r)
      PROVE  Within(w, cap)'
  BY <1>5, <1>a, <1>b, WithinQuiet DEF Chunk, EndStream, CancelFinalizer
<1>6. ASSUME NEW P \in SUBSET Requests, Crash(P) PROVE Within(w, cap)'
  BY <1>6, <1>a, <1>b, WithinQuiet DEF Crash
<1>7. CASE Manage
  BY <1>7, <1>a, <1>b, WithinQuiet DEF Manage, TopUp, SetBudget, RevokeKey, EnableModel, DisableModel
<1>8. CASE MonthRolls
  <2>1. spend'[w] <= spend[w] /\ UNCHANGED <<stage, req>>
    BY <1>8, <1>b DEF MonthRolls
  <2> QED BY <2>1, <1>a, WithinQuiet
<1>9. CASE UNCHANGED vars
  BY <1>9, <1>a, <1>b, WithinQuiet DEF vars
<1> QED BY <1>1, <1>2, <1>3, <1>4, <1>5, <1>6, <1>7, <1>8, <1>9 DEF Next

\* The month's spend never passes the highest budget by a maximal cost for
\* each handler, less those that hold a passed check.
THEOREM BudgetOvershootAlwaysBounded == Spec => []BudgetOvershootBounded
<1>1. Init => SeenInv
  BY DEF Init, SeenInv, BudgetsOf
<1>2. Init => BudgetInv
  <2> SUFFICES ASSUME Init, NEW w \in Workspaces, NEW cap \in BudgetsOf(w), IsCap(w, cap)
               PROVE  Within(w, cap)
    BY DEF BudgetInv
  <2>1. spend[w] = 0 /\ cap \in Int /\ cap > 0
    BY CapIsPositive DEF Init
  <2>2. Rest(w) \in Nat
    BY RestIsNat DEF Rest, Passed
  <2>3. MaxCost * Rest(w) \in Nat
    BY <2>2, CostOfMore
  <2> QED BY <2>1, <2>3 DEF Within
<1>3. BudgetInv => BudgetOvershootBounded
  BY DEF BudgetInv, BudgetOvershootBounded, BudgetsOf, IsCap, Within, Rest, Spenders
<1> QED BY <1>1, <1>2, <1>3, TypeInvInit, TypeInvStep, SeenInvStep, BudgetInvStep, PTL DEF Spec
=============================================================================
