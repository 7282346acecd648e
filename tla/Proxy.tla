------------------------------- MODULE Proxy --------------------------------
(***************************************************************************)
(* The request path of the gateway: the guard (auth.py), the shared proxy  *)
(* flow of every provider router (proxy.py), the upstream client with its  *)
(* retries (upstream.py), and the rows of the database these read and      *)
(* write (billing.py, budgets.py, logs.py), together with the requests of  *)
(* the admin and management APIs that change those rows under them.        *)
(*                                                                         *)
(* The handlers are coroutines of one event loop, and of several processes *)
(* over one database: every await is a point where another handler may     *)
(* run.  An action is what a handler does from one await that touches      *)
(* shared state to the next, so a commit is one action and the checks of   *)
(* the guard are one action each.                                          *)
(***************************************************************************)
EXTENDS Integers, FiniteSets

CONSTANTS
    Requests,           \* the handlers that can be running at the same time
    Keys, NoKey,        \* the stored API keys; a missing or unknown one
    Projects, Workspaces, Models,
    KeyProject,         \* ApiKey.project_id
    ProjectWorkspace,   \* Project.workspace_id
    Kinds,              \* which of the three flows calls may take
    OpeningCredit,      \* credit_micros of each workspace at the start
    OpeningBudget,      \* monthly_budget_micros of each workspace at the start
    MaxCost,            \* the most one call can cost
    TopUps, MaxTopUps,  \* amounts of a top-up; BOUND on their number
    Budgets,            \* values the management API may give a budget
    MaxRetries,         \* settings.max_retries
    Faults              \* whether a read of the guard, a commit, or the parse of a
                        \* stream's usage may fail

ASSUME ProxyAssumption ==
    /\ IsFiniteSet(Requests) /\ Requests # {}
    /\ NoKey \notin Keys
    /\ KeyProject \in [Keys -> Projects]
    /\ ProjectWorkspace \in [Projects -> Workspaces]
    /\ Models # {}
    /\ Kinds \subseteq {"json", "translated", "stream"}
    /\ OpeningCredit \in [Workspaces -> Nat]
    /\ OpeningBudget \in [Workspaces -> Int]
    /\ MaxCost \in Nat \ {0}
    /\ TopUps \subseteq Nat \ {0}
    /\ MaxTopUps \in Nat
    /\ Budgets \subseteq Int
    /\ MaxRetries \in Nat
    /\ Faults \in BOOLEAN

VARIABLES
    \* one handler's own state
    stage,      \* where the handler is
    answer,     \* what the client has got of it
    req,        \* the call it serves
    budgetSeen, \* the monthly budget of the workspace row it loaded
    attempt,    \* the retries made so far
    cost,       \* the cost of the usage it has read from upstream so far
    events,     \* how many UsageEvents this call has committed
    logged,     \* the RequestLog row of this call
    counted,    \* the increment of this call in the process's metrics
    \* the database
    credit,     \* Workspace.credit_micros
    budget,     \* Workspace.monthly_budget_micros
    ledger,     \* the sum of the LedgerEntry rows of a workspace
    spend,      \* the sum of a workspace's UsageEvents of this month
    revoked,    \* the keys with a revoked_at
    allowlist,  \* the ProjectModel rows
    topups      \* how many top-ups there have been

call == <<req, budgetSeen, attempt, cost>>
trail == <<events, logged, counted>>
money == <<credit, ledger, spend>>
settings == <<budget, revoked, allowlist, topups>>
vars == <<stage, answer, call, trail, money, settings>>

Calls == [key : Keys \cup {NoKey}, model : Models, kind : {"json", "translated", "stream"},
          late : BOOLEAN]

Stages == {"idle", "auth", "rate", "credit", "budget", "models", "forward", "stream",
           "logStatus", "logUnavailable", "settle", "log", "done"}

Answers == {"none", "started", "ok", "truncated", "gone", "lost",
            "invalid_request_error", "invalid_api_key", "rate_limited",
            "insufficient_credits", "budget_exceeded", "model_not_enabled",
            "upstream_status", "upstream_unavailable", "internal_error"}

WorkspaceOf(r) == ProjectWorkspace[KeyProject[req[r].key]]

InFlight(r) == stage[r] \notin {"idle", "done"}

Init ==
    /\ stage = [r \in Requests |-> "idle"]
    /\ answer = [r \in Requests |-> "none"]
    /\ req = [r \in Requests |-> [key |-> NoKey, model |-> CHOOSE m \in Models : TRUE,
                                  kind |-> "json", late |-> FALSE]]
    /\ budgetSeen = [r \in Requests |-> 0]
    /\ attempt = [r \in Requests |-> 0]
    /\ cost = [r \in Requests |-> 0]
    /\ events = [r \in Requests |-> 0]
    /\ logged = [r \in Requests |-> "none"]
    /\ counted = [r \in Requests |-> "none"]
    /\ credit = OpeningCredit
    /\ budget = OpeningBudget
    /\ ledger = [w \in Workspaces |-> 0]
    /\ spend = [w \in Workspaces |-> 0]
    /\ revoked = {}
    /\ allowlist = Projects \X Models
    /\ topups = 0

-----------------------------------------------------------------------------
(* A handler goes on to its next stage, or answers and ends.               *)

GoTo(r, s) == stage' = [stage EXCEPT ![r] = s]

Answer(r, a) ==
    /\ stage' = [stage EXCEPT ![r] = "done"]
    /\ answer' = [answer EXCEPT ![r] = a]

\* What the client of a call sees when its handler succeeds, or raises.
Succeeded(r) == IF answer[r] \in {"truncated", "gone"} THEN answer[r] ELSE "ok"

Raised(r) ==
    CASE answer[r] = "none" -> "internal_error"
      [] answer[r] = "started" -> "truncated"
      [] OTHER -> answer[r]

\* A call arrives and a handler is started for it.
Start(r, c) ==
    /\ ~InFlight(r)
    /\ req' = [req EXCEPT ![r] = c]
    /\ budgetSeen' = [budgetSeen EXCEPT ![r] = 0]
    /\ attempt' = [attempt EXCEPT ![r] = 0]
    /\ cost' = [cost EXCEPT ![r] = 0]
    /\ events' = [events EXCEPT ![r] = 0]
    /\ logged' = [logged EXCEPT ![r] = "none"]
    /\ counted' = [counted EXCEPT ![r] = "none"]
    /\ UNCHANGED <<money, settings>>

\* late records, for RevokedKeyStaysOut, that the key was already revoked.
Arrive(r) ==
    \E k \in Keys \cup {NoKey}, m \in Models, kd \in Kinds :
        /\ Start(r, [key |-> k, model |-> m, kind |-> kd, late |-> k \in revoked])
        /\ GoTo(r, "auth")
        /\ answer' = [answer EXCEPT ![r] = "none"]

\* The body is read and parsed before the guard.
BadBody(r) ==
    \E kd \in Kinds :
        /\ Start(r, [key |-> NoKey, model |-> CHOOSE m \in Models : TRUE,
                     kind |-> kd, late |-> FALSE])
        /\ Answer(r, "invalid_request_error")

-----------------------------------------------------------------------------
(* The guard.  Each check reads the database afresh, except the budget,    *)
(* which is compared with the workspace row loaded along with the key.     *)

\* Mutant: revoked_at is not looked at.
ResolveAnyKey(r) ==
    /\ stage[r] = "auth"
    /\ \/ /\ req[r].key \in Keys
          /\ budgetSeen' = [budgetSeen EXCEPT ![r] = budget[WorkspaceOf(r)]]
          /\ GoTo(r, "rate")
          /\ UNCHANGED answer
       \/ /\ req[r].key \notin Keys
          /\ Answer(r, "invalid_api_key")
          /\ UNCHANGED budgetSeen
    /\ UNCHANGED <<req, attempt, cost, trail, money, settings>>

ResolveKey(r) ==
    /\ stage[r] = "auth"
    /\ \/ /\ req[r].key \in Keys \ revoked
          /\ budgetSeen' = [budgetSeen EXCEPT ![r] = budget[WorkspaceOf(r)]]
          /\ GoTo(r, "rate")
          /\ UNCHANGED answer
       \/ /\ req[r].key \notin Keys \ revoked
          /\ Answer(r, "invalid_api_key")
          /\ UNCHANGED budgetSeen
    /\ UNCHANGED <<req, attempt, cost, trail, money, settings>>

\* The limiter's own state is in TokenBucket and RedisWindow; here it may say
\* either.
RateLimit(r) ==
    /\ stage[r] = "rate"
    /\ \/ GoTo(r, "credit") /\ UNCHANGED answer
       \/ Answer(r, "rate_limited")
    /\ UNCHANGED <<call, trail, money, settings>>

\* A boolean check of the guard: go on to s, or refuse with error code a.
Check(r, here, ok, s, a) ==
    /\ stage[r] = here
    /\ \/ ok /\ GoTo(r, s) /\ UNCHANGED answer
       \/ ~ok /\ Answer(r, a)
    /\ UNCHANGED <<call, trail, money, settings>>

\* Mutant: an empty balance is good enough.
HasCreditOrNone(r) ==
    Check(r, "credit", credit[WorkspaceOf(r)] >= 0, "budget", "insufficient_credits")

HasCredit(r) ==
    Check(r, "credit", credit[WorkspaceOf(r)] > 0, "budget", "insufficient_credits")

\* Mutant: a budget that is just used up still lets a call through.
WithinBudgetInclusive(r) ==
    Check(r, "budget", budgetSeen[r] <= 0 \/ spend[WorkspaceOf(r)] <= budgetSeen[r],
          "models", "budget_exceeded")

WithinBudget(r) ==
    Check(r, "budget", budgetSeen[r] <= 0 \/ spend[WorkspaceOf(r)] < budgetSeen[r],
          "models", "budget_exceeded")

ModelEnabled(r) ==
    Check(r, "models", <<KeyProject[req[r].key], req[r].model>> \in allowlist,
          IF req[r].kind = "stream" THEN "stream" ELSE "forward", "model_not_enabled")

\* The database or the limiter cannot be read: the exception leaves the handler.
GuardFails(r) ==
    /\ Faults
    /\ stage[r] \in {"auth", "rate", "credit", "budget", "models"}
    /\ Answer(r, "internal_error")
    /\ UNCHANGED <<call, trail, money, settings>>

-----------------------------------------------------------------------------
(* forward_json and what the handler does with its outcome.                *)

\* A final answer of status 400 or more is counted, then logged by handle;
\* handle_translated returns it at once, unlogged.
PassStatus(r) ==
    /\ counted' = [counted EXCEPT ![r] = "failure"]
    /\ IF req[r].kind = "translated"
         THEN Answer(r, "upstream_status")
         ELSE GoTo(r, "logStatus") /\ UNCHANGED answer
    /\ UNCHANGED attempt

\* An httpx.HTTPError is not counted; handle logs a 502, handle_translated does not.
GiveUp(r) ==
    /\ IF req[r].kind = "translated"
         THEN Answer(r, "upstream_unavailable")
         ELSE GoTo(r, "logUnavailable") /\ UNCHANGED answer
    /\ UNCHANGED <<attempt, counted>>

\* Mutant: max_retries counts the retries still to come, not those made.
RetryOnceMore(r) ==
    /\ attempt[r] <= MaxRetries
    /\ attempt' = [attempt EXCEPT ![r] = @ + 1]
    /\ UNCHANGED <<stage, answer, counted>>

Retry(r) ==
    /\ attempt[r] < MaxRetries
    /\ attempt' = [attempt EXCEPT ![r] = @ + 1]
    /\ UNCHANGED <<stage, answer, counted>>

\* An answer below 400 whose usage can be read.
UpstreamOk(r) ==
    /\ stage[r] = "forward"
    /\ \E c \in 0..MaxCost : cost' = [cost EXCEPT ![r] = c]
    /\ GoTo(r, "settle")
    /\ UNCHANGED <<answer, req, budgetSeen, attempt, trail, money, settings>>

\* An answer below 400 that is not JSON or has no readable usage: the
\* exception leaves the handler.
UpstreamMalformed(r) ==
    /\ stage[r] = "forward"
    /\ Answer(r, "internal_error")
    /\ UNCHANGED <<call, trail, money, settings>>

UpstreamRejects(r) ==
    /\ stage[r] = "forward"
    /\ PassStatus(r)
    /\ UNCHANGED <<req, budgetSeen, cost, events, logged, money, settings>>

\* 502, 503 or 504.
UpstreamTransient(r) ==
    /\ stage[r] = "forward"
    /\ Retry(r) \/ (attempt[r] >= MaxRetries /\ PassStatus(r))
    /\ UNCHANGED <<req, budgetSeen, cost, events, logged, money, settings>>

\* Mutant: the retry counter starts again once it has run out.
UpstreamUnreachableForever(r) ==
    /\ stage[r] = "forward"
    /\ \/ Retry(r)
       \/ /\ attempt[r] >= MaxRetries
          /\ attempt' = [attempt EXCEPT ![r] = 0]
          /\ UNCHANGED <<stage, answer, counted>>
    /\ UNCHANGED <<req, budgetSeen, cost, events, logged, money, settings>>

\* ConnectError or TimeoutException.
UpstreamUnreachable(r) ==
    /\ stage[r] = "forward"
    /\ Retry(r) \/ (attempt[r] >= MaxRetries /\ GiveUp(r))
    /\ UNCHANGED <<req, budgetSeen, cost, events, logged, money, settings>>

\* Any other httpx.HTTPError is not retried.
UpstreamBroken(r) ==
    /\ stage[r] = "forward"
    /\ GiveUp(r)
    /\ UNCHANGED <<req, budgetSeen, cost, events, logged, money, settings>>

\* The RequestLog row of a failure, and then the failure itself.
LogFailure(r) ==
    /\ stage[r] \in {"logStatus", "logUnavailable"}
    /\ logged' = [logged EXCEPT ![r] = "failure"]
    /\ Answer(r, IF stage[r] = "logStatus" THEN "upstream_status" ELSE "upstream_unavailable")
    /\ UNCHANGED <<call, events, counted, money, settings>>

-----------------------------------------------------------------------------
(* Streaming: the generator tees the upstream's bytes; its finally clause  *)
(* bills and logs.  The status of the upstream response is never looked at.*)

\* More bytes pass; the usage they add up to may be any other.
Chunk(r) ==
    /\ stage[r] = "stream"
    /\ \E c \in 0..MaxCost : cost' = [cost EXCEPT ![r] = c]
    /\ answer' = [answer EXCEPT ![r] = "started"]
    /\ UNCHANGED <<stage, req, budgetSeen, attempt, trail, money, settings>>

\* The upstream closes, the upstream breaks, or the client goes away: in
\* each case control passes to the finally clause.
EndStream(r) ==
    /\ stage[r] = "stream"
    /\ GoTo(r, "settle")
    /\ \E a \in {"started", "truncated", "gone"} : answer' = [answer EXCEPT ![r] = a]
    /\ UNCHANGED <<call, trail, money, settings>>

\* The parser of the finally clause raises on the bytes it was given.
UsageUnreadable(r) ==
    /\ Faults
    /\ stage[r] = "settle"
    /\ req[r].kind = "stream"
    /\ Answer(r, Raised(r))
    /\ UNCHANGED <<call, trail, money, settings>>

\* The server cancels the task of a client that went away; the cancellation
\* is delivered again at the awaits of the finally clause.
CancelFinalizer(r) ==
    /\ stage[r] \in {"settle", "log"}
    /\ answer[r] = "gone"
    /\ Answer(r, "gone")
    /\ UNCHANGED <<call, trail, money, settings>>

-----------------------------------------------------------------------------
(* Settlement: one transaction for the money, one for the log, and the     *)
(* metrics, in this order.                                                 *)

\* Mutant: a call that cost nothing leaves no UsageEvent.
BillUnlessFree(r) ==
    /\ stage[r] = "settle"
    /\ GoTo(r, "log")
    /\ events' = [events EXCEPT ![r] = IF cost[r] = 0 THEN @ ELSE @ + 1]
    /\ credit' = [credit EXCEPT ![WorkspaceOf(r)] = @ - cost[r]]
    /\ ledger' = [ledger EXCEPT ![WorkspaceOf(r)] = @ - cost[r]]
    /\ spend' = [spend EXCEPT ![WorkspaceOf(r)] = @ + cost[r]]
    /\ UNCHANGED <<answer, call, logged, counted, settings>>

\* Mutant: the commit is repeated when the refresh that follows it fails.
BillMaybeTwice(r) ==
    /\ stage[r] = "settle"
    /\ GoTo(r, "log") \/ (events[r] = 0 /\ GoTo(r, "settle"))
    /\ events' = [events EXCEPT ![r] = @ + 1]
    /\ credit' = [credit EXCEPT ![WorkspaceOf(r)] = @ - cost[r]]
    /\ ledger' = [ledger EXCEPT ![WorkspaceOf(r)] = @ - cost[r]]
    /\ spend' = [spend EXCEPT ![WorkspaceOf(r)] = @ + cost[r]]
    /\ UNCHANGED <<answer, call, logged, counted, settings>>

\* record_usage_and_debit: UsageEvent, LedgerEntry and balance in one commit.
Bill(r) ==
    /\ stage[r] = "settle"
    /\ GoTo(r, "log")
    /\ events' = [events EXCEPT ![r] = @ + 1]
    /\ credit' = [credit EXCEPT ![WorkspaceOf(r)] = @ - cost[r]]
    /\ ledger' = [ledger EXCEPT ![WorkspaceOf(r)] = @ - cost[r]]
    /\ spend' = [spend EXCEPT ![WorkspaceOf(r)] = @ + cost[r]]
    /\ UNCHANGED <<answer, call, logged, counted, settings>>

\* Mutant: the rows and the balance are two commits, and the second fails.
BillFailsHalfway(r) ==
    /\ Faults
    /\ stage[r] = "settle"
    /\ events' = [events EXCEPT ![r] = @ + 1]
    /\ ledger' = [ledger EXCEPT ![WorkspaceOf(r)] = @ - cost[r]]
    /\ spend' = [spend EXCEPT ![WorkspaceOf(r)] = @ + cost[r]]
    /\ Answer(r, Raised(r))
    /\ UNCHANGED <<call, logged, counted, credit, settings>>

\* Mutant: the handler swallows the error and goes on to the log.
BillFailsQuietly(r) ==
    /\ Faults
    /\ stage[r] = "settle"
    /\ GoTo(r, "log")
    /\ UNCHANGED <<answer, call, trail, money, settings>>

\* The transaction is rolled back and the exception ends the handler.
BillFails(r) ==
    /\ Faults
    /\ stage[r] = "settle"
    /\ Answer(r, Raised(r))
    /\ UNCHANGED <<call, trail, money, settings>>

Log(r) ==
    /\ stage[r] = "log"
    /\ logged' = [logged EXCEPT ![r] = "ok"]
    /\ counted' = [counted EXCEPT ![r] = "ok"]
    /\ Answer(r, Succeeded(r))
    /\ UNCHANGED <<call, events, money, settings>>

\* A log row that cannot be written ends the handler too, charged or not.
LogFails(r) ==
    /\ Faults
    /\ stage[r] \in {"log", "logStatus", "logUnavailable"}
    /\ Answer(r, Raised(r))
    /\ UNCHANGED <<call, trail, money, settings>>

-----------------------------------------------------------------------------
(* The rest of the world.                                                  *)

\* A process dies with the calls it serves and with its metrics.
Crash(P) ==
    /\ stage' = [r \in Requests |-> IF r \in P /\ InFlight(r) THEN "done" ELSE stage[r]]
    /\ answer' = [r \in Requests |-> IF r \in P /\ InFlight(r) THEN "lost" ELSE answer[r]]
    /\ counted' = [r \in Requests |-> IF r \in P THEN "none" ELSE counted[r]]
    /\ UNCHANGED <<call, events, logged, money, settings>>

TopUp(w, a) ==
    /\ topups < MaxTopUps
    /\ topups' = topups + 1
    /\ credit' = [credit EXCEPT ![w] = @ + a]
    /\ ledger' = [ledger EXCEPT ![w] = @ + a]
    /\ UNCHANGED <<stage, answer, call, trail, spend, budget, revoked, allowlist>>

SetBudget(w, b) ==
    /\ budget' = [budget EXCEPT ![w] = b]
    /\ UNCHANGED <<stage, answer, call, trail, money, revoked, allowlist, topups>>

RevokeKey(k) ==
    /\ revoked' = revoked \cup {k}
    /\ UNCHANGED <<stage, answer, call, trail, money, budget, allowlist, topups>>

EnableModel(p, m) ==
    /\ allowlist' = allowlist \cup {<<p, m>>}
    /\ UNCHANGED <<stage, answer, call, trail, money, budget, revoked, topups>>

DisableModel(p, m) ==
    /\ allowlist' = allowlist \ {<<p, m>>}
    /\ UNCHANGED <<stage, answer, call, trail, money, budget, revoked, topups>>

\* A calendar month begins: no UsageEvent is of this month yet.
MonthRolls ==
    /\ spend' = [w \in Workspaces |-> 0]
    /\ UNCHANGED <<stage, answer, call, trail, credit, ledger, settings>>

Guard(r) ==
    \/ ResolveKey(r) \/ RateLimit(r) \/ HasCredit(r) \/ WithinBudget(r) \/ ModelEnabled(r)
    \/ GuardFails(r)

Forward(r) ==
    \/ UpstreamOk(r) \/ UpstreamMalformed(r) \/ UpstreamRejects(r)
    \/ UpstreamTransient(r) \/ UpstreamUnreachable(r) \/ UpstreamBroken(r)

Finish(r) == LogFailure(r) \/ UsageUnreadable(r) \/ Bill(r) \/ BillFails(r) \/ Log(r) \/ LogFails(r)

Manage ==
    \/ \E w \in Workspaces, a \in TopUps : TopUp(w, a)
    \/ \E w \in Workspaces, b \in Budgets : SetBudget(w, b)
    \/ \E k \in Keys : RevokeKey(k)
    \/ \E p \in Projects, m \in Models : EnableModel(p, m) \/ DisableModel(p, m)

Next ==
    \/ \E r \in Requests :
          \/ Arrive(r) \/ BadBody(r)
          \/ Guard(r) \/ Forward(r) \/ Finish(r)
          \/ Chunk(r) \/ EndStream(r) \/ CancelFinalizer(r)
    \/ \E P \in SUBSET Requests : Crash(P)
    \/ Manage
    \/ MonthRolls

Spec == Init /\ [][Next]_vars

\* The event loop runs every handler that can go on; the client of the
\* upstream has a timeout, so an attempt has an outcome.  Nothing makes a
\* client call, a stream end or an administrator act.
Fairness == \A r \in Requests : WF_vars(Guard(r) \/ Forward(r) \/ Finish(r))

FairSpec == Spec /\ Fairness

-----------------------------------------------------------------------------
(* Properties.                                                             *)

TypeOK ==
    /\ stage \in [Requests -> Stages]
    /\ answer \in [Requests -> Answers]
    /\ req \in [Requests -> Calls]
    /\ budgetSeen \in [Requests -> Int]
    /\ attempt \in [Requests -> 0..MaxRetries]
    /\ cost \in [Requests -> 0..MaxCost]
    /\ events \in [Requests -> Nat]
    /\ logged \in [Requests -> {"none", "failure", "ok"}]
    /\ counted \in [Requests -> {"none", "failure", "ok"}]
    /\ credit \in [Workspaces -> Int]
    /\ budget \in [Workspaces -> Int]
    /\ ledger \in [Workspaces -> Int]
    /\ spend \in [Workspaces -> Nat]
    /\ revoked \subseteq Keys
    /\ allowlist \subseteq Projects \X Models
    /\ topups \in 0..MaxTopUps

\* The balance column of a workspace equals what it opened with plus its
\* ledger rows, at every commit (record_usage_and_debit and top_up move both).
LedgerBalances == \A w \in Workspaces : credit[w] = OpeningCredit[w] + ledger[w]

\* The calls that have passed a check for w and may still be billed to it.
Passed(w, stages) == {r \in Requests : stage[r] \in stages /\ WorkspaceOf(r) = w}

\* The guard reads the balance and reserves nothing, and the cost of a call
\* is known only after the upstream has answered.  So a balance may go below
\* zero, but only by what the handlers running at once can spend: one maximal
\* cost for each handler, less the ones that still hold a passed check.
OverdraftBounded ==
    \A w \in Workspaces :
        credit[w] > -MaxCost * (Cardinality(Requests)
            - Cardinality(Passed(w, {"budget", "models", "forward", "stream", "settle"})))

\* The same for the monthly budget: when every budget w can be given is
\* positive and at most cap, the month's spend passes cap by less than one
\* maximal cost for each handler, whatever budget row a handler had loaded.
BudgetOvershootBounded ==
    \A w \in Workspaces : \A cap \in Budgets \cup {OpeningBudget[w]} :
        (\A b \in Budgets \cup {OpeningBudget[w]} : 0 < b /\ b <= cap) =>
            spend[w] < cap + MaxCost * (Cardinality(Requests)
                - Cardinality(Passed(w, {"models", "forward", "stream", "settle"})))

\* A client that got its whole answer is charged once, a client that got an
\* error of the guard or of the upstream is not charged, and nobody twice.
ChargeMatchesAnswer ==
    \A r \in Requests : stage[r] = "done" =>
        /\ events[r] <= 1
        /\ answer[r] = "ok" => events[r] = 1
        /\ answer[r] \in Answers \ {"ok", "truncated", "gone", "lost", "internal_error"}
              => events[r] = 0

\* The three records of a call agree in the order they are written: metrics
\* count a success only after its log row, and the log row says success only
\* after the charge; this survives the crash of the process in between.
TrailFollowsCharge ==
    \A r \in Requests :
        /\ logged[r] = "ok" => events[r] = 1
        /\ logged[r] = "failure" => events[r] = 0
        /\ counted[r] = "ok" => logged[r] = "ok"

\* A key revoked before a call arrives gets that call neither to the upstream
\* nor billed, however long ago other calls with the key were let through.
RevokedKeyStaysOut ==
    \A r \in Requests : req[r].late => stage[r] \in {"auth", "done"} /\ events[r] = 0

\* Every call leaves its handler with an answer, retries included, or becomes
\* a stream; and a stream that has closed is always settled or given up.
CallsFinish ==
    \A r \in Requests :
        InFlight(r) /\ stage[r] # "stream" ~> stage[r] \in {"stream", "done"}

\* models.py on RequestLog: "Every proxy request attempt, including failures."
EveryAttemptLogged ==
    \A r \in Requests :
        stage[r] = "done" /\ answer[r] \in {"upstream_status", "upstream_unavailable"}
            => logged[r] # "none"

\* proxy.py: "bill + log when the stream closes (even on client disconnect)".
ClosedStreamIsBilled ==
    \A r \in Requests : stage[r] = "done" /\ answer[r] = "gone" => events[r] = 1
=============================================================================
