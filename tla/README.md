# Token gateway: specification, model checking and proofs

This directory holds TLA+ models of the token gateway (the FastAPI service
under `src/gateway/`), the TLC configurations that check them on small
instances, and TLAPS proofs of the main results for every value of the
constants. Paths such as `proxy.py` are under `src/gateway/` of the repository.

## 1. The system

The gateway sits between clients and the model providers. A client sends an
OpenAI, Anthropic or Gemini shaped call with a `gw-...` key; the gateway checks
it (the *guard*), forwards it with the operator's credentials, reads the usage
out of the answer, takes its price from the workspace's prepaid credits and
writes a log row. Workspaces are topped up by payments or by an operator, and
organisations administer keys, models and budgets through a management API.

All of it runs as coroutines of one event loop, in one or more processes over
one database. Every `await` is a point where another handler may run, and no
row is locked from one statement to the next.

| component | state | operations | correct when |
|---|---|---|---|
| guard (`auth.py`) | none of its own; reads keys, projects, workspaces, allowlist | `authenticate`, `guard` | revoked keys stay out; each check refuses with its own error; what was checked bounds what is spent later |
| proxy flow (`proxy.py`, `routers/`) | one handler's local state; bytes collected of a stream | `handle`, `handle_translated`, `_stream_response`, `_settle` | a call is charged once when its client got the whole answer, and not when it got an error of the guard or the upstream; log and metrics agree with the charge; every call ends |
| upstream client (`upstream.py`) | retry counter of a call | `forward_json`, `forward_stream` | no more than `max_retries` retries, on transient failures only |
| billing ledger (`billing.py`, `pricing.py`) | `Workspace.credit_micros`, `LedgerEntry`, `UsageEvent` | `has_credit`, `record_usage_and_debit`, `top_up` | balance agrees with the ledger; overdraft bounded |
| monthly budgets (`budgets.py`) | sum of the month's `UsageEvent`s | `within_budget` | overshoot bounded although nothing is reserved |
| request log, metrics (`logs.py`, `metrics.py`) | `RequestLog` rows; counters in memory | `record_request`, `record_tokens`, `reset` | written in order, lost only by crashes and failures |
| payments (`payments.py`, routes of `admin.py`) | `Payment` rows; Stripe's sessions and events | `create_topup`, `create_checkout_session`, `settle_payment`, `handle_webhook_event` | no credits without payment; no payment lost; no payment credited too often |
| limiter (`ratelimit.py`) | token buckets in memory, or counters in Redis | `allow`, `reset` | never over the rate; nobody refused without cause |
| management API (`manage.py`, `rbac.py`, `activity.py`) | organisations, users, memberships, sessions, the tree organisation / workspace / project / key, activity log | one route per mutation | whoever changes something may; the activity log is true and its gaps have a reason; organisations have owners; no role is overwritten |
| stream usage parsers (`proxy.py`, `routers/gemini.py`, `usage.py`) | none | three parsers | bill what the provider last reported in one piece, wherever the stream ends |
| database (`db.py`) | engine, connection pool | `get_session` | handlers do not wait for each other for ever |
| translation (`translate.py`), model list, console read API, keys, errors, configuration, application assembly, scripts, migrations, frontend, CDK stack | none, or data set once | | |

How they interact: a router calls `handle`, which calls the guard, which reads
the rows that billing, budgets and the management API write, and asks the
limiter; then the upstream client; then `_settle`, which calls billing, the log
and the metrics. Payments call `billing.top_up`. The management API shares only
rows with the request path: what it changes is seen by handlers that are
between two awaits.

What is hard, and where it bites, is the list `hazards` of `PROJECT.json`. The
main ones are: a balance or a budget that is checked and spent several awaits
later, by many calls at once; a budget row loaded at authentication and stale
when compared; three records of one call (charge, log, metrics) that fail or
are lost one without the other; a client that disconnects while its stream is
being billed; retries; a webhook delivered again while an earlier delivery is
between its two commits; INCR and EXPIRE as two requests to Redis; a role that
is checked, and an organisation that is looked up, awaits before the change; a
change whose activity row is a second commit; streams that need a second
connection in order to bill.

## 2. The modules

    PrepaidAccount      what the gateway promises about money
      ^ implemented by
    ProxyAccount        a refinement mapping          MCProxyAccount
      extends
    Proxy               guard, flow, upstream,        MCProxy
                        billing, budgets, log
      ^ and by
    PaymentsAccount     a refinement mapping          MCPayments
      extends
    Payments            top-ups and the webhook
    TokenBucket         the limiter in memory         MCTokenBucket
    RedisWindow         the limiter in Redis          MCRedisWindow
    Manage              management API, roles,        MCManage
                        activity log
    StreamUsage         the parsers of streams
      extended by
    Streams             calls over the pool of        MCStreams
                        database connections

The theorems about a module stand in a module of their own: `PrepaidAccountProofs`,
`ProxyProofs`, `PaymentsProofs`, `TokenBucketProofs`, `RedisWindowProofs`,
`ManageProofs`, `StreamsProofs`. `FoldProofs` has the lemmas on folds that the
proofs about sums of ledger rows and about parsers share.

### Proxy

One record of per-handler state for each member of `Requests`, and the rows of
the database. An action is what a handler does from one await on shared state
to the next.

| code | actions |
|---|---|
| `_parse_body`, routers | `Arrive`, `BadBody` |
| `auth.guard` | `ResolveKey`, `RateLimit`, `HasCredit`, `WithinBudget`, `ModelEnabled`, `GuardFails` |
| `upstream.forward_json` and its callers | `UpstreamOk`, `UpstreamMalformed`, `UpstreamRejects`, `UpstreamTransient`, `UpstreamUnreachable`, `UpstreamBroken`, `LogFailure` |
| `_stream_response.gen` | `Chunk`, `EndStream`, `UsageUnreadable`, `CancelFinalizer`, then settlement |
| `_settle`, `record_usage_and_debit`, `logs.record_request` | `Bill`, `BillFails`, `Log`, `LogFails` |
| process crash | `Crash(P)`: any set of handlers that share a process |
| `scripts/topup.py`, payments | `TopUp` |
| `manage.py` | `SetBudget`, `RevokeKey`, `EnableModel`, `DisableModel` |
| calendar | `MonthRolls` |

Abstractions. A transaction is atomic: it is one action that happens or does
not. The price of a call is any value up to `MaxCost`; so is what a broken
stream has added up to. The provider may answer anything at any attempt.
Bodies, headers and messages are left out, an answer is its error code. The
limiter may say yes or no; its own state is in the two limiter modules. The
usage parser of a stream may raise. `commit` and what follows it in the same
function (`session.refresh`) are two steps only in their failure, which is the
failure of the next action. The credits a workspace is created with are
`OpeningCredit`: `create_workspace` and `create_key.py` write no ledger row for
them. `topup.py` is modelled for positive amounts.

### ProxyAccount and PrepaidAccount

`PrepaidAccount` knows balances, ledgers and authorisations. A call of the
proxy holds an authorisation on its key's workspace from the moment `has_credit`
said yes until it is billed or ends; `ProxyAccount` defines that mapping, and
`ImplementsAccount` is the abstract specification under it.

### Payments

Handlers run `create_topup`, `create_checkout_session` and the webhook over
shared rows. `settle_payment` is two commits, `ApplyCredits` and `MarkPaid`;
the status tested by `Deliver` is that of the row loaded at the start. Stripe
is external: a session may be created although the request for it failed
(`PostSession`), a customer pays a session whose URL was handed out, an event
is delivered any number of times until it has been answered 200, to any
handler, and the answer may be lost (`AnswerStripe`). Events the webhook
ignores and bad signatures change nothing and are left out. `Stripe` says of each
payment whether it goes through Stripe or is a mock top-up, which `create_topup`
settles in the request itself: a restart with another configuration leaves rows
of both kinds in one table. `LedgerOf` adds up the ledger rows of a workspace:
`settle_payment` writes one row of the payment's amount each time it is applied.

`PaymentsAccount` maps this to the same `PrepaidAccount`: the balance to the
balance column, the ledger to that sum, and no payment ever holds an
authorisation to debit. `ImplementsAccount` then says that whatever is
redelivered, overlaps or breaks off, money moves only by whole top-ups, each
together with its row.

### TokenBucket

`allow` has no await: one action per case of it. The floats are integers here,
in sixtieths of a token, and rounding is left out. The variables of the
*observer* are history: he may start to count at any moment, so `RateBounded`
speaks of every interval of time and not only of those from the start.
The buckets are those of one process: with N processes and no Redis a key gets
N times the bound, as `doc/aws-cdk-deployment.md:175` says of two tasks.

### RedisWindow

INCR and EXPIRE are separate actions of any number of handlers; a request may
fail before or after Redis has carried it out (`Lose`); Redis may restart
empty (`Flush`). One key is modelled: the counters of different keys have
different names. The clocks of the processes agree. A handler that computes its
window and stalls into the next minute is counted in the old window, as in the
code; the properties speak of calls counted within their own minute.

### Manage

A request of the management API goes through `Arrive` (`get_principal`), `Load`
(`_org_of_workspace`, `_org_of_project`), `CheckRole` (`require_role`,
`_require_superuser`), the commit of its route (`CreateUser`, `CreateSession`,
`CreateOrg`, `AddMember`, `CreateWorkspace`, `CreateProject`, `CreateKey`,
`SetBudget`, `RevokeKey`, `LookForModel` and `EnableModel`, `DisableModel`), and
`Record` (`activity.record`), a second commit. Between any two of them other
requests work. `Refused` collects the error paths, `Fail` the commits that fail
and the crashes. `changes` and `lost` are history: what was committed, with the
organisation the foreign keys lead to at that moment, and the activity rows
that were not written; `founder` is too, and says whom an organisation was
created for: the user `owner_email` names, or else whoever asked. Only an
organisation that the superuser creates for nobody has no owner. `changes` and
the log are sets, so a change that repeats an earlier one word for word is
masked by it. A request may name a row that does not exist
(`Missing`), a workspace without organisation (`NoOrg`, which `create_key.py`
seeds) and a user it made up. A session token is known by its user; requests
without valid credentials, the routes that list, and display names are left out.
Foreign keys are enforced, as by Postgres; SQLite, the default, does not enforce
them, and would let the superuser leave a membership of no organisation.

### StreamUsage and Streams

`StreamUsage` has the three parsers as functions of the lines of a stream: the
first line that matters for OpenAI, a fold of `ReadLine` over all of them for
Anthropic and Gemini. A line is a record of what the parsers tell apart.
`Says` is external: where OpenAI,
Anthropic and Gemini report the usage of a call so far. `Piece` is how
`_gemini_stream_usage` takes a chunk apart: it splits the whole text at every
`data:` and with `str.splitlines`, so a chunk that is spread over several lines,
or has `data:`, U+2028 or U+0085 in its text, comes out in fragments that do not
parse. The other two parsers split bytes, at the line breaks of bytes only,
which JSON does not have inside a line.

In `Receive` any report of Gemini may come cut (`Cuts`) or whole; `told` is the
last report and `legible` the last that came whole, both history.

In `Streams` handlers share the pool of connections of one process
(`Capacity`; SQLAlchemy's default is 5 and 10 more). A handler takes a
connection with its first read (`Guard`, whose reads are one action: a handler
that has a connection does not wait there for another), keeps it while the
upstream works, and gives it back with a commit; the `refresh` after the commit
of the billing asks for it again (`Acquire`). A stream bills in a session of its
own. Whether the session of its request still holds a connection then depends on
FastAPI: up to 0.117 it was closed before the response was sent, as the comment
at `proxy.py:181` says; from 0.118 on it is closed afterwards, and `uv.lock`
has 0.139.0. `HeldUntilSent` is that choice; the run takes the locked version,
the theorems hold for both. Commits that fail and parsers that raise are in
`Proxy` and left out here.

## 3. What the runs check

| run | question | bounds |
|---|---|---|
| `trail` | Do charge, log row and metrics of a call agree with what its client got, under retries, failing commits, cancellation and crashes? Does a revoked key stay out? Does every call end? | 2 handlers, all three flows, one retry, costs 0 and 1 |
| `tenants` | Is every movement of money one the prepaid account allows, on the right workspace? Balance and ledger, overdraft. | 2 handlers, 2 tenants, one top-up, failing commits |
| `budget` | How far can a month's spend pass the budget, when the budget is lowered under the handlers and the month ends? | 2 handlers, costs to 2, budgets 2 and 1 |
| `settlement` | Credits only after payment, no acknowledged event lost, over-crediting bounded, a mock payment credited once, balances equal to the ledger rows, every movement of money one the prepaid account allows, every completed payment settled. | 2 payments through Stripe and a mock one, 2 workspaces, 2 handlers, 2 faults |
| `bucket` | Rate of the bucket in every interval; refusals only soon after a grant. | a key of 3 calls a minute, one without limit, 80 seconds, one restart |
| `window` | Rate of the Redis counter in a minute; refusals only when it is used up; counters left behind. | 3 handlers, limit 2, two minutes, one lost request, one restart of Redis |
| `manage` | Who changed what, may they, is it recorded, does an organisation belong to the user it was created for, do members keep their roles, rows their place and revoked keys their revocation, whatever other requests do meanwhile? | 2 handlers, 3 requests, 3 users (one not yet created), 2 organisations (one not yet created), a workspace with and one without organisation, one fault |
| `streams` | Is what a stream is billed what was last reported in one piece? Who can wait for connections in a circle? Does every call end that is not an open stream? | 3 handlers, all four kinds of call, 2 connections, 2 lines, reports of 0 or 2 output tokens |

Two handlers are enough for every race of a check against a spend: the bounds
are stated per handler, and the second handler already exceeds what one could
do. One retry separates *first*, *last* and *middle* of the retry loop. Two
tenants are enough for money to land on the wrong one. Two faults let a
settlement be cut off, delivered again and cut off again. In `window` the steps
of the clock (20 and 35 s) let a counter be created early or late in its minute
and expire, or not, while a late handler still asks for it; three handlers
exceed the limit of two. In `bucket` the clock moves
by half a token or three quarters, so that refills are cut off by the cap and
fall short of a whole token. `Requests`, `Handlers` and workspaces are symmetric
only in runs without liveness, and only where the configuration treats them alike.
In `manage` three requests are what it takes to change something between the
lookup of one request and its commit and to see it recorded or not; ids are few,
so that requests collide. In `streams` two connections and three handlers let
two streams block each other while a third waits outside; two lines let a report
be repeated, raised, or followed by noise.

`CHECK_DEADLOCK FALSE` stands only in the configurations of `Payments` and in
`manage`: when every payment is settled and acknowledged, or no request is left
within the bound, the model may really stop.

Runs that find a disagreement, each with its counterexample:

| run | what is said | what the code does |
|---|---|---|
| `every_attempt_logged` | `models.py:175`, RequestLog: "Every proxy request attempt, including failures" | `handle_translated` returns upstream failures without a log row |
| `closed_stream_billed` | `proxy.py:5`: "bill + log when the stream closes (even on client disconnect)" | the cancellation of the task is delivered at the awaits of the `finally` clause, before the commit |
| `settle_idempotent` | `payments.py:99`: "Mark paid + apply credits (idempotent)" | two overlapping deliveries both find the row pending and both apply the credits |
| `gemini_chunks` | `gemini.py:23`: "Gemini stream is a JSON array of chunks; take the last usageMetadata seen." | the text is split at every line break and every `data:`, also inside a chunk, and only what comes out whole is read; a chunk spread over lines (an array asked for without `alt=sse`), or with `data:` in its text, is lost, and the call is billed an older report or no tokens |

### Fairness

`Proxy`: weak fairness of each handler's own steps (`Guard`, `Forward`,
`Finish`): the event loop runs every coroutine that can go on, and an attempt
upstream has a timeout (`upstream.py`, `get_client`), so it has an outcome.
Nothing is assumed of clients, of the end of a stream (a stream has no such bound
as a whole) or of administrators; which is why `CallsFinish` lets a call end by
becoming a stream.

`Payments`: weak fairness of each handler's steps, and strong fairness of the
delivery of an event that has not been answered 200: Stripe retries, and
handlers are free infinitely often but not always.

`Streams`: weak fairness of what a handler goes on to do by itself. The event
loop runs it, the upstream client has a timeout between two chunks
(`get_client`, 600 s), and a wait for a connection ends with the pool's timeout;
which of them ends a wait is left open. `CallsEnd` rests on the last: without it
two streams that bill wait for each other for ever, which is what its mutant
shows. Nothing is assumed of `EndStream`, `Receive` or `Cancel`: the timeout of
the client is one of each read, so a provider that keeps sending is never cut
off, and a client that reads no more stalls the `yield` of the generator without
any bound. `CallsEnd` therefore lets a call stay a stream for ever, and says that
all others end, also those that find the pool's connections held by such streams.
That an attempt upstream has an outcome, here and in `Proxy`, is idealised
likewise: httpx times out per read, not per answer.

## 4. What is proved

All theorems hold for every value of the constants that meets the named
assumptions: finite sets of handlers, a positive `MaxCost`, top-ups that are
positive, opening balances that are not negative.

| module | theorem | argument |
|---|---|---|
| `FoldProofs` | `SumChanges`, `FoldLast` | a sum changes by what its one changed term changes by; a left fold over a longer sequence is one step more than over the shorter |
| `PrepaidAccountProofs` | `BalancedAlways`, `OverdraftAlways` | the overdraft bound counts the calls that hold an authorisation: a call gives one maximal cost of room back when it settles, and is let in only above zero |
| `ProxyProofs` | `TypeCorrect` | with `KeyKnown`: a handler past authentication has a stored key, without which its workspace would not exist |
| | `Refinement` | every action of the proxy maps to a step of the account or to a stutter |
| | `LedgerAlwaysBalances`, `OverdraftAlwaysBounded` | by the refinement, from the two theorems on the account |
| | `ChargeAlwaysMatchesAnswer`, `TrailAlwaysFollowsCharge`, `RevokedKeyAlwaysStaysOut` | one inductive invariant (`CallInv`) of what the stage of a handler says of its three records |
| | `BudgetOvershootAlwaysBounded` | `SeenInv` (a budget in a handler's hands is one the workspace had) and the counting argument of the overdraft |
| `PaymentsProofs` | `TypeCorrect`, `NoCreditBeforePaymentAlways`, `AckedIsSettledAlways`, `OverCreditAlwaysBounded` | what a handler at `settle` or `mark` knows of its payment, and a count of the handlers that may still apply it |
| | `MockCreditedAtMostOnceAlways` | a mock payment has one handler, the one that inserted it, and no event |
| | `CreditMatchesRowsAlways` | a payment without a row was never applied (`NoRowNoMoney`), so writing its owner moves no money; applying it changes one term of the sum by its amount (`SumChanges`) |
| | `Refinement` | `ApplyCredits` is the account's `Credit` by that amount, every other action a stutter |
| `TokenBucketProofs` | `TypeCorrect`, `RateAlwaysBounded`, `DenialAlwaysSoonAfterGrant` | `BucketInv`: what is granted and what is left never exceeds what was there and what was refilled; and after a grant the bucket holds at least what has been refilled since |
| `RedisWindowProofs` | `TypeCorrect`, `MinuteAlwaysBounded`, `RefusalAlwaysExplained` | `WindowInv`: a handler counts in a window that has begun (`Behind`), so a counter outlives its window (`LivesOut`), so counter and calls let through differ only by restarts and failures (`CounterTells`) |
| | `LeaksAlwaysBounded` | a step without a failure adds no counter without a time to live; a failure adds at most one |
| `ManageProofs` | `ChangesAlwaysAuthorised`, `OrgsAreAlwaysOwned`, `RolesNeverChangeAlways`, `TypeCorrect` | steps only add (`Grows`): no row is taken away or moved and no role changes, so what a handler has looked up and checked (`JobInv`) is still true when it commits |
| | `RowsAlwaysStayInPlace` | `Grows` again, and `RevokeKey` is the only action that writes `revoked` |
| | `ActivityAlwaysTruthful`, `AuditGapAlwaysExplained` | a handler at `record` holds the entry of a committed change |
| `StreamsProofs` | `TypeCorrect`, `CircleAlwaysNeedsStreams` | `Holding`: at which stages who holds which connection; then everyone who holds one and waits is a stream at `bill` or `refresh`, and counting gives the rest |
| | `NeverStuck` | from it: with more connections than calls at a time, or sessions closed before the response is sent, nobody waits in a circle |
| | `BilledAlwaysAsLegible` | `BillInv`: the lines a handler has collected tell its parser what was last reported in one piece (`Tells`), and every line that may come in keeps it so, cut or whole; for streams of any length |

Why the invariants need strengthening: `OverdraftBounded` is not inductive
without the handlers that still hold a passed check, which is why they are part of
its statement; `BudgetOvershootBounded` needs to know where a stale budget
comes from; `RateBounded` says nothing of the tokens left, which the next call
may take; `MinuteBounded` holds only because no counter expires before its
minute is over, which rests on when EXPIRE is sent; `ChangesAuthorised` says
nothing of the requests that have been checked and not committed yet;
`CircleNeedsStreams` nothing of who holds a connection while nobody waits;
`CreditMatchesRows` nothing of a payment whose row is still to be inserted and
whose workspace is still open; `BilledAsLegible` speaks of calls that have been
billed, and what their bill was is decided lines before.

The sums of `CreditMatchesRows` and the parsers of `BilledAsLegible` are folds,
which the library defines by recursion. `FoldProofs` unfolds them without
induction over an operator: a *set* of subsets that contains the empty set and,
with every subset less one chosen element, the subset itself, is the whole
power set (`SubsetInduction`); that a recursive function exists
(`SetRecursion`), that it is what the fold computes (`FoldDefined`,
`SumsDefined`), and what it does when an element is added are instances of it.

`BilledAlwaysAsLegible` has no hypothesis on the layout of a stream. That *the
last report* is billed, cut or not (`BilledAsReported`), is false of Gemini, which
the run `gemini_chunks` shows, and true of the other two and of plain calls, which
is the second conjunct of `BilledAsLegible`.

`RowsAlwaysStayInPlace` is what lets `Proxy` take the project of a key and the
workspace of a project for constants (`KeyProject`, `ProjectWorkspace`), and
never undo `RevokeKey`.

Model-checked only: liveness (`CallsFinish`, `CompletedEventuallyPaid`,
`CallsEnd`), which rests on fairness and so on ENABLED, out of the prover's
reach. Every safety property that a passing run checks is proved. The promises
of `PrepaidAccount` are proved and, through the refinements, hold of the proxy
and of payments; no run checks the abstract account by itself. The violations
need no proof.

## 5. Not modelled, and the plan

The modules were written in the order of their weight: the money first
(`PrepaidAccount`, `Proxy`, the refinement, their proofs), then payments, then the
two limiters, then the management API, the parsers and the pool. What is left,
the parts that could still be modelled first:

| part | status |
|---|---|
| limiter in the request path | a module that composes `Proxy` with a limiter; the verdict is open in `Proxy`, so what holds there holds with any limiter |
| amounts of the management API | `create_workspace` opens a balance without a ledger row; `OpeningCredit` of `Proxy` stands for it |
| what retries cost the operator at the provider; buckets of unused keys, which are never dropped | not part of the state: the gateway's answers and bills do not depend on them |
| database | creation of the engine and of the tables, `configure_engine` for tests |
| translation, model list, console read API, key hashing, error envelopes, configuration | reshaping or reading of data, no state |
| application assembly, migrations, frontend, CDK stack | wiring, DDL, a client, infrastructure |
