------------------------------- MODULE Streams -------------------------------
(***************************************************************************)
(* Streamed and plain calls of one process over its pool of database       *)
(* connections (db.py), from the guard to the billing of what was read.    *)
(*                                                                         *)
(* The reads of the guard open a transaction in the session of the request *)
(* and so hold a connection.  A plain call keeps it while the upstream     *)
(* works and bills over it.  A stream bills in the finally clause of its   *)
(* generator, in a session of its own (proxy.py:181), for which it needs a *)
(* connection more; whether the first one is back by then depends on when  *)
(* FastAPI closes the session of the request.  A commit gives a connection *)
(* back, and the refresh that follows the one of the billing asks for it   *)
(* again.  A handler that waits longer than the pool's timeout raises.     *)
(***************************************************************************)
EXTENDS StreamUsage

CONSTANTS
    Handlers,       \* the calls that can be in progress at the same time
    Apis,           \* "openai", "anthropic", "gemini": streams; "plain": no stream
    Capacity,       \* the connections the pool hands out, overflow included
    HeldUntilSent,  \* whether FastAPI closes the session of a request only when the
                    \* response has been sent (0.118 and later; uv.lock has 0.139.0)
    Reports,        \* the pairs of token counts a provider may report
    MaxLines        \* BOUND on the lines of a stream

ASSUME StreamsAssumption ==
    /\ IsFiniteSet(Handlers)
    /\ Apis \subseteq {"openai", "anthropic", "gemini", "plain"}
    /\ Capacity \in Nat \ {0}
    /\ HeldUntilSent \in BOOLEAN
    /\ Reports \subseteq (Nat \ {0}) \X Nat
    /\ MaxLines \in Nat

VARIABLES
    stage,      \* where a handler is
    api,        \* the kind of call it serves
    lines,      \* what a stream has collected
    told,       \* history: the usage the provider has reported of the call so far
    legible,    \* history: the last of it that came in one piece
    usage,      \* the usage to bill: read off the answer, or parsed from lines
    billed,     \* the tokens of the call's UsageEvent, or Unbilled
    request,    \* the handlers whose request's session holds a connection
    fresh       \* the streams whose own session holds a connection

call == <<api, lines, told, legible, usage, billed>>
pool == <<request, fresh>>
vars == <<stage, call, pool>>

None == <<0, 0>>
Unbilled == <<Absent, Absent>>

Free == Capacity - Cardinality(request) - Cardinality(fresh)

Streaming(h) == api[h] # "plain"

\* The session the handler bills in has a connection.
Connected(h) == h \in IF Streaming(h) THEN fresh ELSE request

\* The handler asks the pool for a connection.
Waits(h) ==
    \/ stage[h] \in {"guard", "refresh"}
    \/ stage[h] = "bill" /\ ~Connected(h)

Init ==
    /\ stage = [h \in Handlers |-> "idle"]
    /\ api = [h \in Handlers |-> "plain"]
    /\ lines = [h \in Handlers |-> <<>>]
    /\ told = [h \in Handlers |-> None]
    /\ legible = [h \in Handlers |-> None]
    /\ usage = [h \in Handlers |-> None]
    /\ billed = [h \in Handlers |-> Unbilled]
    /\ request = {}
    /\ fresh = {}

-----------------------------------------------------------------------------
GoTo(h, s) == stage' = [stage EXCEPT ![h] = s]

\* The call is over, answered or not, and its sessions are closed.
Finish(h) ==
    /\ GoTo(h, "idle")
    /\ api' = [api EXCEPT ![h] = "plain"]
    /\ lines' = [lines EXCEPT ![h] = <<>>]
    /\ told' = [told EXCEPT ![h] = None]
    /\ legible' = [legible EXCEPT ![h] = None]
    /\ usage' = [usage EXCEPT ![h] = None]
    /\ billed' = [billed EXCEPT ![h] = Unbilled]
    /\ request' = request \ {h}
    /\ fresh' = fresh \ {h}

Connect(h) ==
    IF Streaming(h) THEN fresh' = fresh \cup {h} /\ UNCHANGED request
    ELSE request' = request \cup {h} /\ UNCHANGED fresh

Disconnect(h) ==
    IF Streaming(h) THEN fresh' = fresh \ {h} /\ UNCHANGED request
    ELSE request' = request \ {h} /\ UNCHANGED fresh

Arrive(h) ==
    /\ stage[h] = "idle"
    /\ \E a \in Apis : api' = [api EXCEPT ![h] = a]
    /\ GoTo(h, "guard")
    /\ UNCHANGED <<lines, told, legible, usage, billed, pool>>

\* The guard reads, and refuses the call or lets it through.  The route of a
\* stream then returns, and its generator is run to send the response.
Guard(h) ==
    /\ stage[h] = "guard"
    /\ Free > 0
    /\ \/ Finish(h)
       \/ /\ request' = IF Streaming(h) /\ ~HeldUntilSent THEN request ELSE request \cup {h}
          /\ GoTo(h, IF Streaming(h) THEN "receive" ELSE "upstream")
          /\ UNCHANGED <<call, fresh>>

\* Upstream answers a plain call with its usage; or fails, which handle logs and
\* handle_translated does not.
Upstream(h) ==
    /\ stage[h] = "upstream"
    /\ \/ \E u \in Reports \cup {None} :
             /\ told' = [told EXCEPT ![h] = u]
             /\ legible' = [legible EXCEPT ![h] = u]
             /\ usage' = [usage EXCEPT ![h] = u]
             /\ GoTo(h, "bill")
             /\ UNCHANGED <<api, lines, billed, pool>>
       \/ /\ GoTo(h, "log")
          /\ UNCHANGED <<call, pool>>
       \/ Finish(h)

\* The chunks of OpenAI and Anthropic are lines of their own, and JSON has no raw
\* line break.  One of Gemini may be spread over several lines, or have something
\* in its text that the parser cuts it at.
Cuts(a) == IF a = "gemini" THEN BOOLEAN ELSE {FALSE}

\* A line of a stream comes in: a report of the usage, which only grows, or
\* anything else.
Receive(h) ==
    /\ stage[h] = "receive"
    /\ Len(lines[h]) < MaxLines
    /\ \/ /\ lines' = [lines EXCEPT ![h] = Append(@, Noise)]
          /\ UNCHANGED <<told, legible>>
       \/ \E now \in Reports, cut \in Cuts(api[h]) :
             /\ now[1] >= told[h][1] /\ now[2] >= told[h][2]
             /\ \E l \in Says(api[h], told[h], now) :
                   lines' = [lines EXCEPT ![h] = Append(@, Piece(l, cut))]
             /\ told' = [told EXCEPT ![h] = now]
             /\ legible' = IF cut THEN legible ELSE [legible EXCEPT ![h] = now]
    /\ UNCHANGED <<stage, api, usage, billed, pool>>

\* The stream ends, breaks off, or its client leaves: the finally clause runs,
\* and parses before it opens its session.
EndStream(h) ==
    /\ stage[h] = "receive"
    /\ usage' = [usage EXCEPT ![h] = StreamUsageOf(api[h], lines[h])]
    /\ lines' = [lines EXCEPT ![h] = <<>>]
    /\ GoTo(h, "bill")
    /\ UNCHANGED <<api, told, legible, billed, pool>>

\* Mutant: the pool has no limit.
AcquireUnlimited(h) ==
    /\ stage[h] \in {"bill", "refresh"} /\ Waits(h)
    /\ Connect(h)
    /\ GoTo(h, IF stage[h] = "refresh" THEN "log" ELSE stage[h])
    /\ UNCHANGED call

\* The session that bills gets a connection: the one of a stream for the
\* first time, any for the refresh after the commit.
Acquire(h) ==
    /\ stage[h] \in {"bill", "refresh"} /\ Waits(h)
    /\ Free > 0
    /\ Connect(h)
    /\ GoTo(h, IF stage[h] = "refresh" THEN "log" ELSE stage[h])
    /\ UNCHANGED call

\* Mutant: the commit does not give the connection back.
BillKeepsConnection(h) ==
    /\ stage[h] = "bill" /\ Connected(h)
    /\ billed' = [billed EXCEPT ![h] = usage[h]]
    /\ GoTo(h, "refresh")
    /\ UNCHANGED <<api, lines, told, legible, usage, pool>>

\* record_usage_and_debit, up to and with its commit.
Bill(h) ==
    /\ stage[h] = "bill" /\ Connected(h)
    /\ billed' = [billed EXCEPT ![h] = usage[h]]
    /\ Disconnect(h)
    /\ GoTo(h, "refresh")
    /\ UNCHANGED <<api, lines, told, legible, usage>>

\* The log row is committed, and the response is complete.
Log(h) == stage[h] = "log" /\ Finish(h)

\* Mutant: only the guard gives up waiting.
PoolTimeoutAtGuard(h) == stage[h] = "guard" /\ Free = 0 /\ Finish(h)

\* The pool has had no connection for the time of its timeout: the handler
\* raises, unbilled, or billed and not logged.
PoolTimeout(h) == Waits(h) /\ Free = 0 /\ Finish(h)

\* The client of a stream has left, and the cancellation of its task reaches
\* an await of the generator or of its finally clause.
Cancel(h) ==
    /\ Streaming(h) /\ stage[h] \in {"receive", "bill", "refresh", "log"}
    /\ Finish(h)

\* What a handler that has been started goes on to do by itself.
Continue(h) ==
    \/ Guard(h) \/ Upstream(h) \/ Acquire(h) \/ Bill(h) \/ Log(h) \/ PoolTimeout(h)

Next ==
    \E h \in Handlers :
        Arrive(h) \/ Receive(h) \/ EndStream(h) \/ Continue(h) \/ Cancel(h)

Spec == Init /\ [][Next]_vars

\* The event loop runs every handler that can go on, an answer of the upstream
\* has a timeout and a wait for the pool another.  Nothing ends a stream: the
\* timeout is one of each read, and a client that reads no more holds up the
\* generator for as long as it likes.
FairSpec == Spec /\ \A h \in Handlers : WF_vars(Continue(h))

-----------------------------------------------------------------------------
(* Properties.                                                             *)

\* Handlers have their types, and the pool hands out what it has.
TypeOK ==
    /\ stage \in [Handlers -> {"idle", "guard", "upstream", "receive", "bill", "refresh", "log"}]
    /\ api \in [Handlers -> Apis \cup {"plain"}]
    /\ told \in [Handlers -> Nat \X Nat] /\ legible \in [Handlers -> Nat \X Nat]
    /\ request \subseteq Handlers
    /\ fresh \subseteq {h \in Handlers : Streaming(h)}
    /\ Free >= 0

\* What a call is billed is what the provider last said that it has used
\* (gemini.py: "take the last usageMetadata seen").
BilledAsReported == \A h \in Handlers : billed[h] # Unbilled => billed[h] = told[h]

\* What a call is billed is what the provider last said in one piece, wherever the
\* stream ended and whatever came after; what a plain call, or a stream of OpenAI
\* or Anthropic, is billed is the last it said at all.
BilledAsLegible ==
    \A h \in Handlers : billed[h] # Unbilled =>
        /\ billed[h] = legible[h]
        /\ api[h] # "gemini" => billed[h] = told[h]

\* Everyone who holds a connection waits for another one.
Stuck == Free = 0 /\ \A h \in request \cup fresh : Waits(h)

Finalizing == {h \in Handlers : Streaming(h) /\ stage[h] \in {"bill", "refresh"}}

\* The calls wait for each other in a circle only if FastAPI keeps the
\* sessions of requests open and at least as many streams as there are
\* connections are in their finally clauses at the same time: plain calls,
\* however many, cannot do it, nor can a stream that is still open.
CircleNeedsStreams == Stuck => HeldUntilSent /\ Cardinality(Finalizing) >= Capacity

\* Every call ends, or is a stream that is never over.  Whoever waits gets a
\* connection or gives up, the circles of streams included, however many streams
\* hold on to theirs.
CallsEnd ==
    \A h \in Handlers : stage[h] # "idle" ~> stage[h] = "idle" \/ [](stage[h] = "receive")
=============================================================================
