--------------------------- MODULE PrepaidAccount ---------------------------
(***************************************************************************)
(* What the gateway promises about money, with nothing said about HTTP,    *)
(* sessions or tables.  A workspace is a prepaid account.  A call is let   *)
(* through only while the balance is positive (Authorise); what it costs   *)
(* is known only when the upstream has answered, and is then taken from    *)
(* the account it was let through on, once, together with its ledger row   *)
(* (Settle); a call that costs nothing gives its authorisation back        *)
(* (Release).  The only other movement is a top-up (Credit).               *)
(*                                                                         *)
(* Proxy implements this specification, see ProxyAccount; so does Payments *)
(* with top-ups only, see PaymentsAccount.                                 *)
(***************************************************************************)
EXTENDS Integers, FiniteSets

CONSTANTS
    Workspaces,     \* the accounts
    Requests,       \* the calls that may be in progress at the same time
    NoWorkspace,    \* the value of open[r] when r holds no authorisation
    Opening,        \* balance of each workspace at the start
    MaxCost,        \* the most a single call can cost
    Credits         \* the amounts a top-up may add

\* What the theorems need of the constants; ProxyAccount shows it of its own.
AccountAssumption ==
    /\ NoWorkspace \notin Workspaces
    /\ IsFiniteSet(Requests) /\ Requests # {}
    /\ Opening \in [Workspaces -> Nat]
    /\ MaxCost \in Nat \ {0}
    /\ Credits \subseteq Nat

VARIABLES
    balance,        \* balance[w]: workspaces.credit_micros
    ledger,         \* ledger[w]: the sum of the ledger entries of w
    open            \* open[r]: the workspace that call r may still debit

vars == <<balance, ledger, open>>

Init ==
    /\ balance = Opening
    /\ ledger = [w \in Workspaces |-> 0]
    /\ open = [r \in Requests |-> NoWorkspace]

\* A call is let through: the balance is read, and nothing is reserved.
Authorise(r, w) ==
    /\ open[r] = NoWorkspace
    /\ balance[w] > 0
    /\ open' = [open EXCEPT ![r] = w]
    /\ UNCHANGED <<balance, ledger>>

\* The call is billed: balance and ledger move together, and only once.
Settle(r, c) ==
    /\ open[r] # NoWorkspace
    /\ balance' = [balance EXCEPT ![open[r]] = @ - c]
    /\ ledger' = [ledger EXCEPT ![open[r]] = @ - c]
    /\ open' = [open EXCEPT ![r] = NoWorkspace]

\* Calls that were let through end without being billed, one or many (a crash).
Release(S) ==
    /\ open' = [r \in Requests |-> IF r \in S THEN NoWorkspace ELSE open[r]]
    /\ UNCHANGED <<balance, ledger>>

Credit(w, a) ==
    /\ balance' = [balance EXCEPT ![w] = @ + a]
    /\ ledger' = [ledger EXCEPT ![w] = @ + a]
    /\ UNCHANGED open

Next ==
    \/ \E r \in Requests, w \in Workspaces : Authorise(r, w)
    \/ \E r \in Requests, c \in 0..MaxCost : Settle(r, c)
    \/ \E S \in SUBSET Requests : Release(S)
    \/ \E w \in Workspaces, a \in Credits : Credit(w, a)

Spec == Init /\ [][Next]_vars

-----------------------------------------------------------------------------
TypeOK ==
    /\ balance \in [Workspaces -> Int]
    /\ ledger \in [Workspaces -> Int]
    /\ open \in [Requests -> Workspaces \cup {NoWorkspace}]

\* The balance column never drifts from the ledger rows.
Balanced == \A w \in Workspaces : balance[w] = Opening[w] + ledger[w]

Holders(w) == {r \in Requests : open[r] = w}

\* Nothing is reserved when a call is let through, so an account can go below
\* zero; but never by more than one maximal call for each call that can be in
\* progress, and by less while some of them are still to be billed.
Overdraft ==
    \A w \in Workspaces :
        balance[w] > -MaxCost * (Cardinality(Requests) - Cardinality(Holders(w)))
=============================================================================
