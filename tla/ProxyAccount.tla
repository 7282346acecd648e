---------------------------- MODULE ProxyAccount ----------------------------
(***************************************************************************)
(* The proxy implements the prepaid account.  A call holds an              *)
(* authorisation on the workspace of its key from the moment the balance   *)
(* check lets it through until it is billed or gives up; what the clients, *)
(* the upstream, the log and the metrics see of it is hidden.              *)
(***************************************************************************)
EXTENDS Proxy

CONSTANT NoWorkspace

ASSUME NoWorkspaceAssumption == NoWorkspace \notin Workspaces

\* The stages in which a call has passed has_credit and is not billed yet.
Authorised == {"budget", "models", "forward", "stream", "settle"}

open == [r \in Requests |-> IF stage[r] \in Authorised THEN WorkspaceOf(r) ELSE NoWorkspace]

Account == INSTANCE PrepaidAccount WITH
    Opening <- OpeningCredit,
    Credits <- TopUps,
    balance <- credit

\* Money moves only as the prepaid account allows: a balance falls only when
\* a call that was let through on that workspace, and not billed since, is
\* billed, by at most MaxCost and together with its ledger row; and it rises
\* only by a top-up (billing.py: "all money changes go through here").
ImplementsAccount == Account!Spec
=============================================================================
