-------------------------- MODULE PaymentsAccount ---------------------------
(***************************************************************************)
(* Settling payments implements the prepaid account that the proxy         *)
(* implements (ProxyAccount): its one movement of money is the Credit of   *)
(* that specification.  Rows, checkout sessions, deliveries and handlers   *)
(* are hidden; the ledger of a workspace is the sum of its rows; a payment *)
(* never holds an authorisation to debit.                                  *)
(***************************************************************************)
EXTENDS Payments

Account == INSTANCE PrepaidAccount WITH
    Requests <- Handlers,
    Opening <- [w \in Workspaces |-> 0],
    MaxCost <- 1,
    Credits <- {Amount[p] : p \in Payments},
    balance <- credit,
    ledger <- [w \in Workspaces |-> LedgerOf(w)],
    open <- [h \in Handlers |-> NoWorkspace]

\* Whatever is delivered twice, overlaps or breaks off, money moves only as the
\* account allows: a balance never falls, and rises only by the amount of one
\* payment, in the step that writes the ledger row over just that amount
\* (billing.py: "all money changes go through here").
ImplementsAccount == Account!Spec
=============================================================================
