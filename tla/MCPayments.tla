----------------------------- MODULE MCPayments -----------------------------
(* Instances of Payments for TLC.                                          *)
EXTENDS PaymentsAccount, TLC

CONSTANTS a, b, c, w1, w2, h1, h2

\* Different amounts, so that a mix-up shows in the balance.
AmountByPayment == [p \in Payments |-> IF p = a THEN 1 ELSE 2]

\* Some rows were created in mock mode, the others in stripe mode.
AllButC == [p \in Payments |-> p # c]
AllStripe == [p \in Payments |-> TRUE]

Symmetry == Permutations(Handlers) \cup Permutations(Workspaces)
=============================================================================
