------------------------------- MODULE MCProxy -------------------------------
(* Instances of Proxy for TLC; each configuration picks its values here.   *)
EXTENDS Proxy, TLC

CONSTANTS r1, r2, r3, k1, k2, p1, p2, w1, w2, m1

OneKeyProject == [k \in Keys |-> p1]
OneWorkspace == [p \in Projects |-> w1]

\* Two tenants: a key, a project and a workspace each.
TwoKeyProject == (k1 :> p1) @@ (k2 :> p2)
TwoWorkspaces == (p1 :> w1) @@ (p2 :> w2)

CreditOne == [w \in Workspaces |-> 1]
CreditFirst == [w \in Workspaces |-> IF w = w1 THEN 1 ELSE 0]
CreditSix == [w \in Workspaces |-> 6]
NoBudget == [w \in Workspaces |-> 0]
BudgetTwo == [w \in Workspaces |-> 2]

Symmetry == Permutations(Requests)
=============================================================================
