------------------------------ MODULE MCManage ------------------------------
(* Instances of Manage for TLC.                                            *)
EXTENDS Manage, TLC

CONSTANTS u1, u2, u3, o1, o2, w0, w1, w2, p1, p2, k1, k2, h1, h2

\* u1 owns o1 and its workspace, project and key; u2 is a member only, and u3
\* not yet a user.  w0 was seeded without an organization (create_key.py).
Seeded == {u1, u2, o1, w0, w1, p1, k1} \cap Rows

SeededParent ==
    [x \in Workspaces \cup Projects \cup Keys |->
        CASE x = w1 -> o1 [] x = w0 -> NoOrg [] x = p1 -> w1 [] x = k1 -> p1
          [] OTHER -> Missing]

SeededRole ==
    [ur \in Users \X OrgIds |->
        CASE ur = <<u1, o1>> -> "owner" [] ur = <<u2, o1>> -> "member" [] OTHER -> "none"]

Symmetry == Permutations(Handlers)
=============================================================================
