--------------------------- MODULE MCProxyAccount ---------------------------
(* Two tenants, so that a debit could land on the wrong workspace.         *)
EXTENDS ProxyAccount, MCProxy
=============================================================================
