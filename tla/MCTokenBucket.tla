--------------------------- MODULE MCTokenBucket ----------------------------
(* Keys of TokenBucket with a limit of three calls a minute, and with none;  *)
(* the clock moves by half a token of the first, or by three quarters.      *)
EXTENDS TokenBucket

CONSTANTS fast, free

Limits == [k \in Keys |-> IF k = fast THEN 3 ELSE 0]
=============================================================================
