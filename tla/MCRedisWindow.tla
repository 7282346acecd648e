---------------------------- MODULE MCRedisWindow ----------------------------
(* An instance of RedisWindow for TLC: handlers are interchangeable.        *)
EXTENDS RedisWindow, TLC

CONSTANTS h1, h2, h3

Symmetry == Permutations(Handlers)
=============================================================================
