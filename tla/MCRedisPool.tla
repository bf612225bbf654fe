----------------------------- MODULE MCRedisPool -----------------------------
(* Instances of RedisPool for TLC.                                         *)
EXTENDS RedisPool, TLC

CONSTANTS r1, r2, r3
=============================================================================
