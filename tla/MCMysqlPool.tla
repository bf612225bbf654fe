---------------------------- MODULE MCMysqlPool ----------------------------
(* Instances of MysqlPool for TLC. *)
EXTENDS MysqlPool, TLC
=============================================================================
