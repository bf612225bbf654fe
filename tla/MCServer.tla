------------------------------- MODULE MCServer -------------------------------
(* Instances of Server for TLC.                                            *)
EXTENDS Server

CONSTANTS s1, s2, q1, q2
=============================================================================
