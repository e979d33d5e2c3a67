------------------------------ MODULE MCKeepAlive ------------------------------
(* KeepAlive with numbers small enough for TLC.                            *)
EXTENDS KeepAlive
===============================================================================
