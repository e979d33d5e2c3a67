----------------------------- MODULE MCCliSession -----------------------------
(* Model values and constants of the TLC instances of CliSession. *)
EXTENDS CliSession

CONSTANTS r1, r2

TwoRefs == {r1, r2}
===============================================================================
