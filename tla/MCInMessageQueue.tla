--------------------------- MODULE MCInMessageQueue ---------------------------
(* Constants of the TLC instances of InMessageQueue: a response has room   *)
(* for one long text or for two short ones.                                *)
EXTENDS InMessageQueue, TLC

ShortAndLong == {1, 3}
===============================================================================
