----------------------------- MODULE MCReadPacket -----------------------------
(* Constants of the TLC instances of ReadPacket: a byte counts to 2 instead of *)
(* to 128; packets without a body, with a length whose first digit is zero,    *)
(* and with a length of four bytes.                                            *)
EXTENDS ReadPacket, TLC

EverySize == {0, 1, 2, 9}
===============================================================================
