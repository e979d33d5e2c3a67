------------------------------ MODULE MCSockets ------------------------------
(* Sockets for TLC: one instance over TCP and two over TLS, and descriptors  *)
(* for every one of them and one more.                                       *)
EXTENDS Sockets

CONSTANTS t, u, v

MCInstances == {t, u, v}
MCTlsInstances == {u, v}
=============================================================================
