----------------------------- MODULE MCMQTTClient -----------------------------
(* Instances of MQTTClient for TLC.                                        *)
EXTENDS MQTTClient, TLC

CONSTANTS f1, f2

OneFilter == {f1}
TwoFilters == {f1, f2}
Symmetry == Permutations({f1, f2})
GrantOrRefuse == {0, 1, 128}
GrantQoS2 == {2}
===============================================================================
