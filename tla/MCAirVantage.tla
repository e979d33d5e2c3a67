----------------------------- MODULE MCAirVantage -----------------------------
(* Instances of AirVantage for TLC.                                        *)
EXTENDS AirVantage

FirstTwo == {1, 2}
===============================================================================
