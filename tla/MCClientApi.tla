----------------------------- MODULE MCClientApi -----------------------------
(* Constants of the TLC instances of ClientApi: an instance, two handlers,    *)
(* one topic besides the tasks, and a table of three slots.                   *)
EXTENDS ClientApi

CONSTANTS r1, h1, h2, topic

OneRef == {r1}
TwoHandlers == {h1, h2}
OneTopic == {topic}
==============================================================================
