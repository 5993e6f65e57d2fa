--------------------------- MODULE MCEdgeIngestion ---------------------------
(* Small instances of EdgeIngestion for TLC. *)
EXTENDS EdgeIngestion

CONSTANTS e1, e2, e3

\* Three events, one message the loop ignores, two events raised twice.
MixedTopic == <<e1, e2, Ignored, e1, e3, e2>>

PlainTopic == <<e1, e2, e3, e2>>
=============================================================================
