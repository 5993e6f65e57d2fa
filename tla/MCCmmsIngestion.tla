--------------------------- MODULE MCCmmsIngestion ----------------------------
(* Small instances of the CMMS ingestion for TLC. *)
EXTENDS CmmsIngestion, TLC

CONSTANTS eq, fail, wo1, wo2, s1, s2
=============================================================================
