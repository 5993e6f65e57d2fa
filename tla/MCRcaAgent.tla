------------------------------ MODULE MCRcaAgent ------------------------------
(* Small instances of the RCA agent for TLC. *)
EXTENDS RcaAgent, TLC

CONSTANTS alarm, status, manual

\* An alarm and an event of another kind; a kill has them come again.
Messages == <<alarm, status>>

AnyDeployment == [gateway : BOOLEAN, edge : BOOLEAN]
=============================================================================
