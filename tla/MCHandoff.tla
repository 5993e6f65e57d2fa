------------------------------ MODULE MCHandoff ------------------------------
(* Small instances of the handoff for TLC. *)
EXTENDS Handoff

CONSTANTS p1, p2, r1, r2, r3

RequestSymmetry == Permutations(Request)

RowKeys == {<<p, "recommendation">> : p \in Proposal}

AnyId == Id

NoMessages == <<>>

OneMessage == <<p1>>

TwoMessages == <<p1, p1>>

\* Bound: one message may come at any time, a second for what is left in the
\* queue after the batch of the first, once the CMMS is back and commands wait.
SecondIsLate == position = 1 /\ position' = 2 => healthy /\ queue # <<>>
=============================================================================
