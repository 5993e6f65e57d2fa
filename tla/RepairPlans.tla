----------------------------- MODULE RepairPlans ------------------------------
(***************************************************************************)
(* Tables repair_plan and repair_part, and the statements that write them: *)
(* services/repair_plan_service.py.  Every operator is one transaction on  *)
(* a connection of its own; a part refers to its plan by a foreign key     *)
(* that cascades on delete.                                                *)
(***************************************************************************)
EXTENDS Naturals

VARIABLES repair_plan, \* plan ids
          repair_part  \* <<plan, n>>: the parts of the RCA that proposed the
                       \* plan are numbered, what people add to it is part 0

planVars == <<repair_plan, repair_part>>

PlansInit == repair_plan = {} /\ repair_part = {}

CreatePlan(p) ==
  /\ repair_plan' = repair_plan \cup {p}
  /\ UNCHANGED repair_part

\* Without its plan the INSERT violates the foreign key.
AddPart(p, n) ==
  /\ p \in repair_plan
  /\ repair_part' = repair_part \cup {<<p, n>>}
  /\ UNCHANGED repair_plan

DeletePlan(p) ==
  /\ repair_plan' = repair_plan \ {p}
  /\ repair_part' = {part \in repair_part : part[1] # p}

PlansTypeOK(PlanId) ==
  /\ repair_plan \subseteq PlanId
  /\ repair_part \subseteq PlanId \X Nat
=============================================================================
