---------------------------- MODULE MCPlanExecution ----------------------------
(* A small instance of PlanExecution: an apply and the restore that undoes it, so that
   one transaction can outrun the other, an apply that is not admitted, and a third
   scheme for drift. *)
EXTENDS PlanExecution
CONSTANTS apply, restore, stale, balanced, boost, other
MCTransactions == {apply, restore, stale}
MCSchemes == {balanced, boost, other}
MCPrior == [t \in MCTransactions |-> IF t = restore THEN boost ELSE balanced]
MCRequested == [t \in MCTransactions |-> IF t = restore THEN balanced ELSE boost]
MCOperation == [t \in MCTransactions |-> IF t = restore THEN "Restore" ELSE "Apply"]
MCUnadmitted == {stale}
=============================================================================
