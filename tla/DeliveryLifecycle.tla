--------------------------- MODULE DeliveryLifecycle ---------------------------
(***************************************************************************)
(* The statuses of a delivery and the moves that DeliveryWorkflowPolicy    *)
(* allows, shared by DeliveryWorkflow and DeliveryConsequences.            *)
(***************************************************************************)
EXTENDS Naturals, Sequences

CONSTANT MaxVersion   \* bound: transitions of the delivery, each an event

Versions == 1..MaxVersion

Status == {"PENDING_ASSIGNMENT", "ASSIGNED", "IN_TRANSIT", "ISSUE", "DELIVERED"}

LegalTargets ==
  [PENDING_ASSIGNMENT |-> {"ASSIGNED", "ISSUE"},
   ASSIGNED           |-> {"PENDING_ASSIGNMENT", "IN_TRANSIT", "ISSUE"},
   IN_TRANSIT         |-> {"DELIVERED", "ISSUE"},
   ISSUE              |-> {"PENDING_ASSIGNMENT", "ASSIGNED", "IN_TRANSIT"},
   DELIVERED          |-> {}]

(* Where a delivery is whose transitions led to these statuses.            *)
Where(path) == IF path = <<>> THEN "PENDING_ASSIGNMENT" ELSE path[Len(path)]
===============================================================================
