------------------------ MODULE MCSubscriptionNights ------------------------
(***************************************************************************)
(* A small instance of SubscriptionNights for TLC.                         *)
(***************************************************************************)
EXTENDS SubscriptionNights

MCPlanDays == [p \in Plans |-> 1]

=============================================================================
