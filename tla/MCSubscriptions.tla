--------------------------- MODULE MCSubscriptions ---------------------------
(***************************************************************************)
(* Small instances of Subscriptions for TLC.                               *)
(***************************************************************************)
EXTENDS Subscriptions, TLC

CONSTANTS pass, monthly

\* A one-day pass that ends by itself and a plan that runs until cancelled.
MCPlanDays == pass :> 1 @@ monthly :> 2

Symmetry == Permutations(Subs) \cup Permutations(Sessions)

=============================================================================
