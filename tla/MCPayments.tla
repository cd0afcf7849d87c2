------------------------------ MODULE MCPayments ------------------------------
(***************************************************************************)
(* Small ledgers for TLC: one subscription per member, one plan each.      *)
(***************************************************************************)
EXTENDS Payments, TLC

CONSTANTS ann, bob, annSub, monthly

MCOwner  == annSub :> ann
MCPlanOf == annSub :> monthly

\* The ids and the methods are interchangeable.
Symmetry == Permutations(Payments) \cup Permutations(Methods)
              \cup Permutations(Sessions)

=============================================================================
