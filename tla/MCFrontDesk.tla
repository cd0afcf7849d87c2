----------------------------- MODULE MCFrontDesk ------------------------------
(***************************************************************************)
(* Small instances of FrontDesk for TLC.                                   *)
(***************************************************************************)
EXTENDS FrontDesk

Plan(rules) == [live |-> TRUE, rules |-> rules]
Rule(class, most) == [class |-> class, most |-> most]

\* A rule for one class, for any class, for both in either order.
MCPlans ==
  [ann |-> {NoPlan, Plan(<<Rule("yoga", 1)>>), Plan(<<Rule(Any, 1)>>),
            Plan(<<Rule("yoga", 1), Rule(Any, Unlimited)>>),
            Plan(<<Rule(Any, 1), Rule("yoga", Unlimited)>>)},
   bob |-> {Plan(<<Rule(Any, 1)>>)}]

\* A plan without rules.
MCPlansWithNoRules == [ann |-> {Plan(<<>>)}, bob |-> {Plan(<<Rule(Any, 1)>>)}]

\* The first search finds the members on two pages, the second only ann.
MCFinds == [q \in {"", "a"} \X (0 .. MaxPage) |->
              CASE q = <<"", 0>> -> {"ann"} [] q = <<"", 1>> -> {"bob"}
                [] q = <<"a", 0>> -> {"ann"} [] OTHER -> {}]
=============================================================================
