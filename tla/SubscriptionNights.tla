-------------------------- MODULE SubscriptionNights --------------------------
(***************************************************************************)
(* The nightly jobs over time.  Staff requests and lost sessions are       *)
(* finite in number here, so that a behaviour has a last interference and  *)
(* one can ask whether the jobs then put every overdue row right.          *)
(***************************************************************************)
EXTENDS Subscriptions

CONSTANT MaxRequests       \* bound: requests and crashes of one behaviour

ASSUME RequestsAssumption == MaxRequests \in Nat

VARIABLE left              \* requests and crashes still to come

nvars == <<vars, left>>

NInit == Init /\ left = MaxRequests

Interfere(x) == /\ left > 0
                /\ Staff(x) \/ Crash(x)
                /\ left' = left - 1

Unhindered == /\ \/ \E x \in Sessions : Beat(x) \/ Finish(x) \/ Refuse(x)
                 \/ NextDay
              /\ UNCHANGED left

NNext == Unhindered \/ \E x \in Sessions : Interfere(x)

(***************************************************************************)
(* Celery beat sends both jobs every night and acks_late hands a lost run  *)
(* to another worker, so a job with something due is started again and     *)
(* again; a statement that was sent is answered by the database; days      *)
(* pass.  Nothing is assumed of the staff.                                 *)
(***************************************************************************)
Fairness ==
    /\ WF_nvars(NextDay /\ UNCHANGED left)
    /\ WF_nvars(\E x \in Sessions : ReadAutoUnfreeze(x) /\ UNCHANGED left)
    /\ WF_nvars(\E x \in Sessions : ReadAutoExpire(x) /\ UNCHANGED left)
    /\ \A x \in Sessions : WF_nvars((Finish(x) \/ Refuse(x)) /\ UNCHANGED left)

NSpec == NInit /\ [][NNext]_nvars /\ Fairness

\* However the last requests interleave with the jobs, no active subscription
\* stays overdue for good: a batch that one stale row makes the database
\* refuse is read afresh and goes through.
OverdueIsExpired == \A s \in Subs : s \in DueForExpire ~> s \notin DueForExpire

\* Likewise no freeze outlives its end for good.
EndedFreezeIsLifted ==
    \A s \in Subs : s \in DueForUnfreeze ~> s \notin DueForUnfreeze

=============================================================================
