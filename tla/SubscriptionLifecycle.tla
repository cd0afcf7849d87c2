------------------------- MODULE SubscriptionLifecycle -------------------------
(***************************************************************************)
(* What the subscription state machine promises, without sessions, dates   *)
(* or constraints: every subscription moves along the pairs in Moves, one  *)
(* member never has two live subscriptions, and a replaced subscription    *)
(* names the one that took its place.                                      *)
(*                                                                         *)
(* Moves is a parameter: the documented table for sessions that take turns *)
(* and a wider one for sessions that overlap.                              *)
(***************************************************************************)
CONSTANTS Subs, Members, NoSub,
          Moves             \* the allowed pairs of states <<from, to>>

VARIABLES state,            \* "none" before the enrolment
          owner,            \* the member a subscription belongs to
          successor         \* the subscription that replaced it

avars == <<state, owner, successor>>

Current == {"active", "frozen"}

Init == /\ state = [s \in Subs |-> "none"]
        /\ owner \in [Subs -> Members]
        /\ successor = [s \in Subs |-> NoSub]

\* At most one current subscription per member.
OneEach == \A s, t \in Subs : /\ state[s] \in Current
                              /\ state[t] \in Current
                              /\ owner[s] = owner[t]
                              => s = t

Enrol(s, m) == /\ state[s] = "none"
               /\ state' = [state EXCEPT ![s] = "active"]
               /\ owner' = [owner EXCEPT ![s] = m]
               /\ UNCHANGED successor

\* One request moves one subscription, a nightly job several at once.
Move(D, to) == /\ \A s \in D : <<state[s], to>> \in Moves
               /\ to # "replaced"
               /\ state' = [s \in Subs |-> IF s \in D THEN to ELSE state[s]]
               /\ UNCHANGED <<owner, successor>>

Replace(s, n) == /\ <<state[s], "replaced">> \in Moves
                 /\ state[n] = "none"
                 /\ state' = [state EXCEPT ![s] = "replaced", ![n] = "active"]
                 /\ owner' = [owner EXCEPT ![n] = owner[s]]
                 /\ successor' = [successor EXCEPT ![s] = n]

Targets == {pair[2] : pair \in Moves}

Next == /\ \/ \E s \in Subs, m \in Members : Enrol(s, m)
           \/ \E D \in SUBSET Subs, to \in Targets : Move(D, to)
           \/ \E s, n \in Subs : Replace(s, n)
        /\ OneEach'

Spec == Init /\ [][Next]_avars

=============================================================================
