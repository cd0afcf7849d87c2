------------------------------- MODULE Payments -------------------------------
(***************************************************************************)
(* The revenue ledger of a gym: PaymentService over the append-only        *)
(* `payments` table.                                                       *)
(*                                                                         *)
(* record inserts a payment and depends on nothing that can change before  *)
(* its INSERT, so it is one step.  refund adds up the refunds there are    *)
(* and inserts one more: a Read and a Commit, with other sessions between  *)
(* them.  revenue_summary is five aggregate queries, and at READ COMMITTED *)
(* each of them sees its own snapshot: one action per query.               *)
(*                                                                         *)
(* Left out: notes, external references, who recorded a payment, the       *)
(* currency (one per tenant), the list queries, the tenant and role gates. *)
(***************************************************************************)
EXTENDS Integers, FiniteSets, FiniteSetsExt

CONSTANTS Payments,     \* ids of ledger rows
          Members,
          Subs,         \* subscriptions a payment may name
          Owner,        \* the member of a subscription
          PlanOf,       \* the plan of a subscription
          Plans,
          Methods,      \* payment methods
          Sessions,
          NoPayment,    \* the NULL of refund_of_payment_id
          NoSub,        \* the NULL of subscription_id: a drop-in payment
          NoSummary,    \* nothing has been shown yet
          DaysPerMonth,
          MaxCents,     \* bound: the largest amount entered
          MaxDay        \* bound: the last day the calendar reaches

ASSUME PaymentsAssumption == NoPayment \notin Payments /\ NoSub \notin Subs
ASSUME SubsAssumption     == /\ Owner \in [Subs -> Members]
                             /\ PlanOf \in [Subs -> Plans]
ASSUME MethodsAssumption  == IsFiniteSet(Methods)   \* an enumeration
ASSUME BoundsAssumption   == /\ MaxCents \in Nat
                             /\ MaxDay \in Nat
                             /\ DaysPerMonth \in Nat \ {0}

VARIABLES ledger,     \* the payments table: a function on the ids in use
          tx,         \* what each session is in the middle of
          shown,      \* the last revenue summary a session was given
          today

vars == <<ledger, tx, shown, today>>

Days    == 0 .. MaxDay
Amounts == 1 .. MaxCents

Payment == [member : Members,
            sub    : Subs \cup {NoSub},
            method : Methods,
            cents  : Int,
            day    : Days,                       \* paid_at
            of     : Payments \cup {NoPayment}]  \* refund_of_payment_id

Unused      == Payments \ DOMAIN ledger
IsRefund(p) == ledger[p].of # NoPayment
RefundsOf(p) == {r \in DOMAIN ledger : ledger[r].of = p}

Cents(S) == MapThenSumSet(LAMBDA p : ledger[p].cents, S)

Insert(p, row) == ledger' = [q \in DOMAIN ledger \cup {p} |->
                               IF q = p THEN row ELSE ledger[q]]

-----------------------------------------------------------------------------
(* Transactions.                                                           *)

Idle     == [op |-> "idle"]
RefundTx == [op : {"refund"}, of : Payments, cents : Amounts, day : Days]

\* The figures of a summary, each present once its query has run.
Queries   == {"last", "plan", "method", "paying"}
SummaryTx == [op : {"summary"}, next : Queries, day : Days, this : Int,
              last : Int, plan : [Plans -> Int], method : [Methods -> Int]]
Summary   == [this : Int, last : Int, plan : [Plans -> Int],
              method : [Methods -> Int], paying : Nat]

Begin(x, r) == /\ tx[x] = Idle
               /\ tx' = [tx EXCEPT ![x] = r]
               /\ UNCHANGED <<ledger, shown, today>>

Init == /\ ledger = << >>
        /\ tx = [x \in Sessions |-> Idle]
        /\ shown = NoSummary
        /\ today = 0

\* faulty: a payment may be dated in the future
RecordAhead(x, m, s, method, cents, day) ==
    /\ tx[x] = Idle
    /\ s # NoSub => Owner[s] = m
    /\ \E p \in Unused :
         Insert(p, [member |-> m, sub |-> s, method |-> method,
                    cents |-> cents, day |-> day, of |-> NoPayment])
    /\ UNCHANGED <<tx, shown, today>>

\* Backdating further than a year takes a flag and is then allowed.
Record(x, m, s, method, cents, day) ==
    /\ tx[x] = Idle
    /\ day =< today
    /\ s # NoSub => Owner[s] = m
    /\ \E p \in Unused :
         Insert(p, [member |-> m, sub |-> s, method |-> method,
                    cents |-> cents, day |-> day, of |-> NoPayment])
    /\ UNCHANGED <<tx, shown, today>>

\* faulty: earlier refunds are not counted
WholeAmount(p) == ledger[p].cents

\* What is left to refund: the amount less the refunds the query finds.
Remaining(p) == ledger[p].cents + Cents(RefundsOf(p))

CanRefund(p) == /\ ~IsRefund(p)
                /\ ledger[p].cents > 0
                /\ Remaining(p) > 0

\* A partial refund of `cents`, or of everything that is left.
ReadRefund(x, p, cents) ==
    /\ p \in DOMAIN ledger
    /\ CanRefund(p)
    /\ cents =< Remaining(p)
    /\ Begin(x, [op |-> "refund", of |-> p, cents |-> cents, day |-> today])

\* faulty: the sign is not flipped
PositiveRefund(r) == [member |-> ledger[r.of].member,
                      sub    |-> ledger[r.of].sub,
                      method |-> ledger[r.of].method,
                      cents  |-> r.cents,
                      day    |-> r.day,
                      of     |-> r.of]

\* faulty: the refund does not name the subscription
DropInRefund(r) == [member |-> ledger[r.of].member,
                    sub    |-> NoSub,
                    method |-> ledger[r.of].method,
                    cents  |-> -r.cents,
                    day    |-> r.day,
                    of     |-> r.of]

RefundRow(r) == [member |-> ledger[r.of].member,
                 sub    |-> ledger[r.of].sub,
                 method |-> ledger[r.of].method,
                 cents  |-> -r.cents,
                 day    |-> r.day,
                 of     |-> r.of]

CommitRefund(x) ==
    /\ tx[x].op = "refund"
    /\ \E p \in Unused : Insert(p, RefundRow(tx[x]))
    /\ tx' = [tx EXCEPT ![x] = Idle]
    /\ UNCHANGED <<shown, today>>

-----------------------------------------------------------------------------
(* The dashboard's summary.                                                *)

Month(day) == day \div DaysPerMonth

\* Rows of the month of `day` up to that day, and of the month before.
ThisMonth(day) == {p \in DOMAIN ledger : /\ Month(ledger[p].day) = Month(day)
                                         /\ ledger[p].day =< day}
LastMonth(day) == {p \in DOMAIN ledger : Month(ledger[p].day) = Month(day) - 1}

\* faulty: refunds are left out of the figures per method
GrossByMethod(day) ==
    [k \in Methods |-> Cents({p \in ThisMonth(day) :
                                ledger[p].method = k /\ ~IsRefund(p)})]
\* faulty: members with refunds only do not count
Payers(day) == {ledger[p].member : p \in {q \in ThisMonth(day) : ~IsRefund(q)}}

ByPlan(day)   == [k \in Plans |-> Cents({p \in ThisMonth(day) :
                                           /\ ledger[p].sub # NoSub
                                           /\ PlanOf[ledger[p].sub] = k})]
ByMethod(day) == [k \in Methods |-> Cents({p \in ThisMonth(day) :
                                             ledger[p].method = k})]
Paying(day)   == {ledger[p].member : p \in ThisMonth(day)}

SumThisMonth(x) ==
    Begin(x, [op |-> "summary", next |-> "last", day |-> today,
              this |-> Cents(ThisMonth(today)), last |-> 0,
              plan |-> [k \in Plans |-> 0], method |-> [k \in Methods |-> 0]])

Continue(x, query, r) == /\ tx[x].op = "summary"
                         /\ tx[x].next = query
                         /\ tx' = [tx EXCEPT ![x] = r]
                         /\ UNCHANGED <<ledger, shown, today>>

SumLastMonth(x) ==
    Continue(x, "last", [tx[x] EXCEPT !.last = Cents(LastMonth(tx[x].day)),
                                      !.next = "plan"])
SumByPlan(x) ==
    Continue(x, "plan", [tx[x] EXCEPT !.plan = ByPlan(tx[x].day),
                                      !.next = "method"])
SumByMethod(x) ==
    Continue(x, "method", [tx[x] EXCEPT !.method = ByMethod(tx[x].day),
                                        !.next = "paying"])

CountPaying(x) ==
    /\ tx[x].op = "summary"
    /\ tx[x].next = "paying"
    /\ shown' = [this |-> tx[x].this, last |-> tx[x].last, plan |-> tx[x].plan,
                 method |-> tx[x].method,
                 paying |-> Cardinality(Paying(tx[x].day))]
    /\ tx' = [tx EXCEPT ![x] = Idle]
    /\ UNCHANGED <<ledger, today>>

-----------------------------------------------------------------------------
\* The session is lost and with it what it has not committed.
Crash(x) == /\ tx[x] # Idle
            /\ tx' = [tx EXCEPT ![x] = Idle]
            /\ UNCHANGED <<ledger, shown, today>>

NextDay == /\ today < MaxDay
           /\ today' = today + 1
           /\ UNCHANGED <<ledger, tx, shown>>

Next == \/ \E x \in Sessions :
             \/ \E m \in Members, s \in Subs \cup {NoSub}, k \in Methods,
                   c \in Amounts, d \in Days : Record(x, m, s, k, c, d)
             \/ \E p \in Payments, c \in Amounts : ReadRefund(x, p, c)
             \/ CommitRefund(x)
             \/ SumThisMonth(x) \/ SumLastMonth(x) \/ SumByPlan(x)
             \/ SumByMethod(x) \/ CountPaying(x)
             \/ Crash(x)
        \/ NextDay

Spec == Init /\ [][Next]_vars

-----------------------------------------------------------------------------
(* Properties.                                                             *)

\* The ledger holds payments, those and only those that are refunds with a
\* negative amount, and sessions hold what their operation says.
TypeOK == /\ DOMAIN ledger \subseteq Payments
          /\ ledger \in [DOMAIN ledger -> Payment]
          /\ \A p \in DOMAIN ledger : IsRefund(p) <=> ledger[p].cents < 0
          /\ tx \in [Sessions -> {Idle} \cup RefundTx \cup SummaryTx]
          /\ shown \in Summary \cup {NoSummary}
          /\ today \in Days

\* The refunds of a payment never exceed what was collected.
RefundsWithinOriginal ==
    \A p \in DOMAIN ledger : ~IsRefund(p) => Cents({p} \cup RefundsOf(p)) >= 0

\* A refund undoes a payment that stands in the ledger and is no refund itself,
\* and is booked to the same member, subscription and method, so that every
\* sum over them nets out.
RefundMatchesOriginal ==
    \A r \in DOMAIN ledger : IsRefund(r) =>
        /\ ledger[r].of \in DOMAIN ledger
        /\ ~IsRefund(ledger[r].of)
        /\ ledger[r].member = ledger[ledger[r].of].member
        /\ ledger[r].sub = ledger[ledger[r].of].sub
        /\ ledger[r].method = ledger[ledger[r].of].method

\* No refund is booked on a day before the payment it undoes.
RefundNotBeforePayment ==
    \A r \in DOMAIN ledger :
        IsRefund(r) => ledger[r].day >= ledger[ledger[r].of].day

\* The revenue of the month, split by method, adds up to the revenue shown.
FiguresAgree ==
    shown # NoSummary =>
        MapThenSumSet(LAMBDA k : shown.method[k], Methods) = shown.this

\* A month with revenue has members who paid, so that the average per paying
\* member is not shown as zero: the count runs last, and rows only come.
RevenueHasPayers ==
    shown # NoSummary => (shown.this # 0 => shown.paying > 0)

=============================================================================
