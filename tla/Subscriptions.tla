---------------------------- MODULE Subscriptions ----------------------------
(***************************************************************************)
(* The subscription lifecycle of a gym: the rows of the `subscriptions`    *)
(* table, the status column of the members they belong to, the staff       *)
(* requests that SubscriptionService serves and the two nightly Celery     *)
(* jobs.                                                                   *)
(*                                                                         *)
(* Every request and every job run is a database session at READ COMMITTED *)
(* isolation.  It reads a row (or the list of due rows), decides, and only *)
(* then writes with `UPDATE ... WHERE id = :id`: the guard is never        *)
(* repeated in the UPDATE.  So each operation is two steps here, a Read    *)
(* that checks the guard and prepares the statement, and a Commit that     *)
(* applies it to whatever the row has become.  What stands between the two *)
(* are the CHECK constraints and the partial UNIQUE index of the table: a  *)
(* transaction that would break one of them is rolled back as a whole      *)
(* (Refuse).                                                               *)
(*                                                                         *)
(* One Commit step stands for all statements of the transaction.  The rows *)
(* it updates stay locked from the first UPDATE to COMMIT, and no other    *)
(* session sees them before, so nothing can tell the statements apart.     *)
(*                                                                         *)
(* Left out: prices, payment methods, notes and event payloads; the role   *)
(* and tenant gates of a caller (a rejected caller changes nothing);       *)
(* started_at (an enrolment that starts later is an enrolment with a later *)
(* expiry).                                                                *)
(*                                                                         *)
(* The definitions marked "faulty" are variants that the specification     *)
(* does not use; each is a slip that one of the properties catches.        *)
(***************************************************************************)
EXTENDS Integers, FiniteSets

CONSTANTS Members,      \* the members of the gyms
          Subs,         \* ids of subscription rows, drawn by create
          Plans,        \* membership plans
          OnSale,       \* the plans with is_active = true
          OneTime,      \* the plans whose type is one_time
          PlanDays,     \* days of a plan: duration_days or billing period
          Sessions,     \* database sessions: API requests and Celery workers
          NoDate,       \* the NULL of a date column
          NoSub,        \* the NULL of replaced_by_id
          MaxDay,       \* bound: the last day the calendar reaches
          MaxPaid       \* bound: the last date a payment may reach

ASSUME PlansAssumption == /\ OnSale \subseteq Plans
                          /\ OneTime \subseteq Plans
                          /\ PlanDays \in [Plans -> Nat]
ASSUME DatesAssumption == /\ MaxDay \in Nat
                          /\ MaxPaid \in Nat
                          /\ NoDate \notin Int
ASSUME MembersAssumption == Members # {} /\ Plans # {}
ASSUME SubsAssumption  == NoSub \notin Subs

VARIABLES rows,          \* the subscriptions table
          memberStatus,  \* members.status
          cancelEvents,  \* how many `cancelled` events each row has logged
          tx,            \* the transaction each session has in flight
          today          \* date.today()

vars == <<rows, memberStatus, cancelEvents, tx, today>>

-----------------------------------------------------------------------------
(* Rows.                                                                   *)

Days        == 0 .. MaxDay
MaybeDate   == Nat \cup {NoDate}
Entered     == 0 .. MaxPaid \cup {NoDate}    \* what a request may carry

Live        == {"active", "frozen"}
Terminal    == {"cancelled", "replaced"}
RowStatus   == Live \cup Terminal \cup {"expired"}
MemberState == Live \cup {"expired", "cancelled"}

Row == [status      : RowStatus \cup {"none"},
        member      : Members,
        plan        : Plans,
        expires     : MaybeDate,
        frozenAt    : MaybeDate,
        frozenUntil : MaybeDate,
        cancelled   : BOOLEAN,           \* cancelled_at IS NOT NULL
        replaced    : BOOLEAN,           \* replaced_at IS NOT NULL
        successor   : Subs \cup {NoSub}]

NewRow(m, p, e) == [status      |-> "active",
                    member      |-> m,
                    plan        |-> p,
                    expires     |-> e,
                    frozenAt    |-> NoDate,
                    frozenUntil |-> NoDate,
                    cancelled   |-> FALSE,
                    replaced    |-> FALSE,
                    successor   |-> NoSub]

Exists(s) == rows[s].status # "none"

\* ck_subs_frozen_shape
FrozenShape(r) == /\ r.status = "frozen" <=> r.frozenAt # NoDate
                  /\ r.status # "frozen" => r.frozenUntil = NoDate
\* ck_subs_frozen_until_after_start
FrozenSpan(r)  == r.frozenUntil # NoDate /\ r.frozenAt # NoDate
                    => r.frozenAt =< r.frozenUntil
\* ck_subs_cancelled_shape
CancelledShape(r) == r.status = "cancelled" <=> r.cancelled
\* ck_subs_replaced_shape
ReplacedShape(r)  == /\ r.status = "replaced" <=> r.replaced
                     /\ r.status # "replaced" => r.successor = NoSub

Checks(r) == FrozenShape(r) /\ FrozenSpan(r) /\ CancelledShape(r)
               /\ ReplacedShape(r)

\* faulty: the index covers active rows only
UniqueActive(table) ==
    \A s, t \in Subs : /\ table[s].status = "active"
                       /\ table[t].status = "active"
                       /\ table[s].member = table[t].member
                       => s = t

\* uq_subs_one_live_per_member
UniqueLive(table) ==
    \A s, t \in Subs :
        /\ table[s].status \in Live
        /\ table[t].status \in Live
        /\ table[s].member = table[t].member
        => s = t

Admissible(table) == /\ \A s \in Subs : Checks(table[s])
                     /\ UniqueLive(table)

\* faulty: an expired subscription can be frozen
CanFreezeExpired(r)    == r.status \in {"active", "expired"}
\* faulty: a cancelled subscription can be cancelled
CanCancelAgain(r)      == r.status \in RowStatus \ {"replaced"}
\* faulty: a subscription whose plan was changed can change plan
CanChangePlanAgain(r)  == r.status \in {"active", "frozen", "replaced"}

\* The guards of the entity.
CanFreeze(r)     == r.status = "active"
CanUnfreeze(r)   == r.status = "frozen"
CanRenew(r)      == r.status \in {"active", "expired"}
CanChangePlan(r) == r.status \in {"active", "frozen"}
CanCancel(r)     == r.status \in {"active", "frozen", "expired"}

-----------------------------------------------------------------------------
(* Dates.                                                                  *)

\* _resolve_expires_at
ResolveExpires(p, override) ==
    IF override # NoDate THEN override
    ELSE IF p \in OneTime THEN today + PlanDays[p]
    ELSE NoDate

Later(a, b) == IF a < b THEN b ELSE a

\* renew: the caller's date, or _default_renewal_expires_at
RenewedExpires(r, override) ==
    IF override # NoDate THEN override
    ELSE IF r.status = "active" /\ r.expires # NoDate
         THEN Later(today, r.expires) + PlanDays[r.plan]
         ELSE today + PlanDays[r.plan]

\* faulty: the frozen days are not given back
UnextendedExpires(r) == r.expires

\* _extend_expires_for_unfreeze
ExtendedExpires(r) ==
    IF r.expires = NoDate \/ r.frozenAt = NoDate THEN r.expires
    ELSE r.expires + Later(0, today - r.frozenAt)

-----------------------------------------------------------------------------
(* Transactions in flight.                                                 *)

Idle == [op |-> "idle"]

RowOps   == {"freeze", "unfreeze", "renew", "cancel"}
BatchOps == {"auto_unfreeze", "auto_expire"}

CreateTx == [op : {"create"}, new : Subs, member : Members, plan : Plans,
             expires : MaybeDate]
RowTx    == [op : RowOps, sub : Subs, day : Days, until : MaybeDate,
             expires : MaybeDate]
ChangeTx == [op : {"change_plan"}, sub : Subs, new : Subs, plan : Plans,
             expires : MaybeDate]
BatchTx  == [op : BatchOps, due : SUBSET Subs, day : Days,
             expires : [Subs -> MaybeDate]]

Tx == {Idle} \cup CreateTx \cup RowTx \cup ChangeTx \cup BatchTx

Inserts(r) == r.op \in {"create", "change_plan"}

\* gen_random_uuid never draws an id in use
Fresh == {n \in Subs : /\ ~Exists(n)
                       /\ \A x \in Sessions : Inserts(tx[x]) => tx[x].new # n}

\* faulty: the end of the freeze stays on the row
ActiveRowKeepsEnd(row, e) == [row EXCEPT !.status   = "active",
                                         !.frozenAt = NoDate,
                                         !.expires  = e]
\* faulty: an expiry stamps cancelled_at
ExpiredRowStamped(row) == [row EXCEPT !.status = "expired", !.cancelled = TRUE]
\* faulty: a renewal clears cancelled_at
RenewedRowRevives(row, e) == [row EXCEPT !.status    = "active",
                                         !.expires   = e,
                                         !.cancelled = FALSE]
\* faulty: a cancellation clears the stamps of a replacement
CancelledRowUnlinks(row) == [row EXCEPT !.status    = "cancelled",
                                        !.cancelled = TRUE,
                                        !.replaced  = FALSE,
                                        !.successor = NoSub]
\* faulty: set_replaced_by is forgotten
ReplacedRowUnlinked(row, n) == [row EXCEPT !.status    = "replaced",
                                           !.replaced  = TRUE,
                                           !.successor = NoSub]

\* The statements of the repository, as functions of the row they hit.
FrozenRow(row, r)   == [row EXCEPT !.status      = "frozen",
                                   !.frozenAt    = r.day,
                                   !.frozenUntil = r.until]
ActiveRow(row, e)   == [row EXCEPT !.status      = "active",
                                   !.frozenAt    = NoDate,
                                   !.frozenUntil = NoDate,
                                   !.expires     = e]
ExpiredRow(row)     == [row EXCEPT !.status = "expired"]
RenewedRow(row, e)  == [row EXCEPT !.status = "active", !.expires = e]
CancelledRow(row)   == [row EXCEPT !.status = "cancelled", !.cancelled = TRUE]
ReplacedRow(row, n) == [row EXCEPT !.status    = "replaced",
                                   !.replaced  = TRUE,
                                   !.successor = n]

\* The rows a transaction updates or inserts.
Touched(r) == CASE r.op \in RowOps      -> {r.sub}
                [] r.op = "create"      -> {r.new}
                [] r.op = "change_plan" -> {r.sub, r.new}
                [] r.op \in BatchOps    -> r.due
                [] OTHER                -> {}

\* Row s of the table after the statements of r.
Written(r, s) ==
    CASE r.op = "create"        -> NewRow(r.member, r.plan, r.expires)
      [] r.op = "freeze"        -> FrozenRow(rows[s], r)
      [] r.op = "unfreeze"      -> ActiveRow(rows[s], r.expires)
      [] r.op = "renew"         -> RenewedRow(rows[s], r.expires)
      [] r.op = "cancel"        -> CancelledRow(rows[s])
      [] r.op = "change_plan"   ->
           IF s = r.sub THEN ReplacedRow(rows[s], r.new)
                        ELSE NewRow(rows[r.sub].member, r.plan, r.expires)
      [] r.op = "auto_unfreeze" -> ActiveRow(rows[s], r.expires[s])
      [] r.op = "auto_expire"   -> ExpiredRow(rows[s])

After(r) == [s \in Subs |-> IF s \in Touched(r) THEN Written(r, s)
                                                ELSE rows[s]]

-----------------------------------------------------------------------------
Init == /\ rows = [s \in Subs |->
                     [NewRow(CHOOSE m \in Members : TRUE,
                             CHOOSE p \in Plans : TRUE, NoDate)
                        EXCEPT !.status = "none"]]
        /\ memberStatus = [m \in Members |-> "active"]
        /\ cancelEvents = [s \in Subs |-> 0]
        /\ tx = [x \in Sessions |-> Idle]
        /\ today = 0

\* A session that is free issues a read, passes the guard and prepares r.
Prepare(x, r) == /\ tx[x] = Idle
                 /\ tx' = [tx EXCEPT ![x] = r]
                 /\ UNCHANGED <<rows, memberStatus, cancelEvents, today>>

ReadCreate(x, m, p, override) ==
    /\ p \in OnSale
    /\ ~ \E s \in Subs : rows[s].member = m /\ rows[s].status \in Live
    /\ ResolveExpires(p, override) \in Entered
    /\ \E n \in Fresh :
         Prepare(x, [op |-> "create", new |-> n, member |-> m, plan |-> p,
                     expires |-> ResolveExpires(p, override)])

PrepareRow(x, op, s, until, e) ==
    Prepare(x, [op |-> op, sub |-> s, day |-> today, until |-> until,
                expires |-> e])

ReadFreeze(x, s, until) ==
    /\ CanFreeze(rows[s])
    /\ PrepareRow(x, "freeze", s, until, NoDate)

ReadUnfreeze(x, s) ==
    /\ CanUnfreeze(rows[s])
    /\ PrepareRow(x, "unfreeze", s, NoDate, ExtendedExpires(rows[s]))

ReadRenew(x, s, override) ==
    /\ CanRenew(rows[s])
    /\ RenewedExpires(rows[s], override) \in Entered
    /\ PrepareRow(x, "renew", s, NoDate, RenewedExpires(rows[s], override))

ReadCancel(x, s) ==
    /\ CanCancel(rows[s])
    /\ PrepareRow(x, "cancel", s, NoDate, NoDate)

ReadChangePlan(x, s, p) ==
    /\ CanChangePlan(rows[s])
    /\ p # rows[s].plan
    /\ p \in OnSale
    /\ ResolveExpires(p, NoDate) \in Entered
    /\ \E n \in Fresh :
         Prepare(x, [op |-> "change_plan", sub |-> s, new |-> n, plan |-> p,
                     expires |-> ResolveExpires(p, NoDate)])

\* faulty: the last day of a subscription counts as overdue
DueOnLastDay == {s \in Subs : /\ rows[s].status = "active"
                              /\ rows[s].expires # NoDate
                              /\ rows[s].expires =< today}

\* find_due_for_unfreeze, find_due_for_expire
DueForUnfreeze == {s \in Subs : /\ rows[s].status = "frozen"
                                /\ rows[s].frozenUntil # NoDate
                                /\ rows[s].frozenUntil =< today}
DueForExpire   == {s \in Subs : /\ rows[s].status = "active"
                                /\ rows[s].expires # NoDate
                                /\ rows[s].expires < today}

\* A job that finds nothing due writes nothing and is left out.
ReadAutoUnfreeze(x) ==
    LET e == [s \in Subs |-> IF s \in DueForUnfreeze
                             THEN ExtendedExpires(rows[s]) ELSE NoDate]
    IN  /\ DueForUnfreeze # {}
        /\ Prepare(x, [op |-> "auto_unfreeze", due |-> DueForUnfreeze,
                       day |-> today, expires |-> e])

ReadAutoExpire(x) ==
    /\ DueForExpire # {}
    /\ Prepare(x, [op |-> "auto_expire", due |-> DueForExpire,
                   day |-> today, expires |-> [s \in Subs |-> NoDate]])

\* _sync_member_status: the member of every row written gets the status.
Synced(r, status) ==
    LET ms == {After(r)[s].member : s \in Touched(r)}
    IN  [m \in Members |-> IF m \in ms THEN status ELSE memberStatus[m]]

Commit(x, op, status) ==
    /\ tx[x].op = op
    /\ Admissible(After(tx[x]))
    /\ rows' = After(tx[x])
    /\ memberStatus' = Synced(tx[x], status)
    /\ cancelEvents' = IF op = "cancel"
                       THEN [cancelEvents EXCEPT ![tx[x].sub] = @ + 1]
                       ELSE cancelEvents
    /\ tx' = [tx EXCEPT ![x] = Idle]
    /\ UNCHANGED today

\* faulty: the member gets the status of the old row, or none at all
CommitChangePlanStale(x)   == Commit(x, "change_plan", "replaced")
CommitAutoExpireQuietly(x) == Commit(x, "auto_expire", "active")

CommitCreate(x)       == Commit(x, "create", "active")
CommitFreeze(x)       == Commit(x, "freeze", "frozen")
CommitUnfreeze(x)     == Commit(x, "unfreeze", "active")
CommitRenew(x)        == Commit(x, "renew", "active")
CommitCancel(x)       == Commit(x, "cancel", "cancelled")
CommitChangePlan(x)   == Commit(x, "change_plan", "active")
CommitAutoUnfreeze(x) == Commit(x, "auto_unfreeze", "active")
CommitAutoExpire(x)   == Commit(x, "auto_expire", "expired")

\* The transaction is undone: nothing of it reaches the tables.
Rollback(x) == /\ tx[x] # Idle
               /\ tx' = [tx EXCEPT ![x] = Idle]
               /\ UNCHANGED <<rows, memberStatus, cancelEvents, today>>

\* PostgreSQL refuses a statement: IntegrityError, the batch of a job included.
Refuse(x) == ~Admissible(After(tx[x])) /\ Rollback(x)

\* The process or its connection dies before COMMIT.
Crash(x) == Rollback(x)

NextDay == /\ today < MaxDay
           /\ today' = today + 1
           /\ UNCHANGED <<rows, memberStatus, cancelEvents, tx>>

Staff(x) == \/ \E m \in Members, p \in Plans, d \in Entered :
                 ReadCreate(x, m, p, d)
            \/ \E s \in Subs :
                 \/ \E d \in Entered : ReadFreeze(x, s, d)
                 \/ ReadUnfreeze(x, s)
                 \/ \E d \in Entered : ReadRenew(x, s, d)
                 \/ ReadCancel(x, s)
                 \/ \E p \in Plans : ReadChangePlan(x, s, p)

Beat(x) == ReadAutoUnfreeze(x) \/ ReadAutoExpire(x)

Finish(x) == \/ CommitCreate(x) \/ CommitFreeze(x) \/ CommitUnfreeze(x)
             \/ CommitRenew(x) \/ CommitCancel(x) \/ CommitChangePlan(x)
             \/ CommitAutoUnfreeze(x) \/ CommitAutoExpire(x)

Next == \/ \E x \in Sessions : Staff(x) \/ Beat(x) \/ Finish(x) \/ Refuse(x)
                                 \/ Crash(x)
        \/ NextDay

Spec == Init /\ [][Next]_vars

-----------------------------------------------------------------------------
(* Properties.                                                             *)

\* Every column, status and prepared statement stays in its domain.
TypeOK == /\ rows \in [Subs -> Row]
          /\ memberStatus \in [Members -> MemberState]
          /\ cancelEvents \in [Subs -> Nat]
          /\ tx \in [Sessions -> Tx]
          /\ today \in Days

\* A member never holds two live subscriptions, whatever requests overlap:
\* the pre-check of create and the swap of change_plan both race.
OneLivePerMember ==
    \A m \in Members :
        \A s, t \in {u \in Subs : rows[u].member = m /\ rows[u].status \in Live} :
            s = t

\* A committed plan change is complete: the replaced subscription names an
\* existing successor of the same member on another plan.
ReplacedHasSuccessor ==
    \A s \in Subs : rows[s].status = "replaced" =>
        /\ rows[s].successor # NoSub
        /\ Exists(rows[s].successor)
        /\ rows[rows[s].successor].member = rows[s].member
        /\ rows[rows[s].successor].plan # rows[s].plan

\* No member is shown as active or frozen without a live subscription in that
\* very state, once the member has subscribed at all: _sync_member_status
\* writes for one subscription while another may be the live one.
StatusIsCovered ==
    \A m \in Members :
        /\ memberStatus[m] \in Live
        /\ \E s \in Subs : Exists(s) /\ rows[s].member = m
        => \E s \in Subs : /\ rows[s].member = m
                           /\ rows[s].status = memberStatus[m]

\* The other direction, which the documentation promises: the status of a
\* member follows the live subscription.
LiveSetsStatus ==
    \A s \in Subs : rows[s].status \in Live
                      => memberStatus[rows[s].member] = rows[s].status

\* A cancelled or replaced subscription never comes back.  No UPDATE asks for
\* the status it overwrites; only the CHECK constraints stop a stale one.
TerminalStays == \A s \in Subs : rows[s].status \in Terminal
                                   => rows'[s].status = rows[s].status
TerminalIsFinal == [][TerminalStays]_vars

\* Only overdue subscriptions expire: the expiry job never takes back a
\* renewal.
ExpiresOnlyOverdue ==
    [][\A s \in Subs : rows'[s].status = "expired" /\ rows[s].status # "expired"
                         => rows[s].expires # NoDate /\ rows[s].expires < today]_vars

\* A freeze stops the clock: on the day a subscription is resumed, by staff or
\* by the job, it has as many days left as on the day it was frozen.
FreezeKeepsDaysLeft ==
    [][\A s \in Subs :
         /\ rows[s].status = "frozen" /\ rows'[s].status = "active"
         /\ rows[s].expires # NoDate
         => \E x \in Sessions :
              /\ tx[x] # tx'[x]
              /\ rows'[s].expires - tx[x].day = rows[s].expires - rows[s].frozenAt]_vars

\* The link from a replaced subscription to its successor is written once.
SuccessorIsFinal ==
    [][\A s \in Subs : rows[s].successor # NoSub
                         => rows'[s].successor = rows[s].successor]_vars

\* A subscription is cancelled once, so its timeline says so once.
CancelledOnce == \A s \in Subs : cancelEvents[s] =< 1

-----------------------------------------------------------------------------
(* The transitions of the documented table, and what overlapping sessions  *)
(* add to them.                                                            *)
DocumentedMoves ==
    {<<"active", "frozen">>, <<"frozen", "active">>, <<"active", "expired">>,
     <<"expired", "active">>, <<"active", "replaced">>, <<"frozen", "replaced">>,
     <<"active", "cancelled">>, <<"frozen", "cancelled">>,
     <<"expired", "cancelled">>}
RacedMoves == DocumentedMoves \cup
    {<<"expired", "frozen">>, <<"expired", "replaced">>,
     <<"replaced", "replaced">>}

StateOf     == [s \in Subs |-> rows[s].status]
OwnerOf     == [s \in Subs |-> rows[s].member]
SuccessorOf == [s \in Subs |-> rows[s].successor]

Documented == INSTANCE SubscriptionLifecycle
                WITH Moves <- DocumentedMoves, state <- StateOf,
                     owner <- OwnerOf, successor <- SuccessorOf
Raced      == INSTANCE SubscriptionLifecycle
                WITH Moves <- RacedMoves, state <- StateOf,
                     owner <- OwnerOf, successor <- SuccessorOf

\* Sessions that take turns implement the documented state machine.
FollowsDocumentedLifecycle == Documented!Spec

\* Sessions that overlap add exactly three moves to it.
FollowsRacedLifecycle == Raced!Spec

=============================================================================
