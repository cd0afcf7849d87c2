------------------------------- MODULE Schedule -------------------------------
(***************************************************************************)
(* The timetable of one class of a gym: templates (recurring rules), the   *)
(* class sessions materialized from them, the owner's edits of both        *)
(* through ScheduleService, and the nightly job that extends the horizon.  *)
(*                                                                         *)
(* As everywhere in this backend a request reads rows, decides, and then   *)
(* updates by id without a lock.  An operation that decides on what it has *)
(* read is a Read action and a Commit action; in between the sessions it   *)
(* listed may be edited.  The one lock that matters is on the template: a  *)
(* PATCH updates the template's row first and holds it to the end.         *)
(*                                                                         *)
(* Left out: the end of a session (it moves with its start), assistants,   *)
(* notes and reasons, starts_on (a template that starts later is one that  *)
(* is created later), the substitute's pay link of a bulk swap, time       *)
(* zones, and the role, tenant and feature gates.                          *)
(***************************************************************************)
EXTENDS Integers, FiniteSets, Functions

CONSTANTS Templates,
          Ids,           \* ids of class sessions materialized from a template
          AdhocIds,      \* ids of ad hoc sessions
          Coaches,
          Requests,      \* database sessions of the API
          Jobs,          \* database sessions of the Celery workers
          Weekdays,      \* 0 .. DaysPerWeek - 1
          Slots,         \* times of a day
          NoTemplate,    \* the NULL of template_id
          NoDate,        \* the NULL of ends_on
          Horizon,       \* days that are materialized ahead
          MaxDay,        \* bound: the last day the clock reaches
          NewTemplates,  \* bound: the templates that are created
          Patches,       \* bound: the fields that template edits change
          Moves          \* bound: the days and times sessions are moved to

ASSUME NamesAssumption == /\ NoTemplate \notin Templates
                          /\ NoDate \notin Nat
                          /\ Ids \cap AdhocIds = {}
ASSUME TimesAssumption == /\ Horizon \in Nat
                          /\ MaxDay \in Nat
                          /\ Weekdays # {} /\ Weekdays \subseteq Nat
                          /\ Slots # {} /\ Slots \subseteq Nat
                          /\ IsFiniteSet(Weekdays)
ASSUME BoundsAssumption == Patches \subseteq {"slot", "coach", "weekdays",
                                              "last", "active"}

VARIABLES templates,   \* class_schedule_templates: a function on those created
          calendar,    \* class_sessions: a function on the ids in use
          tx,          \* what each worker is in the middle of
          today,       \* date.today()
          slot         \* the time of day

vars == <<templates, calendar, tx, today, slot>>

-----------------------------------------------------------------------------
(* Rows.                                                                   *)

Days == 0 .. MaxDay + Horizon

Template == [weekdays : SUBSET Weekdays \ {{}},
             slot     : Slots,                   \* start_time
             coach    : Coaches,
             last     : Days \cup {NoDate},      \* ends_on
             active   : BOOLEAN]

Session == [tpl    : Templates \cup {NoTemplate},
            day    : Days,
            slot   : Slots,                      \* with day: starts_at
            coach  : Coaches,
            status : {"scheduled", "cancelled"},
            custom : BOOLEAN]                    \* is_customized

ASSUME InputsAssumption == /\ NewTemplates \subseteq {t \in Template : t.active}
                           /\ Moves \subseteq Days \X Slots

Future(r) == r.day > today \/ (r.day = today /\ r.slot >= slot)

\* ux_sessions_template_starts
UniqueSlots(cal) ==
    \A s, t \in DOMAIN cal :
        /\ cal[s].tpl # NoTemplate
        /\ cal[s].tpl = cal[t].tpl
        /\ cal[s].day = cal[t].day
        /\ cal[s].slot = cal[t].slot
        => s = t

\* Does the template apply on day d?
Covers(t, d) == /\ t.active
                /\ t.last # NoDate => d =< t.last
                /\ d % Cardinality(Weekdays) \in t.weekdays

\* faulty: the last day is left out, one day too many, is_active is ignored
DatesShort(t) == {d \in today .. today + Horizon - 1 : Covers(t, d)}
DatesLong(t) == {d \in today .. today + Horizon + 1 : Covers(t, d)}
DatesAnyway(t) == {d \in today .. today + Horizon :
                     Covers([t EXCEPT !.active = TRUE], d)}

\* materialize_dates from today to the horizon
Dates(t) == {d \in today .. today + Horizon : Covers(t, d)}

-----------------------------------------------------------------------------
(* Materialization.                                                        *)

\* faulty: a cancelled session does not stand in the way of a new one
MissingIfCancelled(cal, k, t) ==
    {d \in Dates(t) : ~ \E s \in DOMAIN cal : /\ cal[s].tpl = k
                                              /\ cal[s].day = d
                                              /\ cal[s].slot = t.slot
                                              /\ cal[s].status = "scheduled"}

\* ON CONFLICT DO NOTHING: a day is inserted unless its slot is taken.
Missing(cal, k, t) ==
    {d \in Dates(t) : ~ \E s \in DOMAIN cal : /\ cal[s].tpl = k
                                              /\ cal[s].day = d
                                              /\ cal[s].slot = t.slot}

NewSession(k, t, d) == [tpl |-> k, day |-> d, slot |-> t.slot, coach |-> t.coach,
                        status |-> "scheduled", custom |-> FALSE]

\* faulty: ON CONFLICT DO UPDATE
Upserted(cal, k, t, f) ==
    [s \in DOMAIN cal \cup Range(f) |->
        IF s \notin DOMAIN cal
        THEN NewSession(k, t, CHOOSE d \in DOMAIN f : f[d] = s)
        ELSE IF cal[s].tpl = k /\ cal[s].slot = t.slot /\ cal[s].day \in Dates(t)
             THEN [cal[s] EXCEPT !.status = "scheduled"]
             ELSE cal[s]]

\* The calendar with the missing days of template k, f giving them ids.
Filled(cal, k, t, f) ==
    [s \in DOMAIN cal \cup Range(f) |->
        IF s \in DOMAIN cal THEN cal[s]
        ELSE NewSession(k, t, CHOOSE d \in DOMAIN f : f[d] = s)]

\* calendar' is cal with the horizon of k filled, t being its row as read.
Materialize(cal, k, t) ==
    \E f \in Injection(Missing(cal, k, t), Ids \ DOMAIN calendar) :
        calendar' = Filled(cal, k, t, f)

-----------------------------------------------------------------------------
(* Transactions.                                                           *)

Workers    == Requests \cup Jobs
SessionIds == Ids \cup AdhocIds

Idle == [op |-> "idle"]

Tx == {Idle}
    \cup [op : {"fill"}, tpl : Templates, row : Template]
    \cup [op : {"patch"}, tpl : Templates, row : Template,
          ids : SUBSET SessionIds, day : [SessionIds -> Days]]
    \cup [op : {"deactivate"}, tpl : Templates, ids : SUBSET SessionIds]
    \cup [op : {"cancel"}, ids : SUBSET SessionIds]
    \cup [op : {"swap"}, ids : SUBSET SessionIds, coach : Coaches]
    \cup [op : {"move"}, ids : SUBSET SessionIds, day : Days, slot : Slots]
    \cup [op : {"horizon"}, rows : UNION {[K -> Template] : K \in SUBSET Templates}]

\* No other worker is between the UPDATE of template k and its COMMIT.
Unlocked(k) == \A x \in Workers : ~(tx[x].op = "patch" /\ tx[x].tpl = k)

Prepare(x, r) == /\ tx[x] = Idle
                 /\ tx' = [tx EXCEPT ![x] = r]
                 /\ UNCHANGED <<templates, calendar, today, slot>>

Done(x) == /\ tx' = [tx EXCEPT ![x] = Idle]
           /\ UNCHANGED <<today, slot>>

Init == /\ templates = << >>
        /\ calendar = << >>
        /\ tx = [x \in Workers |-> Idle]
        /\ today = 0
        /\ slot \in {s \in Slots : \A t \in Slots : s =< t}

-----------------------------------------------------------------------------
(* Templates.                                                              *)

\* The template is committed before its first sessions are.
CreateTemplate(x, k, row) ==
    /\ tx[x] = Idle
    /\ k \notin DOMAIN templates
    /\ templates' = [l \in DOMAIN templates \cup {k} |->
                       IF l = k THEN row ELSE templates[l]]
    /\ tx' = [tx EXCEPT ![x] = [op |-> "fill", tpl |-> k, row |-> row]]
    /\ UNCHANGED <<calendar, today, slot>>

CommitFill(x) == /\ tx[x].op = "fill"
                 /\ Materialize(calendar, tx[x].tpl, tx[x].row)
                 /\ Done(x)
                 /\ UNCHANGED templates

\* faulty: customized sessions are listed too
TouchableAll(k) == {s \in DOMAIN calendar : /\ calendar[s].tpl = k
                                            /\ Future(calendar[s])
                                            /\ calendar[s].status = "scheduled"}
\* faulty: only the sessions of later days are listed
TouchableLater(k) == {s \in DOMAIN calendar : /\ calendar[s].tpl = k
                                              /\ calendar[s].day > today
                                              /\ calendar[s].status = "scheduled"
                                              /\ ~calendar[s].custom}

\* The future sessions of k that are neither cancelled nor customized.
Touchable(k) == {s \in DOMAIN calendar : /\ calendar[s].tpl = k
                                         /\ Future(calendar[s])
                                         /\ calendar[s].status = "scheduled"
                                         /\ ~calendar[s].custom}

\* The row of a template after a PATCH of one field.
Patched(t) == {[t EXCEPT !.slot = v]     : v \in {u \in Slots : "slot" \in Patches}}
         \cup {[t EXCEPT !.coach = v]    : v \in {u \in Coaches : "coach" \in Patches}}
         \cup {[t EXCEPT !.weekdays = v] : v \in {u \in SUBSET Weekdays \ {{}} :
                                                    "weekdays" \in Patches}}
         \cup {[t EXCEPT !.last = v]     : v \in {u \in Days \cup {NoDate} :
                                                    "last" \in Patches}}
         \cup {[t EXCEPT !.active = v]   : v \in {u \in BOOLEAN : "active" \in Patches}}

\* The UPDATE of the template, and the list of sessions to bring in line.
ReadPatch(x, k) ==
    /\ k \in DOMAIN templates
    /\ Unlocked(k)
    /\ \E row \in Patched(templates[k]) :
         Prepare(x, [op |-> "patch", tpl |-> k, row |-> row, ids |-> Touchable(k),
                     day |-> [s \in SessionIds |-> IF s \in Touchable(k)
                                                   THEN calendar[s].day ELSE 0]])

\* The listed sessions in line with the template.
Realigned(r) == [s \in DOMAIN calendar |->
                   IF s \in r.ids
                   THEN [calendar[s] EXCEPT !.day   = r.day[s],
                                            !.slot  = r.row.slot,
                                            !.coach = r.row.coach]
                   ELSE calendar[s]]

CommitPatch(x) ==
    /\ tx[x].op = "patch"
    /\ UniqueSlots(Realigned(tx[x]))
    /\ templates' = [templates EXCEPT ![tx[x].tpl] = tx[x].row]
    /\ Materialize(Realigned(tx[x]), tx[x].tpl, tx[x].row)
    /\ Done(x)

ReadDeactivate(x, k) ==
    /\ k \in DOMAIN templates
    /\ Prepare(x, [op |-> "deactivate", tpl |-> k, ids |-> Touchable(k)])

CommitDeactivate(x) ==
    /\ tx[x].op = "deactivate"
    /\ Unlocked(tx[x].tpl)
    /\ templates' = [templates EXCEPT ![tx[x].tpl].active = FALSE]
    /\ calendar' = [s \in DOMAIN calendar |->
                      IF s \in tx[x].ids
                      THEN [calendar[s] EXCEPT !.status = "cancelled"]
                      ELSE calendar[s]]
    /\ Done(x)

-----------------------------------------------------------------------------
(* Sessions: one at a time, or a range of days in bulk.                    *)

CreateAdhoc(x, d, t, c) ==
    /\ tx[x] = Idle
    /\ \E s \in AdhocIds \ DOMAIN calendar :
         calendar' = [u \in DOMAIN calendar \cup {s} |->
            IF u = s THEN [tpl |-> NoTemplate, day |-> d, slot |-> t, coach |-> c,
                           status |-> "scheduled", custom |-> TRUE]
                     ELSE calendar[u]]
    /\ UNCHANGED <<templates, tx, today, slot>>

Scheduled(s) == s \in DOMAIN calendar /\ calendar[s].status = "scheduled"
InRange(a, b) == {s \in DOMAIN calendar : /\ Scheduled(s)
                                          /\ calendar[s].day \in a .. b}

ReadCancel(x, s) == /\ Scheduled(s)
                    /\ Prepare(x, [op |-> "cancel", ids |-> {s}])
ReadSwap(x, s, c) == /\ Scheduled(s)
                     /\ Prepare(x, [op |-> "swap", ids |-> {s}, coach |-> c])
ReadMove(x, s, d, t) == /\ Scheduled(s)
                        /\ Prepare(x, [op |-> "move", ids |-> {s}, day |-> d,
                                       slot |-> t])
ReadBulkCancel(x, a, b) == Prepare(x, [op |-> "cancel", ids |-> InRange(a, b)])
ReadBulkSwap(x, a, b, c) ==
    Prepare(x, [op |-> "swap", ids |-> InRange(a, b), coach |-> c])

\* The statements of update_session, cancel_session and bulk_action.
Edited(r, s) ==
    CASE r.op = "cancel" -> [calendar[s] EXCEPT !.status = "cancelled",
                                                !.custom = TRUE]
      [] r.op = "swap"   -> [calendar[s] EXCEPT !.coach = r.coach, !.custom = TRUE]
      [] r.op = "move"   -> [calendar[s] EXCEPT !.day = r.day, !.slot = r.slot,
                                                !.custom = TRUE]

WithEdits(r) == [s \in DOMAIN calendar |-> IF s \in r.ids THEN Edited(r, s)
                                                          ELSE calendar[s]]

CommitEdit(x) == /\ tx[x].op \in {"cancel", "swap", "move"}
                 /\ UniqueSlots(WithEdits(tx[x]))
                 /\ calendar' = WithEdits(tx[x])
                 /\ Done(x)
                 /\ UNCHANGED templates

-----------------------------------------------------------------------------
(* The nightly job: it lists the active templates once, then extends and   *)
(* commits one after the other.                                            *)
ReadActive(x) ==
    LET K == {k \in DOMAIN templates : templates[k].active}
    IN  K # {} /\ Prepare(x, [op |-> "horizon", rows |-> [k \in K |-> templates[k]]])

\* The job is done with template k.
NextTemplate(x, k) ==
    /\ tx[x].op = "horizon"
    /\ k \in DOMAIN tx[x].rows
    /\ LET rest == DOMAIN tx[x].rows \ {k}
       IN  tx' = [tx EXCEPT ![x] = IF rest = {} THEN Idle
                                   ELSE [op |-> "horizon",
                                         rows |-> [l \in rest |-> tx[x].rows[l]]]]
    /\ UNCHANGED <<templates, today, slot>>

ExtendOne(x, k) == /\ NextTemplate(x, k)
                   /\ Materialize(calendar, k, tx[x].rows[k])

\* An exception is logged and rolled back, and the loop goes on.
FailOne(x, k) == NextTemplate(x, k) /\ UNCHANGED calendar

-----------------------------------------------------------------------------
\* A refused statement (the UNIQUE index) or a lost worker: nothing happens.
Refused(r) == \/ r.op = "patch" /\ ~UniqueSlots(Realigned(r))
              \/ r.op = "move" /\ ~UniqueSlots(WithEdits(r))

Rollback(x) == /\ tx[x] # Idle
               /\ tx' = [tx EXCEPT ![x] = Idle]
               /\ UNCHANGED <<templates, calendar, today, slot>>

Refuse(x) == Refused(tx[x]) /\ Rollback(x)
Crash(x)  == Rollback(x)

Tick == /\ \/ /\ slot' \in {s \in Slots : /\ s > slot
                                         /\ \A t \in Slots : t > slot => s =< t}
              /\ UNCHANGED today
           \/ /\ \A s \in Slots : s =< slot
              /\ today < MaxDay
              /\ today' = today + 1
              /\ slot' \in {s \in Slots : \A t \in Slots : s =< t}
        /\ UNCHANGED <<templates, calendar, tx>>

Owner(x) ==
    \/ \E k \in Templates : \/ \E row \in NewTemplates : CreateTemplate(x, k, row)
                            \/ ReadPatch(x, k)
                            \/ ReadDeactivate(x, k)
    \/ \E d \in Days, t \in Slots, c \in Coaches : CreateAdhoc(x, d, t, c)
    \/ \E s \in DOMAIN calendar :
         \/ ReadCancel(x, s)
         \/ \E c \in Coaches : ReadSwap(x, s, c)
         \/ \E m \in Moves : ReadMove(x, s, m[1], m[2])
    \/ \E a, b \in Days : /\ a =< b
                          /\ \/ ReadBulkCancel(x, a, b)
                             \/ \E c \in Coaches : ReadBulkSwap(x, a, b, c)
    \/ CommitFill(x) \/ CommitPatch(x) \/ CommitDeactivate(x) \/ CommitEdit(x)

Job(x) == \/ ReadActive(x)
          \/ \E k \in Templates : ExtendOne(x, k) \/ FailOne(x, k)

Next == \/ \E x \in Requests : Owner(x)
        \/ \E x \in Jobs : Job(x)
        \/ \E x \in Workers : Refuse(x) \/ Crash(x)
        \/ Tick

Spec == Init /\ [][Next]_vars

\* Beat starts the job every night, and a job that starts over and over is not
\* stopped before template k every time.
Fairness == \A x \in Jobs : /\ WF_vars(ReadActive(x))
                            /\ \A k \in Templates : SF_vars(ExtendOne(x, k))

FairSpec == Spec /\ Fairness

-----------------------------------------------------------------------------
(* Properties.                                                             *)

TypeOK == /\ DOMAIN templates \subseteq Templates
          /\ \A k \in DOMAIN templates : templates[k] \in Template
          /\ DOMAIN calendar \subseteq SessionIds
          /\ \A s \in DOMAIN calendar : calendar[s] \in Session
          /\ tx \in [Workers -> Tx]
          /\ today \in 0 .. MaxDay
          /\ slot \in Slots

\* The sessions that a template still decides about.
Own(s) == /\ calendar[s].tpl # NoTemplate
          /\ calendar[s].status = "scheduled"
          /\ ~calendar[s].custom
          /\ Future(calendar[s])

\* What the week view shows of the future is what the template says: its time
\* and its coach (update_template brings the sessions in line).
FutureFollowsTemplate ==
    \A s \in DOMAIN calendar : Own(s) =>
        LET t == templates[calendar[s].tpl]
        IN  calendar[s].slot = t.slot /\ calendar[s].coach = t.coach

\* No session is left on a day that its template does not cover: not after its
\* deactivation, its last day or on a weekday it no longer has.
FutureIsCovered ==
    \A s \in DOMAIN calendar :
        Own(s) => Covers(templates[calendar[s].tpl], calendar[s].day)

\* Where the owner has cancelled or given away a class of a day, the template
\* puts no other one beside it, whatever is edited and materialized later.
OwnerDecides ==
    \A s, u \in DOMAIN calendar :
        /\ Own(u)
        /\ calendar[s].custom
        => \/ calendar[s].tpl # calendar[u].tpl
           \/ calendar[s].day # calendar[u].day

\* The owner edits session s in this step.
EditsSession(s) == \E x \in Workers : /\ tx[x].op \in {"cancel", "swap", "move"}
                                     /\ s \in tx[x].ids
                                     /\ tx'[x] = Idle

\* What the owner has changed by hand only the owner changes again: neither an
\* edit of the template nor the nightly job touches a customized session.
CustomStays ==
    [][\A s \in DOMAIN calendar :
         calendar[s].custom /\ ~EditsSession(s) =>
            s \in DOMAIN calendar' /\ calendar'[s] = calendar[s]]_vars

\* A cancelled class is off for good: no step schedules it again.
CancelledStays ==
    [][\A s \in DOMAIN calendar : calendar[s].status = "cancelled" =>
         s \in DOMAIN calendar' /\ calendar'[s].status = "cancelled"]_vars

\* The horizon of k is filled: every day it covers has a session.
Reached(k) ==
    k \in DOMAIN templates /\ templates[k].active =>
        \A d \in today .. today + Horizon : Covers(templates[k], d) =>
            \E s \in DOMAIN calendar : /\ calendar[s].tpl = k
                                      /\ calendar[s].day = d
                                      /\ calendar[s].slot = templates[k].slot

\* The nightly job catches up: with days passing, a process dying between a
\* template and its sessions and failing runs, the horizon is filled again.
HorizonCatchesUp == \A k \in Templates : []<>Reached(k)

=============================================================================
