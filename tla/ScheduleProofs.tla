---------------------------- MODULE ScheduleProofs ----------------------------
(***************************************************************************)
(* Proofs about Schedule, for any templates, sessions, coaches, workers,   *)
(* weeks, times and horizons: type correctness, and that no session        *)
(* appears beside one that the owner has decided about.                    *)
(***************************************************************************)
EXTENDS Schedule, TLAPS

(***************************************************************************)
(* Materialization.                                                        *)
(***************************************************************************)

\* Materialize keeps the sessions there are; what it adds are new ids, one for
\* each missing day.
LEMMA MaterializeAdds ==
    ASSUME NEW cal, NEW k, NEW t,
           DOMAIN cal = DOMAIN calendar,
           Materialize(cal, k, t)
    PROVE  /\ DOMAIN cal \subseteq DOMAIN calendar'
           /\ \A s \in DOMAIN cal : calendar'[s] = cal[s]
           /\ \A s \in (DOMAIN calendar') \ DOMAIN cal :
                /\ s \in Ids
                /\ \E d \in Missing(cal, k, t) : calendar'[s] = NewSession(k, t, d)
           /\ \A s, u \in (DOMAIN calendar') \ DOMAIN cal :
                calendar'[s].day = calendar'[u].day => s = u
<1>1. PICK f \in Injection(Missing(cal, k, t), Ids \ DOMAIN calendar) :
        calendar' = Filled(cal, k, t, f)
  BY DEF Materialize
<1>2. f \in [Missing(cal, k, t) -> Ids \ DOMAIN calendar]
  BY <1>1 DEF Injection
<1>3. /\ DOMAIN calendar' = DOMAIN cal \cup Range(f)
      /\ \A s \in DOMAIN cal : calendar'[s] = cal[s]
  BY <1>1 DEF Filled
<1>4. ASSUME NEW s \in (DOMAIN calendar') \ DOMAIN cal
      PROVE  /\ s \in Ids
             /\ \E d \in Missing(cal, k, t) :
                  /\ f[d] = s
                  /\ calendar'[s] = NewSession(k, t, d)
  <2>1. PICK d \in DOMAIN f : f[d] = s
    BY <1>3 DEF Range
  <2> DEFINE e == CHOOSE e \in DOMAIN f : f[e] = s
  <2>2. e \in DOMAIN f /\ f[e] = s
    BY <2>1
  <2>3. calendar'[s] = NewSession(k, t, e)
    BY <1>1, <1>3 DEF Filled
  <2> HIDE DEF e
  <2> QED
    BY <1>2, <2>1, <2>2, <2>3
<1>5. ASSUME NEW s \in (DOMAIN calendar') \ DOMAIN cal,
             NEW u \in (DOMAIN calendar') \ DOMAIN cal,
             calendar'[s].day = calendar'[u].day
      PROVE  s = u
  <2>1. PICK d \in Missing(cal, k, t) : f[d] = s /\ calendar'[s] = NewSession(k, t, d)
    BY <1>4
  <2>2. PICK e \in Missing(cal, k, t) : f[e] = u /\ calendar'[u] = NewSession(k, t, e)
    BY <1>4
  <2>3. d = e
    BY <1>5, <2>1, <2>2 DEF NewSession
  <2> QED
    BY <2>1, <2>2, <2>3
<1> QED
  BY <1>3, <1>4, <1>5

\* The days that are missing are days of the calendar.
LEMMA MissingDays ==
    ASSUME TypeOK, NEW cal, NEW k, NEW t
    PROVE  Missing(cal, k, t) \subseteq Days
  BY TimesAssumption DEF TypeOK, Missing, Dates, Days

\* A materialized row is a row.
LEMMA NewSessionType ==
    ASSUME NEW k \in Templates, NEW t \in Template, NEW d \in Days
    PROVE  NewSession(k, t, d) \in Session
  BY DEF NewSession, Session, Template

\* What Materialize does to a calendar of rows.
LEMMA MaterializeType ==
    ASSUME TypeOK, NEW cal, NEW k \in Templates, NEW t \in Template,
           DOMAIN cal = DOMAIN calendar,
           \A s \in DOMAIN cal : cal[s] \in Session,
           Materialize(cal, k, t)
    PROVE  /\ DOMAIN calendar' \subseteq SessionIds
           /\ \A s \in DOMAIN calendar' : calendar'[s] \in Session
<1>1. \A s \in DOMAIN cal : calendar'[s] \in Session
  BY MaterializeAdds
<1>2. ASSUME NEW s \in (DOMAIN calendar') \ DOMAIN cal
      PROVE  s \in Ids /\ calendar'[s] \in Session
  <2>1. /\ s \in Ids
        /\ \E d \in Missing(cal, k, t) : calendar'[s] = NewSession(k, t, d)
    BY MaterializeAdds
  <2> QED
    BY <2>1, MissingDays, NewSessionType
<1> QED
  BY <1>1, <1>2 DEF TypeOK, SessionIds

(***************************************************************************)
(* Type correctness.                                                       *)
(***************************************************************************)

\* A step of one worker keeps the types when what it leaves is well typed.
LEMMA WorkerStep ==
    ASSUME TypeOK, NEW x \in Workers, NEW r \in Tx,
           tx' = [tx EXCEPT ![x] = r], UNCHANGED <<today, slot>>,
           DOMAIN templates' \subseteq Templates,
           \A k \in DOMAIN templates' : templates'[k] \in Template,
           DOMAIN calendar' \subseteq SessionIds,
           \A s \in DOMAIN calendar' : calendar'[s] \in Session
    PROVE  TypeOK'
  BY DEF TypeOK

LEMMA IdleType == Idle \in Tx
  BY DEF Tx, Idle

\* A worker that only prepares something keeps the types.
LEMMA PrepareType ==
    ASSUME TypeOK, NEW x \in Workers, NEW r \in Tx, Prepare(x, r)
    PROVE  TypeOK'
  BY WorkerStep DEF Prepare, TypeOK

\* The row of a template after a PATCH is a row.
LEMMA PatchedType ==
    ASSUME NEW t \in Template
    PROVE  Patched(t) \subseteq Template
  BY DEF Patched, Template

\* What is listed are sessions.
LEMMA TouchableType ==
    ASSUME TypeOK, NEW k
    PROVE  Touchable(k) \subseteq DOMAIN calendar /\ Touchable(k) \subseteq SessionIds
  BY DEF Touchable, TypeOK

LEMMA CreateTemplateType ==
    ASSUME TypeOK, NEW x \in Workers, NEW k \in Templates, NEW row \in NewTemplates,
           CreateTemplate(x, k, row)
    PROVE  TypeOK'
<1> DEFINE r == [op |-> "fill", tpl |-> k, row |-> row]
<1>1. row \in Template
  BY InputsAssumption
<1>2. r \in Tx
  BY <1>1 DEF Tx
<1>3. DOMAIN templates' \subseteq Templates
  BY DEF CreateTemplate, TypeOK
<1>4. \A l \in DOMAIN templates' : templates'[l] \in Template
  BY <1>1 DEF CreateTemplate, TypeOK
<1>5. tx' = [tx EXCEPT ![x] = r] /\ UNCHANGED <<calendar, today, slot>>
  BY DEF CreateTemplate
<1> QED
  BY <1>2, <1>3, <1>4, <1>5, WorkerStep DEF TypeOK

LEMMA CommitFillType ==
    ASSUME TypeOK, NEW x \in Workers, CommitFill(x)
    PROVE  TypeOK'
<1>1. tx[x].op = "fill" /\ tx[x] \in Tx
  BY DEF CommitFill, TypeOK
<1>2. tx[x].tpl \in Templates /\ tx[x].row \in Template
  BY <1>1 DEF Tx, Idle
<1>3. Materialize(calendar, tx[x].tpl, tx[x].row)
  BY DEF CommitFill
<1>4. /\ DOMAIN calendar' \subseteq SessionIds
      /\ \A s \in DOMAIN calendar' : calendar'[s] \in Session
  BY <1>2, <1>3, MaterializeType DEF TypeOK
<1>5. tx' = [tx EXCEPT ![x] = Idle] /\ UNCHANGED <<templates, today, slot>>
  BY DEF CommitFill, Done
<1> QED
  BY <1>4, <1>5, IdleType, WorkerStep DEF TypeOK

LEMMA ReadPatchType ==
    ASSUME TypeOK, NEW x \in Workers, NEW k \in Templates, ReadPatch(x, k)
    PROVE  TypeOK'
<1>1. templates[k] \in Template /\ Patched(templates[k]) \subseteq Template
  BY PatchedType DEF ReadPatch, TypeOK
<1> DEFINE day == [s \in SessionIds |-> IF s \in Touchable(k)
                                        THEN calendar[s].day ELSE 0]
<1>2. PICK row \in Patched(templates[k]) :
        Prepare(x, [op |-> "patch", tpl |-> k, row |-> row, ids |-> Touchable(k),
                    day |-> day])
  BY DEF ReadPatch
<1>3. day \in [SessionIds -> Days]
  <2>1. \A s \in Touchable(k) : calendar[s].day \in Days
    BY TouchableType DEF TypeOK, Session
  <2>2. 0 \in Days
    BY TimesAssumption DEF Days
  <2> QED
    BY <2>1, <2>2
<1>4. [op |-> "patch", tpl |-> k, row |-> row, ids |-> Touchable(k), day |-> day] \in Tx
  <2> HIDE DEF day
  <2> QED
    BY <1>1, <1>3, TouchableType DEF Tx
<1> QED
  BY <1>2, <1>4, PrepareType

\* Bringing sessions in line gives rows.
LEMMA RealignedType ==
    ASSUME TypeOK, NEW r \in Tx, r.op = "patch"
    PROVE  /\ DOMAIN Realigned(r) = DOMAIN calendar
           /\ \A s \in DOMAIN calendar : Realigned(r)[s] \in Session
<1>1. r.row \in Template /\ r.day \in [SessionIds -> Days]
  BY DEF Tx, Idle
<1>2. r.row.slot \in Slots /\ r.row.coach \in Coaches
  BY <1>1 DEF Template
<1>3. \A s \in DOMAIN calendar : r.day[s] \in Days
  BY <1>1 DEF TypeOK
<1> QED
  BY <1>2, <1>3 DEF Realigned, TypeOK, Session

LEMMA CommitPatchType ==
    ASSUME TypeOK, NEW x \in Workers, CommitPatch(x)
    PROVE  TypeOK'
<1>1. tx[x].op = "patch" /\ tx[x] \in Tx
  BY DEF CommitPatch, TypeOK
<1>2. tx[x].tpl \in Templates /\ tx[x].row \in Template
  BY <1>1 DEF Tx, Idle
<1>3. Materialize(Realigned(tx[x]), tx[x].tpl, tx[x].row)
  BY DEF CommitPatch
<1>4. /\ DOMAIN calendar' \subseteq SessionIds
      /\ \A s \in DOMAIN calendar' : calendar'[s] \in Session
  BY <1>1, <1>2, <1>3, RealignedType, MaterializeType
<1>5. /\ DOMAIN templates' \subseteq Templates
      /\ \A k \in DOMAIN templates' : templates'[k] \in Template
  BY <1>2 DEF CommitPatch, TypeOK
<1>6. tx' = [tx EXCEPT ![x] = Idle] /\ UNCHANGED <<today, slot>>
  BY DEF CommitPatch, Done
<1> QED
  BY <1>4, <1>5, <1>6, IdleType, WorkerStep

LEMMA DeactivateType ==
    ASSUME TypeOK, NEW x \in Workers,
           \/ \E k \in Templates : ReadDeactivate(x, k)
           \/ CommitDeactivate(x)
    PROVE  TypeOK'
<1>1. ASSUME NEW k \in Templates, ReadDeactivate(x, k) PROVE TypeOK'
  <2>1. [op |-> "deactivate", tpl |-> k, ids |-> Touchable(k)] \in Tx
    BY TouchableType DEF Tx
  <2> QED
    BY <1>1, <2>1, PrepareType DEF ReadDeactivate
<1>2. CASE CommitDeactivate(x)
  <2> DEFINE off(t) == [t EXCEPT !.active = FALSE]
  <2>1. /\ DOMAIN templates' \subseteq Templates
        /\ \A k \in DOMAIN templates' : templates'[k] \in Template
    <3>1. \A t \in Template : off(t) \in Template
      BY DEF Template
    <3> HIDE DEF off
    <3>2. templates' = [templates EXCEPT ![tx[x].tpl] = off(@)]
      BY <1>2 DEF CommitDeactivate, off
    <3> QED
      BY <3>1, <3>2 DEF TypeOK
  <2>2. /\ DOMAIN calendar' \subseteq SessionIds
        /\ \A s \in DOMAIN calendar' : calendar'[s] \in Session
    BY <1>2 DEF CommitDeactivate, TypeOK, Session
  <2>3. tx' = [tx EXCEPT ![x] = Idle] /\ UNCHANGED <<today, slot>>
    BY <1>2 DEF CommitDeactivate, Done
  <2> QED
    BY <2>1, <2>2, <2>3, IdleType, WorkerStep
<1> QED
  BY <1>1, <1>2

LEMMA CreateAdhocType ==
    ASSUME TypeOK, NEW x \in Workers, NEW d \in Days, NEW t \in Slots,
           NEW c \in Coaches, CreateAdhoc(x, d, t, c)
    PROVE  TypeOK'
<1> DEFINE row == [tpl |-> NoTemplate, day |-> d, slot |-> t, coach |-> c,
                   status |-> "scheduled", custom |-> TRUE]
<1>1. row \in Session
  BY DEF Session
<1>2. PICK s \in AdhocIds \ DOMAIN calendar :
        calendar' = [u \in DOMAIN calendar \cup {s} |->
                       IF u = s THEN row ELSE calendar[u]]
  BY DEF CreateAdhoc
<1>3. UNCHANGED <<templates, tx, today, slot>>
  BY DEF CreateAdhoc
<1> HIDE DEF row
<1>4. /\ DOMAIN calendar' \subseteq SessionIds
      /\ \A u \in DOMAIN calendar' : calendar'[u] \in Session
  BY <1>1, <1>2 DEF TypeOK, SessionIds
<1> QED
  BY <1>3, <1>4 DEF TypeOK

\* The edits of sessions.
LEMMA ReadEditType ==
    ASSUME TypeOK, NEW x \in Workers,
           \/ \E s \in DOMAIN calendar :
                \/ ReadCancel(x, s)
                \/ \E c \in Coaches : ReadSwap(x, s, c)
                \/ \E m \in Moves : ReadMove(x, s, m[1], m[2])
           \/ \E a, b \in Days :
                \/ ReadBulkCancel(x, a, b)
                \/ \E c \in Coaches : ReadBulkSwap(x, a, b, c)
    PROVE  TypeOK'
<1>1. \A S \in SUBSET SessionIds, c \in Coaches :
        /\ [op |-> "cancel", ids |-> S] \in Tx
        /\ [op |-> "swap", ids |-> S, coach |-> c] \in Tx
  BY DEF Tx
<1>2. ASSUME NEW s \in DOMAIN calendar, NEW m \in Moves, ReadMove(x, s, m[1], m[2])
      PROVE  TypeOK'
  <2>1. m[1] \in Days /\ m[2] \in Slots
    BY InputsAssumption
  <2>2. [op |-> "move", ids |-> {s}, day |-> m[1], slot |-> m[2]] \in Tx
    BY <2>1 DEF Tx, TypeOK
  <2> QED
    BY <1>2, <2>2, PrepareType DEF ReadMove
<1>3. \A a, b : InRange(a, b) \in SUBSET SessionIds
  BY DEF InRange, TypeOK
<1>4. \A s \in DOMAIN calendar : {s} \in SUBSET SessionIds
  BY DEF TypeOK
<1>5. ASSUME NEW S \in SUBSET SessionIds, Prepare(x, [op |-> "cancel", ids |-> S])
      PROVE  TypeOK'
  BY <1>1, <1>5, PrepareType DEF Tx
<1>6. ASSUME NEW S \in SUBSET SessionIds, NEW c \in Coaches,
             Prepare(x, [op |-> "swap", ids |-> S, coach |-> c])
      PROVE  TypeOK'
  BY <1>1, <1>6, PrepareType
<1> QED
  BY <1>2, <1>3, <1>4, <1>5, <1>6
     DEF ReadCancel, ReadSwap, ReadBulkCancel, ReadBulkSwap

LEMMA CommitEditType ==
    ASSUME TypeOK, NEW x \in Workers, CommitEdit(x)
    PROVE  TypeOK'
<1>1. tx[x] \in Tx /\ tx[x].op \in {"cancel", "swap", "move"}
  BY DEF CommitEdit, TypeOK
<1>2. /\ tx[x].op = "swap" => tx[x].coach \in Coaches
      /\ tx[x].op = "move" => tx[x].day \in Days /\ tx[x].slot \in Slots
  BY <1>1 DEF Tx, Idle
<1>3. \A s \in DOMAIN calendar : Edited(tx[x], s) \in Session
  BY <1>1, <1>2 DEF Edited, TypeOK, Session
<1>4. /\ DOMAIN calendar' \subseteq SessionIds
      /\ \A s \in DOMAIN calendar' : calendar'[s] \in Session
  BY <1>3 DEF CommitEdit, WithEdits, TypeOK
<1>5. tx' = [tx EXCEPT ![x] = Idle] /\ UNCHANGED <<templates, today, slot>>
  BY DEF CommitEdit, Done
<1> QED
  BY <1>4, <1>5, IdleType, WorkerStep DEF TypeOK

LEMMA JobType ==
    ASSUME TypeOK, NEW x \in Workers, Job(x)
    PROVE  TypeOK'
<1>1. CASE ReadActive(x)
  <2> DEFINE K == {k \in DOMAIN templates : templates[k].active}
             rows == [k \in K |-> templates[k]]
  <2>1. K \in SUBSET Templates /\ rows \in [K -> Template]
    BY DEF TypeOK
  <2>2. [op |-> "horizon", rows |-> rows] \in Tx
    <3> HIDE DEF K, rows
    <3> QED
      BY <2>1 DEF Tx
  <2> QED
    BY <1>1, <2>2, PrepareType DEF ReadActive
<1>2. ASSUME NEW k \in Templates, NextTemplate(x, k)
      PROVE  /\ k \in Templates
             /\ tx[x].rows[k] \in Template
             /\ \E r \in Tx : tx' = [tx EXCEPT ![x] = r]
             /\ UNCHANGED <<templates, today, slot>>
  <2> DEFINE rest == DOMAIN tx[x].rows \ {k}
             rows == [l \in rest |-> tx[x].rows[l]]
  <2>1. tx[x] \in Tx /\ tx[x].op = "horizon" /\ k \in DOMAIN tx[x].rows
    BY <1>2 DEF NextTemplate, TypeOK
  <2>2. PICK K \in SUBSET Templates : tx[x].rows \in [K -> Template]
    BY <2>1 DEF Tx, Idle
  <2>3. rest \in SUBSET Templates /\ rows \in [rest -> Template]
    BY <2>2
  <2>4. [op |-> "horizon", rows |-> rows] \in Tx
    <3> HIDE DEF rest, rows
    <3> QED
      BY <2>3 DEF Tx
  <2>5. /\ tx' = [tx EXCEPT ![x] = IF rest = {} THEN Idle
                                   ELSE [op |-> "horizon", rows |-> rows]]
        /\ UNCHANGED <<templates, today, slot>>
    BY <1>2 DEF NextTemplate
  <2> HIDE DEF rest, rows
  <2> QED
    BY <2>1, <2>2, <2>4, <2>5, IdleType
<1>3. ASSUME NEW k \in Templates, ExtendOne(x, k) PROVE TypeOK'
  <2>1. NextTemplate(x, k) /\ Materialize(calendar, k, tx[x].rows[k])
    BY <1>3 DEF ExtendOne
  <2>2. /\ DOMAIN calendar' \subseteq SessionIds
        /\ \A s \in DOMAIN calendar' : calendar'[s] \in Session
    BY <1>2, <2>1, MaterializeType DEF TypeOK
  <2> QED
    BY <1>2, <2>1, <2>2, WorkerStep DEF TypeOK
<1>4. ASSUME NEW k \in Templates, FailOne(x, k) PROVE TypeOK'
  BY <1>2, <1>4, WorkerStep DEF FailOne, TypeOK
<1> QED
  BY <1>1, <1>3, <1>4 DEF Job

LEMMA TickType == TypeOK /\ Tick => TypeOK'
  BY TimesAssumption DEF Tick, TypeOK

LEMMA RollbackType ==
    ASSUME TypeOK, NEW x \in Workers, Rollback(x)
    PROVE  TypeOK'
  BY WorkerStep, IdleType DEF Rollback, TypeOK

LEMMA OwnerType ==
    ASSUME TypeOK, NEW x \in Workers, Owner(x)
    PROVE  TypeOK'
  BY CreateTemplateType, ReadPatchType, DeactivateType, CreateAdhocType,
     ReadEditType, CommitFillType, CommitPatchType, CommitEditType DEF Owner

LEMMA InitType == Init => TypeOK
  BY TimesAssumption, IdleType DEF Init, TypeOK

LEMMA NextType == TypeOK /\ [Next]_vars => TypeOK'
<1> SUFFICES ASSUME TypeOK, [Next]_vars PROVE TypeOK'
  OBVIOUS
<1>1. CASE UNCHANGED vars
  BY <1>1 DEF vars, TypeOK
<1>2. ASSUME NEW x \in Requests, Owner(x) PROVE TypeOK'
  BY <1>2, OwnerType DEF Workers
<1>3. ASSUME NEW x \in Jobs, Job(x) PROVE TypeOK'
  BY <1>3, JobType DEF Workers
<1>4. ASSUME NEW x \in Workers, Refuse(x) \/ Crash(x) PROVE TypeOK'
  BY <1>4, RollbackType DEF Refuse, Crash
<1> QED
  BY <1>1, <1>2, <1>3, <1>4, TickType DEF Next

\* Every row of a template and of a session, and everything that a worker is in
\* the middle of, stays in its domain.
THEOREM TypeCorrect == Spec => []TypeOK
  BY InitType, NextType, PTL DEF Spec

(***************************************************************************)
(* The owner decides.  Where no time is edited, every session of a         *)
(* template has the time of the template, so that the unique index on the  *)
(* time is one on the day, and a day the owner has decided about is taken. *)
(***************************************************************************)
TimesFixed == "slot" \notin Patches /\ Moves = {}

\* Every session of a template is at the time of the template.
OwnTime == \A s \in DOMAIN calendar :
             calendar[s].tpl # NoTemplate =>
                /\ calendar[s].tpl \in DOMAIN templates
                /\ calendar[s].slot = templates[calendar[s].tpl].slot

\* What a worker has read and is still true when it commits.
Knows(r) ==
    /\ r.op # "move"
    /\ r.op \in {"fill", "patch"} => /\ r.tpl \in DOMAIN templates
                                     /\ r.row.slot = templates[r.tpl].slot
    /\ r.op = "patch" =>
         \A s \in r.ids : /\ s \in DOMAIN calendar
                          /\ calendar[s].tpl = r.tpl
                          /\ calendar[s].day = r.day[s]
    /\ r.op = "horizon" =>
         \A k \in DOMAIN r.rows : /\ k \in DOMAIN templates
                                  /\ r.rows[k].slot = templates[k].slot

OInv == /\ TypeOK
        /\ UniqueSlots(calendar)
        /\ OwnTime
        /\ \A x \in Workers : Knows(tx[x])

\* Rows are only added, and keep what was read of them.
Grows == /\ \A k \in DOMAIN templates : /\ k \in DOMAIN templates'
                                        /\ templates'[k].slot = templates[k].slot
         /\ \A s \in DOMAIN calendar : /\ s \in DOMAIN calendar'
                                       /\ calendar'[s].tpl = calendar[s].tpl
                                      /\ calendar'[s].day = calendar[s].day

LEMMA KnowsStays ==
    ASSUME Grows, NEW r, Knows(r)
    PROVE  Knows(r)'
  BY DEF Grows, Knows

LEMMA IdleKnows == Knows(Idle)'
  BY DEF Knows, Idle

\* A step of one worker after which the types and the tables are as they
\* should be.
LEMMA OwnerStep ==
    ASSUME OInv, TypeOK', NEW x \in Workers, NEW r,
           tx' = [tx EXCEPT ![x] = r], Grows, Knows(r)',
           UniqueSlots(calendar)', OwnTime'
    PROVE  OInv'
<1>1. ASSUME NEW y \in Workers PROVE Knows(tx[y])'
  <2>1. CASE y = x
    BY <2>1 DEF OInv, TypeOK
  <2>2. CASE y # x
    <3>1. Knows(tx[y]) /\ tx'[y] = tx[y]
      BY <2>2 DEF OInv, TypeOK
    <3> QED
      BY <3>1, KnowsStays
  <2> QED
    BY <2>1, <2>2
<1> QED
  BY <1>1 DEF OInv

\* A step that prepares something leaves the tables alone.
LEMMA OwnerPrepare ==
    ASSUME OInv, TypeOK', NEW x \in Workers, NEW r, Prepare(x, r), Knows(r)
    PROVE  OInv'
<1>1. tx' = [tx EXCEPT ![x] = r] /\ UNCHANGED <<templates, calendar, today, slot>>
  BY DEF Prepare
<1>2. Grows
  BY <1>1 DEF Grows
<1>3. UniqueSlots(calendar)' /\ OwnTime'
  BY <1>1 DEF OInv, UniqueSlots, OwnTime
<1> QED
  BY <1>1, <1>2, <1>3, KnowsStays, OwnerStep

\* Filling the horizon at the time of the template keeps one session per slot.
LEMMA MaterializeUnique ==
    ASSUME NEW cal, NEW k, NEW t,
           DOMAIN cal = DOMAIN calendar,
           UniqueSlots(cal),
           Materialize(cal, k, t)
    PROVE  UniqueSlots(calendar)'
<1> SUFFICES ASSUME NEW s \in DOMAIN calendar', NEW u \in DOMAIN calendar',
                    calendar'[s].tpl # NoTemplate,
                    calendar'[s].tpl = calendar'[u].tpl,
                    calendar'[s].day = calendar'[u].day,
                    calendar'[s].slot = calendar'[u].slot
             PROVE  s = u
  BY DEF UniqueSlots
<1>1. ASSUME NEW a \in DOMAIN cal, NEW b \in (DOMAIN calendar') \ DOMAIN cal
      PROVE  ~ /\ calendar'[a].tpl = calendar'[b].tpl
               /\ calendar'[a].day = calendar'[b].day
               /\ calendar'[a].slot = calendar'[b].slot
  <2>1. calendar'[a] = cal[a]
    BY MaterializeAdds
  <2>2. PICK d \in Missing(cal, k, t) : calendar'[b] = NewSession(k, t, d)
    BY MaterializeAdds
  <2> QED
    BY <2>1, <2>2 DEF Missing, NewSession
<1>2. CASE s \in DOMAIN cal /\ u \in DOMAIN cal
  BY <1>2, MaterializeAdds DEF UniqueSlots
<1>3. CASE s \notin DOMAIN cal /\ u \notin DOMAIN cal
  BY <1>3, MaterializeAdds
<1> QED
  BY <1>1, <1>2, <1>3

\* It also keeps every session at the time of its template.
LEMMA MaterializeTime ==
    ASSUME NEW cal, NEW k \in Templates, NEW t,
           DOMAIN cal = DOMAIN calendar,
           \A s \in DOMAIN cal : cal[s].tpl # NoTemplate =>
              /\ cal[s].tpl \in DOMAIN templates'
              /\ cal[s].slot = templates'[cal[s].tpl].slot,
           k \in DOMAIN templates',
           t.slot = templates'[k].slot,
           Materialize(cal, k, t)
    PROVE  OwnTime'
<1>1. ASSUME NEW s \in DOMAIN cal
      PROVE  calendar'[s].tpl # NoTemplate =>
               /\ calendar'[s].tpl \in DOMAIN templates'
               /\ calendar'[s].slot = templates'[calendar'[s].tpl].slot
  <2>1. calendar'[s] = cal[s]
    BY MaterializeAdds
  <2> QED
    BY <2>1
<1>2. ASSUME NEW s \in (DOMAIN calendar') \ DOMAIN cal
      PROVE  /\ calendar'[s].tpl \in DOMAIN templates'
             /\ calendar'[s].slot = templates'[calendar'[s].tpl].slot
  <2>1. PICK d \in Missing(cal, k, t) : calendar'[s] = NewSession(k, t, d)
    BY MaterializeAdds
  <2> QED
    BY <2>1 DEF NewSession
<1> QED
  BY <1>1, <1>2 DEF OwnTime

\* Materialize lets the calendar grow.
LEMMA MaterializeGrows ==
    ASSUME NEW cal, NEW k, NEW t,
           DOMAIN cal = DOMAIN calendar,
           \A s \in DOMAIN cal : /\ cal[s].tpl = calendar[s].tpl
                                 /\ cal[s].day = calendar[s].day,
           \A l \in DOMAIN templates : /\ l \in DOMAIN templates'
                                       /\ templates'[l].slot = templates[l].slot,
           Materialize(cal, k, t)
    PROVE  Grows
  BY MaterializeAdds DEF Grows

LEMMA OwnerCreateTemplate ==
    ASSUME OInv, TypeOK', NEW x \in Workers, NEW k \in Templates,
           NEW row \in NewTemplates, CreateTemplate(x, k, row)
    PROVE  OInv'
<1> DEFINE r == [op |-> "fill", tpl |-> k, row |-> row]
<1>1. /\ k \notin DOMAIN templates
      /\ DOMAIN templates' = DOMAIN templates \cup {k}
      /\ templates'[k] = row
      /\ \A l \in DOMAIN templates : templates'[l] = templates[l]
      /\ tx' = [tx EXCEPT ![x] = r]
      /\ calendar' = calendar
  BY DEF CreateTemplate
<1>2. Grows
  BY <1>1 DEF Grows
<1>3. Knows(r)'
  BY <1>1 DEF Knows
<1>4. UniqueSlots(calendar)' /\ OwnTime'
  BY <1>1 DEF OInv, UniqueSlots, OwnTime
<1> QED
  BY <1>1, <1>2, <1>3, <1>4, OwnerStep

LEMMA OwnerCommitFill ==
    ASSUME OInv, TypeOK', NEW x \in Workers, CommitFill(x)
    PROVE  OInv'
<1>1. tx[x].op = "fill" /\ tx[x] \in Tx /\ Knows(tx[x])
  BY DEF CommitFill, OInv, TypeOK
<1>2. tx[x].tpl \in Templates
  BY <1>1 DEF Tx, Idle
<1>3. tx[x].tpl \in DOMAIN templates /\ tx[x].row.slot = templates[tx[x].tpl].slot
  BY <1>1 DEF Knows
<1>4. /\ Materialize(calendar, tx[x].tpl, tx[x].row)
      /\ tx' = [tx EXCEPT ![x] = Idle]
      /\ templates' = templates
  BY DEF CommitFill, Done
<1>5. UniqueSlots(calendar)'
  BY <1>4, MaterializeUnique DEF OInv
<1>6. OwnTime'
  BY <1>2, <1>3, <1>4, MaterializeTime DEF OInv, OwnTime
<1>7. Grows
  BY <1>4, MaterializeGrows
<1> QED
  BY <1>4, <1>5, <1>6, <1>7, IdleKnows, OwnerStep

LEMMA OwnerReadPatch ==
    ASSUME OInv, TypeOK', TimesFixed, NEW x \in Workers, NEW k \in Templates,
           ReadPatch(x, k)
    PROVE  OInv'
<1> DEFINE day == [s \in SessionIds |-> IF s \in Touchable(k)
                                        THEN calendar[s].day ELSE 0]
<1>1. PICK row \in Patched(templates[k]) :
        Prepare(x, [op |-> "patch", tpl |-> k, row |-> row, ids |-> Touchable(k),
                    day |-> day])
  BY DEF ReadPatch
<1>2. k \in DOMAIN templates /\ templates[k] \in Template
  BY DEF ReadPatch, OInv, TypeOK
<1>3. row.slot = templates[k].slot
  BY <1>2 DEF TimesFixed, Patched, Template
<1>4. \A s \in Touchable(k) : /\ s \in DOMAIN calendar
                              /\ calendar[s].tpl = k
                             /\ calendar[s].day = day[s]
  BY DEF Touchable, OInv, TypeOK
<1>5. Knows([op |-> "patch", tpl |-> k, row |-> row, ids |-> Touchable(k),
             day |-> day])
  <2> HIDE DEF day
  <2> QED
    BY <1>2, <1>3, <1>4 DEF Knows
<1> HIDE DEF day
<1> QED
  BY <1>1, <1>5, OwnerPrepare

LEMMA OwnerCommitPatch ==
    ASSUME OInv, TypeOK', NEW x \in Workers, CommitPatch(x)
    PROVE  OInv'
<1> DEFINE r   == tx[x]
           cal == Realigned(r)
<1>1. r.op = "patch" /\ r \in Tx /\ Knows(r)
  BY DEF CommitPatch, OInv, TypeOK
<1>2. r.tpl \in Templates /\ r.row \in Template
  BY <1>1 DEF Tx, Idle
<1>3. /\ r.tpl \in DOMAIN templates
      /\ r.row.slot = templates[r.tpl].slot
      /\ \A s \in r.ids : calendar[s].tpl = r.tpl /\ calendar[s].day = r.day[s]
  BY <1>1 DEF Knows
<1>4. /\ UniqueSlots(cal)
      /\ templates' = [templates EXCEPT ![r.tpl] = r.row]
      /\ Materialize(cal, r.tpl, r.row)
      /\ tx' = [tx EXCEPT ![x] = Idle]
  BY DEF CommitPatch, Done
<1>5. /\ DOMAIN templates' = DOMAIN templates
      /\ \A l \in DOMAIN templates : templates'[l].slot = templates[l].slot
  BY <1>3, <1>4
<1>6. DOMAIN cal = DOMAIN calendar
  BY DEF Realigned
<1>7. \A s \in DOMAIN cal : /\ cal[s].tpl = calendar[s].tpl
                            /\ cal[s].day = calendar[s].day
                           /\ cal[s].slot = IF s \in r.ids THEN r.row.slot
                                                           ELSE calendar[s].slot
  BY <1>3 DEF Realigned, OInv, TypeOK, Session
<1> HIDE DEF cal, r
<1>8. \A s \in DOMAIN cal : cal[s].tpl # NoTemplate =>
         /\ cal[s].tpl \in DOMAIN templates'
         /\ cal[s].slot = templates'[cal[s].tpl].slot
  BY <1>3, <1>5, <1>6, <1>7 DEF OInv, OwnTime
<1>9. OwnTime'
  BY <1>2, <1>3, <1>4, <1>5, <1>6, <1>8, MaterializeTime
<1>10. UniqueSlots(calendar)'
  BY <1>4, <1>6, MaterializeUnique
<1>11. Grows
  BY <1>4, <1>5, <1>6, <1>7, MaterializeGrows
<1> QED
  BY <1>4, <1>9, <1>10, <1>11, IdleKnows, OwnerStep

\* A step that leaves every session its template, day and time keeps the slots
\* unique.
LEMMA SameSlots ==
    ASSUME OInv, NEW x \in Workers, TypeOK',
           tx' = [tx EXCEPT ![x] = Idle],
           DOMAIN templates' = DOMAIN templates,
           \A k \in DOMAIN templates : templates'[k].slot = templates[k].slot,
           DOMAIN calendar' = DOMAIN calendar,
           \A s \in DOMAIN calendar : /\ calendar'[s].tpl = calendar[s].tpl
                                      /\ calendar'[s].day = calendar[s].day
                                     /\ calendar'[s].slot = calendar[s].slot
    PROVE  OInv'
<1>1. Grows
  BY DEF Grows
<1>2. UniqueSlots(calendar)' /\ OwnTime'
  BY DEF OInv, UniqueSlots, OwnTime
<1> QED
  BY <1>1, <1>2, IdleKnows, OwnerStep

LEMMA OwnerDeactivate ==
    ASSUME OInv, TypeOK', NEW x \in Workers,
           \/ \E k \in Templates : ReadDeactivate(x, k)
           \/ CommitDeactivate(x)
    PROVE  OInv'
<1>1. ASSUME NEW k \in Templates, ReadDeactivate(x, k) PROVE OInv'
  <2>1. Knows([op |-> "deactivate", tpl |-> k, ids |-> Touchable(k)])
    BY DEF Knows
  <2> QED
    BY <1>1, <2>1, OwnerPrepare DEF ReadDeactivate
<1>2. CASE CommitDeactivate(x)
  <2>1. /\ DOMAIN templates' = DOMAIN templates
        /\ \A k \in DOMAIN templates : templates'[k].slot = templates[k].slot
    BY <1>2 DEF CommitDeactivate, OInv, TypeOK, Template
  <2>2. DOMAIN calendar' = DOMAIN calendar
    BY <1>2 DEF CommitDeactivate
  <2>3. \A s \in DOMAIN calendar : /\ calendar'[s].tpl = calendar[s].tpl
                                   /\ calendar'[s].day = calendar[s].day
                                  /\ calendar'[s].slot = calendar[s].slot
    BY <1>2 DEF CommitDeactivate, OInv, TypeOK, Session
  <2>4. tx' = [tx EXCEPT ![x] = Idle]
    BY <1>2 DEF CommitDeactivate, Done
  <2> QED
    BY <2>1, <2>2, <2>3, <2>4, SameSlots
<1> QED
  BY <1>1, <1>2

LEMMA OwnerCreateAdhoc ==
    ASSUME OInv, TypeOK', NEW x \in Workers, NEW d \in Days, NEW t \in Slots,
           NEW c \in Coaches, CreateAdhoc(x, d, t, c)
    PROVE  OInv'
<1>1. PICK s \in AdhocIds \ DOMAIN calendar :
        /\ DOMAIN calendar' = DOMAIN calendar \cup {s}
        /\ calendar'[s].tpl = NoTemplate
        /\ \A u \in DOMAIN calendar : calendar'[u] = calendar[u]
  BY DEF CreateAdhoc
<1>2. UNCHANGED <<templates, tx>>
  BY DEF CreateAdhoc
<1>3. Grows
  BY <1>1, <1>2 DEF Grows
<1>4. UniqueSlots(calendar)' /\ OwnTime'
  BY <1>1, <1>2 DEF OInv, UniqueSlots, OwnTime
<1>5. \A y \in Workers : Knows(tx[y])'
  BY <1>2, <1>3, KnowsStays DEF OInv
<1> QED
  BY <1>4, <1>5 DEF OInv

LEMMA OwnerReadEdit ==
    ASSUME OInv, TypeOK', TimesFixed, NEW x \in Workers,
           \/ \E s \in DOMAIN calendar :
                \/ ReadCancel(x, s)
                \/ \E c \in Coaches : ReadSwap(x, s, c)
                \/ \E m \in Moves : ReadMove(x, s, m[1], m[2])
           \/ \E a, b \in Days :
                \/ ReadBulkCancel(x, a, b)
                \/ \E c \in Coaches : ReadBulkSwap(x, a, b, c)
    PROVE  OInv'
<1>1. \A S, c : /\ Knows([op |-> "cancel", ids |-> S])
                /\ Knows([op |-> "swap", ids |-> S, coach |-> c])
  BY DEF Knows
<1>2. ASSUME NEW S, Prepare(x, [op |-> "cancel", ids |-> S]) PROVE OInv'
  BY <1>1, <1>2, OwnerPrepare
<1>3. ASSUME NEW S, NEW c, Prepare(x, [op |-> "swap", ids |-> S, coach |-> c])
      PROVE  OInv'
  BY <1>1, <1>3, OwnerPrepare
<1> QED
  BY <1>2, <1>3
     DEF TimesFixed, ReadCancel, ReadSwap, ReadBulkCancel, ReadBulkSwap

LEMMA OwnerCommitEdit ==
    ASSUME OInv, TypeOK', NEW x \in Workers, CommitEdit(x)
    PROVE  OInv'
<1>1. tx[x].op \in {"cancel", "swap"}
  BY DEF CommitEdit, OInv, Knows
<1>2. \A s \in DOMAIN calendar : /\ Edited(tx[x], s).tpl = calendar[s].tpl
                                 /\ Edited(tx[x], s).day = calendar[s].day
                                /\ Edited(tx[x], s).slot = calendar[s].slot
  BY <1>1 DEF Edited, OInv, TypeOK, Session
<1>3. /\ DOMAIN calendar' = DOMAIN calendar
      /\ \A s \in DOMAIN calendar : calendar'[s] \in {calendar[s], Edited(tx[x], s)}
  BY DEF CommitEdit, WithEdits
<1>4. tx' = [tx EXCEPT ![x] = Idle] /\ templates' = templates
  BY DEF CommitEdit, Done
<1> QED
  BY <1>2, <1>3, <1>4, SameSlots

LEMMA OwnerJob ==
    ASSUME OInv, TypeOK', NEW x \in Workers, Job(x)
    PROVE  OInv'
<1>1. CASE ReadActive(x)
  <2> DEFINE K == {k \in DOMAIN templates : templates[k].active}
             r == [op |-> "horizon", rows |-> [k \in K |-> templates[k]]]
  <2>1. Knows(r)
    BY DEF Knows
  <2> QED
    BY <1>1, <2>1, OwnerPrepare DEF ReadActive
<1>2. ASSUME NEW k \in Templates, NextTemplate(x, k)
      PROVE  /\ k \in DOMAIN templates
             /\ tx[x].rows[k].slot = templates[k].slot
             /\ \E r : Knows(r) /\ tx' = [tx EXCEPT ![x] = r]
             /\ templates' = templates
  <2> DEFINE rest == DOMAIN tx[x].rows \ {k}
             r == [op |-> "horizon", rows |-> [l \in rest |-> tx[x].rows[l]]]
  <2>1. /\ tx[x].op = "horizon"
        /\ k \in DOMAIN tx[x].rows
        /\ tx' = [tx EXCEPT ![x] = IF rest = {} THEN Idle ELSE r]
        /\ templates' = templates
    BY <1>2 DEF NextTemplate
  <2>2. \A l \in DOMAIN tx[x].rows : /\ l \in DOMAIN templates
                                     /\ tx[x].rows[l].slot = templates[l].slot
    BY <2>1 DEF OInv, Knows
  <2>3. Knows(r) /\ Knows(Idle)
    BY <2>2 DEF Knows, Idle
  <2> HIDE DEF rest, r
  <2> QED
    BY <2>1, <2>2, <2>3
<1>3. ASSUME NEW k \in Templates, ExtendOne(x, k) PROVE OInv'
  <2>1. NextTemplate(x, k) /\ Materialize(calendar, k, tx[x].rows[k])
    BY <1>3 DEF ExtendOne
  <2>2. PICK r : Knows(r) /\ tx' = [tx EXCEPT ![x] = r]
    BY <1>2, <2>1
  <2>3. /\ k \in DOMAIN templates
        /\ tx[x].rows[k].slot = templates[k].slot
        /\ templates' = templates
    BY <1>2, <2>1
  <2>4. UniqueSlots(calendar)'
    BY <2>1, MaterializeUnique DEF OInv
  <2>5. OwnTime'
    BY <2>1, <2>3, MaterializeTime DEF OInv, OwnTime
  <2>6. Grows
    BY <2>1, <2>3, MaterializeGrows
  <2> QED
    BY <2>2, <2>4, <2>5, <2>6, KnowsStays, OwnerStep
<1>4. ASSUME NEW k \in Templates, FailOne(x, k) PROVE OInv'
  <2>1. NextTemplate(x, k) /\ calendar' = calendar
    BY <1>4 DEF FailOne
  <2>2. PICK r : Knows(r) /\ tx' = [tx EXCEPT ![x] = r]
    BY <1>2, <2>1
  <2>3. templates' = templates
    BY <1>2, <2>1
  <2>4. Grows
    BY <2>1, <2>3 DEF Grows
  <2>5. UniqueSlots(calendar)' /\ OwnTime'
    BY <2>1, <2>3 DEF OInv, UniqueSlots, OwnTime
  <2> QED
    BY <2>2, <2>4, <2>5, KnowsStays, OwnerStep
<1> QED
  BY <1>1, <1>3, <1>4 DEF Job

LEMMA OwnerRollback ==
    ASSUME OInv, TypeOK', NEW x \in Workers, Rollback(x)
    PROVE  OInv'
  BY SameSlots DEF Rollback

LEMMA OwnerTick ==
    ASSUME OInv, TypeOK', Tick
    PROVE  OInv'
<1>1. UNCHANGED <<templates, calendar, tx>>
  BY DEF Tick
<1> QED
  BY <1>1 DEF OInv, UniqueSlots, OwnTime, Knows

LEMMA OwnerActs ==
    ASSUME OInv, TypeOK', TimesFixed, NEW x \in Workers, Owner(x)
    PROVE  OInv'
  BY OwnerCreateTemplate, OwnerReadPatch, OwnerDeactivate, OwnerCreateAdhoc,
     OwnerReadEdit, OwnerCommitFill, OwnerCommitPatch, OwnerCommitEdit DEF Owner

LEMMA InitOInv == Init => OInv
<1> SUFFICES ASSUME Init PROVE OInv
  OBVIOUS
<1>1. TypeOK
  BY InitType
<1>2. UniqueSlots(calendar) /\ OwnTime
  BY DEF Init, UniqueSlots, OwnTime
<1>3. \A x \in Workers : Knows(tx[x])
  BY DEF Init, Knows, Idle
<1> QED
  BY <1>1, <1>2, <1>3 DEF OInv

LEMMA NextOInv == TimesFixed /\ OInv /\ [Next]_vars => OInv'
<1> SUFFICES ASSUME TimesFixed, OInv, [Next]_vars PROVE OInv'
  OBVIOUS
<1>1. TypeOK'
  BY NextType DEF OInv
<1>2. CASE UNCHANGED vars
  BY <1>1, <1>2 DEF vars, OInv, UniqueSlots, OwnTime, Knows
<1>3. ASSUME NEW x \in Requests, Owner(x) PROVE OInv'
  BY <1>1, <1>3, OwnerActs DEF Workers
<1>4. ASSUME NEW x \in Jobs, Job(x) PROVE OInv'
  BY <1>1, <1>4, OwnerJob DEF Workers
<1>5. ASSUME NEW x \in Workers, Refuse(x) \/ Crash(x) PROVE OInv'
  BY <1>1, <1>5, OwnerRollback DEF Refuse, Crash
<1> QED
  BY <1>1, <1>2, <1>3, <1>4, <1>5, OwnerTick DEF Next

\* Where no time is edited, no other session of a template ever stands beside
\* one that the owner has cancelled or given away, however many requests and
\* jobs overlap and wherever they die.
THEOREM OwnerHasTheLastWord == TimesFixed => (Spec => []OwnerDecides)
<1>1. OInv => OwnerDecides
  <2> SUFFICES ASSUME OInv,
                      NEW s \in DOMAIN calendar, NEW u \in DOMAIN calendar,
                      Own(u), calendar[s].custom,
                      calendar[s].tpl = calendar[u].tpl,
                      calendar[s].day = calendar[u].day
               PROVE  FALSE
    BY DEF OwnerDecides
  <2>1. calendar[u].tpl # NoTemplate /\ ~calendar[u].custom
    BY DEF Own
  <2>2. calendar[s].slot = calendar[u].slot
    BY <2>1 DEF OInv, OwnTime
  <2>3. s = u
    BY <2>1, <2>2 DEF OInv, UniqueSlots
  <2> QED
    BY <2>1, <2>3
<1> SUFFICES ASSUME TimesFixed PROVE Spec => []OwnerDecides
  OBVIOUS
<1>2. OInv /\ [Next]_vars => OInv'
  BY NextOInv
<1> QED
  BY <1>1, <1>2, InitOInv, PTL DEF Spec

(***************************************************************************)
(* What is off stays off.  No statement of the schedule writes the status  *)
(* "scheduled" over a row, whatever it was read from.                      *)
(***************************************************************************)
OffStays == \A s \in DOMAIN calendar : calendar[s].status = "cancelled" =>
              s \in DOMAIN calendar' /\ calendar'[s].status = "cancelled"

\* Materialize keeps the rows of the calendar it starts from.
LEMMA MaterializeOff ==
    ASSUME NEW cal, NEW k, NEW t,
           DOMAIN cal = DOMAIN calendar,
           \A s \in DOMAIN calendar : cal[s].status = calendar[s].status,
           Materialize(cal, k, t)
    PROVE  OffStays
  BY MaterializeAdds DEF OffStays

LEMMA OffOwner ==
    ASSUME TypeOK, NEW x \in Workers, Owner(x)
    PROVE  OffStays
<1>1. CASE UNCHANGED calendar
  BY <1>1 DEF OffStays
<1>2. CASE CommitFill(x)
  BY <1>2, MaterializeOff DEF CommitFill
<1>3. CASE CommitPatch(x)
  <2>1. DOMAIN Realigned(tx[x]) = DOMAIN calendar
    BY DEF Realigned
  <2>2. \A s \in DOMAIN calendar : Realigned(tx[x])[s].status = calendar[s].status
    BY DEF Realigned, TypeOK, Session
  <2> QED
    BY <1>3, <2>1, <2>2, MaterializeOff DEF CommitPatch
<1>4. CASE CommitDeactivate(x)
  BY <1>4 DEF CommitDeactivate, OffStays, TypeOK, Session
<1>5. CASE CommitEdit(x)
  <2>1. \A s \in DOMAIN calendar : calendar[s].status = "cancelled" =>
          Edited(tx[x], s).status = "cancelled"
    BY <1>5 DEF CommitEdit, Edited, TypeOK, Session
  <2> QED
    BY <1>5, <2>1 DEF CommitEdit, WithEdits, OffStays
<1>6. CASE \E d \in Days, t \in Slots, c \in Coaches : CreateAdhoc(x, d, t, c)
  <2>1. PICK u \in AdhocIds \ DOMAIN calendar :
          /\ DOMAIN calendar' = DOMAIN calendar \cup {u}
          /\ \A s \in DOMAIN calendar : calendar'[s] = calendar[s]
    BY <1>6 DEF CreateAdhoc
  <2> QED
    BY <2>1 DEF OffStays
<1>7. \/ UNCHANGED calendar
      \/ CommitFill(x) \/ CommitPatch(x) \/ CommitDeactivate(x) \/ CommitEdit(x)
      \/ \E d \in Days, t \in Slots, c \in Coaches : CreateAdhoc(x, d, t, c)
  BY DEF Owner, CreateTemplate, ReadPatch, ReadDeactivate, ReadCancel, ReadSwap,
         ReadMove, ReadBulkCancel, ReadBulkSwap, Prepare
<1> QED
  BY <1>1, <1>2, <1>3, <1>4, <1>5, <1>6, <1>7

LEMMA OffStep == TypeOK /\ [Next]_vars => OffStays
<1> SUFFICES ASSUME TypeOK, [Next]_vars PROVE OffStays
  OBVIOUS
<1>1. CASE UNCHANGED calendar
  BY <1>1 DEF OffStays
<1>2. ASSUME NEW x \in Requests, Owner(x) PROVE OffStays
  BY <1>2, OffOwner DEF Workers
<1>3. ASSUME NEW x \in Jobs, NEW k \in Templates, ExtendOne(x, k)
      PROVE  OffStays
  BY <1>3, MaterializeOff DEF ExtendOne
<1>4. ASSUME NEW x \in Jobs, Job(x), ~ \E k \in Templates : ExtendOne(x, k)
      PROVE  UNCHANGED calendar
  BY <1>4 DEF Job, ReadActive, FailOne, Prepare
<1>5. Tick \/ UNCHANGED vars \/ (\E x \in Workers : Refuse(x) \/ Crash(x))
        => UNCHANGED calendar
  BY DEF Tick, vars, Refuse, Crash, Rollback
<1> QED
  BY <1>1, <1>2, <1>3, <1>4, <1>5 DEF Next

\* A cancelled class is off for good, however stale the edit, the patch or the
\* job that reaches it.
THEOREM OffForGood == Spec => CancelledStays
  BY InitType, NextType, OffStep, PTL DEF Spec, CancelledStays, OffStays

(***************************************************************************)
(* Workers that keep apart: while one PATCHes or deactivates a template,   *)
(* no other is concerned with that template or with sessions of it.        *)
(* Everything else may overlap: several edits by hand, several templates,  *)
(* the nightly job beside both.  Then the week view agrees with the        *)
(* templates and what the owner has customized is left alone.              *)
(***************************************************************************)

\* What worker y has read is of template k.
Concerned(y, k) ==
    \/ tx[y].op \in {"fill", "patch", "deactivate"} /\ tx[y].tpl = k
    \/ tx[y].op = "horizon" /\ k \in DOMAIN tx[y].rows
    \/ /\ tx[y].op \in {"cancel", "swap", "move"}
       /\ \E s \in tx[y].ids \cap DOMAIN calendar : calendar[s].tpl = k

KeepApart ==
    \A x, y \in Workers : x # y /\ tx[x].op \in {"patch", "deactivate"}
                           => ~Concerned(y, tx[x].tpl)

\* The simplest case: one transaction, or one run of the job, is over before
\* another reads.
TakeTurns == \A x, y \in Workers : tx[x] # Idle /\ tx[y] # Idle => x = y

\* Who has read nothing is concerned with nothing.
LEMMA TurnsAreApart == TakeTurns => KeepApart
  BY DEF TakeTurns, KeepApart, Concerned, Idle

\* No edit of a template changes the days it covers.  (One that does leaves
\* the sessions of the other days behind: only deactivate cancels sessions.)
CoverageFixed == Patches \cap {"weekdays", "last", "active"} = {}

\* A row that its template still decides about at time h of day d.
Owned(r, d, h) == /\ r.tpl # NoTemplate
                  /\ r.status = "scheduled"
                  /\ ~r.custom
                  /\ r.day > d \/ (r.day = d /\ r.slot >= h)

\* The template of a row is in table T, and if the row is its own, says the
\* same as the row.
Follows(r, T, d, h) == r.tpl # NoTemplate =>
    /\ r.tpl \in DOMAIN T
    /\ Owned(r, d, h) => /\ r.slot = T[r.tpl].slot
                         /\ r.coach = T[r.tpl].coach
                         /\ CoverageFixed => Covers(T[r.tpl], r.day)

AllFollow ==
    \A s \in DOMAIN calendar : Follows(calendar[s], templates, today, slot)

\* The sessions that a worker has listed are all that the template decides
\* about, and nobody has touched them since.
Listed(r) ==
    /\ r.tpl \in DOMAIN templates
    /\ r.ids \subseteq DOMAIN calendar
    /\ \A s \in DOMAIN calendar :
         /\ s \in r.ids => calendar[s].tpl = r.tpl /\ ~calendar[s].custom
         /\ Owned(calendar[s], today, slot) /\ calendar[s].tpl = r.tpl
              => s \in r.ids

\* What a worker has read is what there is.
UpToDate(r) ==
    /\ r.op = "fill" => /\ r.tpl \in DOMAIN templates
                        /\ r.row = templates[r.tpl]
    /\ r.op = "patch" =>
         /\ Listed(r)
         /\ r.row \in Patched(templates[r.tpl])
         /\ \A s \in DOMAIN calendar : s \in r.ids =>
              /\ calendar[s].day = r.day[s]
              /\ CoverageFixed => Covers(templates[r.tpl], calendar[s].day)
    /\ r.op = "deactivate" => Listed(r)
    /\ r.op = "horizon" => \A k \in DOMAIN r.rows : /\ k \in DOMAIN templates
                                                    /\ r.rows[k] = templates[k]

FInv == /\ TypeOK
        /\ AllFollow
        /\ \A x \in Workers : UpToDate(tx[x])

LEMMA IdleUpToDate == UpToDate(Idle) /\ UpToDate(Idle)'
  BY DEF UpToDate, Idle

\* A step of worker x that leaves the others with what they have read.
LEMMA StepKeepsFInv ==
    ASSUME FInv, TypeOK', NEW x \in Workers, NEW r,
           tx' = [tx EXCEPT ![x] = r], UpToDate(r)', AllFollow',
           \A y \in Workers : y # x => UpToDate(tx[y])'
    PROVE  FInv'
<1>1. tx'[x] = r /\ \A y \in Workers : y # x => tx'[y] = tx[y]
  BY DEF FInv, TypeOK
<1>2. ASSUME NEW y \in Workers PROVE UpToDate(tx[y])'
  BY <1>1
<1> QED
  BY <1>2 DEF FInv

\* What was read of tables that stay as they are is still what there is.
LEMMA ReadIsStill ==
    ASSUME NEW r, UpToDate(r), UNCHANGED <<templates, calendar, today, slot>>
    PROVE  UpToDate(r)'
<1>1. Listed(r) => Listed(r)'
  BY DEF Listed, Owned
<1>2. r.op = "fill" => r.tpl \in DOMAIN templates' /\ r.row = templates'[r.tpl]
  BY DEF UpToDate
<1>3. r.op = "patch" =>
        /\ Listed(r)'
        /\ r.row \in Patched(templates'[r.tpl])
        /\ \A s \in DOMAIN calendar' : s \in r.ids =>
             /\ calendar'[s].day = r.day[s]
             /\ CoverageFixed => Covers(templates'[r.tpl], calendar'[s].day)
  BY <1>1 DEF UpToDate
<1>4. r.op = "deactivate" => Listed(r)'
  BY <1>1 DEF UpToDate
<1>5. r.op = "horizon" => \A k \in DOMAIN r.rows : /\ k \in DOMAIN templates'
                                                  /\ r.rows[k] = templates'[k]
  BY DEF UpToDate
<1> QED
  BY <1>2, <1>3, <1>4, <1>5 DEF UpToDate

\* What was read of one template is still what there is after a step about
\* others.
LEMMA ReadOfOthersIsStill ==
    ASSUME NEW r, UpToDate(r), UNCHANGED <<today, slot>>,
           DOMAIN templates \subseteq DOMAIN templates',
           DOMAIN calendar \subseteq DOMAIN calendar',
           r.op \in {"fill", "patch", "deactivate"}
             => templates'[r.tpl] = templates[r.tpl],
           r.op = "horizon"
             => \A k \in DOMAIN r.rows : templates'[k] = templates[k],
           r.op \in {"patch", "deactivate"} =>
             /\ \A s \in DOMAIN calendar :
                  \/ calendar'[s] = calendar[s]
                  \/ /\ calendar[s].tpl # r.tpl
                     /\ calendar'[s].tpl # r.tpl
             /\ \A s \in (DOMAIN calendar') \ DOMAIN calendar :
                  calendar'[s].tpl # r.tpl
    PROVE  UpToDate(r)'
<1>1. ASSUME r.op \in {"patch", "deactivate"}, Listed(r)
      PROVE  /\ Listed(r)'
             /\ \A s \in r.ids : s \in DOMAIN calendar /\ calendar'[s] = calendar[s]
  BY <1>1 DEF Listed, Owned
<1>2. r.op = "fill" => r.tpl \in DOMAIN templates' /\ r.row = templates'[r.tpl]
  BY DEF UpToDate
<1>3. ASSUME r.op = "patch"
      PROVE  /\ Listed(r)'
             /\ r.row \in Patched(templates'[r.tpl])
             /\ \A s \in DOMAIN calendar' : s \in r.ids =>
                  /\ calendar'[s].day = r.day[s]
                  /\ CoverageFixed => Covers(templates'[r.tpl], calendar'[s].day)
  <2>1. Listed(r) /\ r.row \in Patched(templates[r.tpl])
    BY <1>3 DEF UpToDate
  <2>2. \A s \in DOMAIN calendar : s \in r.ids =>
          /\ calendar[s].day = r.day[s]
          /\ CoverageFixed => Covers(templates[r.tpl], calendar[s].day)
    BY <1>3 DEF UpToDate
  <2> QED
    BY <1>1, <1>3, <2>1, <2>2
<1>4. r.op = "deactivate" => Listed(r)'
  BY <1>1 DEF UpToDate
<1>5. r.op = "horizon" => \A k \in DOMAIN r.rows : /\ k \in DOMAIN templates'
                                                  /\ r.rows[k] = templates'[k]
  BY DEF UpToDate
<1> QED
  BY <1>2, <1>3, <1>4, <1>5 DEF UpToDate

\* A read leaves the tables alone.
LEMMA PrepareKeepsFInv ==
    ASSUME FInv, TypeOK', NEW x \in Workers, NEW r, Prepare(x, r), UpToDate(r)
    PROVE  FInv'
<1>1. tx' = [tx EXCEPT ![x] = r] /\ UNCHANGED <<templates, calendar, today, slot>>
  BY DEF Prepare
<1>2. AllFollow'
  BY <1>1 DEF FInv, AllFollow
<1>3. UpToDate(r)'
  BY <1>1, ReadIsStill
<1>4. ASSUME NEW y \in Workers, y # x PROVE UpToDate(tx[y])'
  <2>1. UpToDate(tx[y]) /\ tx'[y] = tx[y]
    BY <1>1, <1>4 DEF FInv, TypeOK
  <2> QED
    BY <1>1, <2>1, ReadIsStill
<1> QED
  BY <1>1, <1>2, <1>3, <1>4, StepKeepsFInv

\* Sessions that a template has just been materialized into follow it.
LEMMA MaterializeFollows ==
    ASSUME TypeOK, NEW cal, NEW k \in Templates, NEW t,
           DOMAIN cal = DOMAIN calendar,
           \A s \in DOMAIN cal : Follows(cal[s], templates', today', slot'),
           k \in DOMAIN templates', t = templates'[k],
           Materialize(cal, k, t)
    PROVE  AllFollow'
<1>1. ASSUME NEW s \in DOMAIN cal PROVE Follows(calendar'[s], templates', today', slot')
  <2>1. calendar'[s] = cal[s]
    BY MaterializeAdds
  <2> QED
    BY <2>1
<1>2. ASSUME NEW s \in (DOMAIN calendar') \ DOMAIN cal
      PROVE  Follows(calendar'[s], templates', today', slot')
  <2>1. PICK d \in Missing(cal, k, t) : calendar'[s] = NewSession(k, t, d)
    BY MaterializeAdds
  <2>2. Covers(t, d)
    BY DEF Missing, Dates
  <2>3. /\ calendar'[s].tpl = k /\ calendar'[s].slot = t.slot
        /\ calendar'[s].coach = t.coach /\ calendar'[s].day = d
    BY <2>1 DEF NewSession
  <2> QED
    BY <2>2, <2>3 DEF Follows
<1> QED
  BY <1>1, <1>2 DEF AllFollow

\* As time passes a row can only stop being its template's own.
LEMMA TickOwned ==
    ASSUME TypeOK, Tick, NEW r \in Session, Owned(r, today', slot')
    PROVE  Owned(r, today, slot)
<1>1. today \in Nat /\ slot \in Nat /\ r.day \in Nat /\ r.slot \in Nat
  <2>1. Days \subseteq Nat /\ Slots \subseteq Nat /\ 0 .. MaxDay \subseteq Nat
    BY TimesAssumption DEF Days
  <2>2. r.day \in Days /\ r.slot \in Slots
    BY DEF Session
  <2> QED
    BY <2>1, <2>2 DEF TypeOK
<1>2. \/ today' = today /\ slot' \in Nat /\ slot' > slot
      \/ today' = today + 1
  BY TimesAssumption DEF Tick
<1> QED
  BY <1>1, <1>2 DEF Owned

LEMMA TickKeepsFInv ==
    ASSUME FInv, TypeOK', Tick
    PROVE  FInv'
<1>1. UNCHANGED <<templates, calendar, tx>>
  BY DEF Tick
<1>2. \A s \in DOMAIN calendar : Owned(calendar[s], today', slot')
                                 => Owned(calendar[s], today, slot)
  BY TickOwned DEF FInv, TypeOK
<1>3. AllFollow'
  BY <1>1, <1>2 DEF FInv, AllFollow, Follows
<1>4. \A x \in Workers : UpToDate(tx[x])'
  <2> SUFFICES ASSUME NEW x \in Workers PROVE UpToDate(tx[x])'
    OBVIOUS
  <2>1. UpToDate(tx[x])
    BY DEF FInv
  <2>2. Listed(tx[x]) => Listed(tx[x])'
    BY <1>1, <1>2 DEF Listed
  <2>3. tx[x].op = "patch" =>
          /\ tx[x].row \in Patched(templates'[tx[x].tpl])
          /\ \A s \in DOMAIN calendar' : s \in tx[x].ids =>
               /\ calendar'[s].day = tx[x].day[s]
               /\ CoverageFixed => Covers(templates'[tx[x].tpl], calendar'[s].day)
    BY <1>1, <2>1 DEF UpToDate
  <2>4. tx[x].op = "fill" => /\ tx[x].tpl \in DOMAIN templates'
                             /\ tx[x].row = templates'[tx[x].tpl]
    BY <1>1, <2>1 DEF UpToDate
  <2>5. tx[x].op = "horizon" =>
          \A k \in DOMAIN tx[x].rows : /\ k \in DOMAIN templates'
                                        /\ tx[x].rows[k] = templates'[k]
    BY <1>1, <2>1 DEF UpToDate
  <2>6. tx[x].op \in {"patch", "deactivate"} => Listed(tx[x])'
    BY <2>1, <2>2 DEF UpToDate
  <2> QED
    BY <1>1, <2>3, <2>4, <2>5, <2>6 DEF UpToDate
<1> QED
  BY <1>3, <1>4 DEF FInv

LEMMA CreateTemplateKeepsFInv ==
    ASSUME FInv, TypeOK', NEW x \in Workers, NEW k \in Templates,
           NEW row \in NewTemplates, CreateTemplate(x, k, row)
    PROVE  FInv'
<1> DEFINE r == [op |-> "fill", tpl |-> k, row |-> row]
<1>1. /\ k \notin DOMAIN templates
      /\ DOMAIN templates' = DOMAIN templates \cup {k}
      /\ templates'[k] = row
      /\ \A l \in DOMAIN templates : templates'[l] = templates[l]
      /\ tx' = [tx EXCEPT ![x] = r]
      /\ UNCHANGED <<calendar, today, slot>>
  BY DEF CreateTemplate
<1>2. UpToDate(r)'
  BY <1>1 DEF UpToDate
<1>3. AllFollow'
  BY <1>1 DEF FInv, AllFollow, Follows
<1>4. ASSUME NEW y \in Workers, y # x PROVE UpToDate(tx[y])'
  <2>1. UpToDate(tx[y]) /\ tx'[y] = tx[y]
    BY <1>1, <1>4 DEF FInv, TypeOK
  <2>2. tx[y].op \in {"fill", "patch", "deactivate"} => tx[y].tpl \in DOMAIN templates
    BY <2>1 DEF UpToDate, Listed
  <2>3. tx[y].op = "horizon" => DOMAIN tx[y].rows \subseteq DOMAIN templates
    BY <2>1 DEF UpToDate
  <2> QED
    BY <1>1, <2>1, <2>2, <2>3, ReadOfOthersIsStill
<1> QED
  BY <1>1, <1>2, <1>3, <1>4, StepKeepsFInv

\* Filling the horizon of a template is nothing to the others: whoever
\* PATCHes or deactivates one keeps apart from this template.
LEMMA FillKeepsOthers ==
    ASSUME FInv, KeepApart, NEW x \in Workers, NEW k \in Templates,
           Concerned(x, k), tx[x].op \in {"fill", "horizon"}, NEW t,
           Materialize(calendar, k, t), UNCHANGED <<templates, today, slot>>,
           NEW y \in Workers, y # x, tx'[y] = tx[y]
    PROVE  UpToDate(tx[y])'
<1>1. UpToDate(tx[y])
  BY DEF FInv
<1>2. tx[y].op \in {"patch", "deactivate"} => tx[y].tpl # k
  BY DEF KeepApart
<1>3. /\ DOMAIN calendar \subseteq DOMAIN calendar'
      /\ \A s \in DOMAIN calendar : calendar'[s] = calendar[s]
      /\ \A s \in (DOMAIN calendar') \ DOMAIN calendar : calendar'[s].tpl = k
  BY MaterializeAdds DEF NewSession
<1> QED
  BY <1>1, <1>2, <1>3, ReadOfOthersIsStill

LEMMA CommitFillKeepsFInv ==
    ASSUME FInv, TypeOK', KeepApart, NEW x \in Workers, CommitFill(x)
    PROVE  FInv'
<1>1. tx[x].op = "fill" /\ tx[x] \in Tx /\ UpToDate(tx[x]) /\ tx[x] # Idle
  BY DEF CommitFill, FInv, TypeOK, Idle
<1>2. /\ tx[x].tpl \in Templates /\ tx[x].tpl \in DOMAIN templates
      /\ tx[x].row = templates[tx[x].tpl]
  BY <1>1 DEF Tx, Idle, UpToDate
<1>3. /\ Materialize(calendar, tx[x].tpl, tx[x].row)
      /\ tx' = [tx EXCEPT ![x] = Idle]
      /\ UNCHANGED <<templates, today, slot>>
  BY DEF CommitFill, Done
<1>4. AllFollow'
  BY <1>2, <1>3, MaterializeFollows DEF FInv, AllFollow
<1>5. \A y \in Workers : y # x => UpToDate(tx[y])'
  <2> SUFFICES ASSUME NEW y \in Workers, y # x PROVE UpToDate(tx[y])'
    OBVIOUS
  <2>1. Concerned(x, tx[x].tpl) /\ tx'[y] = tx[y]
    BY <1>1, <1>3 DEF Concerned, FInv, TypeOK
  <2> QED
    BY <1>1, <1>2, <1>3, <2>1, FillKeepsOthers
<1> QED
  BY <1>3, <1>4, <1>5, IdleUpToDate, StepKeepsFInv

\* A template lists what it decides about, and a PATCH of it is a row.
LEMMA TouchableListed ==
    ASSUME FInv, NEW k \in DOMAIN templates
    PROVE  /\ k # NoTemplate
           /\ Touchable(k) \subseteq DOMAIN calendar
           /\ \A s \in DOMAIN calendar :
                s \in Touchable(k) <=> /\ Owned(calendar[s], today, slot)
                                       /\ calendar[s].tpl = k
<1>1. k # NoTemplate
  BY NamesAssumption DEF FInv, TypeOK
<1> QED
  BY <1>1 DEF Touchable, Owned, Future

LEMMA ReadPatchKeepsFInv ==
    ASSUME FInv, TypeOK', NEW x \in Workers, NEW k \in Templates,
           ReadPatch(x, k)
    PROVE  FInv'
<1> DEFINE day == [s \in SessionIds |-> IF s \in Touchable(k)
                                        THEN calendar[s].day ELSE 0]
<1>1. PICK row \in Patched(templates[k]) :
        Prepare(x, [op |-> "patch", tpl |-> k, row |-> row, ids |-> Touchable(k),
                    day |-> day])
  BY DEF ReadPatch
<1>2. k \in DOMAIN templates
  BY DEF ReadPatch
<1>3. \A s \in Touchable(k) : s \in DOMAIN calendar /\ calendar[s].day = day[s]
  BY DEF Touchable, FInv, TypeOK
<1>4. \A s \in Touchable(k) : /\ ~calendar[s].custom
                              /\ CoverageFixed => Covers(templates[k], calendar[s].day)
  BY <1>2, <1>3, TouchableListed DEF FInv, AllFollow, Follows, Owned
<1> DEFINE r == [op |-> "patch", tpl |-> k, row |-> row, ids |-> Touchable(k),
                 day |-> day]
<1>5. /\ r.op = "patch" /\ r.tpl = k /\ r.row = row /\ r.ids = Touchable(k)
      /\ r.day = day
  OBVIOUS
<1>6. Prepare(x, r)
  BY <1>1
<1> HIDE DEF day, r
<1>7. Listed(r)
  BY <1>2, <1>4, <1>5, TouchableListed DEF Listed
<1>8. UpToDate(r)
  BY <1>3, <1>4, <1>5, <1>7 DEF UpToDate
<1> QED
  BY <1>5, <1>6, <1>8, PrepareKeepsFInv

\* Only slot, coach, days and activity of a template are patched, and with
\* CoverageFixed only the first two.
LEMMA PatchedCovers ==
    ASSUME NEW t \in Template, NEW row \in Patched(t), NEW d, CoverageFixed,
           Covers(t, d)
    PROVE  Covers(row, d)
<1>1. row.weekdays = t.weekdays /\ row.last = t.last /\ row.active = t.active
  BY DEF Patched, CoverageFixed, Template
<1> QED
  BY <1>1 DEF Covers

\* A commit about one template is nothing to those concerned with others.
LEMMA CommitKeepsOthers ==
    ASSUME FInv, KeepApart, NEW x \in Workers, tx[x].op \in {"patch", "deactivate"},
           UNCHANGED <<today, slot>>,
           DOMAIN templates' = DOMAIN templates,
           \A l \in DOMAIN templates :
              l # tx[x].tpl => templates'[l] = templates[l],
           DOMAIN calendar \subseteq DOMAIN calendar',
           \A s \in DOMAIN calendar :
              \/ calendar'[s] = calendar[s]
              \/ calendar[s].tpl = tx[x].tpl /\ calendar'[s].tpl = tx[x].tpl,
           \A s \in (DOMAIN calendar') \ DOMAIN calendar :
              calendar'[s].tpl = tx[x].tpl,
           NEW y \in Workers, y # x, tx'[y] = tx[y]
    PROVE  UpToDate(tx[y])'
<1>1. UpToDate(tx[y])
  BY DEF FInv
<1>2. ~Concerned(y, tx[x].tpl)
  BY DEF KeepApart
<1>3. tx[y].op \in {"fill", "patch", "deactivate"} =>
        tx[y].tpl \in DOMAIN templates /\ tx[y].tpl # tx[x].tpl
  BY <1>1, <1>2 DEF UpToDate, Listed, Concerned
<1>4. tx[y].op = "horizon" => \A k \in DOMAIN tx[y].rows :
        k \in DOMAIN templates /\ k # tx[x].tpl
  BY <1>1, <1>2 DEF UpToDate, Concerned
<1> QED
  BY <1>1, <1>3, <1>4, ReadOfOthersIsStill

LEMMA CommitPatchKeepsFInv ==
    ASSUME FInv, TypeOK', KeepApart, NEW x \in Workers, CommitPatch(x)
    PROVE  FInv'
<1> DEFINE r   == tx[x]
           cal == Realigned(r)
<1>1. r.op = "patch" /\ r \in Tx /\ UpToDate(r) /\ r # Idle
  BY DEF CommitPatch, FInv, TypeOK, Idle
<1>2. r.tpl \in Templates /\ r.row \in Template
  BY <1>1 DEF Tx, Idle
<1>3. /\ Listed(r)
      /\ r.tpl \in DOMAIN templates
      /\ r.row \in Patched(templates[r.tpl])
      /\ \A s \in DOMAIN calendar : s \in r.ids =>
           /\ calendar[s].day = r.day[s]
           /\ CoverageFixed => Covers(templates[r.tpl], calendar[s].day)
  BY <1>1 DEF UpToDate, Listed
<1>4. /\ templates' = [templates EXCEPT ![r.tpl] = r.row]
      /\ Materialize(cal, r.tpl, r.row)
      /\ tx' = [tx EXCEPT ![x] = Idle]
      /\ UNCHANGED <<today, slot>>
  BY DEF CommitPatch, Done
<1>5. /\ DOMAIN templates' = DOMAIN templates
      /\ templates'[r.tpl] = r.row
      /\ \A l \in DOMAIN templates : l # r.tpl => templates'[l] = templates[l]
  BY <1>3, <1>4
<1>6. /\ DOMAIN cal = DOMAIN calendar
      /\ \A s \in DOMAIN calendar : s \notin r.ids => cal[s] = calendar[s]
  BY DEF Realigned
<1>7. ASSUME NEW s \in DOMAIN calendar, s \in r.ids
      PROVE  /\ cal[s].tpl = r.tpl /\ cal[s].slot = r.row.slot
             /\ cal[s].coach = r.row.coach /\ cal[s].day = calendar[s].day
  <2>1. calendar[s] \in Session /\ calendar[s].tpl = r.tpl
    BY <1>3, <1>7 DEF FInv, TypeOK, Listed
  <2> QED
    BY <1>3, <1>7, <2>1 DEF Realigned, Session
<1>8. \A d : CoverageFixed /\ Covers(templates[r.tpl], d) => Covers(r.row, d)
  BY <1>3, PatchedCovers DEF FInv, TypeOK
<1> HIDE DEF cal, r
<1>9. ASSUME NEW s \in DOMAIN cal
      PROVE  Follows(cal[s], templates', today', slot')
  <2>1. CASE s \in r.ids
    BY <1>3, <1>5, <1>6, <1>7, <1>8, <2>1 DEF Follows
  <2>2. CASE s \notin r.ids
    <3>1. cal[s] = calendar[s] /\ Follows(calendar[s], templates, today, slot)
      BY <1>6, <2>2 DEF FInv, AllFollow
    <3>2. CASE calendar[s].tpl = r.tpl
      <4>1. ~Owned(calendar[s], today, slot)
        BY <1>3, <1>6, <2>2, <3>2 DEF Listed
      <4> QED
        BY <1>3, <1>4, <1>5, <3>1, <3>2, <4>1 DEF Follows
    <3>3. CASE calendar[s].tpl # r.tpl
      BY <1>4, <1>5, <3>1, <3>3 DEF Follows
    <3> QED
      BY <3>2, <3>3
  <2> QED
    BY <2>1, <2>2
<1>10. AllFollow'
  BY <1>2, <1>3, <1>4, <1>5, <1>6, <1>9, MaterializeFollows DEF FInv
<1>11. ASSUME NEW s \in (DOMAIN calendar') \ DOMAIN calendar
       PROVE  calendar'[s].tpl = r.tpl
  BY <1>4, <1>6, MaterializeAdds DEF NewSession
<1>12. ASSUME NEW s \in DOMAIN calendar
       PROVE  /\ s \in DOMAIN calendar'
              /\ \/ calendar'[s] = calendar[s]
                 \/ calendar[s].tpl = r.tpl /\ calendar'[s].tpl = r.tpl
  <2>1. s \in DOMAIN calendar' /\ calendar'[s] = cal[s]
    BY <1>4, <1>6, MaterializeAdds
  <2>2. CASE s \in r.ids
    BY <1>3, <1>7, <2>1, <2>2 DEF Listed
  <2>3. CASE s \notin r.ids
    BY <1>6, <2>1, <2>3
  <2> QED
    BY <2>1, <2>2, <2>3
<1>13. ASSUME NEW y \in Workers, y # x PROVE UpToDate(tx[y])'
  <2>1. tx'[y] = tx[y]
    BY <1>4, <1>13 DEF FInv, TypeOK
  <2>2. DOMAIN calendar \subseteq DOMAIN calendar'
    BY <1>12
  <2>3. r = tx[x]
    BY DEF r
  <2> QED
    BY <1>1, <1>4, <1>5, <1>11, <1>12, <1>13, <2>1, <2>2, <2>3, CommitKeepsOthers
<1> QED
  BY <1>4, <1>10, <1>13, IdleUpToDate, StepKeepsFInv

LEMMA DeactivateKeepsFInv ==
    ASSUME FInv, TypeOK', KeepApart, NEW x \in Workers,
           \/ \E k \in Templates : ReadDeactivate(x, k)
           \/ CommitDeactivate(x)
    PROVE  FInv'
<1>1. ASSUME NEW k \in Templates, ReadDeactivate(x, k) PROVE FInv'
  <2> DEFINE r == [op |-> "deactivate", tpl |-> k, ids |-> Touchable(k)]
  <2>1. k \in DOMAIN templates /\ Prepare(x, r)
    BY <1>1 DEF ReadDeactivate
  <2>2. Listed(r)
    BY <2>1, TouchableListed DEF Listed, Owned
  <2>3. UpToDate(r)
    BY <2>2 DEF UpToDate
  <2> QED
    BY <2>1, <2>3, PrepareKeepsFInv
<1>2. CASE CommitDeactivate(x)
  <2> DEFINE r == tx[x]
  <2>1. /\ r.op = "deactivate" /\ Listed(r) /\ r.tpl \in DOMAIN templates
        /\ r # Idle
    BY <1>2 DEF CommitDeactivate, FInv, UpToDate, Listed, Idle
  <2>2. /\ templates' = [templates EXCEPT ![r.tpl].active = FALSE]
        /\ DOMAIN calendar' = DOMAIN calendar
        /\ \A s \in DOMAIN calendar :
             calendar'[s] = IF s \in r.ids
                            THEN [calendar[s] EXCEPT !.status = "cancelled"]
                            ELSE calendar[s]
        /\ tx' = [tx EXCEPT ![x] = Idle]
        /\ UNCHANGED <<today, slot>>
    BY <1>2 DEF CommitDeactivate, Done
  <2>3. /\ DOMAIN templates' = DOMAIN templates
        /\ \A l \in DOMAIN templates : l # r.tpl => templates'[l] = templates[l]
    BY <2>1, <2>2
  <2>4. ASSUME NEW s \in DOMAIN calendar
        PROVE  Follows(calendar'[s], templates', today', slot')
    <3>1. calendar[s] \in Session /\ Follows(calendar[s], templates, today, slot)
      BY DEF FInv, TypeOK, AllFollow
    <3>2. CASE s \in r.ids
      <4>1. calendar'[s].tpl = calendar[s].tpl /\ calendar'[s].status = "cancelled"
        BY <2>2, <3>1, <3>2 DEF Session
      <4> QED
        BY <2>3, <3>1, <4>1 DEF Follows, Owned
    <3>3. CASE s \notin r.ids /\ calendar[s].tpl = r.tpl
      <4>1. ~Owned(calendar[s], today, slot)
        BY <2>1, <3>3 DEF Listed
      <4> QED
        BY <2>1, <2>2, <2>3, <3>3, <4>1 DEF Follows
    <3>4. CASE s \notin r.ids /\ calendar[s].tpl # r.tpl
      BY <2>2, <2>3, <3>1, <3>4 DEF Follows
    <3> QED
      BY <3>2, <3>3, <3>4
  <2>5. AllFollow'
    BY <2>2, <2>4 DEF AllFollow
  <2>6. ASSUME NEW s \in DOMAIN calendar
        PROVE  \/ calendar'[s] = calendar[s]
               \/ calendar[s].tpl = r.tpl /\ calendar'[s].tpl = r.tpl
    <3>1. calendar[s] \in Session
      BY DEF FInv, TypeOK
    <3> QED
      BY <2>1, <2>2, <3>1 DEF Listed, Session
  <2>7. ASSUME NEW y \in Workers, y # x PROVE UpToDate(tx[y])'
    <3>1. tx'[y] = tx[y]
      BY <2>2, <2>7 DEF FInv, TypeOK
    <3> QED
      BY <2>1, <2>2, <2>3, <2>6, <2>7, <3>1, CommitKeepsOthers
  <2> QED
    BY <2>2, <2>5, <2>7, IdleUpToDate, StepKeepsFInv
<1> QED
  BY <1>1, <1>2

LEMMA CreateAdhocKeepsFInv ==
    ASSUME FInv, TypeOK', NEW x \in Workers, NEW d \in Days, NEW t \in Slots,
           NEW c \in Coaches, CreateAdhoc(x, d, t, c)
    PROVE  FInv'
<1>1. PICK u \in AdhocIds \ DOMAIN calendar :
        /\ DOMAIN calendar' = DOMAIN calendar \cup {u}
        /\ calendar'[u].tpl = NoTemplate
        /\ \A s \in DOMAIN calendar : calendar'[s] = calendar[s]
  BY DEF CreateAdhoc
<1>2. UNCHANGED <<templates, tx, today, slot>>
  BY DEF CreateAdhoc
<1>3. AllFollow'
  BY <1>1, <1>2 DEF FInv, AllFollow, Follows
<1>4. ASSUME NEW y \in Workers PROVE UpToDate(tx[y])'
  <2>1. UpToDate(tx[y]) /\ tx'[y] = tx[y]
    BY <1>2 DEF FInv
  <2>2. tx[y].op \in {"patch", "deactivate"} => tx[y].tpl # NoTemplate
    BY <2>1, NamesAssumption DEF UpToDate, Listed, FInv, TypeOK
  <2> QED
    BY <1>1, <1>2, <2>1, <2>2, ReadOfOthersIsStill
<1> QED
  BY <1>3, <1>4 DEF FInv

LEMMA ReadEditKeepsFInv ==
    ASSUME FInv, TypeOK', NEW x \in Workers,
           \/ \E s \in DOMAIN calendar :
                \/ ReadCancel(x, s)
                \/ \E c \in Coaches : ReadSwap(x, s, c)
                \/ \E m \in Moves : ReadMove(x, s, m[1], m[2])
           \/ \E a, b \in Days :
                \/ ReadBulkCancel(x, a, b)
                \/ \E c \in Coaches : ReadBulkSwap(x, a, b, c)
    PROVE  FInv'
<1>1. ASSUME NEW r, r.op \in {"cancel", "swap", "move"}, Prepare(x, r)
      PROVE  FInv'
  <2>1. UpToDate(r)
    BY <1>1 DEF UpToDate
  <2> QED
    BY <1>1, <2>1, PrepareKeepsFInv
<1>2. ASSUME NEW S, Prepare(x, [op |-> "cancel", ids |-> S]) PROVE FInv'
  BY <1>1, <1>2
<1>3. ASSUME NEW S, NEW c, Prepare(x, [op |-> "swap", ids |-> S, coach |-> c])
      PROVE  FInv'
  BY <1>1, <1>3
<1>4. ASSUME NEW S, NEW d, NEW h,
             Prepare(x, [op |-> "move", ids |-> S, day |-> d, slot |-> h])
      PROVE  FInv'
  BY <1>1, <1>4
<1> QED
  BY <1>2, <1>3, <1>4
     DEF ReadCancel, ReadSwap, ReadMove, ReadBulkCancel, ReadBulkSwap

\* An edit by hand makes the row the owner's.
LEMMA EditedIsCustom ==
    ASSUME FInv, NEW r, r.op \in {"cancel", "swap", "move"},
           NEW s \in DOMAIN calendar
    PROVE  Edited(r, s).custom /\ Edited(r, s).tpl = calendar[s].tpl
  BY DEF Edited, FInv, TypeOK, Session

LEMMA CommitEditKeepsFInv ==
    ASSUME FInv, TypeOK', KeepApart, NEW x \in Workers, CommitEdit(x)
    PROVE  FInv'
<1>1. tx[x].op \in {"cancel", "swap", "move"} /\ tx[x] # Idle
  BY DEF CommitEdit, Idle
<1>2. /\ DOMAIN calendar' = DOMAIN calendar
      /\ \A s \in DOMAIN calendar :
           calendar'[s] = IF s \in tx[x].ids THEN Edited(tx[x], s) ELSE calendar[s]
      /\ tx' = [tx EXCEPT ![x] = Idle]
      /\ UNCHANGED <<templates, today, slot>>
  BY DEF CommitEdit, WithEdits, Done
<1>3. AllFollow'
  BY <1>1, <1>2, EditedIsCustom DEF FInv, AllFollow, Follows, Owned
<1>4. ASSUME NEW y \in Workers, y # x PROVE UpToDate(tx[y])'
  <2>1. UpToDate(tx[y]) /\ tx'[y] = tx[y]
    BY <1>2, <1>4 DEF FInv, TypeOK
  <2>2. ASSUME tx[y].op \in {"patch", "deactivate"}, NEW s \in DOMAIN calendar
        PROVE  \/ calendar'[s] = calendar[s]
               \/ calendar[s].tpl # tx[y].tpl /\ calendar'[s].tpl # tx[y].tpl
    <3>1. CASE s \in tx[x].ids
      <4>1. calendar[s].tpl # tx[y].tpl
        BY <1>1, <1>4, <2>2, <3>1 DEF KeepApart, Concerned
      <4> QED
        BY <1>1, <1>2, <4>1, EditedIsCustom
    <3>2. CASE s \notin tx[x].ids
      BY <1>2, <3>2
    <3> QED
      BY <3>1, <3>2
  <2> QED
    BY <1>2, <2>1, <2>2, ReadOfOthersIsStill
<1> QED
  BY <1>2, <1>3, <1>4, IdleUpToDate, StepKeepsFInv

LEMMA JobKeepsFInv ==
    ASSUME FInv, TypeOK', KeepApart, NEW x \in Workers, Job(x)
    PROVE  FInv'
<1>1. CASE ReadActive(x)
  <2> DEFINE K == {k \in DOMAIN templates : templates[k].active}
             r == [op |-> "horizon", rows |-> [k \in K |-> templates[k]]]
  <2>1. UpToDate(r)
    BY DEF UpToDate
  <2> QED
    BY <1>1, <2>1, PrepareKeepsFInv DEF ReadActive
<1>2. ASSUME NEW k \in Templates, NextTemplate(x, k), AllFollow',
             \A y \in Workers : y # x => UpToDate(tx[y])'
      PROVE  FInv'
  <2> DEFINE rest == DOMAIN tx[x].rows \ {k}
             rows == [l \in rest |-> tx[x].rows[l]]
  <2>1. /\ tx[x].op = "horizon" /\ tx[x] # Idle
        /\ k \in DOMAIN tx[x].rows
        /\ tx' = [tx EXCEPT ![x] = IF rest = {} THEN Idle
                                   ELSE [op |-> "horizon", rows |-> rows]]
        /\ templates' = templates
    BY <1>2 DEF NextTemplate, Idle
  <2>2. UpToDate([op |-> "horizon", rows |-> rows])
    BY <2>1 DEF FInv, UpToDate
  <2>3. PICK r : r = [op |-> "horizon", rows |-> rows]
    OBVIOUS
  <2>4. UpToDate(r) /\ r.op = "horizon"
    BY <2>2, <2>3
  <2>5. UpToDate(r)'
    BY <2>1, <2>4 DEF UpToDate
  <2>6. tx' = [tx EXCEPT ![x] = IF rest = {} THEN Idle ELSE r]
    BY <2>1, <2>3
  <2> HIDE DEF rest, rows
  <2>7. CASE rest = {}
    BY <1>2, <2>6, <2>7, IdleUpToDate, StepKeepsFInv
  <2>8. CASE rest # {}
    BY <1>2, <2>5, <2>6, <2>8, StepKeepsFInv
  <2> QED
    BY <2>7, <2>8
<1>3. ASSUME NEW k \in Templates, ExtendOne(x, k) PROVE FInv'
  <2>1. /\ NextTemplate(x, k) /\ Materialize(calendar, k, tx[x].rows[k])
        /\ UNCHANGED <<templates, today, slot>>
    BY <1>3 DEF ExtendOne, NextTemplate
  <2>2. k \in DOMAIN templates /\ tx[x].rows[k] = templates[k]
    BY <2>1 DEF NextTemplate, FInv, UpToDate
  <2>3. AllFollow'
    BY <2>1, <2>2, MaterializeFollows DEF FInv, AllFollow
  <2>4. ASSUME NEW y \in Workers, y # x PROVE UpToDate(tx[y])'
    <3>1. /\ tx[x].op = "horizon" /\ Concerned(x, k)
          /\ tx'[y] = tx[y]
      BY <2>1, <2>4 DEF NextTemplate, Concerned, FInv, TypeOK
    <3> QED
      BY <2>1, <2>4, <3>1, FillKeepsOthers
  <2> QED
    BY <1>2, <2>1, <2>3, <2>4
<1>4. ASSUME NEW k \in Templates, FailOne(x, k) PROVE FInv'
  <2>1. NextTemplate(x, k) /\ UNCHANGED <<templates, calendar, today, slot>>
    BY <1>4 DEF FailOne, NextTemplate
  <2>2. AllFollow'
    BY <2>1 DEF FInv, AllFollow
  <2>3. ASSUME NEW y \in Workers, y # x PROVE UpToDate(tx[y])'
    <3>1. UpToDate(tx[y]) /\ tx'[y] = tx[y]
      BY <2>1, <2>3 DEF NextTemplate, FInv, TypeOK
    <3> QED
      BY <2>1, <3>1, ReadIsStill
  <2> QED
    BY <1>2, <2>1, <2>2, <2>3
<1> QED
  BY <1>1, <1>3, <1>4 DEF Job

LEMMA RollbackKeepsFInv ==
    ASSUME FInv, TypeOK', NEW x \in Workers, Rollback(x)
    PROVE  FInv'
<1>1. /\ tx' = [tx EXCEPT ![x] = Idle]
      /\ UNCHANGED <<templates, calendar, today, slot>>
  BY DEF Rollback
<1>2. AllFollow'
  BY <1>1 DEF FInv, AllFollow
<1>3. ASSUME NEW y \in Workers, y # x PROVE UpToDate(tx[y])'
  <2>1. UpToDate(tx[y]) /\ tx'[y] = tx[y]
    BY <1>1, <1>3 DEF FInv, TypeOK
  <2> QED
    BY <1>1, <2>1, ReadIsStill
<1> QED
  BY <1>1, <1>2, <1>3, IdleUpToDate, StepKeepsFInv

LEMMA OwnerKeepsFInv ==
    ASSUME FInv, TypeOK', KeepApart, NEW x \in Workers, Owner(x)
    PROVE  FInv'
  BY CreateTemplateKeepsFInv, ReadPatchKeepsFInv, DeactivateKeepsFInv,
     CreateAdhocKeepsFInv, ReadEditKeepsFInv, CommitFillKeepsFInv,
     CommitPatchKeepsFInv, CommitEditKeepsFInv DEF Owner

LEMMA NextFInv == KeepApart /\ FInv /\ [Next]_vars => FInv'
<1> SUFFICES ASSUME KeepApart, FInv, [Next]_vars PROVE FInv'
  OBVIOUS
<1>1. TypeOK'
  BY NextType DEF FInv
<1>2. CASE UNCHANGED vars
  <2>1. UNCHANGED <<templates, calendar, tx, today, slot>>
    BY <1>2 DEF vars
  <2>2. AllFollow'
    BY <2>1 DEF FInv, AllFollow
  <2>3. ASSUME NEW x \in Workers PROVE UpToDate(tx[x])'
    BY <2>1, ReadIsStill DEF FInv
  <2> QED
    BY <1>1, <2>2, <2>3 DEF FInv
<1>3. ASSUME NEW x \in Requests, Owner(x) PROVE FInv'
  BY <1>1, <1>3, OwnerKeepsFInv DEF Workers
<1>4. ASSUME NEW x \in Jobs, Job(x) PROVE FInv'
  BY <1>1, <1>4, JobKeepsFInv DEF Workers
<1>5. ASSUME NEW x \in Workers, Refuse(x) \/ Crash(x) PROVE FInv'
  BY <1>1, <1>5, RollbackKeepsFInv DEF Refuse, Crash
<1> QED
  BY <1>1, <1>2, <1>3, <1>4, <1>5, TickKeepsFInv DEF Next

LEMMA ApartInv == Spec /\ []KeepApart => []FInv
<1>1. Init => FInv
  <2> SUFFICES ASSUME Init PROVE FInv
    OBVIOUS
  <2>1. AllFollow
    BY DEF Init, AllFollow
  <2>2. \A x \in Workers : UpToDate(tx[x])
    BY IdleUpToDate DEF Init
  <2> QED
    BY <2>1, <2>2, InitType DEF FInv
<1> QED
  BY <1>1, NextFInv, PTL DEF Spec

\* What a session is to its template in the properties and in FInv.
LEMMA OwnIsOwned ==
    ASSUME NEW s \in DOMAIN calendar, Own(s)
    PROVE  Owned(calendar[s], today, slot)
  BY DEF Own, Owned, Future

\* While workers keep apart, every session that a template decides about has
\* the time and the coach of the template, whatever is patched.
THEOREM FutureFollows == Spec /\ []KeepApart => []FutureFollowsTemplate
<1>1. FInv => FutureFollowsTemplate
  BY OwnIsOwned DEF FInv, AllFollow, Follows, Owned, FutureFollowsTemplate
<1> QED
  BY <1>1, ApartInv, PTL

\* While workers keep apart, no session is left on a day that its template
\* does not cover, unless an edit changed the days it covers.
THEOREM FutureCovered ==
    CoverageFixed => (Spec /\ []KeepApart => []FutureIsCovered)
<1> SUFFICES ASSUME CoverageFixed
             PROVE  Spec /\ []KeepApart => []FutureIsCovered
  OBVIOUS
<1>1. FInv => FutureIsCovered
  BY OwnIsOwned DEF FInv, AllFollow, Follows, Owned, FutureIsCovered
<1> QED
  BY <1>1, ApartInv, PTL

\* No step but the owner's own edit changes a session that is customized.
CustomKept == \A s \in DOMAIN calendar :
    calendar[s].custom /\ ~EditsSession(s) =>
        s \in DOMAIN calendar' /\ calendar'[s] = calendar[s]

LEMMA CustomOwner ==
    ASSUME FInv, NEW x \in Workers, Owner(x)
    PROVE  CustomKept
<1>1. CASE UNCHANGED calendar
  BY <1>1 DEF CustomKept
<1>2. CASE CommitFill(x)
  BY <1>2, MaterializeAdds DEF CommitFill, CustomKept
<1>3. CASE CommitPatch(x)
  <2>1. /\ Materialize(Realigned(tx[x]), tx[x].tpl, tx[x].row)
        /\ \A s \in DOMAIN calendar : calendar[s].custom => s \notin tx[x].ids
    BY <1>3 DEF CommitPatch, FInv, UpToDate, Listed
  <2>2. /\ DOMAIN Realigned(tx[x]) = DOMAIN calendar
        /\ \A s \in DOMAIN calendar : calendar[s].custom =>
             Realigned(tx[x])[s] = calendar[s]
    BY <2>1 DEF Realigned
  <2> QED
    BY <2>1, <2>2, MaterializeAdds DEF CustomKept
<1>4. CASE CommitDeactivate(x)
  <2>1. \A s \in DOMAIN calendar : calendar[s].custom => s \notin tx[x].ids
    BY <1>4 DEF CommitDeactivate, FInv, UpToDate, Listed
  <2> QED
    BY <1>4, <2>1 DEF CommitDeactivate, CustomKept
<1>5. CASE CommitEdit(x)
  <2>1. tx[x].op \in {"cancel", "swap", "move"} /\ tx'[x] = Idle
    BY <1>5 DEF CommitEdit, Done, FInv, TypeOK
  <2>2. \A s \in DOMAIN calendar : ~EditsSession(s) => s \notin tx[x].ids
    BY <2>1 DEF EditsSession
  <2> QED
    BY <1>5, <2>2 DEF CommitEdit, WithEdits, CustomKept
<1>6. CASE \E d \in Days, t \in Slots, c \in Coaches : CreateAdhoc(x, d, t, c)
  <2>1. PICK u \in AdhocIds \ DOMAIN calendar :
          /\ DOMAIN calendar' = DOMAIN calendar \cup {u}
          /\ \A s \in DOMAIN calendar : calendar'[s] = calendar[s]
    BY <1>6 DEF CreateAdhoc
  <2> QED
    BY <2>1 DEF CustomKept
<1>7. \/ UNCHANGED calendar
      \/ CommitFill(x) \/ CommitPatch(x) \/ CommitDeactivate(x) \/ CommitEdit(x)
      \/ \E d \in Days, t \in Slots, c \in Coaches : CreateAdhoc(x, d, t, c)
  BY DEF Owner, CreateTemplate, ReadPatch, ReadDeactivate, ReadCancel, ReadSwap,
         ReadMove, ReadBulkCancel, ReadBulkSwap, Prepare
<1> QED
  BY <1>1, <1>2, <1>3, <1>4, <1>5, <1>6, <1>7

LEMMA CustomStep == FInv /\ [Next]_vars => CustomKept
<1> SUFFICES ASSUME FInv, [Next]_vars PROVE CustomKept
  OBVIOUS
<1>1. CASE UNCHANGED calendar
  BY <1>1 DEF CustomKept
<1>2. ASSUME NEW x \in Requests, Owner(x) PROVE CustomKept
  BY <1>2, CustomOwner DEF Workers
<1>3. ASSUME NEW x \in Jobs, NEW k \in Templates, ExtendOne(x, k)
      PROVE  CustomKept
  BY <1>3, MaterializeAdds DEF ExtendOne, CustomKept
<1>4. ASSUME NEW x \in Jobs, Job(x), ~ \E k \in Templates : ExtendOne(x, k)
      PROVE  UNCHANGED calendar
  BY <1>4 DEF Job, ReadActive, FailOne, Prepare
<1>5. Tick \/ UNCHANGED vars \/ (\E x \in Workers : Refuse(x) \/ Crash(x))
        => UNCHANGED calendar
  BY DEF Tick, vars, Refuse, Crash, Rollback
<1> QED
  BY <1>1, <1>2, <1>3, <1>4, <1>5 DEF Next

\* While workers keep apart, neither an edit of the template nor the nightly
\* job touches a session that the owner has customized.
THEOREM CustomIsTheOwners == Spec /\ []KeepApart => CustomStays
  BY ApartInv, CustomStep, PTL DEF Spec, CustomStays, CustomKept

\* A single worker keeps apart from itself: all of this holds of it without a
\* condition on the behaviour.
THEOREM OneWorkerFollows ==
    ASSUME \A x, y \in Workers : x = y
    PROVE  Spec => [](FutureFollowsTemplate /\ (CoverageFixed => FutureIsCovered))
                   /\ CustomStays
<1>1. KeepApart
  BY DEF KeepApart
<1>2. CASE CoverageFixed
  BY <1>1, <1>2, FutureFollows, FutureCovered, CustomIsTheOwners, PTL
<1>3. CASE ~CoverageFixed
  BY <1>1, <1>3, FutureFollows, CustomIsTheOwners, PTL
<1> QED
  BY <1>2, <1>3

=============================================================================
