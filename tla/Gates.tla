-------------------------------- MODULE Gates ---------------------------------
(***************************************************************************)
(* What the services let a caller do to one row: for each kind of row, the *)
(* operations with the roles they are open to, the statuses they start     *)
(* from, the status they leave and the code of the refusal otherwise,      *)
(* "NONE" where no status is refused.                                      *)
(*                                                                         *)
(* Left out: the values written besides the status, and the refusals that  *)
(* depend on them, which Editor and FrontDesk have.                        *)
(***************************************************************************)
EXTENDS Access

Gate(ops, who, from, to, code) ==
  [op : ops, who : {who}, from : {from}, to : {to}, code : {code}]

\* A super_admin belongs to no gym: what needs the caller's gym refuses one.
Gym        == Roles \ {"super_admin"}
Owners     == {"owner", "super_admin"}
Staffs     == Owners \cup {"staff"}
GymOwners  == Owners \cap Gym
LeadWriters == GymOwners \cup {"sales"}

Statuses ==
  [member   |-> {"active", "frozen", "expired", "cancelled"},
   sub      |-> {"none", "active", "frozen", "expired", "cancelled"},
   plan     |-> {"active", "inactive"},
   class    |-> {"active", "inactive"},
   link     |-> {"current", "removed"},
   coach    |-> {"active", "frozen", "cancelled"},
   login    |-> {"unlinked", "linked"},
   lead     |-> {"new", "contacted", "trial", "converted", "lost"},
   payment  |-> {"whole", "partly", "refunded", "refund"},
   template |-> {"active", "inactive"},
   session  |-> {"scheduled", "cancelled"},
   tenant   |-> {"trial", "active", "suspended", "cancelled"},
   entry    |-> {"recent", "old", "undone"}]

Kinds == DOMAIN Statuses

AnyStatus(kind) == Statuses[kind]

MemberGates ==
  LET no == "MEMBER_INVALID_TRANSITION" IN
  Gate({"freeze"}, Roles, {"active"}, "frozen", no)
    \cup Gate({"unfreeze"}, Roles, {"frozen"}, "active", no)
    \cup Gate({"cancel"}, Owners, AnyStatus("member") \ {"cancelled"}, "cancelled", no)

\* A member's latest subscription: changing the plan leaves a new active
\* one.  A frozen one passes the guards of cancel and changePlan and is then
\* refused by the shape the table demands of a frozen row.
SubGates ==
  LET no == "SUBSCRIPTION_INVALID_TRANSITION" IN
  Gate({"freeze"}, Staffs, {"active"}, "frozen", no)
    \cup Gate({"unfreeze"}, Staffs, {"frozen"}, "active", no)
    \cup Gate({"renew"}, Staffs, {"active", "expired"}, "active", no)
    \cup Gate({"changePlan"}, Staffs, {"active"}, "active", no)
    \cup Gate({"cancel"}, Staffs, {"active", "expired"}, "cancelled", no)
    \cup Gate({"enroll"}, Staffs \cap Gym, {"none", "expired", "cancelled"}, "active",
              "MEMBER_HAS_ACTIVE_SUBSCRIPTION")

PlanGates == Gate({"deactivate"}, Owners, AnyStatus("plan"), "inactive", "NONE")
               \cup Gate({"activate"}, Owners, AnyStatus("plan"), "active", "NONE")

ClassGates == Gate({"deactivate"}, Owners, AnyStatus("class"), "inactive", "NONE")
                \cup Gate({"activate"}, Owners, AnyStatus("class"), "active", "NONE")
                \cup Gate({"save"}, Owners, AnyStatus("class"), "same", "NONE")

\* Removing a link deletes its row.
LinkGates ==
  Gate({"remove"}, GymOwners, {"current"}, "removed", "CLASS_COACH_LINK_NOT_FOUND")

CoachGatesUnfreezeAny ==
  Gate({"freeze"}, GymOwners, {"active"}, "frozen", "COACH_STATUS_TRANSITION")
    \cup Gate({"unfreeze"}, GymOwners, {"frozen", "cancelled"}, "active",
              "COACH_STATUS_TRANSITION")
    \cup Gate({"cancel"}, GymOwners, {"active", "frozen"}, "cancelled",
              "COACH_STATUS_TRANSITION")
    \cup Gate({"save"}, GymOwners, AnyStatus("coach"), "same", "NONE")

CoachGates ==
  LET no == "COACH_STATUS_TRANSITION" IN
  Gate({"freeze"}, GymOwners, {"active"}, "frozen", no)
    \cup Gate({"unfreeze"}, GymOwners, {"frozen"}, "active", no)
    \cup Gate({"cancel"}, GymOwners, {"active", "frozen"}, "cancelled", no)
    \cup Gate({"save"}, GymOwners, AnyStatus("coach"), "same", "NONE")

LoginGates ==
  Gate({"invite"}, GymOwners, {"unlinked"}, "linked", "COACH_ALREADY_LINKED")

\* set_status by its target; only a converted lead cannot be converted.
LeadGates ==
  LET no == "INVALID_LEAD_STATUS_TRANSITION" IN
  Gate({"new"}, LeadWriters, {}, "new", no)
    \cup Gate({"contacted"}, LeadWriters, {"new", "trial", "lost"}, "contacted", no)
    \cup Gate({"trial"}, LeadWriters, {"new", "contacted"}, "trial", no)
    \cup Gate({"lost"}, LeadWriters, {"new", "contacted", "trial"}, "lost", no)
    \cup Gate({"save", "note"}, LeadWriters, AnyStatus("lead"), "same", "NONE")
    \cup Gate({"convert"}, LeadWriters, AnyStatus("lead") \ {"converted"}, "converted",
              "LEAD_ALREADY_CONVERTED")

PaymentGates ==
  LET no == "PAYMENT_ALREADY_FULLY_REFUNDED" IN
  Gate({"refundAll"}, GymOwners, {"whole", "partly"}, "refunded", no)
    \cup Gate({"refundPart"}, GymOwners, {"whole", "partly"}, "partly", no)

TemplateGates ==
  Gate({"deactivate"}, GymOwners, AnyStatus("template"), "inactive", "NONE")

SessionGates ==
  LET no == "SCHEDULE_SESSION_TRANSITION" IN
  Gate({"swap"}, GymOwners, {"scheduled"}, "same", no)
    \cup Gate({"cancel"}, GymOwners, {"scheduled"}, "cancelled", no)

TenantGates ==
  LET admin == {"super_admin"} IN
  Gate({"suspend"}, admin, AnyStatus("tenant"), "suspended", "NONE")
    \cup Gate({"activate"}, admin, AnyStatus("tenant"), "active", "NONE")
    \cup Gate({"cancel"}, admin, AnyStatus("tenant"), "cancelled", "NONE")

EntryGates ==
  Gate({"undo"}, Staffs \cap Gym, {"recent"}, "undone", "ATTENDANCE_ALREADY_UNDONE")

Gates ==
  [member |-> MemberGates, sub |-> SubGates, plan |-> PlanGates,
   class |-> ClassGates, link |-> LinkGates, coach |-> CoachGates,
   login |-> LoginGates, lead |-> LeadGates, payment |-> PaymentGates,
   template |-> TemplateGates, session |-> SessionGates,
   tenant |-> TenantGates, entry |-> EntryGates]

\* The feature a service checks before anything else.
GatedBy(kind) == CASE kind = "lead" -> {"leads"}
                   [] kind \in {"template", "session"} -> {"schedule"}
                   [] OTHER -> {}

Ops(kind) == {g.op : g \in Gates[kind]}

GateOf(kind, op) == CHOOSE g \in Gates[kind] : g.op = op

\* The code of the refusal, or "ok"; the order of the checks is the code's.
Refusal(kind, op, user, status) ==
  LET g == GateOf(kind, op) IN
  IF user = NoUser THEN "NOT_AUTHENTICATED"
  ELSE IF ~ GatedBy(kind) \subseteq user.flags THEN "FEATURE_DISABLED"
  ELSE IF user.role \notin g.who THEN "INSUFFICIENT_PERMISSIONS"
  ELSE CASE status \in g.from -> "ok"
         [] kind = "sub" /\ status = "frozen" /\ op \in {"cancel", "changePlan"} -> "INTERNAL"
         [] kind = "payment" /\ status = "refund" -> "PAYMENT_AMOUNT_INVALID"
         [] kind = "entry" /\ status = "old" -> "ATTENDANCE_UNDO_WINDOW_EXPIRED"
         [] OTHER -> g.code

After(kind, op, status) == LET to == GateOf(kind, op).to IN
                           IF to = "same" THEN status ELSE to
=============================================================================
