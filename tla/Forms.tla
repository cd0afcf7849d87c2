-------------------------------- MODULE Forms ---------------------------------
(***************************************************************************)
(* The forms and dialogs of the web application, and what the server takes *)
(* of what they send.                                                      *)
(*                                                                         *)
(* A form has the fields it lets one change, the least length it insists   *)
(* on before it sends, the fields it trims, what it sends -                *)
(*   "all"      every field, the untouched ones as it was filled with them *)
(*   "changed"  the fields that differ from what it was filled with        *)
(*   "new"      a row or an operation of its own                           *)
(* - and what becomes of it when the answer comes: it closes or empties    *)
(* itself on success ("done"), whatever the answer ("settled"), or not at  *)
(* all ("stays").  Labels, layout, currency and date conversions are left  *)
(* out; the choices of a menu cannot be short and are not told apart.      *)
(***************************************************************************)
EXTENDS Integers, TLC

Form(does, from, fields, insists, trims, sends, ends) ==
  [does |-> does, from |-> from, fields |-> fields, insists |-> insists,
   trims |-> trims, sends |-> sends, ends |-> ends,
   resyncs |-> FALSE,      \* filled again when what it was filled from changes
   wary    |-> FALSE]      \* insists on the length of what is left after trimming

Least(fields, n) == [f \in fields |-> n]
Nothing          == Least({}, 0)

-----------------------------------------------------------------------------
(* Members, plans, classes, leads and coaches: one form to create, the same *)
(* filled once to edit.                                                     *)

MemberFields == {"first_name", "last_name", "phone", "email", "date_of_birth",
                 "gender", "join_date", "notes"}
MemberForm(does, from, sends, ends) ==
  Form(does, from, MemberFields, Least({"first_name", "last_name", "phone"}, 1),
       {}, sends, ends)

NewMember  == MemberForm("createMember", "listMembers", "new", "done")
EditMember == MemberForm("updateMember", "getMember", "all", "stays")

PlanFields == {"name", "description", "type", "price_cents", "billing_period",
               "duration_days", "entitlements"}
PlanForm(does, from, sends) ==
  Form(does, from, PlanFields,
       Least({"name", "price_cents", "duration_days"}, 1), {"name", "description"},
       sends, "done")

NewPlan  == PlanForm("createPlan", "listPlans", "new")
EditPlan == PlanForm("updatePlan", "getPlan", "all")

ClassForm(does, from, sends) ==
  Form(does, from, {"name", "description", "color"}, Least({"name"}, 1), {}, sends, "done")

NewClass  == ClassForm("createClass", "listClasses", "new")
EditClass == ClassForm("updateClass", "getClass", "all")

LeadForm(does, from, sends) ==
  Form(does, from, {"first_name", "last_name", "phone", "email", "source", "notes"},
       Least({"first_name", "last_name", "phone"}, 1),
       {"first_name", "last_name", "phone", "email", "notes"}, sends, "done")

NewLead  == LeadForm("createLead", "listLeads", "new")
EditLead == LeadForm("updateLead", "getLead", "all")

CoachForm(does, from, sends) ==
  Form(does, from, {"first_name", "last_name", "phone", "email"},
       Least({"first_name", "last_name"}, 1),
       {"first_name", "last_name", "phone", "email"}, sends, "done")

NewCoach  == CoachForm("createCoach", "listCoaches", "new")
EditCoach == CoachForm("updateCoach", "getCoach", "all")

-----------------------------------------------------------------------------
(* Leads: their notes, their loss and their conversion.                    *)

ActivityFormUntrimmed ==
  Form("addActivity", "listActivities", {"note"}, Least({"note"}, 1), {"note"},
       "new", "done")

\* The note is trimmed before it is looked at.
ActivityForm ==
  [Form("addActivity", "listActivities", {"note"}, Least({"note"}, 1), {"note"},
        "new", "done") EXCEPT !.wary = TRUE]
LostReasonDialog == Form("setLeadStatus", "getLead", {"lost_reason"}, Nothing,
                         {"lost_reason"}, "new", "settled")
ConvertLeadDialog ==
  Form("convertLead", "getLead",
       {"plan_id", "start_date", "payment_method", "copy_notes_to_member"},
       Least({"plan_id"}, 1), {}, "new", "done")

-----------------------------------------------------------------------------
(* Coaches: their classes and their login.                                 *)

\* An empty role becomes the default one.
AssignCoachForm ==
  Form("assignCoachToClass", "listCoachesForClass",
       {"coach_id", "is_primary", "pay_model", "pay_amount_cents", "weekdays"},
       Least({"coach_id"}, 1), {}, "new", "done")
InviteLoginSection ==
  Form("inviteCoachUser", "getCoach", {"email", "password"},
       [email |-> 3, password |-> 8], {}, "new", "done")

-----------------------------------------------------------------------------
(* Gyms and their users.                                                   *)

TenantFields ==
  {"name", "slug", "logo_url", "phone", "email", "website", "address_street",
   "address_city", "address_country", "address_postal_code", "legal_name",
   "tax_id", "timezone", "currency", "locale"}
TenantForm(does, from, sends) ==
  Form(does, from, TenantFields, Least({"name", "slug"}, 1), {}, sends, "done")

NewTenant  == TenantForm("createTenant", "listTenants", "new")
EditTenant == TenantForm("updateTenant", "getTenant", "all")

\* Only the toggled features are sent; the toggles are forgotten whenever
\* the features of the gym, fetched again, are not what they were.
TenantFeatures ==
  [Form("updateTenantFeatures", "getTenant", {"coaches", "schedule", "leads"},
        Nothing, {}, "changed", "stays") EXCEPT !.resyncs = TRUE]

CreateUserForm ==
  Form("createUser", "listUsersForTenant",
       {"first_name", "last_name", "email", "phone", "password", "role"},
       [email |-> 3, password |-> 8], {}, "new", "done")

\* Compared with the row as it was when the dialog opened.
EditUserDialog ==
  Form("updateUser", "listUsersForTenant",
       {"first_name", "last_name", "email", "phone", "role", "is_active", "password"},
       [email |-> 3, password |-> 8], {}, "changed", "done")

-----------------------------------------------------------------------------
(* The schedule.                                                           *)

TemplateDialog ==
  Form("createTemplate", "listTemplates",
       {"class_id", "weekdays", "start_time", "end_time", "head_coach_id",
        "assistant_coach_id"},
       Least({"class_id", "weekdays", "start_time", "end_time", "head_coach_id"}, 1),
       {}, "new", "done")
AdHocSessionDialog ==
  Form("createAdHocSession", "listSessions",
       {"class_id", "starts_at", "ends_at", "head_coach_id", "notes"},
       Least({"class_id", "starts_at", "ends_at"}, 1), {}, "new", "done")
BulkActionDialog ==
  Form("bulkAction", "listSessions",
       {"class_id", "from", "to", "action", "new_coach_id", "reason",
        "substitute_pay_model", "substitute_pay_amount_cents"},
       Least({"class_id", "from", "to", "new_coach_id"}, 1), {}, "new", "done")
SessionSwap == Form("updateSession", "listSessions", {"head_coach_id"},
                    Least({"head_coach_id"}, 1), {}, "new", "done")
SessionCancel == Form("cancelSession", "listSessions", {"reason"}, Nothing, {},
                      "new", "done")

-----------------------------------------------------------------------------
(* Subscriptions and payments.                                             *)

EnrollDialog ==
  Form("createSubscription", "listSubscriptions",
       {"plan_id", "started_at", "expires_at", "payment_method", "payment_method_detail"},
       Least({"plan_id", "payment_method_detail"}, 1), {"payment_method_detail"},
       "new", "done")
FreezeDialog == Form("freezeSubscription", "listSubscriptions", {"frozen_until"},
                     Nothing, {}, "new", "done")
RenewDialog ==
  Form("renewSubscription", "listSubscriptions",
       {"new_expires_at", "new_payment_method", "new_payment_method_detail"},
       Nothing, {"new_payment_method_detail"}, "new", "done")
ChangePlanDialog ==
  Form("changePlan", "listSubscriptions", {"new_plan_id", "effective_date"},
       Least({"new_plan_id"}, 1), {}, "new", "done")
CancelDialog == Form("cancelSubscription", "listSubscriptions", {"reason", "detail"},
                     Nothing, {}, "new", "done")

\* The defaults are those of the subscription on the page, put in again
\* whenever the page around the dialog is drawn again.
RecordPaymentDialog ==
  [Form("recordPayment", "listMemberPayments",
        {"amount_cents", "payment_method", "paid_at", "subscription_id", "notes"},
        Least({"amount_cents", "paid_at"}, 1), {"notes"}, "new", "done")
     EXCEPT !.resyncs = TRUE]
RefundPaymentDialog ==
  Form("refundPayment", "listPayments", {"amount_cents", "reason"},
       Least({"amount_cents"}, 1), {"reason"}, "new", "done")

NoForm == Form("", "", {"press"}, Nothing, {}, "new", "stays")

Forms ==
  [none |-> NoForm, newMember |-> NewMember, editMember |-> EditMember, newPlan |-> NewPlan,
   editPlan |-> EditPlan, newClass |-> NewClass, editClass |-> EditClass,
   newLead |-> NewLead, editLead |-> EditLead, newCoach |-> NewCoach,
   editCoach |-> EditCoach, activityForm |-> ActivityForm,
   lostReasonDialog |-> LostReasonDialog,
   convertLeadDialog |-> ConvertLeadDialog,
   assignCoachForm |-> AssignCoachForm,
   inviteLoginSection |-> InviteLoginSection, newTenant |-> NewTenant,
   editTenant |-> EditTenant, tenantFeatures |-> TenantFeatures,
   createUserForm |-> CreateUserForm, editUserDialog |-> EditUserDialog,
   templateDialog |-> TemplateDialog,
   adHocSessionDialog |-> AdHocSessionDialog,
   bulkActionDialog |-> BulkActionDialog, sessionSwap |-> SessionSwap,
   sessionCancel |-> SessionCancel, enrollDialog |-> EnrollDialog,
   freezeDialog |-> FreezeDialog, renewDialog |-> RenewDialog,
   changePlanDialog |-> ChangePlanDialog, cancelDialog |-> CancelDialog,
   recordPaymentDialog |-> RecordPaymentDialog,
   refundPaymentDialog |-> RefundPaymentDialog]

-----------------------------------------------------------------------------
(* What the server takes: the fields no request may leave shorter, and the *)
(* fields a form shows that the schema of its request does not know, which *)
(* are dropped without a word.                                             *)

Shortest ==
  [createMember |-> [first_name |-> 1, last_name |-> 1, phone |-> 3],
   updateMember |-> [first_name |-> 1, last_name |-> 1, phone |-> 3],
   createPlan |-> [name |-> 1], updatePlan |-> [name |-> 1],
   createClass |-> [name |-> 1], updateClass |-> [name |-> 1],
   createLead |-> [first_name |-> 1, last_name |-> 1, phone |-> 1],
   updateLead |-> [first_name |-> 1, last_name |-> 1, phone |-> 1],
   addActivity |-> [note |-> 1],
   createCoach |-> [first_name |-> 1, last_name |-> 1],
   updateCoach |-> [first_name |-> 1, last_name |-> 1],
   inviteCoachUser |-> [email |-> 3, password |-> 8],
   createTenant |-> [slug |-> 2, name |-> 1],
   createUser |-> [email |-> 3, password |-> 8],
   updateUser |-> [email |-> 3, password |-> 8],
   createTemplate |-> [class_id |-> 1, weekdays |-> 1, head_coach_id |-> 1]]

Unknown == [updateMember |-> {"join_date"}, updateTenant |-> {"slug"}]
=============================================================================
