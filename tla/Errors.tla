------------------------------- MODULE Errors ---------------------------------
(***************************************************************************)
(* From a refusal of the backend to the sentence the user reads: the code  *)
(* becomes a status and a message, of which the API client keeps only the  *)
(* status and the message, and the humanizer of the feature looks for      *)
(* phrases in that message.                                                *)
(*                                                                         *)
(* A message is the set of the phrases some humanizer looks for that occur *)
(* in it; a sentence is named for what it says.  A blank is written "_".   *)
(***************************************************************************)
EXTENDS Sequences, SequencesExt, Integers

Status(code) ==
  CASE code = "NETWORK" -> 0
    [] code \in {"NOT_AUTHENTICATED", "INVALID_CREDENTIALS"} -> 401
    [] code \in {"INSUFFICIENT_PERMISSIONS", "FEATURE_DISABLED", "TENANT_SUSPENDED"} -> 403
    [] code \in {"USER_NOT_FOUND", "TENANT_NOT_FOUND", "MEMBER_NOT_FOUND",
                 "CLASS_NOT_FOUND", "PLAN_NOT_FOUND", "SUBSCRIPTION_NOT_FOUND",
                 "CLASS_ENTRY_NOT_FOUND", "COACH_NOT_FOUND", "CLASS_COACH_LINK_NOT_FOUND",
                 "SCHEDULE_TEMPLATE_NOT_FOUND", "SCHEDULE_SESSION_NOT_FOUND",
                 "LEAD_NOT_FOUND", "PAYMENT_NOT_FOUND"} -> 404
    [] code \in {"PLAN_INVALID_SHAPE", "SUBSCRIPTION_PLAN_TENANT_MISMATCH",
                 "COACH_INVALID_PAY_MODEL", "COACH_INVALID_EARNINGS_RANGE",
                 "SCHEDULE_INVALID_BULK_RANGE", "PAYMENT_AMOUNT_INVALID"} -> 422
    [] code = "INTERNAL" -> 500
    [] OTHER -> 409

\* The detail of the response.  The code goes in another field, "error",
\* which the API client does not read; it is in no message.
Detail(code) ==
  CASE code \in {"MEMBER_ALREADY_EXISTS", "PLAN_ALREADY_EXISTS"} -> {"already", "already_exists"}
    [] code \in {"MEMBER_INVALID_TRANSITION", "SUBSCRIPTION_INVALID_TRANSITION",
                 "COACH_STATUS_TRANSITION", "INVALID_LEAD_STATUS_TRANSITION",
                 "SCHEDULE_SESSION_TRANSITION"} -> {"cannot_"}
    [] code \in {"MEMBER_HAS_ACTIVE_SUBSCRIPTION", "LEAD_ALREADY_CONVERTED",
                 "COACH_ALREADY_LINKED", "PAYMENT_ALREADY_FULLY_REFUNDED"} -> {"already"}
    [] code = "MEMBER_NO_ACTIVE_SUBSCRIPTION" -> {"no_active_subscription"}
    [] code = "ATTENDANCE_UNDO_WINDOW_EXPIRED" -> {"undo_window"}
    [] code = "ATTENDANCE_ALREADY_UNDONE" -> {"already", "already_undone"}
    [] code = "ATTENDANCE_QUOTA_EXCEEDED" -> {"quota_exceeded"}
    [] code = "ATTENDANCE_CLASS_NOT_COVERED" -> {"not_covered"}
    [] OTHER -> {}

-----------------------------------------------------------------------------
(* The humanizers: rules tried in order, then the generic sentence.        *)

Rule(status, phrase, says) == [status |-> status, phrase |-> phrase, says |-> says]
Anything == "any_message"

Fits(rule, status, detail) ==
  rule.status = status /\ (rule.phrase = Anything \/ rule.phrase \in detail)

genericMessage(status) ==
  CASE status = 0 -> "no_connection" [] status = 401 -> "sign_in_again"
    [] status = 403 -> "not_allowed" [] status = 404 -> "not_found"
    [] status = 409 -> "already_exists" [] status = 422 -> "check_the_details"
    [] OTHER -> "system_error"

Humanize(rules, code) ==
  LET hits == {i \in DOMAIN rules : Fits(rules[i], Status(code), Detail(code))}
  IN IF hits = {} THEN genericMessage(Status(code))
     ELSE rules[CHOOSE i \in hits : \A j \in hits : i <= j].says

LoginRules ==
  <<Rule(401, Anything, "wrong_password"), Rule(403, Anything, "suspended")>>

TenantRules == <<Rule(409, Anything, "slug_taken"),
                 Rule(422, "slug_invalid_format", "bad_slug")>>

MemberRules ==
  <<Rule(404, Anything, "not_found"), Rule(409, "already_exists", "phone_taken"),
    Rule(409, "cannot_", "not_in_this_status"), Rule(409, Anything, "check_for_repeats")>>

ClassRules == <<Rule(403, Anything, "only_owners"), Rule(404, Anything, "not_found"),
                Rule(409, Anything, "name_taken")>>

AttendanceRules ==
  <<Rule(409, "no_active_subscription", "no_subscription"),
    Rule(409, "undo_window", "too_late_to_undo"),
    Rule(409, "already_undone", "undone_before"),
    Rule(409, "quota_exceeded", "quota_used_up"),
    Rule(409, "not_covered", "not_in_the_plan"), Rule(409, Anything, "not_possible")>>

SubscriptionRulesStatusFirst ==
  <<Rule(404, Anything, "not_found"), Rule(409, Anything, "not_in_this_status")>>

SubscriptionRules ==
  <<Rule(404, Anything, "not_found"), Rule(409, "already", "has_a_subscription"),
    Rule(409, "same_plan", "choose_another_plan"),
    Rule(409, Anything, "not_in_this_status")>>

PlanRules == <<Rule(403, Anything, "only_owners"), Rule(404, Anything, "not_found"),
               Rule(409, Anything, "name_taken")>>

UserRules == <<Rule(409, Anything, "email_taken")>>

UploadRules == <<Rule(413, Anything, "too_large"), Rule(415, Anything, "wrong_type")>>

ScheduleRules ==
  <<Rule(403, "FEATURE_DISABLED", "feature_off"), Rule(404, Anything, "not_found"),
    Rule(409, "SESSION_TRANSITION", "not_in_this_status"),
    Rule(409, Anything, "not_possible"),
    Rule(422, "INVALID_BULK_RANGE", "bad_range")>>

LeadRules ==
  <<Rule(403, "FEATURE_DISABLED", "feature_off"),
    Rule(404, "PLAN_NOT_FOUND", "no_such_plan"), Rule(404, Anything, "no_such_lead"),
    Rule(409, "LEAD_ALREADY_CONVERTED", "converted_before"),
    Rule(409, "INVALID_LEAD_STATUS_TRANSITION", "not_in_this_status"),
    Rule(409, "MEMBER_ALREADY_EXISTS", "phone_taken"),
    Rule(422, "SUBSCRIPTION_PLAN_TENANT_MISMATCH", "plan_of_another_gym")>>

PaymentRules ==
  <<Rule(404, Anything, "not_found"),
    Rule(409, "PAYMENT_REFUND_EXCEEDS_ORIGINAL", "more_than_is_left"),
    Rule(409, "PAYMENT_ALREADY_FULLY_REFUNDED", "refunded_before"),
    Rule(422, "PAYMENT_AMOUNT_INVALID", "bad_amount")>>

CoachRules ==
  <<Rule(404, Anything, "not_found"),
    Rule(409, "COACH_ALREADY_LINKED", "has_a_login"),
    Rule(409, "CLASS_COACH_CONFLICT", "role_taken"),
    Rule(409, Anything, "not_in_this_status"),
    Rule(422, "EARNINGS_RANGE", "bad_range")>>
=============================================================================
