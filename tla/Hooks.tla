-------------------------------- MODULE Hooks ---------------------------------
(***************************************************************************)
(* The hooks.ts of each feature: under which key the answer of a request   *)
(* is cached, which keys a mutation invalidates when it succeeds, and into *)
(* which it puts the row it was answered.                                  *)
(*                                                                         *)
(* A key is a sequence; invalidating one invalidates every key it begins.  *)
(* "id" and "filters" stand for the row and the filters of the page.       *)
(***************************************************************************)
EXTENDS Api, Sequences, SequencesExt

Mutation(requests, refreshes, sets) ==
  [r \in requests |-> [refreshes |-> refreshes, sets |-> sets]]

MembersKeys == [listMembers |-> <<"members", "filters">>, getMember |-> <<"members", "id">>]
MembersHooks ==
  LET stats == <<"tenants", "tenant", "stats">> IN
  Mutation({"createMember", "freezeMember", "unfreezeMember", "cancelMember"},
           {<<"members">>, stats}, {})
    \sqcup Mutation({"updateMember"}, {<<"members">>}, {<<"members", "id">>})

PlansKeys == [listPlans |-> <<"plans", "filters">>, getPlan |-> <<"plans", "id">>]
PlansHooks ==
  Mutation({"createPlan", "deactivatePlan", "activatePlan"}, {<<"plans">>}, {})
    \sqcup Mutation({"updatePlan"}, {<<"plans">>}, {<<"plans", "id">>})

\* The live subscription and the history of a member are lists as well.
SubscriptionsKeys ==
  [listSubscriptions |-> <<"subscriptions", "filters">>,
   getSubscription |-> <<"subscriptions", "id">>,
   listSubscriptionEvents |-> <<"subscriptions", "id", "events">>]
SubscriptionsHooks ==
  Mutation(DOMAIN SubscriptionsWrites, {<<"subscriptions">>, <<"members">>}, {})

PaymentsKeys ==
  [listPayments |-> <<"payments", "filters">>, getPayment |-> <<"payments", "id">>,
   listMemberPayments |-> <<"payments", "member", "id">>,
   getRevenueSummary |-> <<"payments", "revenue-summary">>]
PaymentsHooks == Mutation(DOMAIN PaymentsWrites, {<<"payments">>}, {})

ClassesKeys == [listClasses |-> <<"classes", "filters">>, getClass |-> <<"classes", "id">>]
ClassesHooks ==
  Mutation({"createClass", "deactivateClass", "activateClass"}, {<<"classes">>}, {})
    \sqcup Mutation({"updateClass"}, {<<"classes">>}, {<<"classes", "id">>})

CoachesKeys ==
  [listCoaches |-> <<"coaches", "filters">>, getCoach |-> <<"coaches", "id">>,
   listCoachesForClass |-> <<"class-coaches", "class">>,
   listClassesForCoach |-> <<"coaches", "id", "classes">>,
   getCoachEarnings |-> <<"coaches", "id", "earnings">>,
   getEarningsSummary |-> <<"coaches", "earnings-summary">>]
CoachesHooks ==
  Mutation({"createCoach", "freezeCoach", "unfreezeCoach", "cancelCoach"},
           {<<"coaches">>}, {})
    \sqcup Mutation({"updateCoach", "inviteCoachUser"},
                    {<<"coaches">>}, {<<"coaches", "id">>})
    \sqcup Mutation({"assignCoachToClass"},
                    {<<"class-coaches", "class">>, <<"coaches">>}, {})
    \sqcup Mutation({"updateClassCoachLink", "deleteClassCoachLink"},
                    {<<"class-coaches">>, <<"coaches">>}, {})
    \sqcup Mutation({"reassignEntryCoach"}, {<<"attendance">>}, {})

ScheduleKeys ==
  [listTemplates |-> <<"schedule-templates", "filters">>,
   getTemplate |-> <<"schedule-templates", "id">>,
   listSessions |-> <<"schedule-sessions", "range">>,
   getSession |-> <<"schedule-sessions", "id">>]
ScheduleHooks ==
  Mutation({"createTemplate", "updateTemplate", "deactivateTemplate"},
           {<<"schedule-templates">>, <<"schedule-sessions">>}, {})
    \sqcup Mutation({"createAdHocSession", "updateSession", "cancelSession", "bulkAction"},
                    {<<"schedule-sessions">>}, {})
    \sqcup Mutation({"updateTenantFeatures"}, {<<"tenants">>}, {<<"tenants", "id">>})

AttendanceKeys ==
  [listEntries |-> <<"attendance", "list">>,
   listMemberEntries |-> <<"attendance", "member">>,
   memberSummary |-> <<"attendance", "summary">>,
   quotaCheck |-> <<"attendance", "quota-check">>]
AttendanceHooks == Mutation({"recordEntry", "undoEntry"}, {<<"attendance">>}, {})

LeadsKeys ==
  [listLeads |-> <<"leads", "filters">>, getLead |-> <<"leads", "id">>,
   listActivities |-> <<"leads", "id", "activities">>,
   getLeadStats |-> <<"leads", "stats">>, listLostReasons |-> <<"leads", "lost-reasons">>]
LeadsHooks ==
  Mutation({"createLead"}, {<<"leads">>}, {})
    \sqcup Mutation({"updateLead", "setLeadStatus", "assignLead"},
                    {<<"leads">>}, {<<"leads", "id">>})
    \sqcup Mutation({"convertLead"}, {<<"leads">>, <<"members">>, <<"subscriptions">>},
                    {<<"leads", "id">>})
    \sqcup Mutation({"addActivity"}, {<<"leads", "id", "activities">>}, {})

TenantsKeys ==
  [listTenants |-> <<"tenants">>, getTenant |-> <<"tenants", "id">>,
   getTenantStats |-> <<"tenants", "id", "stats">>]
TenantsHooks ==
  Mutation({"createTenant", "updateTenant", "suspendTenant", "activateTenant",
            "cancelTenant"}, {<<"tenants">>}, {})
    \sqcup Mutation({"uploadLogo"}, {}, {})

UsersKeys == [listUsersForTenant |-> <<"tenants", "id", "users">>]
UsersHooksListOnly ==
  Mutation({"createUser", "deleteUser", "updateUser"}, {<<"tenants", "id", "users">>}, {})

UsersHooks ==
  Mutation({"createUser", "deleteUser"},
           {<<"tenants", "id", "users">>, <<"tenants", "id", "stats">>}, {})
    \sqcup Mutation({"updateUser"}, {<<"tenants", "id", "users">>}, {})

DashboardKeys == [getPlatformStats |-> <<"admin", "platform-stats">>]

Key ==
  Joined({MembersKeys, PlansKeys, SubscriptionsKeys, PaymentsKeys, ClassesKeys,
          CoachesKeys, ScheduleKeys, AttendanceKeys, LeadsKeys, TenantsKeys, UsersKeys,
          DashboardKeys})

Hook ==
  Joined({MembersHooks, PlansHooks, SubscriptionsHooks, PaymentsHooks, ClassesHooks,
          CoachesHooks, ScheduleHooks, AttendanceHooks, LeadsHooks, TenantsHooks,
          UsersHooks})

Refreshes(write, read) == \E k \in Hook[write].refreshes : IsPrefix(k, Key[read])
Sets(write, read)      == Key[read] \in Hook[write].sets
Touches(write, read)   == /\ SameSide(write, read)
                          /\ Writes[write] \cap Reads[read] # {}
=============================================================================
