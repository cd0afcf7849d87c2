--------------------------------- MODULE Api ----------------------------------
(***************************************************************************)
(* The requests of the web application (the api.ts of each feature), with  *)
(* what the server computes their answers from and what it writes for      *)
(* them.  A fact stands for the rows of a table.                           *)
(*                                                                         *)
(* Left out: addresses, parameters and the types of the answers.           *)
(***************************************************************************)
All(requests, facts) == [r \in requests |-> facts]

\* Tables of different requests as one.
Joined(tables) ==
  [r \in UNION {DOMAIN t : t \in tables} |->
     (CHOOSE t \in tables : r \in DOMAIN t)[r]]

f \sqcup g == Joined({f, g})

MembersReads == All({"listMembers", "getMember"}, {"members"})
MembersWrites ==
  All({"createMember", "updateMember", "freezeMember", "unfreezeMember",
       "cancelMember"}, {"members"})

PlansReads  == All({"listPlans", "getPlan"}, {"plans"})
PlansWrites == All({"createPlan", "updatePlan", "deactivatePlan", "activatePlan"}, {"plans"})

\* Every operation appends an event and writes the member's status.
SubscriptionsReads ==
  All({"listSubscriptions", "getSubscription"}, {"subscriptions"})
    \sqcup All({"listSubscriptionEvents"}, {"events"})
SubscriptionsWrites ==
  All({"createSubscription", "freezeSubscription", "unfreezeSubscription",
       "renewSubscription", "changePlan", "cancelSubscription"},
      {"subscriptions", "events", "members"})

PaymentsReads ==
  All({"listPayments", "getPayment", "listMemberPayments", "getRevenueSummary"}, {"payments"})
PaymentsWrites == All({"recordPayment", "refundPayment"}, {"payments"})

ClassesReads  == All({"listClasses", "getClass"}, {"classes"})
ClassesWrites ==
  All({"createClass", "updateClass", "deactivateClass", "activateClass"}, {"classes"})

\* What a coach earned is counted from the entries and the sessions held.
CoachesReads ==
  All({"listCoaches", "getCoach"}, {"coaches"})
    \sqcup All({"listCoachesForClass", "listClassesForCoach"}, {"links"})
    \sqcup All({"getCoachEarnings", "getEarningsSummary"},
               {"coaches", "links", "entries", "sessions"})
CoachesWrites ==
  All({"createCoach", "updateCoach", "freezeCoach", "unfreezeCoach", "cancelCoach",
       "inviteCoachUser"}, {"coaches"})
    \sqcup All({"assignCoachToClass", "updateClassCoachLink", "deleteClassCoachLink"},
               {"links"})
    \sqcup All({"reassignEntryCoach"}, {"entries"})

ScheduleReads ==
  All({"listTemplates", "getTemplate"}, {"templates"})
    \sqcup All({"listSessions", "getSession"}, {"sessions"})
\* Substituting a coach in bulk may give the substitute a link of their own.
ScheduleWrites ==
  All({"createTemplate", "updateTemplate", "deactivateTemplate"}, {"templates", "sessions"})
    \sqcup All({"createAdHocSession", "updateSession", "cancelSession"}, {"sessions"})
    \sqcup All({"bulkAction"}, {"sessions", "links"})
    \sqcup All({"updateTenantFeatures"}, {"tenants"})

\* The quota and the summary of a member also rest on their plan.
AttendanceReads ==
  All({"listEntries", "listMemberEntries"}, {"entries"})
    \sqcup All({"memberSummary", "quotaCheck"}, {"entries", "subscriptions", "plans"})
AttendanceWrites == All({"recordEntry", "undoEntry"}, {"entries"})

LeadsReads ==
  All({"listLeads", "getLead", "getLeadStats", "listLostReasons"}, {"leads"})
    \sqcup All({"listActivities"}, {"activities"})
LeadsWrites ==
  All({"createLead", "updateLead", "assignLead"}, {"leads"})
    \sqcup All({"setLeadStatus"}, {"leads", "activities"})
    \sqcup All({"addActivity"}, {"activities"})
    \sqcup All({"convertLead"}, {"leads", "activities", "members", "subscriptions", "events"})

TenantsReads == All({"listTenants", "getTenant"}, {"tenants"})
                  \sqcup All({"getTenantStats"}, {"members", "headcount"})
TenantsWrites ==
  All({"createTenant", "updateTenant", "suspendTenant", "activateTenant",
       "cancelTenant"}, {"tenants"})
    \sqcup All({"uploadLogo"}, {})

UsersReads  == All({"listUsersForTenant"}, {"users"})
UsersWrites == All({"createUser", "deleteUser"}, {"users", "headcount"})
                 \sqcup All({"updateUser"}, {"users"})

DashboardReads == All({"getPlatformStats"}, {"tenants", "headcount", "members"})

Reads ==
  Joined({MembersReads, PlansReads, SubscriptionsReads, PaymentsReads, ClassesReads,
          CoachesReads, ScheduleReads, AttendanceReads, LeadsReads, TenantsReads,
          UsersReads, DashboardReads})

Writes ==
  Joined({MembersWrites, PlansWrites, SubscriptionsWrites, PaymentsWrites,
          ClassesWrites, CoachesWrites, ScheduleWrites, AttendanceWrites, LeadsWrites,
          TenantsWrites, UsersWrites})

\* The requests of the platform admin; a gym's own people make the others,
\* and nobody makes both.
PlatformRequests ==
  DOMAIN TenantsReads \cup DOMAIN TenantsWrites \cup DOMAIN UsersReads
    \cup DOMAIN UsersWrites \cup DOMAIN DashboardReads \cup {"updateTenantFeatures"}

SameSide(r, s) == r \in PlatformRequests <=> s \in PlatformRequests
=============================================================================
