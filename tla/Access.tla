-------------------------------- MODULE Access --------------------------------
(***************************************************************************)
(* Who may see which page of the web application: the role baselines and   *)
(* the per-gym feature flags of permissions.ts, the route table of App.tsx *)
(* with its two guards, and the links that lead from page to page.         *)
(*                                                                         *)
(* A user is what /auth/me says: a role and the gated features the gym has *)
(* switched on.  The overrides argument of canAccess is left out: no call  *)
(* passes one, and its default grants nothing.                             *)
(***************************************************************************)

Roles == {"super_admin", "owner", "staff", "sales", "coach"}

Features == {"dashboard", "tenants", "members", "classes", "plans", "attendance",
             "coaches", "schedule", "leads", "payments", "reports", "settings"}

Gated == {"coaches", "schedule", "leads"}

Baseline ==
  [super_admin |-> {"dashboard", "tenants"},
   owner |-> Features \ {"tenants"},
   staff |-> {"dashboard", "members", "classes", "attendance", "leads", "payments"},
   sales |-> {"dashboard", "members", "classes", "leads", "payments"},
   coach |-> {"dashboard", "classes", "attendance", "coaches", "schedule"}]

NoUser == [role |-> "nobody", flags |-> {}]
Users  == [role : Roles, flags : SUBSET Gated]

CanAccess(user, feature) == /\ user # NoUser
                            /\ feature \in Gated => feature \in user.flags
                            /\ feature \in Baseline[user.role]

-----------------------------------------------------------------------------
(* Pages: the routes of App.tsx, each behind the feature it requires.      *)

PageFeature ==
  [dashboard |-> "dashboard", tenants |-> "tenants", tenant |-> "tenants",
   members |-> "members", member |-> "members",
   classes |-> "classes", class |-> "classes",
   plans |-> "plans", plan |-> "plans", checkin |-> "attendance",
   coaches |-> "coaches", coach |-> "coaches", schedule |-> "schedule",
   leads |-> "leads", lead |-> "leads", payments |-> "payments"]

OpenPages      == {"landing", "login"}
ProtectedPages == DOMAIN PageFeature
Pages          == OpenPages \cup ProtectedPages

\* What ProtectedRoute demands of every protected page.
SignedIn(user) == user # NoUser

\* RequireFeature; the dashboard has no such guard.
Admits(user, page) == page = "dashboard" \/ CanAccess(user, PageFeature[page])

LandingSignedIn(user, loading, page) ==
  IF page \in OpenPages \/ loading \/ SignedIn(user) THEN page ELSE "login"

\* The page on screen once the guards have redirected.  While the session
\* is loading the guards show a spinner and the address does not change.
Landing(user, loading, page) ==
  IF page \in OpenPages \/ loading THEN page
  ELSE IF ~SignedIn(user) THEN "login"
  ELSE IF Admits(user, page) THEN page ELSE "dashboard"

-----------------------------------------------------------------------------
(* Ways from page to page.                                                 *)

NavPages == {"dashboard", "tenants", "members", "checkin", "classes", "plans",
             "coaches", "schedule", "leads", "payments"}

NavLinks(user) == {p \in NavPages : CanAccess(user, PageFeature[p])}

\* The gym dashboard shows its three shortcuts to every role.
QuickActions(user, page) ==
  IF page = "dashboard" /\ user.role # "super_admin"
  THEN {"members", "payments", "leads"} ELSE {}

\* A click on a row of a list opens the page of that row; a coach's page
\* leads to the classes of the coach, a converted lead's to the member.
PageLinks ==
  [tenants |-> {"tenant"}, members |-> {"member"}, classes |-> {"class"},
   plans |-> {"plan"}, coaches |-> {"coach"}, leads |-> {"lead"},
   coach |-> {"class"}, lead |-> {"member"}]

Links(user, page) ==
  NavLinks(user) \cup QuickActions(user, page)
    \cup UNION {PageLinks[p] : p \in {page} \cap DOMAIN PageLinks}
=============================================================================
