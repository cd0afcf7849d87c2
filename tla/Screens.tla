------------------------------- MODULE Screens --------------------------------
(***************************************************************************)
(* What the pages offer to do to a row: for each page or section, the      *)
(* operations it has a control for, given the user and the status the page *)
(* last fetched.  The operations are those of Gates.                       *)
(*                                                                         *)
(* Some controls act at once; most open a dialog that confirms or asks for *)
(* details and then acts, whatever the row has become.  Filters, badges,   *)
(* empty states and the columns of the tables are left out.                *)
(***************************************************************************)
EXTENDS Gates

When(condition, ops) == IF condition THEN ops ELSE {}

IsOwner(user) == user.role \in Owners

-----------------------------------------------------------------------------
(* The lists: a menu of row actions, hidden by role and status.            *)

\* Any role that sees the members may freeze one; the service agrees.
MemberRow(user, s) ==
  When(s = "active", {"freeze"})
    \cup When(s = "frozen", {"unfreeze"})
    \cup When(IsOwner(user) /\ s # "cancelled", {"cancel"})

PlanRow(user, s) ==
  When(IsOwner(user), IF s = "active" THEN {"deactivate"} ELSE {"activate"})

ClassRow(user, s) ==
  When(IsOwner(user), IF s = "active" THEN {"deactivate"} ELSE {"activate"})

CoachRow(user, s) ==
  When(IsOwner(user),
       When(s = "active", {"freeze"}) \cup When(s = "frozen", {"unfreeze"})
         \cup When(s # "cancelled", {"cancel"}))

\* The page asks for no role: only platform admins reach it.
TenantRow(s) ==
  When(s # "active", {"activate"})
    \cup When(s \in {"active", "trial"}, {"suspend"})
    \cup When(s # "cancelled", {"cancel"})

-----------------------------------------------------------------------------
(* The details.                                                            *)

\* The page asks for no role: whoever may see classes may press save.
ClassDetail(user) == {"save"}

\* A link that was removed is not in the list.
ClassCoaches(user, s) == When(IsOwner(user) /\ s = "current", {"remove"})

CoachDetail(user) == When(IsOwner(user), {"save"})

InviteLogin(user, s) == When(IsOwner(user) /\ s = "unlinked", {"invite"})

SubCard(s) ==
  When(s = "active", {"freeze"})
    \cup When(s = "frozen", {"unfreeze"})
    \cup When(s \in {"active", "expired"}, {"renew"})
    \cup When(s \in {"active", "frozen"}, {"changePlan"})
    \cup When(s \notin {"cancelled", "replaced"}, {"cancel"})

\* The current subscription is the live one, so an expired one is never on
\* the card: its member is offered a new subscription instead.
IsLive(s) == s \in {"active", "frozen"}

MemberSubscription(user, s) ==
  When(user.role \in Staffs, IF IsLive(s) THEN SubCard(s) ELSE {"enroll"})

PaymentRow(user, s) ==
  When(IsOwner(user) /\ s \notin {"refund", "refunded"}, {"refundAll", "refundPart"})

\* The same rows in a list that may have been fetched without the refunds:
\* then none looks refunded, but the dialog reads the member's own list and
\* lets nothing through beyond what is left.
PaymentsPageRow(user, s, filtered) ==
  When(IsOwner(user) /\ s # "refund" /\ (s # "refunded" \/ filtered),
       {"refundAll", "refundPart"})

-----------------------------------------------------------------------------
(* Leads: the board and the page of one lead.                              *)

LeadsPageWriter(user) == user.role \in LeadWriters

\* A card may be dragged to any column but its own and "converted".
KanbanColumns == {"new", "contacted", "trial", "converted", "lost"}

KanbanBoard(user, s) ==
  When(LeadsPageWriter(user), KanbanColumns \ {s, "converted"})

LeadIsOpenUnlessConverted(s) == s # "converted"

LeadIsOpen(s) == s \notin {"converted", "lost"}

LeadHeader(user, s) ==
  When(LeadsPageWriter(user),
       When(s # "converted", {"save", "note"})
         \cup When(LeadIsOpen(s), {"convert", "lost"})
         \cup When(s = "lost", {"contacted"}))

-----------------------------------------------------------------------------
(* The schedule and the check-in page.                                     *)

TemplatesList(user, s) == When(IsOwner(user) /\ s = "active", {"deactivate"})

\* The panel keeps the session it was opened with.
SessionPanel(user, s) ==
  When(IsOwner(user) /\ s # "cancelled", {"swap", "cancel"})

\* Within a day of the entry, by the browser's clock, and for any role that
\* reaches the page.
RecentEntry(s) == When(s = "recent", {"undo"})

-----------------------------------------------------------------------------
(* Which pages show which rows, and how each operation is given.           *)

Places ==
  [member |-> {"members"}, sub |-> {"member"}, plan |-> {"plans"},
   class |-> {"classes", "class"}, link |-> {"class"},
   coach |-> {"coaches", "coach"}, login |-> {"coach"},
   lead |-> {"leads", "lead"}, payment |-> {"payments", "member"},
   template |-> {"schedule"}, session |-> {"schedule"},
   tenant |-> {"tenants"}, entry |-> {"checkin"}]

Controls(kind, page, user, s) ==
  CASE kind = "member"   -> MemberRow(user, s)
    [] kind = "sub"      -> MemberSubscription(user, s)
    [] kind = "plan"     -> PlanRow(user, s)
    [] kind = "class"    -> IF page = "classes" THEN ClassRow(user, s)
                            ELSE ClassDetail(user)
    [] kind = "link"     -> ClassCoaches(user, s)
    [] kind = "coach"    -> IF page = "coaches" THEN CoachRow(user, s)
                            ELSE CoachDetail(user)
    [] kind = "login"    -> InviteLogin(user, s)
    [] kind = "lead"     -> IF page = "leads" THEN KanbanBoard(user, s)
                            ELSE LeadHeader(user, s)
    [] kind = "payment"  -> IF page = "payments" THEN PaymentsPageRow(user, s, FALSE)
                            ELSE PaymentRow(user, s)
    [] kind = "template" -> TemplatesList(user, s)
    [] kind = "session"  -> SessionPanel(user, s)
    [] kind = "tenant"   -> TenantRow(s)
    [] kind = "entry"    -> RecentEntry(s)

\* Confirmations that live in the page and use the page's own mutation: one
\* dismissed while it waits leaves the page waiting all the same.
PageDialogs ==
  {<<"member", "cancel">>, <<"coach", "cancel">>, <<"link", "remove">>,
   <<"tenant", "cancel">>, <<"template", "deactivate">>, <<"session", "cancel">>,
   <<"lead", "lost">>}

\* The reopening of a lost lead is confirmed; a card is dragged at once.
Confirmed(kind, page, op) ==
  <<kind, op>> \in PageDialogs \/ <<kind, page, op>> = <<"lead", "lead", "contacted">>

\* Dialogs and forms with a mutation of their own, forgotten when they close.
OwnDialogs ==
  {<<"sub", "enroll">>, <<"sub", "freeze">>, <<"sub", "renew">>,
   <<"sub", "changePlan">>, <<"sub", "cancel">>, <<"lead", "convert">>,
   <<"payment", "refundAll">>, <<"payment", "refundPart">>, <<"coach", "save">>}

\* The dialogs that close with the answer whatever it is.
ClosesAnyway(kind, op) == kind = "lead" /\ op \in {"lost", "contacted"}

\* What a dialog needs of the page it was opened from: the subscription
\* dialogs go with the card they act on, a refund fits what is left.
Submits(kind, op, s) ==
  CASE kind = "sub" /\ op # "enroll" -> IsLive(s)
    [] kind = "payment" -> s \in {"whole", "partly"}
    [] OTHER -> TRUE

\* The buttons that go grey while their own request is under way.
GreyWhileBusy ==
  {<<"sub", "unfreeze">>, <<"entry", "undo">>, <<"session", "swap">>,
   <<"lead", "save">>, <<"lead", "note">>, <<"class", "save">>, <<"login", "invite">>}
=============================================================================
