------------------------------ MODULE DeskProofs ------------------------------
(***************************************************************************)
(* Whatever is worked on in a tab, the tab keeps what ShellProofs says of  *)
(* it: the work never changes the session, the user or the page.  What the *)
(* pages offer is then held against what the services take, row by row of  *)
(* the tables of Screens, Gates and Errors, and an invariant of the work   *)
(* carries it through every interleaving of the requests, the others and   *)
(* the shell.                                                              *)
(***************************************************************************)
EXTENDS Desk, ShellProofs

\* The kinds of row are shown on pages.
LEMMA PlacesArePages == \A k \in Kinds : Places[k] \subseteq Pages
  BY DEF Kinds, Statuses, Places, Pages, ProtectedPages, PageFeature

\* A page that is worked on from the start is one its user may see.
LEMMA AtWorkIsSound == ASSUME AtWork, kind \in Desks PROVE ShellInv
<1>1. Whoami = [role |-> account, flags |-> flags] /\ Whoami \in Users
  BY DEF AtWork, Whoami, Users
<1>2. Whoami # NoUser
  BY DEF AtWork, Whoami, NoUser, Roles
<1>3. page \in Pages
  BY PlacesArePages, DeskAssumption DEF AtWork, DeskAssumption
<1>4. calls \in [Ids -> Calls] /\ \A i \in Ids : calls[i].at = "none"
  BY DEF AtWork, NoCall, Calls
<1>5. ShellTypeOK
  <2>1. asked \in Ids /\ waiting \in 0 .. MaxAsks
    BY ShellAssumption DEF AtWork, Ids, ShellAssumption
  <2> QED
    BY <1>1, <1>3, <1>4, <2>1 DEF AtWork, ShellTypeOK
<1>6. Ordinary
  BY <1>4 DEF AtWork, Ordinary, InFlight
<1>7. PageIsAdmitted
  BY <1>2 DEF AtWork, PageIsAdmitted, SignedIn
<1> QED
  BY <1>5, <1>6, <1>7 DEF ShellInv

\* A step of the desk is a step of the shell or leaves it alone.
LEMMA DeskStepIsShellStep ==
    ASSUME [DeskStep]_deskVars
    PROVE  [ShellStep]_shellVars
<1>1. CASE UNCHANGED deskVars
  BY <1>1 DEF deskVars
<1>2. CASE \E op \in Ops(kind) : Click(op) \/ OpenDialog(op)
  BY <1>2 DEF Click, OpenDialog
<1>3. CASE Confirm \/ Dismiss \/ OpenPanel \/ ClosePanel
  BY <1>3 DEF Confirm, Dismiss, OpenPanel, ClosePanel
<1>4. CASE \E n \in Slots : Serve(n) \/ Answer(n)
  BY <1>4 DEF Serve, Answer
<1>5. CASE Refetch \/ Ages
  BY <1>5 DEF Refetch, Ages
<1>6. CASE \E op \in Ops(kind), r \in Roles : Elsewhere(op, r)
  BY <1>6 DEF Elsewhere
<1>7. CASE Around
  BY <1>7 DEF Around, ShellStep
<1> QED
  BY <1>1, <1>2, <1>3, <1>4, <1>5, <1>6, <1>7 DEF DeskStep

\* The tab keeps its invariant whatever is worked on.
LEMMA TabKeeps == DeskSpec => []ShellInv
<1>1. DeskInit => ShellInv
  BY InitHolds, AtWorkIsSound DEF DeskInit
<1>2. ShellInv /\ [DeskStep]_deskVars => ShellInv'
  BY DeskStepIsShellStep, ShellStepKeeps, ShellStutterKeeps
<1> QED
  BY <1>1, <1>2, PTL DEF DeskSpec

\* Whatever is worked on, once every answer is in the user is the holder of
\* the session unless something out of the ordinary happened
\* (auth-provider.tsx:30-62).
THEOREM DeskSettledAgree == DeskSpec => []SettledAgree
<1>1. ShellInv => SettledAgree
  BY ShellInvSays
<1> QED
  BY <1>1, TabKeeps, PTL

\* Whatever is worked on, a protected page on screen is one its user may see
\* (ProtectedRoute.tsx, RequireFeature.tsx).
THEOREM DeskPageIsAdmitted == DeskSpec => []PageIsAdmitted
<1>1. ShellInv => PageIsAdmitted
  BY ShellInvSays
<1> QED
  BY <1>1, TabKeeps, PTL

-----------------------------------------------------------------------------
(* The tables of Gates, looked up.                                         *)

\* The thirteen kinds of row.
LEMMA KindsAre ==
  Kinds = {"member", "sub", "plan", "class", "link", "coach", "login", "lead",
           "payment", "template", "session", "tenant", "entry"}
  BY DEF Kinds, Statuses

\* Every operation starts from statuses of its kind and leaves one of them;
\* the statuses that are refused with a code of their own are not among them.
GateIsSound(k, g) == /\ g.from \subseteq Statuses[k]
                     /\ g.to \in Statuses[k] \cup {"same"}
                     /\ g.who \subseteq Roles
                     /\ g.code \notin {"ok", "none", "pending"}
                     /\ k = "sub" /\ g.op \in {"cancel", "changePlan"} =>
                          "frozen" \notin g.from
                     /\ k = "payment" => "refund" \notin g.from
                     /\ k = "entry" => "old" \notin g.from

LEMMA GatesAreSound == \A k \in Kinds : \A g \in Gates[k] : GateIsSound(k, g)
<1> SUFFICES ASSUME NEW k \in Kinds, NEW g \in Gates[k] PROVE GateIsSound(k, g)
  OBVIOUS
<1> USE DEF Gate, GateIsSound, AnyStatus, Gym, Owners, Staffs, GymOwners, LeadWriters, Roles
<1>1. CASE k = "member"
  <2>1. Gates[k] = MemberGates
    BY <1>1 DEF Gates
  <2> QED
    BY <1>1, <2>1 DEF MemberGates, Statuses
<1>2. CASE k = "sub"
  <2>1. Gates[k] = SubGates
    BY <1>2 DEF Gates
  <2> QED
    BY <1>2, <2>1 DEF SubGates, Statuses
<1>3. CASE k = "plan"
  <2>1. Gates[k] = PlanGates
    BY <1>3 DEF Gates
  <2> QED
    BY <1>3, <2>1 DEF PlanGates, Statuses
<1>4. CASE k = "class"
  <2>1. Gates[k] = ClassGates
    BY <1>4 DEF Gates
  <2> QED
    BY <1>4, <2>1 DEF ClassGates, Statuses
<1>5. CASE k = "link"
  <2>1. Gates[k] = LinkGates
    BY <1>5 DEF Gates
  <2> QED
    BY <1>5, <2>1 DEF LinkGates, Statuses
<1>6. CASE k = "coach"
  <2>1. Gates[k] = CoachGates
    BY <1>6 DEF Gates
  <2> QED
    BY <1>6, <2>1 DEF CoachGates, Statuses
<1>7. CASE k = "login"
  <2>1. Gates[k] = LoginGates
    BY <1>7 DEF Gates
  <2> QED
    BY <1>7, <2>1 DEF LoginGates, Statuses
<1>8. CASE k = "lead"
  <2>1. Gates[k] = LeadGates
    BY <1>8 DEF Gates
  <2> QED
    BY <1>8, <2>1 DEF LeadGates, Statuses
<1>9. CASE k = "payment"
  <2>1. Gates[k] = PaymentGates
    BY <1>9 DEF Gates
  <2> QED
    BY <1>9, <2>1 DEF PaymentGates, Statuses
<1>10. CASE k = "template"
  <2>1. Gates[k] = TemplateGates
    BY <1>10 DEF Gates
  <2> QED
    BY <1>10, <2>1 DEF TemplateGates, Statuses
<1>11. CASE k = "session"
  <2>1. Gates[k] = SessionGates
    BY <1>11 DEF Gates
  <2> QED
    BY <1>11, <2>1 DEF SessionGates, Statuses
<1>12. CASE k = "tenant"
  <2>1. Gates[k] = TenantGates
    BY <1>12 DEF Gates
  <2> QED
    BY <1>12, <2>1 DEF TenantGates, Statuses
<1>13. CASE k = "entry"
  <2>1. Gates[k] = EntryGates
    BY <1>13 DEF Gates
  <2> QED
    BY <1>13, <2>1 DEF EntryGates, Statuses
<1> QED
  BY KindsAre, <1>1, <1>2, <1>3, <1>4, <1>5, <1>6, <1>7, <1>8, <1>9, <1>10, <1>11, <1>12,
     <1>13

\* The gate of an operation is the one row of the table that names it.
LEMMA GateOfIs ==
    ASSUME NEW k \in Kinds, NEW op \in Ops(k)
    PROVE  GateOf(k, op) \in Gates[k] /\ GateOf(k, op).op = op
<1>1. \E g \in Gates[k] : g.op = op
  BY DEF Ops
<1> QED
  BY <1>1 DEF GateOf

\* An operation is taken exactly when each of the checks passes.
LEMMA TakenIs ==
    ASSUME NEW k \in Kinds, NEW op \in Ops(k), NEW u, NEW s
    PROVE  Refusal(k, op, u, s) = "ok" <=>
             /\ u # NoUser
             /\ GatedBy(k) \subseteq u.flags
             /\ u.role \in GateOf(k, op).who
             /\ s \in GateOf(k, op).from
<1> DEFINE g == GateOf(k, op)
<1>1. g.code # "ok"
  BY GateOfIs, GatesAreSound DEF GateIsSound
<1>2. CASE u = NoUser
  BY <1>2 DEF Refusal
<1>3. CASE u # NoUser /\ ~(GatedBy(k) \subseteq u.flags)
  BY <1>3 DEF Refusal
<1>4. CASE u # NoUser /\ GatedBy(k) \subseteq u.flags /\ u.role \notin g.who
  BY <1>4 DEF Refusal
<1>5. CASE u # NoUser /\ GatedBy(k) \subseteq u.flags /\ u.role \in g.who
  <2> HIDE DEF g
  <2>1. Refusal(k, op, u, s) =
          CASE s \in g.from -> "ok"
            [] k = "sub" /\ s = "frozen" /\ op \in {"cancel", "changePlan"} -> "INTERNAL"
            [] k = "payment" /\ s = "refund" -> "PAYMENT_AMOUNT_INVALID"
            [] k = "entry" /\ s = "old" -> "ATTENDANCE_UNDO_WINDOW_EXPIRED"
            [] OTHER -> g.code
    BY <1>5 DEF Refusal, g
  <2>2. Refusal(k, op, u, s) = "ok" <=> s \in g.from
    <3>1. CASE s \in g.from
      <4>1. /\ ~(k = "sub" /\ s = "frozen" /\ op \in {"cancel", "changePlan"})
            /\ ~(k = "payment" /\ s = "refund") /\ ~(k = "entry" /\ s = "old")
        BY <3>1, GateOfIs, GatesAreSound DEF GateIsSound, g
      <4> QED
        BY <2>1, <3>1, <4>1
    <3>2. CASE s \notin g.from
      BY <1>1, <2>1, <3>2
    <3> QED
      BY <3>1, <3>2
  <2> QED
    BY <1>5, <2>2 DEF g
<1> QED
  BY <1>2, <1>3, <1>4, <1>5

\* A page that shows rows of a kind is for a user whose gym has the feature
\* of the kind, and for the platform admin only where the kind is a gym.
LEMMA SeersAre ==
    ASSUME NEW k \in Kinds, NEW p \in Places[k], NEW u \in Users, Admits(u, p)
    PROVE  /\ GatedBy(k) \subseteq u.flags
           /\ u.role = "super_admin" <=> k = "tenant"
<1>1. p # "dashboard" /\ p \in ProtectedPages
  BY KindsAre DEF Places, ProtectedPages, PageFeature
<1>2. /\ PageFeature[p] \in Gated => PageFeature[p] \in u.flags
      /\ PageFeature[p] \in Baseline[u.role] /\ u.role \in Roles
  BY <1>1 DEF Admits, CanAccess, Users
<1>3. GatedBy(k) \subseteq {PageFeature[p]} \cap Gated
  BY KindsAre DEF Places, PageFeature, GatedBy, Gated
<1>4. PageFeature[p] = "tenants" <=> k = "tenant"
  BY KindsAre DEF Places, PageFeature
<1>5. PageFeature[p] # "dashboard"
  BY KindsAre DEF Places, PageFeature
<1>6. \A r \in Roles : "tenants" \in Baseline[r] <=> r = "super_admin"
  BY DEF Roles, Baseline, Features
<1>7. Baseline["super_admin"] = {"dashboard", "tenants"}
  BY DEF Baseline
<1> QED
  BY <1>2, <1>3, <1>4, <1>5, <1>6, <1>7

\* Each operation a gate is given for has its row.
LEMMA GateHas ==
  \A these, who, from, to, code :
    \A o \in these : \E g \in Gate(these, who, from, to, code) : g.op = o
<1> SUFFICES ASSUME NEW these, NEW who, NEW from, NEW to, NEW code, NEW o \in these
             PROVE  \E g \in Gate(these, who, from, to, code) : g.op = o
  OBVIOUS
<1>1. [op |-> o, who |-> who, from |-> from, to |-> to, code |-> code]
        \in Gate(these, who, from, to, code)
  BY DEF Gate
<1> QED
  BY <1>1

\* The operations of each kind.
LEMMA OpsAre ==
  /\ Ops("member") = {"freeze", "unfreeze", "cancel"}
  /\ Ops("sub") = {"freeze", "unfreeze", "renew", "changePlan", "cancel", "enroll"}
  /\ Ops("plan") = {"deactivate", "activate"}
  /\ Ops("class") = {"deactivate", "activate", "save"}
  /\ Ops("link") = {"remove"}
  /\ Ops("coach") = {"freeze", "unfreeze", "cancel", "save"}
  /\ Ops("login") = {"invite"}
  /\ Ops("lead") = {"new", "contacted", "trial", "lost", "save", "note", "convert"}
  /\ Ops("payment") = {"refundAll", "refundPart"}
  /\ Ops("template") = {"deactivate"}
  /\ Ops("session") = {"swap", "cancel"}
  /\ Ops("tenant") = {"suspend", "activate", "cancel"}
  /\ Ops("entry") = {"undo"}
<1>1. Ops("member") = {"freeze", "unfreeze", "cancel"}
  <2>1. Gates["member"] = MemberGates
    BY DEF Gates
  <2>2. \A o \in {"freeze", "unfreeze", "cancel"} : \E g \in MemberGates : g.op = o
    BY GateHas DEF MemberGates
  <2>3. \A g \in MemberGates : g.op \in {"freeze", "unfreeze", "cancel"}
    BY DEF MemberGates, Gate
  <2> QED
    BY <2>1, <2>2, <2>3 DEF Ops
<1>2. Ops("sub") = {"freeze", "unfreeze", "renew", "changePlan", "cancel", "enroll"}
  <2>1. Gates["sub"] = SubGates
    BY DEF Gates
  <2>2. \A o \in {"freeze", "unfreeze", "renew", "changePlan", "cancel", "enroll"} :
            \E g \in SubGates : g.op = o
    BY GateHas DEF SubGates
  <2>3. \A g \in SubGates :
            g.op \in {"freeze", "unfreeze", "renew", "changePlan", "cancel", "enroll"}
    BY DEF SubGates, Gate
  <2> QED
    BY <2>1, <2>2, <2>3 DEF Ops
<1>3. Ops("plan") = {"deactivate", "activate"}
  <2>1. Gates["plan"] = PlanGates
    BY DEF Gates
  <2>2. \A o \in {"deactivate", "activate"} : \E g \in PlanGates : g.op = o
    BY GateHas DEF PlanGates
  <2>3. \A g \in PlanGates : g.op \in {"deactivate", "activate"}
    BY DEF PlanGates, Gate
  <2> QED
    BY <2>1, <2>2, <2>3 DEF Ops
<1>4. Ops("class") = {"deactivate", "activate", "save"}
  <2>1. Gates["class"] = ClassGates
    BY DEF Gates
  <2>2. \A o \in {"deactivate", "activate", "save"} : \E g \in ClassGates : g.op = o
    BY GateHas DEF ClassGates
  <2>3. \A g \in ClassGates : g.op \in {"deactivate", "activate", "save"}
    BY DEF ClassGates, Gate
  <2> QED
    BY <2>1, <2>2, <2>3 DEF Ops
<1>5. Ops("link") = {"remove"}
  <2>1. Gates["link"] = LinkGates
    BY DEF Gates
  <2>2. \A o \in {"remove"} : \E g \in LinkGates : g.op = o
    BY GateHas DEF LinkGates
  <2>3. \A g \in LinkGates : g.op \in {"remove"}
    BY DEF LinkGates, Gate
  <2> QED
    BY <2>1, <2>2, <2>3 DEF Ops
<1>6. Ops("coach") = {"freeze", "unfreeze", "cancel", "save"}
  <2>1. Gates["coach"] = CoachGates
    BY DEF Gates
  <2>2. \A o \in {"freeze", "unfreeze", "cancel", "save"} : \E g \in CoachGates : g.op = o
    BY GateHas DEF CoachGates
  <2>3. \A g \in CoachGates : g.op \in {"freeze", "unfreeze", "cancel", "save"}
    BY DEF CoachGates, Gate
  <2> QED
    BY <2>1, <2>2, <2>3 DEF Ops
<1>7. Ops("login") = {"invite"}
  <2>1. Gates["login"] = LoginGates
    BY DEF Gates
  <2>2. \A o \in {"invite"} : \E g \in LoginGates : g.op = o
    BY GateHas DEF LoginGates
  <2>3. \A g \in LoginGates : g.op \in {"invite"}
    BY DEF LoginGates, Gate
  <2> QED
    BY <2>1, <2>2, <2>3 DEF Ops
<1>8. Ops("lead") = {"new", "contacted", "trial", "lost", "save", "note", "convert"}
  <2>1. Gates["lead"] = LeadGates
    BY DEF Gates
  <2>2. \A o \in {"new", "contacted", "trial", "lost", "save", "note", "convert"} :
            \E g \in LeadGates : g.op = o
    BY GateHas DEF LeadGates
  <2>3. \A g \in LeadGates :
            g.op \in {"new", "contacted", "trial", "lost", "save", "note", "convert"}
    BY DEF LeadGates, Gate
  <2> QED
    BY <2>1, <2>2, <2>3 DEF Ops
<1>9. Ops("payment") = {"refundAll", "refundPart"}
  <2>1. Gates["payment"] = PaymentGates
    BY DEF Gates
  <2>2. \A o \in {"refundAll", "refundPart"} : \E g \in PaymentGates : g.op = o
    BY GateHas DEF PaymentGates
  <2>3. \A g \in PaymentGates : g.op \in {"refundAll", "refundPart"}
    BY DEF PaymentGates, Gate
  <2> QED
    BY <2>1, <2>2, <2>3 DEF Ops
<1>10. Ops("template") = {"deactivate"}
  <2>1. Gates["template"] = TemplateGates
    BY DEF Gates
  <2>2. \A o \in {"deactivate"} : \E g \in TemplateGates : g.op = o
    BY GateHas DEF TemplateGates
  <2>3. \A g \in TemplateGates : g.op \in {"deactivate"}
    BY DEF TemplateGates, Gate
  <2> QED
    BY <2>1, <2>2, <2>3 DEF Ops
<1>11. Ops("session") = {"swap", "cancel"}
  <2>1. Gates["session"] = SessionGates
    BY DEF Gates
  <2>2. \A o \in {"swap", "cancel"} : \E g \in SessionGates : g.op = o
    BY GateHas DEF SessionGates
  <2>3. \A g \in SessionGates : g.op \in {"swap", "cancel"}
    BY DEF SessionGates, Gate
  <2> QED
    BY <2>1, <2>2, <2>3 DEF Ops
<1>12. Ops("tenant") = {"suspend", "activate", "cancel"}
  <2>1. Gates["tenant"] = TenantGates
    BY DEF Gates
  <2>2. \A o \in {"suspend", "activate", "cancel"} : \E g \in TenantGates : g.op = o
    BY GateHas DEF TenantGates
  <2>3. \A g \in TenantGates : g.op \in {"suspend", "activate", "cancel"}
    BY DEF TenantGates, Gate
  <2> QED
    BY <2>1, <2>2, <2>3 DEF Ops
<1>13. Ops("entry") = {"undo"}
  <2>1. Gates["entry"] = EntryGates
    BY DEF Gates
  <2>2. \A o \in {"undo"} : \E g \in EntryGates : g.op = o
    BY GateHas DEF EntryGates
  <2>3. \A g \in EntryGates : g.op \in {"undo"}
    BY DEF EntryGates, Gate
  <2> QED
    BY <2>1, <2>2, <2>3 DEF Ops
<1> QED
  BY <1>1, <1>2, <1>3, <1>4, <1>5, <1>6, <1>7, <1>8, <1>9, <1>10, <1>11, <1>12, <1>13

-----------------------------------------------------------------------------
(* What the pages offer, against what the services take.                   *)

\* A control does what it says or is one of those listed in Dead.
Works(k, p, u, s, op) ==
  /\ op \in Ops(k)
  /\ \/ Refusal(k, op, u, s) = "ok"
     \/ k = "class" /\ op = "save" /\ u.role \notin Owners
     \/ k = "entry" /\ u.role \notin Staffs
     \/ k = "sub" /\ s = "frozen" /\ op \in {"cancel", "changePlan"}
     \/ /\ p = "leads"
        /\ op = "new" \/ s = "converted" \/ (s = "lost" /\ op = "trial")

\* The moves of a card.
LEMMA CardMovesAre ==
    ASSUME NEW g \in LeadGates
    PROVE  /\ g.op \in {"contacted", "trial", "lost"} => g.who = LeadWriters
           /\ g.op = "contacted" => g.from = {"new", "trial", "lost"}
           /\ g.op = "trial" => g.from = {"new", "contacted"}
           /\ g.op = "lost" => g.from = {"new", "contacted", "trial"}
  BY DEF LeadGates, Gate

\* A control of a page, in the hands of a user who may see the page, is an
\* operation the service takes from a row of that status - but for the ones
\* listed in Dead.
LEMMA OfferedWorks ==
    ASSUME NEW k \in Kinds, NEW p \in Places[k], NEW u \in Users, Admits(u, p),
           NEW s \in Statuses[k], NEW op \in Controls(k, p, u, s)
    PROVE  Works(k, p, u, s, op)
<1>1. u # NoUser /\ u.role \in Roles
  BY DEF Users, NoUser, Roles
<1>2. GatedBy(k) \subseteq u.flags /\ (u.role = "super_admin" <=> k = "tenant")
  BY SeersAre
<1>3. ASSUME op \in Ops(k),
             \A g \in Gates[k] : g.op = op => u.role \in g.who /\ s \in g.from
      PROVE  op \in Ops(k) /\ Refusal(k, op, u, s) = "ok"
  BY <1>1, <1>2, <1>3, GateOfIs, TakenIs
<1> USE DEF Works, Controls, When, IsOwner, Places, Statuses, AnyStatus, Gate, Roles, Gym,
        Owners, Staffs, GymOwners, LeadWriters
<1>4. CASE k = "member"
  BY <1>1, <1>2, <1>3, <1>4, OpsAre DEF Gates, MemberGates, MemberRow
<1>5. CASE k = "sub"
  BY <1>1, <1>2, <1>3, <1>5, OpsAre DEF Gates, SubGates, MemberSubscription, SubCard, IsLive
<1>6. CASE k = "plan"
  BY <1>1, <1>2, <1>3, <1>6, OpsAre DEF Gates, PlanGates, PlanRow
<1>7. CASE k = "class"
  BY <1>1, <1>2, <1>3, <1>7, OpsAre DEF Gates, ClassGates, ClassRow, ClassDetail
<1>8. CASE k = "link"
  BY <1>1, <1>2, <1>3, <1>8, OpsAre DEF Gates, LinkGates, ClassCoaches
<1>9. CASE k = "coach"
  BY <1>1, <1>2, <1>3, <1>9, OpsAre DEF Gates, CoachGates, CoachRow, CoachDetail
<1>10. CASE k = "login"
  BY <1>1, <1>2, <1>3, <1>10, OpsAre DEF Gates, LoginGates, InviteLogin
<1>11. CASE k = "lead"
  <2>1. CASE p = "leads"
    <3>1. /\ op \in {"new", "contacted", "trial", "lost"} /\ op # s
          /\ u.role \in LeadWriters
      BY <1>11, <2>1 DEF KanbanBoard, KanbanColumns, LeadsPageWriter
    <3>2. CASE op = "new" \/ s = "converted" \/ (s = "lost" /\ op = "trial")
      BY <1>11, <2>1, <3>1, <3>2, OpsAre
    <3>3. CASE ~(op = "new" \/ s = "converted" \/ (s = "lost" /\ op = "trial"))
      <4>1. s \in {"new", "contacted", "trial", "converted", "lost"}
        BY <1>11
      <4>2. \A g \in LeadGates : g.op = op => u.role \in g.who /\ s \in g.from
        BY <3>1, <3>3, <4>1, CardMovesAre
      <4> QED
        BY <1>3, <1>11, <3>1, <3>3, <4>2, OpsAre DEF Gates
    <3> QED
      BY <3>2, <3>3
  <2>2. CASE p = "lead"
    BY <1>1, <1>2, <1>3, <1>11, <2>2, OpsAre DEF Gates, LeadGates, LeadHeader,
       LeadsPageWriter, LeadIsOpen
  <2> QED
    BY <1>11, <2>1, <2>2
<1>12. CASE k = "payment"
  BY <1>1, <1>2, <1>3, <1>12, OpsAre DEF Gates, PaymentGates, PaymentsPageRow, PaymentRow
<1>13. CASE k = "template"
  BY <1>1, <1>2, <1>3, <1>13, OpsAre DEF Gates, TemplateGates, TemplatesList
<1>14. CASE k = "session"
  BY <1>1, <1>2, <1>3, <1>14, OpsAre DEF Gates, SessionGates, SessionPanel
<1>15. CASE k = "tenant"
  BY <1>1, <1>2, <1>3, <1>15, OpsAre DEF Gates, TenantGates, TenantRow
<1>16. CASE k = "entry"
  BY <1>1, <1>2, <1>3, <1>16, OpsAre DEF Gates, EntryGates, RecentEntry
<1> QED
  BY KindsAre, <1>4, <1>5, <1>6, <1>7, <1>8, <1>9, <1>10, <1>11, <1>12, <1>13, <1>14, <1>15,
     <1>16

\* What a service takes and what changes the row is on some page where the
\* row is shown as it is - but for the ones listed in Tolerated.
OfferedSomewhere(k, u, s, op) ==
  \/ \E p \in Places[k] : op \in Controls(k, p, u, s)
  \/ k = "tenant" /\ s = "cancelled" /\ op = "suspend"
  \/ k = "lead" /\ s = "lost" /\ op = "convert"
  \/ k = "sub" /\ s = "expired" /\ op \in {"renew", "cancel"}

LEMMA ChangeIsOffered ==
    ASSUME NEW k \in Kinds, NEW op \in Ops(k), NEW u \in Users, NEW s \in Statuses[k],
           Refusal(k, op, u, s) = "ok", k = "sub" \/ After(k, op, s) # s
    PROVE  OfferedSomewhere(k, u, s, op)
<1> DEFINE g == GateOf(k, op)
<1>1. g \in Gates[k] /\ g.op = op /\ u.role \in g.who /\ s \in g.from
  BY GateOfIs, TakenIs
<1>2. k = "sub" \/ g.to \notin {s, "same"}
  BY DEF After
<1> HIDE DEF g
<1> USE DEF OfferedSomewhere, Controls, When, IsOwner, Places, Statuses, AnyStatus, Gate,
        Roles, Gym, Owners, Staffs, GymOwners, LeadWriters
<1>3. CASE k = "member"
  BY <1>1, <1>2, <1>3 DEF Gates, MemberGates, MemberRow
<1>4. CASE k = "sub"
  BY <1>1, <1>2, <1>4 DEF Gates, SubGates, MemberSubscription, SubCard, IsLive
<1>5. CASE k = "plan"
  BY <1>1, <1>2, <1>5 DEF Gates, PlanGates, PlanRow
<1>6. CASE k = "class"
  BY <1>1, <1>2, <1>6 DEF Gates, ClassGates, ClassRow, ClassDetail
<1>7. CASE k = "link"
  BY <1>1, <1>2, <1>7 DEF Gates, LinkGates, ClassCoaches
<1>8. CASE k = "coach"
  BY <1>1, <1>2, <1>8 DEF Gates, CoachGates, CoachRow, CoachDetail
<1>9. CASE k = "login"
  BY <1>1, <1>2, <1>9 DEF Gates, LoginGates, InviteLogin
<1>10. CASE k = "lead"
  BY <1>1, <1>2, <1>10 DEF Gates, LeadGates, KanbanBoard, LeadHeader, KanbanColumns,
     LeadsPageWriter, LeadIsOpen
<1>11. CASE k = "payment"
  BY <1>1, <1>2, <1>11 DEF Gates, PaymentGates, PaymentsPageRow, PaymentRow
<1>12. CASE k = "template"
  BY <1>1, <1>2, <1>12 DEF Gates, TemplateGates, TemplatesList
<1>13. CASE k = "session"
  BY <1>1, <1>2, <1>13 DEF Gates, SessionGates, SessionPanel
<1>14. CASE k = "tenant"
  BY <1>1, <1>2, <1>14 DEF Gates, TenantGates, TenantRow
<1>15. CASE k = "entry"
  BY <1>1, <1>2, <1>15 DEF Gates, EntryGates, RecentEntry
<1> QED
  BY KindsAre, <1>3, <1>4, <1>5, <1>6, <1>7, <1>8, <1>9, <1>10, <1>11, <1>12, <1>13, <1>14,
     <1>15

-----------------------------------------------------------------------------
(* What is told of a refusal.                                              *)

\* The codes of the refusals of a kind.
LEMMA RefusalIs ==
    ASSUME NEW k \in Kinds, NEW op \in Ops(k), NEW u, NEW s, NEW code,
           code = Refusal(k, op, u, s)
    PROVE  \/ code \in {"ok", "NOT_AUTHENTICATED", "INSUFFICIENT_PERMISSIONS"}
           \/ code = "FEATURE_DISABLED" /\ GatedBy(k) # {}
           \/ code = "INTERNAL" /\ k = "sub"
           \/ code = "PAYMENT_AMOUNT_INVALID" /\ k = "payment"
           \/ code = "ATTENDANCE_UNDO_WINDOW_EXPIRED" /\ k = "entry"
           \/ code = GateOf(k, op).code /\ s \notin GateOf(k, op).from
<1> DEFINE g == GateOf(k, op)
<1> HIDE DEF g
<1>1. CASE u = NoUser
  BY <1>1 DEF Refusal
<1>2. CASE u # NoUser /\ ~(GatedBy(k) \subseteq u.flags)
  <2>1. code = "FEATURE_DISABLED"
    BY <1>2 DEF Refusal
  <2> QED
    BY <1>2, <2>1
<1>3. CASE u # NoUser /\ GatedBy(k) \subseteq u.flags /\ u.role \notin GateOf(k, op).who
  BY <1>3 DEF Refusal
<1>4. CASE u # NoUser /\ GatedBy(k) \subseteq u.flags /\ u.role \in GateOf(k, op).who
  <2>1. code =
          CASE s \in g.from -> "ok"
            [] k = "sub" /\ s = "frozen" /\ op \in {"cancel", "changePlan"} -> "INTERNAL"
            [] k = "payment" /\ s = "refund" -> "PAYMENT_AMOUNT_INVALID"
            [] k = "entry" /\ s = "old" -> "ATTENDANCE_UNDO_WINDOW_EXPIRED"
            [] OTHER -> g.code
    BY <1>4 DEF Refusal, g
  <2>2. \/ code = "ok"
        \/ code = "INTERNAL" /\ k = "sub"
        \/ code = "PAYMENT_AMOUNT_INVALID" /\ k = "payment"
        \/ code = "ATTENDANCE_UNDO_WINDOW_EXPIRED" /\ k = "entry"
        \/ code = g.code /\ s \notin g.from
    BY <2>1
  <2> QED
    BY <2>2 DEF g
<1> QED
  BY <1>1, <1>2, <1>3, <1>4

FitsCode(rule, code) == Fits(rule, Status(code), Detail(code))

\* The first rule that fits speaks, and the generic sentence if none does.
LEMMA FirstRuleSpeaks ==
    ASSUME NEW rules, DOMAIN rules \subseteq Int, NEW code, NEW i \in DOMAIN rules,
           FitsCode(rules[i], code),
           \A j \in DOMAIN rules : j < i => ~FitsCode(rules[j], code)
    PROVE  Humanize(rules, code) = rules[i].says
<1> DEFINE hits == {j \in DOMAIN rules : FitsCode(rules[j], code)}
<1>1. i \in hits /\ \A j \in hits : i <= j
  OBVIOUS
<1>2. \A m \in hits : (\A j \in hits : m <= j) => m = i
  BY <1>1
<1>3. (CHOOSE m \in hits : \A j \in hits : m <= j) = i
  BY <1>1, <1>2
<1> QED
  BY <1>1, <1>3 DEF Humanize, FitsCode

LEMMA GenericOtherwise ==
    ASSUME NEW rules, NEW code,
           \A j \in DOMAIN rules : ~FitsCode(rules[j], code)
    PROVE  Humanize(rules, code) = genericMessage(Status(code))
  BY DEF Humanize, FitsCode

\* The codes that are told, with their status and the phrases of their
\* message.
LEMMA CodesAre ==
  /\ Status("NOT_AUTHENTICATED") = 401 /\ Detail("NOT_AUTHENTICATED") = {}
  /\ Status("INSUFFICIENT_PERMISSIONS") = 403 /\ Detail("INSUFFICIENT_PERMISSIONS") = {}
  /\ Status("FEATURE_DISABLED") = 403 /\ Detail("FEATURE_DISABLED") = {}
  /\ Status("INTERNAL") = 500 /\ Detail("INTERNAL") = {}
  /\ Status("PAYMENT_AMOUNT_INVALID") = 422 /\ Detail("PAYMENT_AMOUNT_INVALID") = {}
  /\ Status("SUBSCRIPTION_INVALID_TRANSITION") = 409
  /\ Detail("SUBSCRIPTION_INVALID_TRANSITION") = {"cannot_"}
  /\ Status("MEMBER_HAS_ACTIVE_SUBSCRIPTION") = 409
  /\ Detail("MEMBER_HAS_ACTIVE_SUBSCRIPTION") = {"already"}
  /\ Status("INVALID_LEAD_STATUS_TRANSITION") = 409
  /\ Detail("INVALID_LEAD_STATUS_TRANSITION") = {"cannot_"}
  /\ Status("LEAD_ALREADY_CONVERTED") = 409 /\ Detail("LEAD_ALREADY_CONVERTED") = {"already"}
  /\ Status("PAYMENT_ALREADY_FULLY_REFUNDED") = 409
  /\ Detail("PAYMENT_ALREADY_FULLY_REFUNDED") = {"already"}
  /\ Status("SCHEDULE_SESSION_TRANSITION") = 409
  /\ Detail("SCHEDULE_SESSION_TRANSITION") = {"cannot_"}
  /\ Status("COACH_ALREADY_LINKED") = 409 /\ Detail("COACH_ALREADY_LINKED") = {"already"}
<1>1. Status("NOT_AUTHENTICATED") = 401 /\ Detail("NOT_AUTHENTICATED") = {}
  BY DEF Status, Detail
<1>2. Status("INSUFFICIENT_PERMISSIONS") = 403 /\ Detail("INSUFFICIENT_PERMISSIONS") = {}
  BY DEF Status, Detail
<1>3. Status("FEATURE_DISABLED") = 403 /\ Detail("FEATURE_DISABLED") = {}
  BY DEF Status, Detail
<1>4. Status("INTERNAL") = 500 /\ Detail("INTERNAL") = {}
  BY DEF Status, Detail
<1>5. Status("PAYMENT_AMOUNT_INVALID") = 422 /\ Detail("PAYMENT_AMOUNT_INVALID") = {}
  BY DEF Status, Detail
<1>6. /\ Status("SUBSCRIPTION_INVALID_TRANSITION") = 409
      /\ Detail("SUBSCRIPTION_INVALID_TRANSITION") = {"cannot_"}
  BY DEF Status, Detail
<1>7. /\ Status("MEMBER_HAS_ACTIVE_SUBSCRIPTION") = 409
      /\ Detail("MEMBER_HAS_ACTIVE_SUBSCRIPTION") = {"already"}
  BY DEF Status, Detail
<1>8. /\ Status("INVALID_LEAD_STATUS_TRANSITION") = 409
      /\ Detail("INVALID_LEAD_STATUS_TRANSITION") = {"cannot_"}
  BY DEF Status, Detail
<1>9. Status("LEAD_ALREADY_CONVERTED") = 409 /\ Detail("LEAD_ALREADY_CONVERTED") = {"already"}
  BY DEF Status, Detail
<1>10. /\ Status("PAYMENT_ALREADY_FULLY_REFUNDED") = 409
       /\ Detail("PAYMENT_ALREADY_FULLY_REFUNDED") = {"already"}
  BY DEF Status, Detail
<1>11. /\ Status("SCHEDULE_SESSION_TRANSITION") = 409
       /\ Detail("SCHEDULE_SESSION_TRANSITION") = {"cannot_"}
  BY DEF Status, Detail
<1>12. Status("COACH_ALREADY_LINKED") = 409 /\ Detail("COACH_ALREADY_LINKED") = {"already"}
  BY DEF Status, Detail
<1> QED
  BY <1>1, <1>2, <1>3, <1>4, <1>5, <1>6, <1>7, <1>8, <1>9, <1>10, <1>11, <1>12

LEMMA GenericsAre ==
  /\ genericMessage(401) = "sign_in_again"
  /\ genericMessage(403) = "not_allowed"
  /\ genericMessage(409) = "already_exists"
  /\ genericMessage(422) = "check_the_details"
  /\ genericMessage(500) = "system_error"
  BY DEF genericMessage

\* What each humanizer says of them.
LEMMA SubscriptionsSay ==
  /\ Humanize(SubscriptionRules, "NOT_AUTHENTICATED") = "sign_in_again"
  /\ Humanize(SubscriptionRules, "INSUFFICIENT_PERMISSIONS") = "not_allowed"
  /\ Humanize(SubscriptionRules, "INTERNAL") = "system_error"
  /\ Humanize(SubscriptionRules, "SUBSCRIPTION_INVALID_TRANSITION") = "not_in_this_status"
  /\ Humanize(SubscriptionRules, "MEMBER_HAS_ACTIVE_SUBSCRIPTION") = "has_a_subscription"
<1>0. DOMAIN SubscriptionRules = 1 .. 4
  BY DEF SubscriptionRules
<1>1. Humanize(SubscriptionRules, "NOT_AUTHENTICATED") = "sign_in_again"
  <2>1. \A j \in DOMAIN SubscriptionRules :
            ~FitsCode(SubscriptionRules[j], "NOT_AUTHENTICATED")
    BY <1>0, CodesAre DEF SubscriptionRules, Rule, FitsCode, Fits, Anything
  <2> QED
    BY <2>1, CodesAre, GenericOtherwise, GenericsAre
<1>2. Humanize(SubscriptionRules, "INSUFFICIENT_PERMISSIONS") = "not_allowed"
  <2>1. \A j \in DOMAIN SubscriptionRules :
            ~FitsCode(SubscriptionRules[j], "INSUFFICIENT_PERMISSIONS")
    BY <1>0, CodesAre DEF SubscriptionRules, Rule, FitsCode, Fits, Anything
  <2> QED
    BY <2>1, CodesAre, GenericOtherwise, GenericsAre
<1>3. Humanize(SubscriptionRules, "INTERNAL") = "system_error"
  <2>1. \A j \in DOMAIN SubscriptionRules : ~FitsCode(SubscriptionRules[j], "INTERNAL")
    BY <1>0, CodesAre DEF SubscriptionRules, Rule, FitsCode, Fits, Anything
  <2> QED
    BY <2>1, CodesAre, GenericOtherwise, GenericsAre
<1>4. Humanize(SubscriptionRules, "SUBSCRIPTION_INVALID_TRANSITION") = "not_in_this_status"
  <2>1. /\ FitsCode(SubscriptionRules[4], "SUBSCRIPTION_INVALID_TRANSITION")
        /\ SubscriptionRules[4].says = "not_in_this_status"
    BY CodesAre DEF SubscriptionRules, Rule, FitsCode, Fits, Anything
  <2>2. \A j \in DOMAIN SubscriptionRules : j < 4 =>
            ~FitsCode(SubscriptionRules[j], "SUBSCRIPTION_INVALID_TRANSITION")
    BY <1>0, CodesAre DEF SubscriptionRules, Rule, FitsCode, Fits, Anything
  <2> QED
    BY <1>0, <2>1, <2>2, FirstRuleSpeaks
<1>5. Humanize(SubscriptionRules, "MEMBER_HAS_ACTIVE_SUBSCRIPTION") = "has_a_subscription"
  <2>1. /\ FitsCode(SubscriptionRules[2], "MEMBER_HAS_ACTIVE_SUBSCRIPTION")
        /\ SubscriptionRules[2].says = "has_a_subscription"
    BY CodesAre DEF SubscriptionRules, Rule, FitsCode, Fits, Anything
  <2>2. \A j \in DOMAIN SubscriptionRules : j < 2 =>
            ~FitsCode(SubscriptionRules[j], "MEMBER_HAS_ACTIVE_SUBSCRIPTION")
    BY <1>0, CodesAre DEF SubscriptionRules, Rule, FitsCode, Fits, Anything
  <2> QED
    BY <1>0, <2>1, <2>2, FirstRuleSpeaks
<1> QED
  BY <1>1, <1>2, <1>3, <1>4, <1>5

LEMMA LeadsSay ==
  /\ Humanize(LeadRules, "NOT_AUTHENTICATED") = "sign_in_again"
  /\ Humanize(LeadRules, "INSUFFICIENT_PERMISSIONS") = "not_allowed"
  /\ Humanize(LeadRules, "FEATURE_DISABLED") = "not_allowed"
  /\ Humanize(LeadRules, "INVALID_LEAD_STATUS_TRANSITION") = "already_exists"
  /\ Humanize(LeadRules, "LEAD_ALREADY_CONVERTED") = "already_exists"
<1>0. DOMAIN LeadRules = 1 .. 7
  BY DEF LeadRules
<1>1. Humanize(LeadRules, "NOT_AUTHENTICATED") = "sign_in_again"
  <2>1. \A j \in DOMAIN LeadRules : ~FitsCode(LeadRules[j], "NOT_AUTHENTICATED")
    BY <1>0, CodesAre DEF LeadRules, Rule, FitsCode, Fits, Anything
  <2> QED
    BY <2>1, CodesAre, GenericOtherwise, GenericsAre
<1>2. Humanize(LeadRules, "INSUFFICIENT_PERMISSIONS") = "not_allowed"
  <2>1. \A j \in DOMAIN LeadRules : ~FitsCode(LeadRules[j], "INSUFFICIENT_PERMISSIONS")
    BY <1>0, CodesAre DEF LeadRules, Rule, FitsCode, Fits, Anything
  <2> QED
    BY <2>1, CodesAre, GenericOtherwise, GenericsAre
<1>3. Humanize(LeadRules, "FEATURE_DISABLED") = "not_allowed"
  <2>1. \A j \in DOMAIN LeadRules : ~FitsCode(LeadRules[j], "FEATURE_DISABLED")
    BY <1>0, CodesAre DEF LeadRules, Rule, FitsCode, Fits, Anything
  <2> QED
    BY <2>1, CodesAre, GenericOtherwise, GenericsAre
<1>4. Humanize(LeadRules, "INVALID_LEAD_STATUS_TRANSITION") = "already_exists"
  <2>1. \A j \in DOMAIN LeadRules : ~FitsCode(LeadRules[j], "INVALID_LEAD_STATUS_TRANSITION")
    BY <1>0, CodesAre DEF LeadRules, Rule, FitsCode, Fits, Anything
  <2> QED
    BY <2>1, CodesAre, GenericOtherwise, GenericsAre
<1>5. Humanize(LeadRules, "LEAD_ALREADY_CONVERTED") = "already_exists"
  <2>1. \A j \in DOMAIN LeadRules : ~FitsCode(LeadRules[j], "LEAD_ALREADY_CONVERTED")
    BY <1>0, CodesAre DEF LeadRules, Rule, FitsCode, Fits, Anything
  <2> QED
    BY <2>1, CodesAre, GenericOtherwise, GenericsAre
<1> QED
  BY <1>1, <1>2, <1>3, <1>4, <1>5

LEMMA PaymentsSay ==
  /\ Humanize(PaymentRules, "NOT_AUTHENTICATED") = "sign_in_again"
  /\ Humanize(PaymentRules, "INSUFFICIENT_PERMISSIONS") = "not_allowed"
  /\ Humanize(PaymentRules, "PAYMENT_AMOUNT_INVALID") = "check_the_details"
  /\ Humanize(PaymentRules, "PAYMENT_ALREADY_FULLY_REFUNDED") = "already_exists"
<1>0. DOMAIN PaymentRules = 1 .. 4
  BY DEF PaymentRules
<1>1. Humanize(PaymentRules, "NOT_AUTHENTICATED") = "sign_in_again"
  <2>1. \A j \in DOMAIN PaymentRules : ~FitsCode(PaymentRules[j], "NOT_AUTHENTICATED")
    BY <1>0, CodesAre DEF PaymentRules, Rule, FitsCode, Fits, Anything
  <2> QED
    BY <2>1, CodesAre, GenericOtherwise, GenericsAre
<1>2. Humanize(PaymentRules, "INSUFFICIENT_PERMISSIONS") = "not_allowed"
  <2>1. \A j \in DOMAIN PaymentRules : ~FitsCode(PaymentRules[j], "INSUFFICIENT_PERMISSIONS")
    BY <1>0, CodesAre DEF PaymentRules, Rule, FitsCode, Fits, Anything
  <2> QED
    BY <2>1, CodesAre, GenericOtherwise, GenericsAre
<1>3. Humanize(PaymentRules, "PAYMENT_AMOUNT_INVALID") = "check_the_details"
  <2>1. \A j \in DOMAIN PaymentRules : ~FitsCode(PaymentRules[j], "PAYMENT_AMOUNT_INVALID")
    BY <1>0, CodesAre DEF PaymentRules, Rule, FitsCode, Fits, Anything
  <2> QED
    BY <2>1, CodesAre, GenericOtherwise, GenericsAre
<1>4. Humanize(PaymentRules, "PAYMENT_ALREADY_FULLY_REFUNDED") = "already_exists"
  <2>1. \A j \in DOMAIN PaymentRules :
            ~FitsCode(PaymentRules[j], "PAYMENT_ALREADY_FULLY_REFUNDED")
    BY <1>0, CodesAre DEF PaymentRules, Rule, FitsCode, Fits, Anything
  <2> QED
    BY <2>1, CodesAre, GenericOtherwise, GenericsAre
<1> QED
  BY <1>1, <1>2, <1>3, <1>4

LEMMA SessionsSay ==
  /\ Humanize(ScheduleRules, "NOT_AUTHENTICATED") = "sign_in_again"
  /\ Humanize(ScheduleRules, "INSUFFICIENT_PERMISSIONS") = "not_allowed"
  /\ Humanize(ScheduleRules, "FEATURE_DISABLED") = "not_allowed"
  /\ Humanize(ScheduleRules, "SCHEDULE_SESSION_TRANSITION") = "not_possible"
<1>0. DOMAIN ScheduleRules = 1 .. 5
  BY DEF ScheduleRules
<1>1. Humanize(ScheduleRules, "NOT_AUTHENTICATED") = "sign_in_again"
  <2>1. \A j \in DOMAIN ScheduleRules : ~FitsCode(ScheduleRules[j], "NOT_AUTHENTICATED")
    BY <1>0, CodesAre DEF ScheduleRules, Rule, FitsCode, Fits, Anything
  <2> QED
    BY <2>1, CodesAre, GenericOtherwise, GenericsAre
<1>2. Humanize(ScheduleRules, "INSUFFICIENT_PERMISSIONS") = "not_allowed"
  <2>1. \A j \in DOMAIN ScheduleRules :
            ~FitsCode(ScheduleRules[j], "INSUFFICIENT_PERMISSIONS")
    BY <1>0, CodesAre DEF ScheduleRules, Rule, FitsCode, Fits, Anything
  <2> QED
    BY <2>1, CodesAre, GenericOtherwise, GenericsAre
<1>3. Humanize(ScheduleRules, "FEATURE_DISABLED") = "not_allowed"
  <2>1. \A j \in DOMAIN ScheduleRules : ~FitsCode(ScheduleRules[j], "FEATURE_DISABLED")
    BY <1>0, CodesAre DEF ScheduleRules, Rule, FitsCode, Fits, Anything
  <2> QED
    BY <2>1, CodesAre, GenericOtherwise, GenericsAre
<1>4. Humanize(ScheduleRules, "SCHEDULE_SESSION_TRANSITION") = "not_possible"
  <2>1. /\ FitsCode(ScheduleRules[4], "SCHEDULE_SESSION_TRANSITION")
        /\ ScheduleRules[4].says = "not_possible"
    BY CodesAre DEF ScheduleRules, Rule, FitsCode, Fits, Anything
  <2>2. \A j \in DOMAIN ScheduleRules : j < 4 =>
            ~FitsCode(ScheduleRules[j], "SCHEDULE_SESSION_TRANSITION")
    BY <1>0, CodesAre DEF ScheduleRules, Rule, FitsCode, Fits, Anything
  <2> QED
    BY <1>0, <2>1, <2>2, FirstRuleSpeaks
<1> QED
  BY <1>1, <1>2, <1>3, <1>4

LEMMA CoachesSay ==
  /\ Humanize(CoachRules, "NOT_AUTHENTICATED") = "sign_in_again"
  /\ Humanize(CoachRules, "INSUFFICIENT_PERMISSIONS") = "not_allowed"
  /\ Humanize(CoachRules, "COACH_ALREADY_LINKED") = "not_in_this_status"
<1>0. DOMAIN CoachRules = 1 .. 5
  BY DEF CoachRules
<1>1. Humanize(CoachRules, "NOT_AUTHENTICATED") = "sign_in_again"
  <2>1. \A j \in DOMAIN CoachRules : ~FitsCode(CoachRules[j], "NOT_AUTHENTICATED")
    BY <1>0, CodesAre DEF CoachRules, Rule, FitsCode, Fits, Anything
  <2> QED
    BY <2>1, CodesAre, GenericOtherwise, GenericsAre
<1>2. Humanize(CoachRules, "INSUFFICIENT_PERMISSIONS") = "not_allowed"
  <2>1. \A j \in DOMAIN CoachRules : ~FitsCode(CoachRules[j], "INSUFFICIENT_PERMISSIONS")
    BY <1>0, CodesAre DEF CoachRules, Rule, FitsCode, Fits, Anything
  <2> QED
    BY <2>1, CodesAre, GenericOtherwise, GenericsAre
<1>3. Humanize(CoachRules, "COACH_ALREADY_LINKED") = "not_in_this_status"
  <2>1. /\ FitsCode(CoachRules[4], "COACH_ALREADY_LINKED")
        /\ CoachRules[4].says = "not_in_this_status"
    BY CodesAre DEF CoachRules, Rule, FitsCode, Fits, Anything
  <2>2. \A j \in DOMAIN CoachRules : j < 4 => ~FitsCode(CoachRules[j], "COACH_ALREADY_LINKED")
    BY <1>0, CodesAre DEF CoachRules, Rule, FitsCode, Fits, Anything
  <2> QED
    BY <1>0, <2>1, <2>2, FirstRuleSpeaks
<1> QED
  BY <1>1, <1>2, <1>3

LEMMA ClassesSay ==
  /\ Humanize(ClassRules, "NOT_AUTHENTICATED") = "sign_in_again"
  /\ Humanize(ClassRules, "INSUFFICIENT_PERMISSIONS") = "only_owners"
<1>0. DOMAIN ClassRules = 1 .. 3
  BY DEF ClassRules
<1>1. Humanize(ClassRules, "NOT_AUTHENTICATED") = "sign_in_again"
  <2>1. \A j \in DOMAIN ClassRules : ~FitsCode(ClassRules[j], "NOT_AUTHENTICATED")
    BY <1>0, CodesAre DEF ClassRules, Rule, FitsCode, Fits, Anything
  <2> QED
    BY <2>1, CodesAre, GenericOtherwise, GenericsAre
<1>2. Humanize(ClassRules, "INSUFFICIENT_PERMISSIONS") = "only_owners"
  <2>1. /\ FitsCode(ClassRules[1], "INSUFFICIENT_PERMISSIONS")
        /\ ClassRules[1].says = "only_owners"
    BY CodesAre DEF ClassRules, Rule, FitsCode, Fits, Anything
  <2>2. \A j \in DOMAIN ClassRules : j < 1 =>
            ~FitsCode(ClassRules[j], "INSUFFICIENT_PERMISSIONS")
    BY <1>0, CodesAre DEF ClassRules, Rule, FitsCode, Fits, Anything
  <2> QED
    BY <1>0, <2>1, <2>2, FirstRuleSpeaks
<1> QED
  BY <1>1, <1>2
-----------------------------------------------------------------------------
\* A row of a subscription may have been replaced.
Rows(k) == IF k = "sub" THEN Statuses[k] \cup {"replaced"} ELSE Statuses[k]

LEMMA RowsAre ==
    ASSUME NEW k \in Kinds
    PROVE  Statuses[k] \subseteq Rows(k) /\ ("replaced" \in Rows(k) => k = "sub")
  BY KindsAre DEF Rows, Statuses

\* Sentences that are true of a code.
LEMMA TruthsAre ==
  /\ "sign_in_again" \in Truths("NOT_AUTHENTICATED")
  /\ "not_allowed" \in Truths("FEATURE_DISABLED")
  /\ "not_allowed" \in Truths("INSUFFICIENT_PERMISSIONS")
  /\ "only_owners" \in Truths("INSUFFICIENT_PERMISSIONS")
  /\ "system_error" \in Truths("INTERNAL")
  /\ "check_the_details" \in Truths("PAYMENT_AMOUNT_INVALID")
  /\ "has_a_subscription" \in Truths("MEMBER_HAS_ACTIVE_SUBSCRIPTION")
  /\ "not_in_this_status" \in Truths("SUBSCRIPTION_INVALID_TRANSITION")
  /\ "not_possible" \in Truths("SCHEDULE_SESSION_TRANSITION")
<1>1. "sign_in_again" \in Truths("NOT_AUTHENTICATED")
  BY DEF Truths
<1>2. "not_allowed" \in Truths("FEATURE_DISABLED")
  BY DEF Truths
<1>3. "not_allowed" \in Truths("INSUFFICIENT_PERMISSIONS")
  BY DEF Truths
<1>4. "only_owners" \in Truths("INSUFFICIENT_PERMISSIONS")
  BY DEF Truths
<1>5. "system_error" \in Truths("INTERNAL")
  BY DEF Truths
<1>6. "check_the_details" \in Truths("PAYMENT_AMOUNT_INVALID")
  BY DEF Truths
<1>7. "has_a_subscription" \in Truths("MEMBER_HAS_ACTIVE_SUBSCRIPTION")
  BY DEF Truths
<1>8. "not_in_this_status" \in Truths("SUBSCRIPTION_INVALID_TRANSITION")
  BY DEF Truths
<1>9. "not_possible" \in Truths("SCHEDULE_SESSION_TRANSITION")
  BY DEF Truths
<1> QED
  BY <1>1, <1>2, <1>3, <1>4, <1>5, <1>6, <1>7, <1>8, <1>9

\* What a page that speaks of a refusal says is what it was about, but for
\* the codes listed in Misread.
LEMMA ToldTruly ==
    ASSUME NEW k \in DOMAIN Humanizer, NEW op \in Ops(k),
           k \in {"class", "coach"} => op = "save",
           NEW u, NEW s \in Rows(k), NEW code, code = Refusal(k, op, u, s), code # "ok"
    PROVE  /\ Humanize(Humanizer[k], code) \in Sentences
           /\ \/ Humanize(Humanizer[k], code) \in Truths(code)
              \/ code \in Misread
<1> DEFINE g == GateOf(k, op)
<1>1. k \in {"sub", "lead", "payment", "session", "login", "class", "coach"}
  BY DEF Humanizer
<1>2. k \in Kinds
  BY <1>1, KindsAre
<1>3. g \in Gates[k] /\ g.op = op
  BY <1>2, GateOfIs
<1>4. \/ code \in {"NOT_AUTHENTICATED", "INSUFFICIENT_PERMISSIONS"}
      \/ code = "FEATURE_DISABLED" /\ GatedBy(k) # {}
      \/ code = "INTERNAL" /\ k = "sub"
      \/ code = "PAYMENT_AMOUNT_INVALID" /\ k = "payment"
      \/ code = g.code /\ s \notin g.from
  BY <1>1, <1>2, RefusalIs
<1> HIDE DEF g
<1>5. CASE k = "sub"
  <2>1. g.code \in {"SUBSCRIPTION_INVALID_TRANSITION", "MEMBER_HAS_ACTIVE_SUBSCRIPTION"}
    BY <1>3, <1>5 DEF Gates, SubGates, Gate
  <2>2. GatedBy(k) = {} /\ Humanizer[k] = SubscriptionRules
    BY <1>5 DEF GatedBy, Humanizer
  <2> QED
    BY <1>4, <1>5, <2>1, <2>2, SubscriptionsSay, TruthsAre DEF Sentences
<1>6. CASE k = "lead"
  <2>1. \/ g.code \in {"INVALID_LEAD_STATUS_TRANSITION", "LEAD_ALREADY_CONVERTED"}
        \/ g.from = Statuses[k]
    BY <1>3, <1>6 DEF Gates, LeadGates, Gate, AnyStatus
  <2>2. s \in Statuses[k] /\ Humanizer[k] = LeadRules
    BY <1>6 DEF Rows, Humanizer
  <2> QED
    BY <1>4, <1>6, <2>1, <2>2, LeadsSay, TruthsAre DEF Misread, Sentences
<1>7. CASE k = "payment"
  <2>1. g.code = "PAYMENT_ALREADY_FULLY_REFUNDED"
    BY <1>3, <1>7 DEF Gates, PaymentGates, Gate
  <2>2. GatedBy(k) = {} /\ Humanizer[k] = PaymentRules
    BY <1>7 DEF GatedBy, Humanizer
  <2> QED
    BY <1>4, <1>7, <2>1, <2>2, PaymentsSay, TruthsAre DEF Misread, Sentences
<1>8. CASE k = "session"
  <2>1. g.code = "SCHEDULE_SESSION_TRANSITION" /\ Humanizer[k] = ScheduleRules
    BY <1>3, <1>8 DEF Gates, SessionGates, Gate, Humanizer
  <2> QED
    BY <1>4, <1>8, <2>1, SessionsSay, TruthsAre DEF Sentences
<1>9. CASE k = "login"
  <2>1. g.code = "COACH_ALREADY_LINKED"
    BY <1>3, <1>9 DEF Gates, LoginGates, Gate
  <2>2. GatedBy(k) = {} /\ Humanizer[k] = CoachRules
    BY <1>9 DEF GatedBy, Humanizer
  <2> QED
    BY <1>4, <1>9, <2>1, <2>2, CoachesSay, TruthsAre DEF Misread, Sentences
<1>10. CASE k = "class"
  <2>1. g.from = Statuses[k]
    BY <1>3, <1>10 DEF Gates, ClassGates, Gate, AnyStatus
  <2>2. s \in Statuses[k] /\ GatedBy(k) = {} /\ Humanizer[k] = ClassRules
    BY <1>10 DEF Rows, GatedBy, Humanizer
  <2> QED
    BY <1>4, <1>10, <2>1, <2>2, ClassesSay, TruthsAre DEF Sentences
<1>11. CASE k = "coach"
  <2>1. g.from = Statuses[k]
    BY <1>3, <1>11 DEF Gates, CoachGates, Gate, AnyStatus
  <2>2. s \in Statuses[k] /\ GatedBy(k) = {} /\ Humanizer[k] = CoachRules
    BY <1>11 DEF Rows, GatedBy, Humanizer
  <2> QED
    BY <1>4, <1>11, <2>1, <2>2, CoachesSay, TruthsAre DEF Sentences
<1> QED
  BY <1>1, <1>5, <1>6, <1>7, <1>8, <1>9, <1>10, <1>11

-----------------------------------------------------------------------------
(* The invariant of the work.                                              *)

Requests == [op : Ops(kind) \cup {"none"}, result : Results, live : BOOLEAN]

\* A request under way is for an operation of the kind, and its answer is
\* what some user is told of some status of the row.
Answered(r) ==
  r.result # "none" =>
    /\ r.op \in Ops(kind)
    /\ r.result # "pending" =>
         \E u \in Users \cup {NoUser}, s \in Rows(kind) : r.result = Refusal(kind, r.op, u, s)

RequestsInv == sent \in [Slots -> Requests] /\ \A n \in Slots : Answered(sent[n])

\* Some request was taken, and the page has not been told yet.
Taken == \E n \in Slots : sent[n].result = "ok"

WorkInv ==
  /\ kind \in Desks
  /\ row \in Rows(kind)
  /\ shown \in Statuses[kind]
  /\ panel \in Statuses["session"] \cup {"closed"}
  /\ dialog \in Ops(kind) \cup {"none"}
  /\ due \in BOOLEAN /\ foreign \in BOOLEAN
  /\ told \in Sentences \cup {"nothing"}
  /\ RequestsInv
  /\ row # shown => due \/ foreign \/ Taken

\* The kind that is worked on is a kind of row.
LEMMA KindIsKind == ASSUME kind \in Desks PROVE kind \in Kinds
  BY DeskAssumption DEF DeskAssumption

\* What a request is told is the code of a result.
LEMMA RefusalIsResult ==
    ASSUME kind \in Kinds, NEW op \in Ops(kind), NEW u, NEW s
    PROVE  Refusal(kind, op, u, s) \in Results
<1>1. GateOf(kind, op) \in Gates[kind]
  BY GateOfIs
<1>2. GateOf(kind, op).code \in {g.code : g \in Gates[kind]}
  BY <1>1
<1> QED
  BY <1>2, RefusalIs DEF Results

\* A free slot holds a request that was never answered.
LEMMA NoRequestIs == NoRequest \in Requests /\ Answered(NoRequest)
  BY DEF NoRequest, Requests, Answered, Results

\* While the kind stays, so does what the requests are measured by.
LEMMA KindStays ==
    ASSUME kind' = kind
    PROVE  /\ Slots' = Slots /\ Requests' = Requests /\ Ops(kind)' = Ops(kind)
           /\ \A r : Answered(r)' = Answered(r)
  BY DEF Slots, Requests, Results, Answered

\* A request that leaves is a request under way.
LEMMA SendsKeeps ==
    ASSUME RequestsInv, NEW op \in Ops(kind), Sends(op), kind' = kind
    PROVE  RequestsInv' /\ (Taken => Taken') /\ told' = "nothing"
<1>1. PICK n \in Slots : /\ sent[n] = NoRequest
                         /\ sent' = [sent EXCEPT ![n] = [op |-> op, result |-> "pending",
                                                         live |-> TRUE]]
  BY DEF Sends
<1>2. [op |-> op, result |-> "pending", live |-> TRUE] \in Requests
  BY DEF Requests, Results
<1>3. Answered([op |-> op, result |-> "pending", live |-> TRUE])
  BY DEF Answered
<1>4. RequestsInv'
  BY <1>1, <1>2, <1>3, KindStays DEF RequestsInv
<1>5. Taken => Taken'
  <2>1. sent[n].result # "ok"
    BY <1>1 DEF NoRequest
  <2> QED
    BY <1>1, <2>1, KindStays DEF Taken, RequestsInv
<1> QED
  BY <1>4, <1>5 DEF Sends

\* A request that is forgotten is answered all the same.
LEMMA ForgetKeeps ==
    ASSUME RequestsInv, NEW ops, Forget(ops), kind' = kind
    PROVE  /\ RequestsInv' /\ (Taken => Taken')
           /\ \A n \in Slots : sent'[n].result = sent[n].result /\ sent'[n].op = sent[n].op
<1>1. \A n \in Slots :
        sent'[n] = IF sent[n].op \in ops THEN [sent[n] EXCEPT !.live = FALSE] ELSE sent[n]
  BY DEF Forget
<1>2. ASSUME NEW n \in Slots
      PROVE  /\ sent'[n] \in Requests /\ sent'[n].result = sent[n].result
             /\ sent'[n].op = sent[n].op
  <2>1. sent[n] \in Requests
    BY DEF RequestsInv
  <2> QED
    BY <1>1, <2>1 DEF Requests
<1>3. sent' \in [Slots -> Requests]
  BY <1>2 DEF Forget
<1>4. RequestsInv'
  BY <1>2, <1>3, KindStays DEF RequestsInv, Answered
<1> QED
  BY <1>2, <1>4, KindStays DEF Taken

-----------------------------------------------------------------------------
(* One lemma for each step.                                                *)

\* A step that leaves the row and the page's copy of it.
LEMMA CopyStays ==
    ASSUME WorkInv, UNCHANGED <<kind, row, shown, due, foreign>>,
           panel' \in Statuses["session"] \cup {"closed"},
           dialog' \in Ops(kind) \cup {"none"},
           told' \in Sentences \cup {"nothing"},
           RequestsInv', Taken => Taken'
    PROVE  WorkInv'
  BY KindStays DEF WorkInv

\* Everything the user does.
LEMMA UserKeeps ==
    ASSUME WorkInv,
           \/ \E op \in Ops(kind) : Click(op) \/ OpenDialog(op)
           \/ Confirm \/ Dismiss \/ OpenPanel \/ ClosePanel
    PROVE  WorkInv'
<1>1. ASSUME sent' = sent, kind' = kind PROVE RequestsInv' /\ (Taken => Taken')
  BY <1>1, KindStays DEF WorkInv, RequestsInv, Taken
<1>2. ASSUME NEW op \in Ops(kind), Click(op) PROVE WorkInv'
  BY <1>2, SendsKeeps, CopyStays DEF Click, WorkInv
<1>3. ASSUME NEW op \in Ops(kind), OpenDialog(op) PROVE WorkInv'
  BY <1>1, <1>3, CopyStays DEF OpenDialog, WorkInv
<1>4. CASE Confirm
  BY <1>4, SendsKeeps, CopyStays DEF Confirm, WorkInv
<1>5. CASE Dismiss
  <2>1. RequestsInv' /\ (Taken => Taken')
    BY <1>1, <1>5, ForgetKeeps DEF Dismiss, WorkInv
  <2> QED
    BY <1>5, <2>1, CopyStays DEF Dismiss, WorkInv
<1>6. CASE OpenPanel
  BY <1>1, <1>6, CopyStays DEF OpenPanel, WorkInv
<1>7. CASE ClosePanel
  BY <1>7, ForgetKeeps, CopyStays DEF ClosePanel, WorkInv
<1> QED
  BY <1>2, <1>3, <1>4, <1>5, <1>6, <1>7

\* What an operation makes of a row is a row.
LEMMA BecameIsRow ==
    ASSUME WorkInv, NEW op \in Ops(kind)
    PROVE  Became(op) \in Rows(kind)
<1>1. kind \in Kinds
  BY KindIsKind DEF WorkInv
<1>2. GateOf(kind, op).to \in Statuses[kind] \cup {"same"}
  BY <1>1, GateOfIs, GatesAreSound DEF GateIsSound
<1>3. After(kind, op, row) \in Rows(kind)
  BY <1>1, <1>2, RowsAre DEF After, WorkInv
<1> QED
  BY <1>3 DEF Became, Rows

\* The row that takes the place of another is one a page can show.
LEMMA FoundIsStatus == ASSUME WorkInv PROVE Found \in Statuses[kind] /\ Found \in Rows(kind)
<1>1. "active" \in Statuses["sub"]
  BY DEF Statuses
<1>2. kind \in Kinds
  BY KindIsKind DEF WorkInv
<1>3. row # "replaced" => row \in Statuses[kind]
  BY DEF WorkInv, Rows
<1> QED
  BY <1>1, <1>2, <1>3, RowsAre DEF Found, WorkInv

\* A request is answered with what the holder of the session is told, and a
\* row changes only for one that is taken.
LEMMA ServeKeeps ==
    ASSUME WorkInv, ShellTypeOK, NEW n \in Slots, Serve(n)
    PROVE  WorkInv'
<1> DEFINE op == sent[n].op
           code == Refusal(kind, op, Whoami, row)
<1>1. /\ sent[n].result = "pending"
      /\ sent' = [sent EXCEPT ![n].result = code]
      /\ row' = IF code = "ok" THEN Became(op) ELSE row
      /\ UNCHANGED <<shellVars, kind, shown, panel, dialog, due, foreign, told>>
  BY DEF Serve
<1>2. op \in Ops(kind) /\ kind \in Kinds /\ sent \in [Slots -> Requests]
  BY <1>1, KindIsKind DEF WorkInv, RequestsInv, Answered
<1>3. code \in Results
  BY <1>2, RefusalIsResult
<1>4. /\ sent'[n].result = code /\ sent'[n].op = op /\ sent'[n] \in Requests
      /\ \A m \in Slots : m # n => sent'[m] = sent[m]
      /\ sent' \in [Slots -> Requests]
  <2>1. sent[n] \in Requests
    BY <1>2
  <2>2. [sent[n] EXCEPT !.result = code] \in Requests
    BY <1>3, <2>1 DEF Requests
  <2> HIDE DEF code
  <2>3. sent' = [sent EXCEPT ![n] = [sent[n] EXCEPT !.result = code]]
    BY <1>1
  <2>4. sent'[n] = [sent[n] EXCEPT !.result = code]
    BY <1>2, <2>3
  <2>5. sent' \in [Slots -> Requests]
    BY <1>2, <2>2, <2>3
  <2> QED
    BY <1>2, <2>1, <2>2, <2>3, <2>4, <2>5 DEF Requests
<1>5. Answered(sent'[n])
  <2>1. Whoami \in Users \cup {NoUser} /\ row \in Rows(kind)
    BY WhoamiIsUser DEF WorkInv
  <2> QED
    BY <1>2, <1>4, <2>1 DEF Answered
<1>6. RequestsInv'
  BY <1>1, <1>4, <1>5, KindStays DEF WorkInv, RequestsInv
<1>7. row' \in Rows(kind)
  BY <1>1, <1>2, BecameIsRow DEF WorkInv
<1>8. row' # shown => due \/ foreign \/ Taken'
  <2>1. CASE code = "ok"
    BY <1>1, <1>4, <2>1, KindStays DEF Taken
  <2>2. CASE code # "ok"
    <3>1. Taken => Taken'
      BY <1>1, <1>4, KindStays DEF Taken
    <3> QED
      BY <1>1, <2>2, <3>1 DEF WorkInv
  <2> QED
    BY <2>1, <2>2
<1> HIDE DEF code
<1> QED
  BY <1>1, <1>6, <1>7, <1>8, KindStays DEF WorkInv, Rows

\* What a page says of a refusal is a sentence about it.
LEMMA SpokenTruly ==
    ASSUME WorkInv, NEW n \in Slots, sent[n].result \notin {"none", "pending", "ok"},
           Spoken(sent[n].op)
    PROVE  /\ Humanize(Humanizer[kind], sent[n].result) \in Sentences
           /\ \/ Humanize(Humanizer[kind], sent[n].result) \in Truths(sent[n].result)
              \/ sent[n].result \in Misread
<1>1. /\ sent[n].op \in Ops(kind)
      /\ \E u \in Users \cup {NoUser}, s \in Rows(kind) :
           sent[n].result = Refusal(kind, sent[n].op, u, s)
  BY DEF WorkInv, RequestsInv, Answered
<1>2. kind \in DOMAIN Humanizer /\ (kind \in {"class", "coach"} => sent[n].op = "save")
  BY DEF Spoken
<1> QED
  BY <1>1, <1>2, ToldTruly

\* A page that was told that a request was taken fetches the row again.
LEMMA AnswerKeeps ==
    ASSUME WorkInv, NEW n \in Slots, Answer(n)
    PROVE  WorkInv'
<1> DEFINE ok == sent[n].result = "ok"
<1>1. /\ sent[n].result \notin {"none", "pending"}
      /\ due' = (due \/ ok)
      /\ dialog' \in {dialog, "none"}
      /\ told' = IF ~ok /\ sent[n].live /\ Spoken(sent[n].op)
                 THEN Humanize(Humanizer[kind], sent[n].result) ELSE told
      /\ sent' = [sent EXCEPT ![n] = NoRequest]
      /\ UNCHANGED <<shellVars, kind, row, shown, panel, foreign>>
  BY DEF Answer
<1>2. told' \in Sentences \cup {"nothing"}
  BY <1>1, SpokenTruly DEF WorkInv
<1>3. RequestsInv'
  BY <1>1, NoRequestIs, KindStays DEF WorkInv, RequestsInv
<1>4. Taken => Taken' \/ due'
  BY <1>1, KindStays DEF Taken, WorkInv, RequestsInv
<1>5. due' \in BOOLEAN /\ (due => due')
  BY <1>1 DEF WorkInv
<1> QED
  BY <1>1, <1>2, <1>3, <1>4, <1>5, KindStays DEF WorkInv

\* What is fetched is the row.
LEMMA RefetchKeeps == ASSUME WorkInv, Refetch PROVE WorkInv'
<1>1. /\ row' = IF cookie THEN Found ELSE row
      /\ shown' = IF cookie THEN Found ELSE shown
      /\ due' = (due /\ ~cookie) /\ foreign' = (foreign /\ ~cookie)
      /\ dialog' \in {dialog, "none"}
      /\ UNCHANGED <<shellVars, kind, panel, sent, told>>
  BY DEF Refetch, StillOpen
<1>2. RequestsInv' /\ (Taken => Taken')
  BY <1>1, KindStays DEF WorkInv, RequestsInv, Taken
<1>3. due' \in BOOLEAN /\ foreign' \in BOOLEAN
  BY <1>1
<1>4. row' \in Rows(kind) /\ shown' \in Statuses[kind]
  BY <1>1, FoundIsStatus DEF WorkInv
<1>5. row' # shown' => due' \/ foreign' \/ Taken'
  BY <1>1, <1>2 DEF WorkInv
<1> QED
  BY <1>1, <1>2, <1>3, <1>4, <1>5, KindStays DEF WorkInv, Rows

\* What others do is known to nobody until the row is fetched.
LEMMA OthersKeep ==
    ASSUME WorkInv, Ages \/ \E op \in Ops(kind), r \in Roles : Elsewhere(op, r)
    PROVE  WorkInv'
<1>1. /\ foreign' = TRUE /\ row' \in Rows(kind)
      /\ UNCHANGED <<shellVars, kind, shown, panel, dialog, sent, due, told>>
  <2>1. CASE Ages
    <3>1. row' \in Rows(kind)
      BY <2>1 DEF Ages, Rows, Statuses
    <3> QED
      BY <2>1, <3>1 DEF Ages
  <2>2. ASSUME NEW op \in Ops(kind), NEW r \in Roles, Elsewhere(op, r)
        PROVE  row' \in Rows(kind)
    BY <2>2, BecameIsRow DEF Elsewhere
  <2> QED
    BY <2>1, <2>2 DEF Elsewhere
<1>2. RequestsInv'
  BY <1>1, KindStays DEF WorkInv, RequestsInv
<1> QED
  BY <1>1, <1>2, KindStays DEF WorkInv, Rows

\* Leaving the page forgets its requests, and loading it anew the rest.
LEMMA AroundKeeps == ASSUME WorkInv, Around PROVE WorkInv'
<1>1. CASE UNCHANGED <<kind, workVars>>
  <2>1. RequestsInv' /\ (Taken => Taken')
    BY <1>1, KindStays DEF WorkInv, RequestsInv, Taken, workVars
  <2> QED
    BY <1>1, <2>1, CopyStays DEF WorkInv, workVars
<1>2. CASE Unmounted
  BY <1>2, ForgetKeeps, CopyStays DEF Unmounted, WorkInv
<1>3. CASE Restarted
  <2>1. /\ dialog' = "none" /\ panel' = "closed" /\ told' = "nothing"
        /\ sent' = [n \in Slots |-> NoRequest] /\ shown' = Found /\ row' = Found
        /\ due' = FALSE /\ foreign' = FALSE /\ kind' = kind
    BY <1>3 DEF Restarted
  <2>2. RequestsInv'
    BY <2>1, NoRequestIs, KindStays DEF RequestsInv
  <2> QED
    BY <2>1, <2>2, FoundIsStatus, KindStays DEF WorkInv, Rows
<1> QED
  BY <1>1, <1>2, <1>3 DEF Around

\* The work starts on a row as it was fetched.
LEMMA WorkStarts == ASSUME DeskInit PROVE WorkInv
<1>1. kind \in Kinds
  BY KindIsKind DEF DeskInit
<1>2. RequestsInv
  BY NoRequestIs DEF DeskInit, RequestsInv
<1> QED
  BY <1>1, <1>2, RowsAre DEF DeskInit, WorkInv

\* Every step keeps the invariant.
LEMMA WorkStepKeeps ==
    ASSUME WorkInv, ShellTypeOK, [DeskStep]_deskVars
    PROVE  WorkInv'
<1>1. CASE UNCHANGED deskVars
  <2>1. RequestsInv' /\ (Taken => Taken')
    BY <1>1, KindStays DEF WorkInv, RequestsInv, Taken, deskVars, workVars
  <2> QED
    BY <1>1, <2>1, CopyStays DEF WorkInv, deskVars, workVars
<1>2. CASE \/ \E op \in Ops(kind) : Click(op) \/ OpenDialog(op)
           \/ Confirm \/ Dismiss \/ OpenPanel \/ ClosePanel
  BY <1>2, UserKeeps
<1>3. CASE \E n \in Slots : Serve(n) \/ Answer(n)
  BY <1>3, ServeKeeps, AnswerKeeps
<1>4. CASE Refetch
  BY <1>4, RefetchKeeps
<1>5. CASE Ages \/ \E op \in Ops(kind), r \in Roles : Elsewhere(op, r)
  BY <1>5, OthersKeep
<1>6. CASE Around
  BY <1>6, AroundKeeps
<1> QED
  BY <1>1, <1>2, <1>3, <1>4, <1>5, <1>6 DEF DeskStep

\* The invariant of the tab and of the work in it.
DeskInv == ShellInv /\ WorkInv

\* The tab and the work keep their invariants together.
LEMMA DeskKeeps == DeskSpec => []DeskInv
<1>1. DeskInit => WorkInv
  BY WorkStarts
<1>2. WorkInv /\ ShellInv /\ [DeskStep]_deskVars => WorkInv'
  BY WorkStepKeeps DEF ShellInv
<1> QED
  BY <1>1, <1>2, TabKeeps, PTL DEF DeskSpec, DeskInv

\* The types of the work and of the tab, whatever is worked on.
THEOREM DeskTypes == DeskSpec => []DeskTypeOK
<1>1. DeskInv => DeskTypeOK
  <2> SUFFICES ASSUME DeskInv PROVE DeskTypeOK
    OBVIOUS
  <2>1. Rows(kind) \subseteq Statuses[kind] \cup {"replaced"}
    BY DEF Rows
  <2>2. sent \in [Slots -> [op : Ops(kind) \cup {"none"}, result : Results, live : BOOLEAN]]
    BY DEF DeskInv, WorkInv, RequestsInv, Requests
  <2> QED
    BY <2>1, <2>2 DEF DeskInv, ShellInv, WorkInv, DeskTypeOK
<1> QED
  BY <1>1, DeskKeeps, PTL

\* When the answers are in and nobody else has changed the row, the page has
\* the row as it is, because whatever was taken has been fetched again; and
\* then what it offers is looked up in the two tables
\* (features/*/hooks.ts, the pages, and the guards of the services).
THEOREM ControlsDoWork == DeskSpec => []ControlsWork
<1>1. DeskInv => ControlsWork
  <2> SUFFICES ASSUME DeskInv, Quiet
               PROVE  /\ shown = row
                      /\ panel \in {"closed", row} =>
                           \A op \in Offered : \/ Refusal(kind, op, user, row) = "ok"
                                                \/ Dead(op)
    BY DEF ControlsWork
  <2>1. ~Taken
    BY DEF Quiet, Idle, Taken, NoRequest
  <2>2. shown = row /\ row \in Statuses[kind] /\ kind \in Kinds
    BY <2>1, KindIsKind DEF DeskInv, WorkInv, Quiet
  <2>3. ASSUME panel \in {"closed", row}, NEW op \in Offered
        PROVE  Refusal(kind, op, user, row) = "ok" \/ Dead(op)
    <3>1. OnPage /\ Basis # "closed" /\ op \in Controls(kind, page, user, Basis)
      BY <2>3 DEF Offered
    <3>2. Basis = row
      BY <2>2, <2>3, <3>1 DEF Basis
    <3>3. page \in Places[kind] /\ ~loading /\ user # NoUser
      BY <3>1 DEF OnPage, SignedIn
    <3>4. page \in ProtectedPages
      BY <2>2, <3>3, KindsAre DEF Places, ProtectedPages, PageFeature
    <3>5. Admits(user, page) /\ user \in Users
      BY <3>3, <3>4 DEF DeskInv, ShellInv, ShellTypeOK, PageIsAdmitted
    <3>6. Works(kind, page, user, row, op)
      BY <2>2, <3>1, <3>2, <3>3, <3>5, OfferedWorks
    <3> QED
      BY <3>6 DEF Works, Dead
  <2> QED
    BY <2>2, <2>3
<1> QED
  BY <1>1, DeskKeeps, PTL

-----------------------------------------------------------------------------
(* What a step never does.                                                 *)

\* Only the server says of a request that it was taken.
LEMMA OnlyServedIsTaken ==
    ASSUME DeskInv, [DeskStep]_deskVars, NEW n \in Slots,
           sent[n].result = "pending", sent'[n].result = "ok"
    PROVE  Serve(n)
<1>0. sent \in [Slots -> Requests]
  BY DEF DeskInv, WorkInv, RequestsInv
<1>1. ASSUME NEW op \in Ops(kind), Sends(op) PROVE sent'[n].result # "ok"
  BY <1>0, <1>1 DEF Sends
<1>2. ASSUME NEW ops, Forget(ops) PROVE sent'[n].result # "ok"
  <2>1. sent'[n] = IF sent[n].op \in ops THEN [sent[n] EXCEPT !.live = FALSE] ELSE sent[n]
    BY <1>2 DEF Forget
  <2>2. sent[n] \in Requests
    BY <1>0
  <2> QED
    BY <2>1, <2>2 DEF Requests
<1>3. CASE sent' = sent
  BY <1>3
<1>4. CASE \E op \in Ops(kind) : Click(op) \/ OpenDialog(op)
  BY <1>1, <1>3, <1>4 DEF Click, OpenDialog
<1>5. CASE Confirm
  <2>1. dialog \in Ops(kind)
    BY <1>5 DEF Confirm, DeskInv, WorkInv
  <2> QED
    BY <1>1, <1>5, <2>1 DEF Confirm
<1>6. CASE Dismiss \/ OpenPanel \/ ClosePanel
  BY <1>2, <1>3, <1>6 DEF Dismiss, OpenPanel, ClosePanel
<1>7. ASSUME NEW m \in Slots, Serve(m), m # n PROVE FALSE
  BY <1>0, <1>7 DEF Serve
<1>8. ASSUME NEW m \in Slots, Answer(m) PROVE FALSE
  BY <1>0, <1>8 DEF Answer, NoRequest
<1>9. CASE Refetch \/ Ages \/ \E op \in Ops(kind), r \in Roles : Elsewhere(op, r)
  BY <1>3, <1>9 DEF Refetch, Ages, Elsewhere
<1>10. CASE Around
  BY <1>2, <1>3, <1>10 DEF Around, Unmounted, Restarted, NoRequest, workVars
<1>11. CASE UNCHANGED deskVars
  BY <1>3, <1>11 DEF deskVars, workVars
<1> QED
  BY <1>4, <1>5, <1>6, <1>7, <1>8, <1>9, <1>10, <1>11 DEF DeskStep

\* What is taken from a stale page is what a page fetched at that moment
\* would have offered, because every change a service makes is one some page
\* offers from the row as it is (the guards of the services against the pages).
THEOREM StaleClicksDoNoHarm == DeskSpec => StaleClicksHarmless
<1>1. ASSUME DeskInv, [DeskStep]_deskVars, NEW n \in Slots,
             sent[n].result = "pending", sent'[n].result = "ok", row' # row
      PROVE  Fresh(sent[n].op) \/ Tolerated(sent[n].op)
  <2> DEFINE op == sent[n].op
  <2>1. Serve(n)
    BY <1>1, OnlyServedIsTaken
  <2>2. op \in Ops(kind) /\ kind \in Kinds
    BY <1>1, KindIsKind DEF DeskInv, WorkInv, RequestsInv, Answered
  <2>3. Refusal(kind, op, Whoami, row) = "ok" /\ row' = Became(op)
    BY <1>1, <2>1 DEF Serve
  <2>4. /\ Whoami # NoUser /\ row \in GateOf(kind, op).from
    BY <2>2, <2>3, TakenIs
  <2>5. row \in Statuses[kind]
    BY <2>2, <2>4, GateOfIs, GatesAreSound DEF GateIsSound
  <2>6. Whoami = [role |-> account, flags |-> flags] /\ Whoami \in Users
    BY <1>1, <2>4, WhoamiIsUser DEF Whoami, DeskInv, ShellInv
  <2>7. kind = "sub" \/ After(kind, op, row) # row
    BY <1>1, <2>3 DEF Became
  <2>8. OfferedSomewhere(kind, Whoami, row, op)
    BY <2>2, <2>3, <2>5, <2>6, <2>7, ChangeIsOffered
  <2> QED
    BY <2>6, <2>8 DEF OfferedSomewhere, Fresh, Tolerated
<1>2. DeskInv /\ [DeskStep]_deskVars
        => [\A n \in Slots :
              sent[n].result = "pending" /\ sent'[n].result = "ok" /\ row' # row
                => Fresh(sent[n].op) \/ Tolerated(sent[n].op)]_deskVars
  BY <1>1
<1> QED
  BY <1>2, DeskKeeps, PTL DEF DeskSpec, StaleClicksHarmless

\* Only the answer to a request makes the page tell something new.
LEMMA OnlyAnswersAreTold ==
    ASSUME DeskInv, [DeskStep]_deskVars, NEW n \in Slots,
           sent[n] # NoRequest, sent'[n] = NoRequest, told' \notin {told, "nothing"}
    PROVE  Answer(n)
<1>1. CASE told' = told \/ told' = "nothing"
  BY <1>1
<1>2. CASE \E op \in Ops(kind) : Click(op) \/ OpenDialog(op)
  BY <1>1, <1>2 DEF Click, OpenDialog, Sends
<1>3. CASE Confirm \/ Dismiss \/ OpenPanel \/ ClosePanel
  BY <1>1, <1>3 DEF Confirm, Dismiss, OpenPanel, ClosePanel, Sends
<1>4. CASE \E m \in Slots : Serve(m)
  BY <1>1, <1>4 DEF Serve
<1>5. ASSUME NEW m \in Slots, Answer(m), m # n PROVE FALSE
  BY <1>5 DEF Answer, DeskInv, WorkInv, RequestsInv
<1>6. CASE Refetch \/ Ages \/ \E op \in Ops(kind), r \in Roles : Elsewhere(op, r)
  BY <1>1, <1>6 DEF Refetch, Ages, Elsewhere
<1>7. CASE Around
  BY <1>1, <1>7 DEF Around, Unmounted, Restarted, workVars
<1>8. CASE UNCHANGED deskVars
  BY <1>1, <1>8 DEF deskVars, workVars
<1> QED
  BY <1>2, <1>3, <1>4, <1>5, <1>6, <1>7, <1>8 DEF DeskStep

\* What a page says of a refusal is what the refusal was about, for the
\* codes the rules of api-errors.ts can tell apart.
THEOREM RefusalsAreExplained == DeskSpec => RefusalsExplained
<1>1. ASSUME DeskInv, [DeskStep]_deskVars, NEW n \in Slots,
             sent[n] # NoRequest, sent'[n] = NoRequest, told' \notin {told, "nothing"}
      PROVE  told' \in Truths(sent[n].result) \/ sent[n].result \in Misread
  <2>1. Answer(n)
    BY <1>1, OnlyAnswersAreTold
  <2>2. /\ sent[n].result \notin {"none", "pending", "ok"} /\ Spoken(sent[n].op)
        /\ told' = Humanize(Humanizer[kind], sent[n].result)
    BY <1>1, <2>1 DEF Answer
  <2> QED
    BY <1>1, <2>2, SpokenTruly DEF DeskInv
<1>2. DeskInv /\ [DeskStep]_deskVars
        => [\A n \in Slots :
              sent[n] # NoRequest /\ sent'[n] = NoRequest /\ told' \notin {told, "nothing"}
                => told' \in Truths(sent[n].result) \/ sent[n].result \in Misread]_deskVars
  BY <1>1
<1> QED
  BY <1>2, DeskKeeps, PTL DEF DeskSpec, RefusalsExplained

=============================================================================
