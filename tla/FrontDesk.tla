------------------------------- MODULE FrontDesk ------------------------------
(***************************************************************************)
(* Checking members in: the check-in page with its scanner, its lookup and *)
(* its dialogs, the server's quota check and the entry it inserts, and     *)
(* what other desks do to the same members meanwhile (CheckInPage,         *)
(* QrScannerPanel, AsyncCombobox, attendance_service).                     *)
(*                                                                         *)
(* A plan is a sequence of rules: a class or any of them, and how many     *)
(* entries of it one period allows.  The verdict on a class is "ok", or    *)
(* the reason it is refused.                                               *)
(*                                                                         *)
(* Left out: the periods (one of them stands), the coach an entry is       *)
(* counted for, the role of the user (Desk has it), the loading of the     *)
(* member's own row, this desk's own undo (the others' stands for it).     *)
(***************************************************************************)
EXTENDS Lookup, Integers, Sequences, FiniteSets, FiniteSetsExt

CONSTANTS Members, Classes,
          Plans,        \* the plans each member may be on
          Finds,        \* the members on each page of each search
          MaxEntries,   \* bound: effective entries at once
          Shared,       \* bound: the members other desks act on
          NoMember

Any       == "any class"
Unlimited == -1
Verdicts  == {"ok", "quota_exceeded", "not_covered"}
NoPlan    == [live |-> FALSE, rules |-> <<>>]

ASSUME DeskAssumption ==
  /\ Any \notin Classes
  /\ NoMember \notin Members
  /\ Shared \subseteq Members
  /\ IsFiniteSet(Members) /\ IsFiniteSet(Classes)
  /\ MaxEntries \in Nat
  /\ \A m \in Members : \A p \in Plans[m] :
       /\ p.rules \in Seq([class : Classes \cup {Any}, most : Nat \cup {Unlimited}])
       /\ p.live \/ p = NoPlan

VARIABLES plan,      \* the plan of each member's live subscription
          entered,   \* the effective entries of each member in each class
          member,    \* the member on the page
          cached,    \* the member's summary in the query cache
          scan,      \* the scanner panel
          leaked,    \* whether a scanner runs on that no panel can stop
          dialog,    \* the confirmation or override dialog
          req        \* the request to record an entry

deskVars == <<plan, entered, member, cached, scan, leaked, dialog, req>>
deskVarsButScan == <<plan, entered, member, cached, leaked, dialog, req>>
vars == <<lookupVars, deskVars>>

Unknown  == [known |-> FALSE, rows |-> <<>>]
NoDialog == [says |-> "none", class |-> Any, about |-> NoMember, switched |-> FALSE]
NoReq    == [at |-> "none", member |-> NoMember, dialog |-> NoDialog,
             override |-> FALSE, marked |-> "ok", live |-> FALSE, overtaken |-> FALSE]

-----------------------------------------------------------------------------
(* The server.                                                             *)

EffectiveEntries(m, c) ==
  IF c = Any THEN MapThenSumSet(LAMBDA x : entered[m][x], Classes) ELSE entered[m][c]

Allows(m, rule) == rule.most = Unlimited \/ EffectiveEntries(m, rule.class) < rule.most

\* The rule for the class itself comes before one for any class.
FindMatchingEntitlement(rules, c) ==
  LET exact == {i \in DOMAIN rules : rules[i].class = c}
      wildcard == {i \in DOMAIN rules : rules[i].class = Any}
  IN IF exact # {} THEN Min(exact) ELSE IF wildcard # {} THEN Min(wildcard) ELSE 0

QuotaCheck(m, c) ==
  LET i == FindMatchingEntitlement(plan[m].rules, c) IN
  IF i = 0 THEN "not_covered"
  ELSE IF Allows(m, plan[m].rules[i]) THEN "ok" ELSE "quota_exceeded"

\* One row for each rule; none without a live subscription.
SummaryForMember(m) ==
  [i \in DOMAIN plan[m].rules |->
     [class |-> plan[m].rules[i].class, allowed |-> Allows(m, plan[m].rules[i])]]

PassesAnyway(m, verdict) == plan[m].live

\* Without a live subscription nobody passes, not even by an override.
Passes(m, verdict) == plan[m].live /\ (verdict = "ok" \/ req.override)

\* record_entry up to the insert: what it counted may change before that.
CheckEntry ==
  LET verdict == QuotaCheck(req.member, req.dialog.class) IN
  /\ req.at = "sent"
  /\ req' = IF Passes(req.member, verdict)
            THEN [req EXCEPT !.at = "checked", !.marked = verdict]
            ELSE [req EXCEPT !.at = "refused"]
  /\ UNCHANGED <<lookupVars, plan, entered, member, cached, scan, leaked, dialog>>

Total == MapThenSumSet(LAMBDA m : EffectiveEntries(m, Any), Members)

InsertEntry == /\ req.at = "checked"
               /\ Total < MaxEntries
               /\ entered' = [entered EXCEPT ![req.member][req.dialog.class] = @ + 1]
               /\ req' = [req EXCEPT !.at = "recorded"]
               /\ UNCHANGED <<lookupVars, plan, member, cached, scan, leaked, dialog>>

-----------------------------------------------------------------------------
(* Other desks, and whoever ends a subscription.                            *)

Overtaken(m) == req' = [req EXCEPT !.overtaken = @ \/ (req.at = "checked" /\ req.member = m)]

OtherEnters(m, c) == /\ Total < MaxEntries
                     /\ entered' = [entered EXCEPT ![m][c] = @ + 1]
                     /\ Overtaken(m)
                     /\ UNCHANGED <<lookupVars, plan, member, cached, scan, leaked, dialog>>

OtherUndoesTwice(m, c) ==
  /\ entered' = [entered EXCEPT ![m][c] = @ - 1]
  /\ UNCHANGED <<lookupVars, plan, member, cached, scan, leaked, dialog, req>>

\* An entry is undone once.
OtherUndoes(m, c) == /\ entered[m][c] > 0
                     /\ entered' = [entered EXCEPT ![m][c] = @ - 1]
                     /\ UNCHANGED <<lookupVars, plan, member, cached, scan, leaked,
                                    dialog, req>>

PlanEnds(m) == /\ plan[m].live
               /\ plan' = [plan EXCEPT ![m] = NoPlan]
               /\ Overtaken(m)
               /\ UNCHANGED <<lookupVars, entered, member, cached, scan, leaked, dialog>>

-----------------------------------------------------------------------------
(* Picking the member.                                                     *)

\* A dialog covers the page.
Overlaid == dialog # NoDialog

\* The workspace is not built anew for another member: its dialog stays.
\* Bound: a summary that was fetched on an earlier visit is not kept.
Select(m) == /\ member' = m
             /\ cached' = IF m = member THEN cached ELSE Unknown

\* A card is read, and changes the member under an open dialog.
ReadCard(m) == /\ Select(m)
               /\ scan' = "closed"
               /\ dialog' = [dialog EXCEPT !.switched = Overlaid]

\* Bound: the list is opened before anything else was done, nothing else is
\* done while it is open, and once it is closed it starts anew.
Browse == /\ scan = "closed" /\ ~leaked
          /\ member = NoMember
          /\ Total = 0
          /\ \/ ListStep
             \/ open /\ Renew
          /\ UNCHANGED deskVars

Pick(m) == /\ open
           /\ m \in UNION {Finds[q] : q \in items}
           /\ Renew
           /\ Select(m)
           /\ UNCHANGED <<plan, entered, scan, leaked, dialog, req>>

\* The panel takes the place of the lookup.
OpenScan == /\ ~Overlaid
            /\ scan = "closed"
            /\ scan' = "starting"
            /\ Renew
            /\ UNCHANGED deskVarsButScan

ScanStarts == /\ scan = "starting"
              /\ scan' = "running"
              /\ UNCHANGED <<lookupVars, deskVarsButScan>>

\* A scanner is stopped by its controls, which it has once it runs.
Abandons == leaked' = (leaked \/ scan = "starting")

CloseScan == /\ scan # "closed"
             /\ scan' = "closed"
             /\ Abandons
             /\ UNCHANGED <<lookupVars, plan, entered, member, cached, dialog, req>>

\* Whenever the page is drawn again the scanner is given up for another.
ScanRestarts == /\ scan # "closed"
                /\ scan' = "starting"
                /\ Abandons
                /\ UNCHANGED <<lookupVars, plan, entered, member, cached, dialog, req>>

Decode(m) == /\ scan = "running"
             /\ ReadCard(m)
             /\ UNCHANGED <<lookupVars, plan, entered, leaked, req>>

\* A scanner nobody stopped reads a card.  It closes the panel as well.
LateDecode(m) == /\ leaked
                 /\ leaked' = (scan = "starting")
                 /\ ReadCard(m)
                 /\ UNCHANGED <<lookupVars, plan, entered, req>>

Clear == /\ member # NoMember
         /\ ~Overlaid
         /\ member' = NoMember
         /\ cached' = Unknown
         /\ req' = [req EXCEPT !.live = FALSE]
         /\ UNCHANGED <<lookupVars, plan, entered, scan, leaked, dialog>>

-----------------------------------------------------------------------------
(* Checking the member in.                                                 *)

\* The summary is fetched when the page wants it, again after an entry, and
\* whenever the window is returned to.
FetchSummary ==
  /\ member # NoMember
  /\ cached' = [known |-> TRUE, rows |-> SummaryForMember(member)]
  /\ UNCHANGED <<lookupVars, plan, entered, member, scan, leaked, dialog, req>>

FindFirstQuota(summary, c) == IF summary = <<>> THEN 0 ELSE 1

\* The rule for the class itself before one for any class, as the server
\* has it.
FindQuotaForClass(summary, c) ==
  LET exact == {i \in DOMAIN summary : summary[i].class = c}
      wildcard == {i \in DOMAIN summary : summary[i].class = Any}
  IN IF exact # {} THEN Min(exact) ELSE IF wildcard # {} THEN Min(wildcard) ELSE 0

Foreseen(summary, c) ==
  LET i == FindQuotaForClass(summary, c) IN
  IF i = 0 THEN "not_covered"
  ELSE IF summary[i].allowed THEN "ok" ELSE "quota_exceeded"

\* The grid of classes is on the page only with rows in the summary.
ClassGrid == IF member # NoMember /\ cached.rows # <<>> THEN Classes ELSE {}

Tap(c) == /\ ~Overlaid
          /\ c \in ClassGrid
          /\ ~req.live
          /\ dialog' = [says |-> Foreseen(cached.rows, c), class |-> c,
                        about |-> member, switched |-> FALSE]
          /\ UNCHANGED <<lookupVars, plan, entered, member, cached, scan, leaked, req>>

Dismiss == /\ Overlaid
           /\ dialog' = NoDialog
           /\ UNCHANGED <<lookupVars, plan, entered, member, cached, scan, leaked, req>>

\* Bound: one request at a time, although a desk that goes on to another
\* member may have two.
Confirm == /\ Overlaid
           /\ req = NoReq
           /\ req' = [NoReq EXCEPT !.at = "sent", !.member = member, !.dialog = dialog,
                        !.override = dialog.says # "ok", !.live = TRUE]
           /\ UNCHANGED <<lookupVars, plan, entered, member, cached, scan, leaked, dialog>>

\* A refusal leaves the dialog open.
Answered == /\ req.at \in {"recorded", "refused"}
            /\ req' = NoReq
            /\ dialog' = IF req.live /\ req.at = "recorded" THEN NoDialog ELSE dialog
            /\ UNCHANGED <<lookupVars, plan, entered, member, cached, scan, leaked>>

\* The request or its answer does not arrive.
Lost == /\ req.at \in {"sent", "recorded"}
        /\ req' = NoReq
        /\ UNCHANGED <<lookupVars, plan, entered, member, cached, scan, leaked, dialog>>

-----------------------------------------------------------------------------
Init == /\ LookupInit
        /\ plan \in {p \in [Members -> UNION {Plans[m] : m \in Members}] : \A m \in Members : p[m] \in Plans[m]}
        /\ entered = [m \in Members |-> [c \in Classes |-> 0]]
        /\ member = NoMember
        /\ cached = Unknown
        /\ scan = "closed"
        /\ leaked = FALSE
        /\ dialog = NoDialog
        /\ req = NoReq

Next == \/ Browse
        \/ \E m \in Members : Pick(m)
        \/ /\ ~open
           /\ \/ CheckEntry \/ InsertEntry
              \/ \E m \in Shared, c \in Classes : OtherEnters(m, c) \/ OtherUndoes(m, c)
              \/ \E m \in Shared : PlanEnds(m)
              \/ \E m \in Members : Decode(m) \/ LateDecode(m)
              \/ OpenScan \/ ScanStarts \/ CloseScan \/ ScanRestarts \/ Clear
              \/ FetchSummary
              \/ \E c \in Classes : Tap(c)
              \/ Dismiss \/ Confirm \/ Answered \/ Lost

Spec == Init /\ [][Next]_vars

-----------------------------------------------------------------------------
Dialogs == [says : Verdicts \cup {"none"}, class : Classes \cup {Any},
            about : Members \cup {NoMember}, switched : BOOLEAN]

TypeOK ==
  /\ LookupTypeOK
  /\ \A m \in Members : plan[m] \in Plans[m] \cup {NoPlan}
  /\ entered \in [Members -> [Classes -> 0 .. MaxEntries]]
  /\ member \in Members \cup {NoMember}
  /\ cached.known \in BOOLEAN
  /\ scan \in {"closed", "starting", "running"}
  /\ leaked \in BOOLEAN
  /\ dialog \in Dialogs
  /\ req \in [at : {"none", "sent", "checked", "refused", "recorded"},
              member : Members \cup {NoMember}, dialog : Dialogs, override : BOOLEAN,
              marked : Verdicts, live : BOOLEAN, overtaken : BOOLEAN]

\* Nobody is let in by accident: an entry is recorded for the member the
\* desk was asked about, and beyond their plan only if the desk was told so
\* and agreed - unless a card was read while the dialog was open, or
\* another desk was faster than the count.
EntriesAreMeant ==
  [][InsertEntry =>
       /\ req.member = req.dialog.about \/ req.dialog.switched
       /\ \/ QuotaCheck(req.member, req.dialog.class) = "ok"
          \/ req.override /\ req.dialog.says # "ok"
          \/ req.overtaken]_vars

\* What the server makes of a request is what the page shows of the class
\* at that moment, and what the dialog said if the page still shows that -
\* unless the summary on the page is no longer the server's, or shows none.
ShownIsServed ==
  [][CheckEntry =>
       LET rows == cached.rows
           shown == Foreseen(rows, req.dialog.class)
       IN \/ req.member # member \/ rows = <<>>
          \/ rows # SummaryForMember(req.member)
          \/ shown # req.dialog.says
          \/ req'.at = "checked" /\ req'.marked = shown]_vars

\* membership_plan.py:119-121: "Zero entitlements = unlimited any class".
NoRulesNoLimit ==
  member # NoMember /\ cached.known /\ plan[member].live /\ plan[member].rules = <<>>
    => ClassGrid = Classes
=============================================================================
