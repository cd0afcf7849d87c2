--------------------------- MODULE FrontDeskProofs ---------------------------
(***************************************************************************)
(* What holds of every front desk, whatever the plans, the classes and the *)
(* members: that the page and the server read a plan alike, that an entry  *)
(* is for the member the desk was asked about and within the plan unless   *)
(* the desk was told otherwise, and that the list the desk picks from is   *)
(* whole, as that of every lookup is.                                      *)
(***************************************************************************)
EXTENDS FrontDesk, Sums

-----------------------------------------------------------------------------
(* The lookup, however much it finds and however late the pages come.      *)

\* Page 0 is awaited only for what stands in the search box.
FetchIsCurrent == fetching # NoSearch => fetching = search

LookupInv == LookupTypeOK /\ FetchIsCurrent /\ ListIsWhole

\* A fresh lookup is closed.
LEMMA RenewedHolds == ASSUME LookupInit PROVE LookupInv
<1>1. LookupTypeOK
  <2>1. 0 \in 0 .. MaxPage
    BY LookupAssumption DEF LookupAssumption
  <2>2. search \in Searches /\ items = {} /\ more = {} /\ page = 0
    BY LookupAssumption DEF LookupAssumption, LookupInit
  <2> QED
    BY <2>1, <2>2 DEF LookupInit, LookupTypeOK
<1>2. FetchIsCurrent /\ ListIsWhole
  BY DEF LookupInit, FetchIsCurrent, ListIsWhole
<1> QED
  BY <1>1, <1>2 DEF LookupInv

\* One that is put on the page again is as good as new.
LEMMA RenewKeeps == ASSUME Renew PROVE LookupInv'
<1>1. LookupTypeOK'
  <2>1. 0 \in 0 .. MaxPage
    BY LookupAssumption DEF LookupAssumption
  <2>2. search' \in Searches /\ items' = {} /\ more' = {} /\ page' = 0
    BY LookupAssumption DEF LookupAssumption, Renew
  <2> QED
    BY <2>1, <2>2 DEF Renew, LookupTypeOK
<1>2. FetchIsCurrent' /\ ListIsWhole'
  BY DEF Renew, FetchIsCurrent, ListIsWhole
<1> QED
  BY <1>1, <1>2 DEF LookupInv

\* Opening and typing wait for a fetch; closing makes nothing of the list.
LEMMA WindowKeeps ==
    ASSUME LookupInv, Open \/ Close \/ \E s \in Searches : TypeSearch(s)
    PROVE  LookupInv'
<1>1. CASE Open
  BY <1>1 DEF Open, LookupInv, LookupTypeOK, FetchIsCurrent, ListIsWhole
<1>2. CASE Close
  BY <1>2 DEF Close, LookupInv, LookupTypeOK, FetchIsCurrent, ListIsWhole
<1>3. ASSUME NEW s \in Searches, TypeSearch(s) PROVE LookupInv'
  BY <1>3 DEF TypeSearch, LookupInv, LookupTypeOK, FetchIsCurrent, ListIsWhole
<1> QED
  BY <1>1, <1>2, <1>3

\* The first page replaces the list with its own first page.
LEMMA FetchKeeps ==
    ASSUME LookupInv, Fetch \/ FetchLands \/ FetchFails
    PROVE  LookupInv'
<1>1. CASE Fetch
  BY <1>1, LookupAssumption DEF Fetch, LookupInv, LookupTypeOK, FetchIsCurrent,
                                ListIsWhole, LookupAssumption
<1>2. CASE FetchLands
  <2>1. fetching = search /\ search \in Searches
    BY <1>2 DEF FetchLands, LookupInv, FetchIsCurrent, LookupTypeOK
  <2>2. items' = {<<search, 0>>} /\ page' = 0 /\ search' = search
    BY <1>2, <2>1 DEF FetchLands
  <2>3. ListIsWhole'
    BY <2>2 DEF ListIsWhole
  <2>4. items' \in SUBSET PageIds /\ page' \in 0 .. MaxPage
    BY <2>1, <2>2, LookupAssumption DEF PageIds, LookupAssumption
  <2> QED
    BY <1>2, <2>3, <2>4 DEF FetchLands, LookupInv, LookupTypeOK, FetchIsCurrent
<1>3. CASE FetchFails
  BY <1>3 DEF FetchFails, LookupInv, LookupTypeOK, FetchIsCurrent, ListIsWhole
<1> QED
  BY <1>1, <1>2, <1>3

\* A further page that is not the next of this search makes the list stray.
LEMMA MoreKeeps ==
    ASSUME LookupInv, LoadMore \/ \E q \in PageIds : MoreLands(q) \/ MoreFails(q)
    PROVE  LookupInv'
<1>1. CASE LoadMore
  <2>1. <<search, page + 1>> \in PageIds
    BY <1>1, LookupAssumption DEF LoadMore, LookupInv, LookupTypeOK, PageIds, LookupAssumption
  <2>2. LookupTypeOK'
    BY <1>1, <2>1 DEF LoadMore, LookupInv, LookupTypeOK
  <2> QED
    BY <1>1, <2>2 DEF LoadMore, LookupInv, FetchIsCurrent, ListIsWhole
<1>2. ASSUME NEW q \in PageIds, MoreLands(q) PROVE LookupInv'
  <2>1. q[2] \in 0 .. MaxPage
    BY DEF PageIds
  <2>2. LookupTypeOK'
    BY <1>2, <2>1 DEF MoreLands, LookupInv, LookupTypeOK
  <2>3. ListIsWhole'
    <3>1. SUFFICES ASSUME open', ~timer', fetching' = NoSearch, ~stray'
                   PROVE  items' = {<<search', p>> : p \in 0 .. page'}
      BY DEF ListIsWhole
    <3>2. /\ items = {<<search, p>> : p \in 0 .. page}
          /\ q = <<search, page + 1>>
      BY <1>2, <3>1 DEF MoreLands, LookupInv, ListIsWhole
    <3>3. items' = items \cup {<<search, page + 1>>} /\ search' = search
          /\ page' = page + 1
      BY <1>2, <3>2 DEF MoreLands
    <3>4. page \in Nat
      BY LookupAssumption DEF LookupInv, LookupTypeOK, LookupAssumption
    <3>5. 0 .. page + 1 = (0 .. page) \cup {page + 1}
      BY <3>4
    <3> QED
      BY <3>2, <3>3, <3>5
  <2> QED
    BY <1>2, <2>2, <2>3 DEF MoreLands, LookupInv, FetchIsCurrent
<1>3. ASSUME NEW q \in PageIds, MoreFails(q) PROVE LookupInv'
  BY <1>3 DEF MoreFails, LookupInv, LookupTypeOK, FetchIsCurrent, ListIsWhole
<1> QED
  BY <1>1, <1>2, <1>3

\* Every step of a lookup keeps the invariant, and so does leaving it alone.
LEMMA LookupStepKeeps ==
    ASSUME LookupInv, [ListStep \/ Close \/ Renew]_lookupVars
    PROVE  LookupInv'
<1>1. CASE UNCHANGED lookupVars
  BY <1>1 DEF lookupVars, LookupInv, LookupTypeOK, FetchIsCurrent, ListIsWhole
<1>2. CASE ListStep
  BY <1>2, WindowKeeps, FetchKeeps, MoreKeeps DEF ListStep
<1> QED
  BY <1>1, <1>2, WindowKeeps, RenewKeeps

\* An open list that nothing is awaited for is what stands in the search
\* box, from the first page to the last, unless it was marked stray
\* (async-combobox.tsx:67-112).
THEOREM LookupIsWhole == LookupSpec => [](LookupTypeOK /\ ListIsWhole)
<1>1. LookupInit => LookupInv
  BY RenewedHolds
<1>2. LookupInv /\ [ListStep \/ Close \/ Renew]_lookupVars => LookupInv'
  BY LookupStepKeeps
<1>3. LookupInv => LookupTypeOK /\ ListIsWhole
  BY DEF LookupInv
<1> QED
  BY <1>1, <1>2, <1>3, PTL DEF LookupSpec

-----------------------------------------------------------------------------
(* What a plan says of a class, for the page and for the server.           *)

\* A set of numbers that is not empty has a least one.
LEMMA MinIsIn == ASSUME NEW S, S \subseteq Nat, S # {} PROVE Min(S) \in S
<1>1. PICK R : R = OpToRel(<, Nat)
  BY Zenon
<1>2. \E x \in S : \A y \in S : ~ (<<y, x>> \in R)
  BY <1>1, NatLessThanWellFounded, WFMin, Zenon
<1>3. \A x, y \in Nat : y < x => <<y, x>> \in R
  BY <1>1, Zenon DEF OpToRel
<1>4. \E x \in S : \A y \in S : x =< y
  <2>1. PICK x \in S : \A y \in S : ~ (<<y, x>> \in R)
    BY <1>2
  <2>2. \A y \in S : ~ (y < x)
    BY <1>3, <2>1
  <2> QED
    BY <2>2
<1> QED
  BY <1>4 DEF Min

AllPlans == {NoPlan} \cup UNION {Plans[m] : m \in Members}

\* A plan has a sequence of rules, and none without a subscription.
LEMMA PlansHaveRules ==
    ASSUME NEW p \in AllPlans
    PROVE  /\ DOMAIN p.rules \subseteq Nat \ {0}
           /\ p.live \/ p.rules = <<>>
<1>1. CASE p = NoPlan
  BY <1>1 DEF NoPlan
<1>2. CASE p # NoPlan
  <2>1. PICK m \in Members : p \in Plans[m]
    BY <1>2 DEF AllPlans
  <2>2. /\ p.rules \in Seq([class : Classes \cup {Any}, most : Nat \cup {Unlimited}])
        /\ p.live
    BY <1>2, <2>1, DeskAssumption, Zenon DEF DeskAssumption
  <2> QED
    BY <2>2
<1> QED
  BY <1>1, <1>2

\* The page finds in the summary the rule that the server finds in the plan,
\* and there is such a rule or none for both.
LEMMA SameRuleIsFound ==
    ASSUME NEW m \in Members, plan[m] \in AllPlans, NEW c
    PROVE  LET i == FindQuotaForClass(SummaryForMember(m), c)
           IN /\ i = FindMatchingEntitlement(plan[m].rules, c)
              /\ i = 0 \/ i \in DOMAIN plan[m].rules
<1> DEFINE rules == plan[m].rules
           rows == SummaryForMember(m)
           exact == {i \in DOMAIN rules : rules[i].class = c}
           wildcard == {i \in DOMAIN rules : rules[i].class = Any}
<1>1. DOMAIN rows = DOMAIN rules /\ \A i \in DOMAIN rules : rows[i].class = rules[i].class
  BY DEF SummaryForMember
<1>2. /\ {i \in DOMAIN rows : rows[i].class = c} = exact
      /\ {i \in DOMAIN rows : rows[i].class = Any} = wildcard
  BY <1>1
<1>3. exact \subseteq Nat /\ wildcard \subseteq Nat
  BY PlansHaveRules
<1>4. FindMatchingEntitlement(rules, c) =
        IF exact # {} THEN Min(exact) ELSE IF wildcard # {} THEN Min(wildcard) ELSE 0
  BY DEF FindMatchingEntitlement
<1>5. FindQuotaForClass(rows, c) =
        IF exact # {} THEN Min(exact) ELSE IF wildcard # {} THEN Min(wildcard) ELSE 0
  BY <1>2 DEF FindQuotaForClass
<1>6. (exact # {} => Min(exact) \in exact) /\ (wildcard # {} => Min(wildcard) \in wildcard)
  BY <1>3, MinIsIn
<1>7. exact \subseteq DOMAIN rules /\ wildcard \subseteq DOMAIN rules
  OBVIOUS
<1> HIDE DEF rules, rows, exact, wildcard
<1>8. FindQuotaForClass(rows, c) = FindMatchingEntitlement(rules, c)
  BY <1>4, <1>5
<1>9. FindMatchingEntitlement(rules, c) \in {0} \cup DOMAIN rules
  BY <1>4, <1>6, <1>7
<1> QED
  BY <1>8, <1>9 DEF rules, rows

\* Whatever the plan, the page makes of the summary what the server makes of
\* the plan (CheckInPage.tsx:441-460, attendance_service.py:550-567).
THEOREM PageReadsAsServer ==
    ASSUME NEW m \in Members, plan[m] \in AllPlans, NEW c
    PROVE  Foreseen(SummaryForMember(m), c) = QuotaCheck(m, c)
<1> DEFINE i == FindQuotaForClass(SummaryForMember(m), c)
<1>1. i = FindMatchingEntitlement(plan[m].rules, c) /\ (i = 0 \/ i \in DOMAIN plan[m].rules)
  BY SameRuleIsFound
<1>2. i # 0 => SummaryForMember(m)[i].allowed = Allows(m, plan[m].rules[i])
  BY <1>1 DEF SummaryForMember
<1>3. Foreseen(SummaryForMember(m), c) =
        IF i = 0 THEN "not_covered"
        ELSE IF SummaryForMember(m)[i].allowed THEN "ok" ELSE "quota_exceeded"
  BY DEF Foreseen
<1>4. QuotaCheck(m, c) =
        IF i = 0 THEN "not_covered"
        ELSE IF Allows(m, plan[m].rules[i]) THEN "ok" ELSE "quota_exceeded"
  BY <1>1 DEF QuotaCheck
<1> QED
  BY <1>2, <1>3, <1>4

-----------------------------------------------------------------------------
(* The desk: an invariant for the dialog and the request.                  *)

Requests == [at : {"none", "sent", "checked", "refused", "recorded"},
             member : Members \cup {NoMember}, dialog : Dialogs, override : BOOLEAN,
             marked : Verdicts, live : BOOLEAN, overtaken : BOOLEAN]

DeskTypes == /\ plan \in [Members -> AllPlans]
             /\ member \in Members \cup {NoMember}
             /\ dialog \in Dialogs
             /\ req \in Requests

\* An open dialog is about the member on the page, or a card was read since.
DialogIsMeant == dialog # NoDialog => /\ dialog.about = member \/ dialog.switched
                                      /\ member # NoMember

\* A request is for the member its dialog was about, and overrides what that
\* dialog warned of; what it was let through with, the desk knew.
RequestIsMeant ==
  req.at # "none" =>
    /\ req.member = req.dialog.about \/ req.dialog.switched
    /\ req.override = (req.dialog.says # "ok")
    /\ req.member \in Members
    /\ req.at = "checked" => req.marked = "ok" \/ req.override

\* The list is opened before there is a member.
OpenIsEarly == open => member = NoMember

DeskInv == DeskTypes /\ DialogIsMeant /\ RequestIsMeant /\ OpenIsEarly

\* At first nobody is on the page and nothing was asked.
LEMMA DeskInitHolds == ASSUME Init PROVE DeskInv
<1>1. DeskTypes
  <2>1. plan \in [Members -> AllPlans]
    BY DEF Init, AllPlans
  <2>2. NoDialog \in Dialogs
    BY DEF NoDialog, Dialogs
  <2>3. NoReq \in Requests
    BY <2>2 DEF NoReq, Requests, Verdicts
  <2> QED
    BY <2>1, <2>2, <2>3 DEF Init, DeskTypes
<1>2. DialogIsMeant /\ RequestIsMeant /\ OpenIsEarly
  BY DEF Init, DialogIsMeant, RequestIsMeant, OpenIsEarly, NoReq
<1> QED
  BY <1>1, <1>2 DEF DeskInv

\* A step that changes neither the member, nor the dialog, nor the request,
\* and does not open the list while there is a member.
LEMMA AsideKeeps ==
    ASSUME DeskInv, UNCHANGED <<member, dialog, req>>, plan' \in [Members -> AllPlans],
           open' => open \/ member = NoMember
    PROVE  DeskInv'
  BY DEF DeskInv, DeskTypes, DialogIsMeant, RequestIsMeant, OpenIsEarly

\* A step of the request alone.
LEMMA RequestStepKeeps ==
    ASSUME DeskInv, UNCHANGED <<member, dialog, open>>, plan' \in [Members -> AllPlans],
           req' \in Requests, RequestIsMeant'
    PROVE  DeskInv'
  BY DEF DeskInv, DeskTypes, DialogIsMeant, OpenIsEarly

\* The server counts, and lets through what is covered or overridden.
LEMMA CheckEntryKeeps == ASSUME DeskInv, CheckEntry PROVE DeskInv'
<1> DEFINE verdict == QuotaCheck(req.member, req.dialog.class)
<1>1. verdict \in Verdicts
  BY DEF QuotaCheck, Verdicts
<1>2. req \in Requests /\ RequestIsMeant
  BY DEF DeskInv, DeskTypes
<1>3. UNCHANGED <<member, dialog, open, plan>>
  BY DEF CheckEntry, lookupVars
<1>4. req' = IF Passes(req.member, verdict)
             THEN [req EXCEPT !.at = "checked", !.marked = verdict]
             ELSE [req EXCEPT !.at = "refused"]
  BY DEF CheckEntry
<1>5. req.at = "sent"
  BY DEF CheckEntry
<1> HIDE DEF verdict
<1>6. CASE Passes(req.member, verdict)
  <2>1. req' = [req EXCEPT !.at = "checked", !.marked = verdict]
    BY <1>4, <1>6
  <2>2. verdict = "ok" \/ req.override
    BY <1>6 DEF Passes
  <2>3. req' \in Requests
    BY <1>1, <1>2, <2>1 DEF Requests
  <2>4. RequestIsMeant'
    BY <1>2, <1>5, <2>1, <2>2 DEF Requests, RequestIsMeant
  <2> QED
    BY <1>3, <2>3, <2>4, RequestStepKeeps DEF DeskInv, DeskTypes
<1>7. CASE ~Passes(req.member, verdict)
  <2>1. req' = [req EXCEPT !.at = "refused"]
    BY <1>4, <1>7
  <2>2. req' \in Requests
    BY <1>2, <2>1 DEF Requests
  <2>3. RequestIsMeant'
    BY <1>2, <1>5, <2>1 DEF Requests, RequestIsMeant
  <2> QED
    BY <1>3, <2>2, <2>3, RequestStepKeeps DEF DeskInv, DeskTypes
<1> QED
  BY <1>6, <1>7

\* The entry is in; or the desk gave the request up, or goes on from it.
LEMMA RequestEndsKeeps ==
    ASSUME DeskInv, InsertEntry \/ Answered \/ Lost
    PROVE  DeskInv'
<1>1. req \in Requests /\ RequestIsMeant /\ DialogIsMeant /\ DeskTypes /\ OpenIsEarly
  BY DEF DeskInv, DeskTypes
<1>2. NoDialog \in Dialogs
  BY DEF NoDialog, Dialogs
<1>3. NoReq \in Requests /\ NoReq.at = "none"
  BY <1>2 DEF NoReq, Requests, Verdicts
<1>4. CASE InsertEntry
  <2>1. req' = [req EXCEPT !.at = "recorded"] /\ req.at = "checked"
        /\ UNCHANGED <<member, dialog, open, plan>>
    BY <1>4 DEF InsertEntry, lookupVars
  <2>2. req' \in Requests
    BY <1>1, <2>1 DEF Requests
  <2>3. RequestIsMeant'
    BY <1>1, <2>1 DEF Requests, RequestIsMeant
  <2> QED
    BY <1>1, <2>1, <2>2, <2>3, RequestStepKeeps DEF DeskTypes
<1>5. CASE Answered \/ Lost
  <2>1. /\ req' = NoReq /\ dialog' \in {dialog, NoDialog}
        /\ UNCHANGED <<member, open, plan>>
    BY <1>5 DEF Answered, Lost, lookupVars
  <2>2. RequestIsMeant'
    BY <1>3, <2>1 DEF RequestIsMeant
  <2> QED
    BY <1>1, <1>2, <1>3, <2>1, <2>2 DEF DeskInv, DeskTypes, DialogIsMeant, OpenIsEarly
<1> QED
  BY <1>4, <1>5

\* What other desks do only marks the request as overtaken.
LEMMA OvertakenKeeps ==
    ASSUME DeskInv, NEW m, UNCHANGED <<member, dialog, open>>,
           plan' \in [Members -> AllPlans], req' = req \/ Overtaken(m)
    PROVE  DeskInv'
<1>1. req \in Requests /\ RequestIsMeant
  BY DEF DeskInv, DeskTypes
<1>2. \E b \in BOOLEAN : req' = [req EXCEPT !.overtaken = b]
  BY <1>1 DEF Overtaken, Requests
<1>3. req' \in Requests
  BY <1>1, <1>2 DEF Requests
<1>4. RequestIsMeant'
  BY <1>1, <1>2 DEF Requests, RequestIsMeant
<1> QED
  BY <1>3, <1>4, RequestStepKeeps

LEMMA OthersKeep ==
    ASSUME DeskInv, NEW m \in Members, NEW c \in Classes,
           OtherEnters(m, c) \/ OtherUndoes(m, c)
    PROVE  DeskInv'
  BY OvertakenKeeps DEF OtherEnters, OtherUndoes, lookupVars, DeskInv, DeskTypes

LEMMA PlanEndsKeeps == ASSUME DeskInv, NEW m \in Members, PlanEnds(m) PROVE DeskInv'
<1>1. plan' \in [Members -> AllPlans]
  BY DEF PlanEnds, DeskInv, DeskTypes, AllPlans
<1> QED
  BY <1>1, OvertakenKeeps DEF PlanEnds, lookupVars

\* The lookup is used before there is a member, and closes with the choice.
LEMMA LookupKeepsDesk ==
    ASSUME DeskInv, Browse \/ \E m \in Members : Pick(m)
    PROVE  DeskInv'
<1>1. CASE Browse
  BY <1>1, AsideKeeps DEF Browse, deskVars, DeskInv, DeskTypes
<1>2. ASSUME NEW m \in Members, Pick(m) PROVE DeskInv'
  <2>1. dialog = NoDialog
    BY <1>2 DEF Pick, DeskInv, DialogIsMeant, OpenIsEarly
  <2>2. member' = m /\ ~open' /\ UNCHANGED <<plan, dialog, req>>
    BY <1>2 DEF Pick, Select, Renew
  <2> QED
    BY <2>1, <2>2 DEF DeskInv, DeskTypes, DialogIsMeant, RequestIsMeant, OpenIsEarly
<1> QED
  BY <1>1, <1>2

\* A card changes the member, and an open dialog remembers that it did.
LEMMA CardKeeps ==
    ASSUME DeskInv, ~open, NEW m \in Members, Decode(m) \/ LateDecode(m)
    PROVE  DeskInv'
<1>1. /\ member' = m /\ dialog' = [dialog EXCEPT !.switched = Overlaid]
      /\ UNCHANGED <<plan, req, open>>
  BY DEF Decode, LateDecode, ReadCard, Select, lookupVars
<1>2. m # NoMember
  BY DeskAssumption DEF DeskAssumption
<1>3. dialog \in Dialogs /\ Overlaid = (dialog # NoDialog)
  BY DEF DeskInv, DeskTypes, Overlaid
<1>4. dialog' \in Dialogs
  BY <1>1, <1>3 DEF Dialogs
<1>5. dialog' # NoDialog => dialog'.switched
  <2>1. CASE dialog = NoDialog
    <3>1. dialog' = [NoDialog EXCEPT !.switched = FALSE]
      BY <1>1, <1>3, <2>1
    <3> QED
      BY <3>1 DEF NoDialog
  <2>2. CASE dialog # NoDialog
    BY <1>1, <1>3, <2>2 DEF Dialogs
  <2> QED
    BY <2>1, <2>2
<1>6. DeskTypes' /\ DialogIsMeant'
  BY <1>1, <1>2, <1>4, <1>5 DEF DeskInv, DeskTypes, DialogIsMeant
<1> QED
  BY <1>1, <1>6 DEF DeskInv, RequestIsMeant, OpenIsEarly

\* The scanner, and what is fetched, matter to neither dialog nor request.
LEMMA PageKeeps ==
    ASSUME DeskInv, OpenScan \/ ScanStarts \/ CloseScan \/ ScanRestarts \/ FetchSummary
    PROVE  DeskInv'
<1>1. UNCHANGED <<member, dialog, req, plan>> /\ (open' => open)
  BY DEF OpenScan, ScanStarts, CloseScan, ScanRestarts, FetchSummary, Renew,
         lookupVars, deskVarsButScan
<1> QED
  BY <1>1, AsideKeeps DEF DeskInv, DeskTypes

\* The member is put away only without a dialog.
LEMMA ClearKeeps == ASSUME DeskInv, ~open, Clear PROVE DeskInv'
<1>1. /\ dialog = NoDialog /\ member' = NoMember /\ req' = [req EXCEPT !.live = FALSE]
      /\ UNCHANGED <<plan, dialog, open>>
  BY DEF Clear, Overlaid, lookupVars
<1>2. req \in Requests /\ RequestIsMeant
  BY DEF DeskInv, DeskTypes
<1>3. req' \in Requests
  BY <1>1, <1>2 DEF Requests
<1>4. RequestIsMeant'
  BY <1>1, <1>2 DEF Requests, RequestIsMeant
<1> QED
  BY <1>1, <1>3, <1>4 DEF DeskInv, DeskTypes, DialogIsMeant, OpenIsEarly

\* A dialog is opened about the member on the page.
LEMMA TapKeeps == ASSUME DeskInv, NEW c \in Classes, Tap(c) PROVE DeskInv'
<1>1. /\ dialog' = [says |-> Foreseen(cached.rows, c), class |-> c,
                    about |-> member, switched |-> FALSE]
      /\ UNCHANGED <<plan, member, req, open>>
  BY DEF Tap, lookupVars
<1>2. member # NoMember
  BY DEF Tap, ClassGrid
<1>3. Foreseen(cached.rows, c) \in Verdicts
  BY DEF Foreseen, Verdicts
<1>4. dialog' \in Dialogs
  BY <1>1, <1>3 DEF Dialogs, DeskInv, DeskTypes
<1>5. dialog'.about = member'
  BY <1>1
<1> QED
  BY <1>1, <1>2, <1>4, <1>5 DEF DeskInv, DeskTypes, DialogIsMeant, RequestIsMeant, OpenIsEarly

LEMMA DismissKeeps == ASSUME DeskInv, Dismiss PROVE DeskInv'
<1>1. dialog' = NoDialog /\ UNCHANGED <<plan, member, req, open>>
  BY DEF Dismiss, lookupVars
<1>2. NoDialog \in Dialogs
  BY DEF NoDialog, Dialogs
<1> QED
  BY <1>1, <1>2 DEF DeskInv, DeskTypes, DialogIsMeant, RequestIsMeant, OpenIsEarly

\* A request takes over what its dialog was about and what it said.
LEMMA ConfirmKeeps == ASSUME DeskInv, Confirm PROVE DeskInv'
<1>1. /\ dialog # NoDialog
      /\ req' = [NoReq EXCEPT !.at = "sent", !.member = member, !.dialog = dialog,
                              !.override = dialog.says # "ok", !.live = TRUE]
      /\ UNCHANGED <<plan, member, dialog, open>>
  BY DEF Confirm, Overlaid, lookupVars
<1>2. /\ dialog \in Dialogs /\ member \in Members
      /\ dialog.about = member \/ dialog.switched
  BY <1>1 DEF DeskInv, DeskTypes, DialogIsMeant
<1>3. req' = [at |-> "sent", member |-> member, dialog |-> dialog,
              override |-> dialog.says # "ok", marked |-> "ok", live |-> TRUE,
              overtaken |-> FALSE]
  BY <1>1 DEF NoReq
<1>4. req' \in Requests
  BY <1>2, <1>3 DEF Requests, Verdicts
<1>5. RequestIsMeant'
  BY <1>2, <1>3 DEF RequestIsMeant
<1> QED
  BY <1>1, <1>4, <1>5, RequestStepKeeps DEF DeskInv, DeskTypes

\* Every step keeps the invariant.
LEMMA DeskNextKeeps == ASSUME DeskInv, [Next]_vars PROVE DeskInv'
<1>1. CASE UNCHANGED vars
  BY <1>1, AsideKeeps DEF vars, deskVars, lookupVars, DeskInv, DeskTypes
<1>2. CASE Browse \/ \E m \in Members : Pick(m)
  BY <1>2, LookupKeepsDesk
<1>3. CASE CheckEntry \/ InsertEntry \/ Answered \/ Lost
  BY <1>3, CheckEntryKeeps, RequestEndsKeeps
<1>4. CASE \/ \E m \in Shared, c \in Classes : OtherEnters(m, c) \/ OtherUndoes(m, c)
           \/ \E m \in Shared : PlanEnds(m)
  <2>1. Shared \subseteq Members
    BY DeskAssumption DEF DeskAssumption
  <2> QED
    BY <1>4, <2>1, OthersKeep, PlanEndsKeeps
<1>5. CASE ~open /\ \E m \in Members : Decode(m) \/ LateDecode(m)
  BY <1>5, CardKeeps
<1>6. CASE OpenScan \/ ScanStarts \/ CloseScan \/ ScanRestarts \/ FetchSummary
  BY <1>6, PageKeeps
<1>7. CASE ~open /\ Clear
  BY <1>7, ClearKeeps
<1>8. CASE (\E c \in Classes : Tap(c)) \/ Dismiss \/ Confirm
  BY <1>8, TapKeeps, DismissKeeps, ConfirmKeeps
<1> QED
  BY <1>1, <1>2, <1>3, <1>4, <1>5, <1>6, <1>7, <1>8 DEF Next

\* The desk keeps its invariant.
LEMMA DeskKeeps == Spec => []DeskInv
<1>1. Init => DeskInv
  BY DeskInitHolds
<1>2. DeskInv /\ [Next]_vars => DeskInv'
  BY DeskNextKeeps
<1> QED
  BY <1>1, <1>2, PTL DEF Spec

-----------------------------------------------------------------------------
(* The results.                                                            *)

\* What the server makes of a request is what the page shows of the class,
\* and what the dialog said if the page still shows that, as long as the
\* page has the server's summary (CheckInPage.tsx:195-246,
\* attendance_service.py:132-235).
THEOREM ShownIsServedHolds == Spec => ShownIsServed
<1>1. DeskInv /\ [Next]_vars =>
        [CheckEntry =>
           LET rows == cached.rows
               shown == Foreseen(rows, req.dialog.class)
           IN \/ req.member # member \/ rows = <<>>
              \/ rows # SummaryForMember(req.member)
              \/ shown # req.dialog.says
              \/ req'.at = "checked" /\ req'.marked = shown]_vars
  <2> SUFFICES ASSUME DeskInv, CheckEntry, req.member = member, cached.rows # <<>>,
                      cached.rows = SummaryForMember(req.member),
                      Foreseen(cached.rows, req.dialog.class) = req.dialog.says
               PROVE  /\ req'.at = "checked"
                      /\ req'.marked = Foreseen(cached.rows, req.dialog.class)
    OBVIOUS
  <2> DEFINE verdict == QuotaCheck(req.member, req.dialog.class)
  <2>1. /\ req.at = "sent" /\ req \in Requests /\ req.member \in Members
        /\ req.override = (req.dialog.says # "ok")
        /\ plan \in [Members -> AllPlans]
    BY DEF CheckEntry, DeskInv, DeskTypes, RequestIsMeant
  <2>2. plan[req.member] \in AllPlans
    BY <2>1
  <2>3. verdict = req.dialog.says
    BY <2>1, <2>2, PageReadsAsServer
  <2>4. plan[req.member].live
    <3>1. plan[req.member].rules # <<>>
      BY DEF SummaryForMember
    <3> QED
      BY <2>2, <3>1, PlansHaveRules
  <2>5. Passes(req.member, verdict)
    BY <2>1, <2>3, <2>4 DEF Passes
  <2>6. req' = [req EXCEPT !.at = "checked", !.marked = verdict]
    BY <2>5 DEF CheckEntry
  <2> QED
    BY <2>1, <2>3, <2>6 DEF Requests
<1> QED
  BY <1>1, DeskKeeps, PTL DEF Spec, ShownIsServed

\* A step of the desk is a step of its lookup or leaves it alone.
LEMMA NextIsLookupStep ==
    ASSUME [Next]_vars
    PROVE  [ListStep \/ Close \/ Renew]_lookupVars
<1>1. CASE UNCHANGED vars
  BY <1>1 DEF vars
<1>2. CASE Browse \/ \E m \in Members : Pick(m)
  BY <1>2 DEF Browse, Pick
<1>3. CASE CheckEntry \/ InsertEntry \/ Answered \/ Lost
  BY <1>3 DEF CheckEntry, InsertEntry, Answered, Lost
<1>4. CASE \/ \E m \in Shared, c \in Classes : OtherEnters(m, c) \/ OtherUndoes(m, c)
           \/ \E m \in Shared : PlanEnds(m)
  BY <1>4 DEF OtherEnters, OtherUndoes, PlanEnds
<1>5. CASE \E m \in Members : Decode(m) \/ LateDecode(m)
  BY <1>5 DEF Decode, LateDecode
<1>6. CASE OpenScan \/ ScanStarts \/ CloseScan \/ ScanRestarts \/ FetchSummary \/ Clear
  BY <1>6 DEF OpenScan, ScanStarts, CloseScan, ScanRestarts, FetchSummary, Clear
<1>7. CASE (\E c \in Classes : Tap(c)) \/ Dismiss \/ Confirm
  BY <1>7 DEF Tap, Dismiss, Confirm
<1> QED
  BY <1>1, <1>2, <1>3, <1>4, <1>5, <1>6, <1>7 DEF Next

\* The check-in page uses the lookup as it is meant to be used: whatever happens
\* around it, its box sees a behaviour of the lookup alone
\* (CheckInPage.tsx renders AsyncCombobox and never reaches into it).
THEOREM DeskImplementsLookup == Spec => LookupSpec
<1>1. Init => LookupInit
  BY DEF Init
<1>2. [Next]_vars => [ListStep \/ Close \/ Renew]_lookupVars
  BY NextIsLookupStep
<1> QED
  BY <1>1, <1>2, PTL DEF Spec, LookupSpec

\* The list the desk picks members from is whole (async-combobox.tsx:67-112).
THEOREM DeskListIsWhole == Spec => []ListIsWhole
  BY DeskImplementsLookup, LookupIsWhole, PTL

-----------------------------------------------------------------------------
(* How many entries there are.                                             *)

Entries == [Members -> [Classes -> Nat]]

EntriesIn(e, c) == IF c = Any THEN SumOf(e, Classes) ELSE e[c]

EntriesOf(e) == [m \in Members |-> SumOf(e[m], Classes)]

\* What is counted of a member are the entries of that member.
LEMMA EffectiveIsIn == \A m, c : EffectiveEntries(m, c) = EntriesIn(entered[m], c)
  BY DEF EffectiveEntries, EntriesIn, SumOf

\* The entries of all are the sum of the entries of each.
LEMMA TotalIsSum == Total = SumOf(EntriesOf(entered), Members)
<1> DEFINE w == EntriesOf(entered)
           Fold(g) == g = [s \in SUBSET Members |-> IF s = {} THEN 0
                             ELSE EffectiveEntries(OneOf(s), Any) + g[s \ {OneOf(s)}]]
<1>1. Total = (CHOOSE g : Fold(g))[Members]
  BY DEF Total, MapThenSumSet, MapThenFoldSet, OneOf
<1>2. IsFiniteSet(Members)
  BY DeskAssumption DEF DeskAssumption
<1>3. PICK h : AddsUp(h, w, Members) /\ SumOf(w, Members) = h[Members]
  BY <1>2, SumIsFolded
<1>4. \A s \in SUBSET Members : s # {} => w[OneOf(s)] = EffectiveEntries(OneOf(s), Any)
  BY EffectiveIsIn DEF OneOf, EntriesOf, EntriesIn
<1> HIDE DEF w
<1>5. \A g : Fold(g) <=> AddsUp(g, w, Members)
  BY <1>4 DEF AddsUp
<1>6. Fold(CHOOSE g : Fold(g))
  BY <1>3, <1>5
<1>7. PICK g : g = (CHOOSE f : Fold(f)) /\ Fold(g)
  BY <1>6
<1> HIDE DEF Fold
<1>8. g[Members] = h[Members]
  BY <1>2, <1>3, <1>5, <1>7, FoldIsUnique
<1> QED
  BY <1>1, <1>3, <1>7, <1>8 DEF w

\* So they are after a step.
LEMMA EntriesThen ==
    /\ \A m, c : EffectiveEntries(m, c)' = EntriesIn(entered'[m], c)
    /\ Total' = SumOf(EntriesOf(entered'), Members)
<1>1. (\A m, c : EffectiveEntries(m, c) = EntriesIn(entered[m], c))'
  BY EffectiveIsIn, PTL
<1>2. (Total = SumOf(EntriesOf(entered), Members))'
  BY TotalIsSum, PTL
<1>3. \A m, c : EffectiveEntries(m, c)' = EntriesIn(entered'[m], c)
  BY <1>1
<1>4. Total' = SumOf(EntriesOf(entered'), Members)
  BY <1>2
<1> QED
  BY <1>3, <1>4
\* The entries of a member are a number, of which those in a class are part;
\* and so are those of all members.
LEMMA EntriesAreCounts ==
    ASSUME NEW e \in Entries
    PROVE  /\ \A m \in Members, c \in Classes \cup {Any} : EntriesIn(e[m], c) \in Nat
           /\ \A m \in Members : EntriesOf(e)[m] \in Nat
           /\ SumOf(EntriesOf(e), Members) \in Nat
           /\ \A m \in Members, c \in Classes : e[m][c] =< SumOf(EntriesOf(e), Members)
<1>0. IsFiniteSet(Members) /\ IsFiniteSet(Classes)
  BY DeskAssumption DEF DeskAssumption
<1>1. ASSUME NEW m \in Members
      PROVE  /\ SumOf(e[m], Classes) \in Nat
             /\ \A c \in Classes : e[m][c] =< SumOf(e[m], Classes)
  <2>1. \A c \in Classes : e[m][c] \in Nat
    BY DEF Entries
  <2> QED
    BY <1>0, <2>1, SumIsNat, SumBounds
<1>2. \A m \in Members : EntriesOf(e)[m] \in Nat
  BY <1>1 DEF EntriesOf
<1>3. SumOf(EntriesOf(e), Members) \in Nat
  BY <1>0, <1>2, SumIsNat
<1>4. \A m \in Members : EntriesOf(e)[m] =< SumOf(EntriesOf(e), Members)
  BY <1>0, <1>2, SumBounds
<1>5. ASSUME NEW m \in Members, NEW c \in Classes
      PROVE  e[m][c] =< SumOf(EntriesOf(e), Members)
  <2>1. e[m][c] =< SumOf(e[m], Classes) /\ e[m][c] \in Nat
    BY <1>1 DEF Entries
  <2>2. SumOf(e[m], Classes) =< SumOf(EntriesOf(e), Members)
    BY <1>4 DEF EntriesOf
  <2>3. SumOf(e[m], Classes) \in Nat
    BY <1>1
  <2> QED
    BY <1>3, <2>1, <2>2, <2>3
<1>6. \A m \in Members, c \in Classes \cup {Any} : EntriesIn(e[m], c) \in Nat
  BY <1>1 DEF EntriesIn, Entries
<1> QED
  BY <1>2, <1>3, <1>5, <1>6

\* One entry more or less of a member in a class is one more or less of the
\* member and of all.
LEMMA OneEntry ==
    ASSUME NEW e \in Entries, NEW m \in Members, NEW c \in Classes, NEW k \in {-1, 1},
           e[m][c] + k \in Nat
    PROVE  LET n == [e EXCEPT ![m][c] = @ + k] IN
           /\ n \in Entries
           /\ SumOf(n[m], Classes) = SumOf(e[m], Classes) + k
           /\ SumOf(EntriesOf(n), Members) = SumOf(EntriesOf(e), Members) + k
<1> DEFINE n == [e EXCEPT ![m][c] = @ + k]
<1>0. IsFiniteSet(Members) /\ IsFiniteSet(Classes)
  BY DeskAssumption DEF DeskAssumption
<1>1. n \in Entries
  BY DEF Entries
<1>2. /\ n[m][c] = e[m][c] + k
      /\ \A d \in Classes \ {c} : e[m][d] = n[m][d]
      /\ \A o \in Members \ {m} : n[o] = e[o]
  BY DEF Entries
<1>3. \A d \in Classes : e[m][d] \in Int /\ n[m][d] \in Int
  BY <1>1 DEF Entries
<1> HIDE DEF n
<1>4. SumOf(n[m], Classes) = SumOf(e[m], Classes) + n[m][c] - e[m][c]
  BY <1>0, <1>2, <1>3, SumChanges
<1>5. EntriesOf(e)[m] = SumOf(e[m], Classes) /\ EntriesOf(n)[m] = SumOf(n[m], Classes)
  BY DEF EntriesOf
<1>6. \A o \in Members \ {m} : EntriesOf(e)[o] = EntriesOf(n)[o]
  BY <1>2 DEF EntriesOf
<1>7. /\ \A o \in Members : EntriesOf(e)[o] \in Nat /\ EntriesOf(n)[o] \in Nat
      /\ SumOf(EntriesOf(e), Members) \in Nat
  BY <1>1, EntriesAreCounts
<1>8. \A o \in Members : EntriesOf(e)[o] \in Int /\ EntriesOf(n)[o] \in Int
  BY <1>7
<1>9. SumOf(EntriesOf(n), Members) =
        SumOf(EntriesOf(e), Members) + EntriesOf(n)[m] - EntriesOf(e)[m]
  BY <1>0, <1>6, <1>8, SumChanges
<1>10. e[m][c] \in Nat /\ SumOf(e[m], Classes) \in Nat
  BY <1>5, <1>7 DEF Entries
<1>11. SumOf(n[m], Classes) = SumOf(e[m], Classes) + k
  BY <1>2, <1>4, <1>10
<1>12. SumOf(EntriesOf(n), Members) = SumOf(EntriesOf(e), Members) + k
  BY <1>5, <1>7, <1>9, <1>10, <1>11
<1> QED
  BY <1>1, <1>11, <1>12 DEF n
-----------------------------------------------------------------------------
(* A verdict stands while the entries of the member do not grow.           *)

\* The server's verdict, of a plan and the entries of a member.
VerdictOf(p, e, c) ==
  LET i == FindMatchingEntitlement(p.rules, c) IN
  IF i = 0 THEN "not_covered"
  ELSE IF \/ p.rules[i].most = Unlimited
          \/ EntriesIn(e, p.rules[i].class) < p.rules[i].most
       THEN "ok" ELSE "quota_exceeded"

LEMMA VerdictIs == \A m, c : QuotaCheck(m, c) = VerdictOf(plan[m], entered[m], c)
  BY EffectiveIsIn DEF QuotaCheck, Allows, VerdictOf

LEMMA VerdictThen == \A m, c : QuotaCheck(m, c)' = VerdictOf(plan'[m], entered'[m], c)
<1>1. (\A m, c : QuotaCheck(m, c) = VerdictOf(plan[m], entered[m], c))'
  BY VerdictIs, PTL
<1> QED
  BY <1>1

\* A rule that is found is a rule of the plan.
LEMMA RuleIsFound ==
    ASSUME NEW p \in AllPlans, NEW c, FindMatchingEntitlement(p.rules, c) # 0
    PROVE  LET i == FindMatchingEntitlement(p.rules, c)
           IN /\ p.rules[i].class \in Classes \cup {Any}
              /\ p.rules[i].most \in Int
<1> DEFINE rules == p.rules
           exact == {i \in DOMAIN rules : rules[i].class = c}
           wildcard == {i \in DOMAIN rules : rules[i].class = Any}
           found == FindMatchingEntitlement(rules, c)
<1>1. found =
        IF exact # {} THEN Min(exact) ELSE IF wildcard # {} THEN Min(wildcard) ELSE 0
  BY DEF FindMatchingEntitlement
<1>2. (exact # {} => Min(exact) \in exact) /\ (wildcard # {} => Min(wildcard) \in wildcard)
  <2>1. exact \subseteq Nat /\ wildcard \subseteq Nat
    BY PlansHaveRules
  <2> QED
    BY <2>1, MinIsIn
<1>3. exact \subseteq DOMAIN rules /\ wildcard \subseteq DOMAIN rules
  OBVIOUS
<1>4. found \in DOMAIN rules
  <2> HIDE DEF found, exact, wildcard
  <2> QED
    BY <1>1, <1>2, <1>3 DEF found
<1>5. p # NoPlan
  BY <1>4 DEF NoPlan
<1>6. PICK m \in Members : p \in Plans[m]
  BY <1>5 DEF AllPlans
<1>7. rules \in Seq([class : Classes \cup {Any}, most : Nat \cup {Unlimited}])
  BY <1>6, DeskAssumption, Zenon DEF DeskAssumption
<1> HIDE DEF rules, found
<1>8. rules[found] \in [class : Classes \cup {Any}, most : Nat \cup {Unlimited}]
  <2>1. \A R, s, j : s \in Seq(R) /\ j \in DOMAIN s => s[j] \in R
    OBVIOUS
  <2> QED
    BY <1>4, <1>7, <2>1, Zenon
<1> QED
  BY <1>8 DEF Unlimited, rules, found

\* Who is let through is let through with fewer entries.
LEMMA FewerIsFine ==
    ASSUME NEW p \in AllPlans, NEW e, NEW n, NEW c,
           \A d \in Classes \cup {Any} :
             /\ EntriesIn(e, d) \in Nat /\ EntriesIn(n, d) \in Nat
             /\ EntriesIn(n, d) =< EntriesIn(e, d),
           VerdictOf(p, e, c) = "ok"
    PROVE  VerdictOf(p, n, c) = "ok"
<1> DEFINE i == FindMatchingEntitlement(p.rules, c)
<1>1. /\ i # 0
      /\ \/ p.rules[i].most = Unlimited
         \/ EntriesIn(e, p.rules[i].class) < p.rules[i].most
  BY DEF VerdictOf
<1>2. p.rules[i].class \in Classes \cup {Any} /\ p.rules[i].most \in Int
  BY <1>1, RuleIsFound
<1>3. \/ p.rules[i].most = Unlimited
      \/ EntriesIn(n, p.rules[i].class) < p.rules[i].most
  <2> HIDE DEF i
  <2> QED
    BY <1>1, <1>2
<1> QED
  BY <1>1, <1>3 DEF VerdictOf

\* What was let through as covered still is, unless it was overtaken.
VerdictStands == \A m \in Members, c \in Classes \cup {Any} :
    /\ req.at = "checked" /\ req.marked = "ok" /\ ~req.overtaken
    /\ req.member = m /\ req.dialog.class = c
    => QuotaCheck(m, c) = "ok"

CountInv == /\ entered \in Entries
            /\ Total =< MaxEntries
            /\ \A m \in Members : plan[m] \in Plans[m] \cup {NoPlan}
            /\ VerdictStands

\* A step that leaves plans and entries alone, and lets nobody through.
LEMMA CountAside ==
    ASSUME CountInv, UNCHANGED <<plan, entered>>,
           \/ req' = req
           \/ req'.at # "checked"
           \/ /\ req'.at = req.at /\ req'.marked = req.marked /\ req'.member = req.member
              /\ req'.overtaken = req.overtaken /\ req'.dialog = req.dialog
    PROVE  CountInv'
<1>1. \A m, c : QuotaCheck(m, c)' = QuotaCheck(m, c)
  BY VerdictIs, VerdictThen
<1>2. Total' = Total
  BY TotalIsSum, EntriesThen
<1>3. VerdictStands'
  BY <1>1 DEF CountInv, VerdictStands
<1> QED
  BY <1>2, <1>3 DEF CountInv

\* The verdict is that of the entries as they are.
LEMMA CheckCounts ==
    ASSUME DeskInv, CountInv, CheckEntry
    PROVE  CountInv'
<1> DEFINE verdict == QuotaCheck(req.member, req.dialog.class)
<1>1. /\ UNCHANGED <<plan, entered>> /\ req \in Requests
      /\ req' = IF Passes(req.member, verdict)
                THEN [req EXCEPT !.at = "checked", !.marked = verdict]
                ELSE [req EXCEPT !.at = "refused"]
  BY DEF CheckEntry, DeskInv, DeskTypes
<1> HIDE DEF verdict
<1>2. req'.at = "checked" => /\ req'.marked = verdict
                             /\ req'.member = req.member /\ req'.dialog = req.dialog
  BY <1>1 DEF Requests
<1>3. \A m, c : QuotaCheck(m, c)' = QuotaCheck(m, c)
  BY <1>1, VerdictIs, VerdictThen
<1>4. \A m, c : req.member = m /\ req.dialog.class = c => QuotaCheck(m, c) = verdict
  BY DEF verdict
<1>5. VerdictStands'
  BY <1>2, <1>3, <1>4 DEF VerdictStands
<1>6. Total' = Total
  BY <1>1, TotalIsSum, EntriesThen
<1> QED
  BY <1>1, <1>5, <1>6 DEF CountInv

\* An entry more is one more of all, within the bound.
LEMMA EntryCounts ==
    ASSUME CountInv, NEW m \in Members, NEW c \in Classes \cup {Any},
           Total < MaxEntries, entered' = [entered EXCEPT ![m][c] = @ + 1]
    PROVE  /\ entered' \in Entries /\ Total' =< MaxEntries
           /\ \A o \in Members \ {m} : entered'[o] = entered[o]
<1>0. MaxEntries \in Nat /\ Any \notin Classes
  BY DeskAssumption DEF DeskAssumption
<1>1. entered \in Entries
  BY DEF CountInv
<1>2. Total = SumOf(EntriesOf(entered), Members) /\ Total \in Nat
  BY <1>1, TotalIsSum, EntriesAreCounts
<1>3. Total' = SumOf(EntriesOf(entered'), Members)
  BY EntriesThen
<1>4. \A o \in Members \ {m} : entered'[o] = entered[o]
  BY <1>1 DEF Entries
<1>5. CASE c = Any
  <2>1. entered' = entered
    BY <1>0, <1>1, <1>5 DEF Entries
  <2> QED
    BY <1>0, <1>1, <1>2, <1>3, <2>1
<1>6. CASE c \in Classes
  <2>1. entered[m][c] + 1 \in Nat
    BY <1>1, <1>6 DEF Entries
  <2>2. /\ entered' \in Entries
        /\ SumOf(EntriesOf(entered'), Members) = SumOf(EntriesOf(entered), Members) + 1
    BY <1>1, <1>6, <2>1, OneEntry
  <2> QED
    BY <1>0, <1>2, <1>3, <1>4, <2>2
<1> QED
  BY <1>4, <1>5, <1>6
\* The entry is in, and whoever comes after is judged anew.
LEMMA InsertCounts ==
    ASSUME DeskInv, CountInv, InsertEntry
    PROVE  CountInv'
<1>1. /\ req.at = "checked" /\ Total < MaxEntries
      /\ entered' = [entered EXCEPT ![req.member][req.dialog.class] = @ + 1]
      /\ req' = [req EXCEPT !.at = "recorded"] /\ UNCHANGED plan
  BY DEF InsertEntry
<1>2. /\ req \in Requests /\ req.member \in Members
      /\ req.dialog.class \in Classes \cup {Any}
  BY <1>1 DEF DeskInv, DeskTypes, RequestIsMeant, Requests, Dialogs
<1>3. entered' \in Entries /\ Total' =< MaxEntries
  BY <1>1, <1>2, EntryCounts
<1>4. req'.at = "recorded"
  BY <1>1, <1>2 DEF Requests
<1>5. VerdictStands'
  BY <1>4 DEF VerdictStands
<1> QED
  BY <1>1, <1>3, <1>5 DEF CountInv

\* Another desk that enters the member overtakes what was let through; one
\* that undoes an entry leaves the member with fewer.
LEMMA OthersCount ==
    ASSUME DeskInv, CountInv, NEW m \in Members, NEW c \in Classes,
           OtherEnters(m, c) \/ OtherUndoes(m, c)
    PROVE  CountInv'
<1>0. /\ entered \in Entries /\ VerdictStands /\ req \in Requests
      /\ \A o \in Members : plan[o] \in AllPlans
  BY DEF CountInv, DeskInv, DeskTypes
<1>1. CASE OtherEnters(m, c)
  <2>1. /\ Total < MaxEntries /\ entered' = [entered EXCEPT ![m][c] = @ + 1]
        /\ Overtaken(m) /\ UNCHANGED plan
    BY <1>1 DEF OtherEnters
  <2>2. /\ entered' \in Entries /\ Total' =< MaxEntries
        /\ \A o \in Members \ {m} : entered'[o] = entered[o]
    BY <2>1, EntryCounts
  <2>3. VerdictStands'
    <3> SUFFICES ASSUME NEW o \in Members, NEW d \in Classes \cup {Any},
                        req'.at = "checked", req'.marked = "ok", ~req'.overtaken,
                        req'.member = o, req'.dialog.class = d
                 PROVE  QuotaCheck(o, d)' = "ok"
      BY DEF VerdictStands
    <3>1. /\ req.at = "checked" /\ req.marked = "ok" /\ ~req.overtaken
          /\ req.member = o /\ req.dialog.class = d /\ o # m
      BY <1>0, <2>1 DEF Overtaken, Requests
    <3>2. QuotaCheck(o, d) = "ok"
      BY <1>0, <3>1 DEF VerdictStands
    <3> QED
      BY <2>1, <2>2, <3>1, <3>2, VerdictIs, VerdictThen
  <2> QED
    BY <2>1, <2>2, <2>3 DEF CountInv
<1>2. CASE OtherUndoes(m, c)
  <2>1. /\ entered[m][c] > 0 /\ entered' = [entered EXCEPT ![m][c] = @ - 1]
        /\ UNCHANGED <<plan, req>>
    BY <1>2 DEF OtherUndoes
  <2>2. entered' = [entered EXCEPT ![m][c] = @ + (-1)] /\ entered[m][c] + (-1) \in Nat
    <3>1. entered[m][c] \in Nat
      BY <1>0 DEF Entries
    <3>2. entered[m][c] - 1 = entered[m][c] + (-1) /\ entered[m][c] + (-1) \in Nat
      BY <2>1, <3>1
    <3>3. [entered EXCEPT ![m][c] = @ - 1] = [entered EXCEPT ![m][c] = @ + (-1)]
      BY <3>2
    <3> QED
      BY <2>1, <3>2, <3>3
  <2>3. /\ entered' \in Entries
        /\ SumOf(entered'[m], Classes) = SumOf(entered[m], Classes) - 1
        /\ SumOf(EntriesOf(entered'), Members) = SumOf(EntriesOf(entered), Members) - 1
    <3>1. /\ entered' \in Entries
          /\ SumOf(entered'[m], Classes) = SumOf(entered[m], Classes) + (-1)
          /\ SumOf(EntriesOf(entered'), Members) = SumOf(EntriesOf(entered), Members) + (-1)
      BY <1>0, <2>2, OneEntry
    <3>2. /\ SumOf(entered[m], Classes) \in Nat
          /\ SumOf(EntriesOf(entered), Members) \in Nat
      BY <1>0, EntriesAreCounts DEF EntriesOf
    <3> QED
      BY <3>1, <3>2
  <2>4. Total' =< MaxEntries
    <3>1. MaxEntries \in Nat /\ SumOf(EntriesOf(entered), Members) \in Nat
      BY <1>0, EntriesAreCounts, DeskAssumption DEF DeskAssumption
    <3> QED
      BY <2>3, <3>1, TotalIsSum, EntriesThen DEF CountInv
  <2>5. ASSUME NEW o \in Members, NEW d \in Classes \cup {Any}
        PROVE  /\ EntriesIn(entered[o], d) \in Nat /\ EntriesIn(entered'[o], d) \in Nat
               /\ EntriesIn(entered'[o], d) =< EntriesIn(entered[o], d)
    <3>1. EntriesIn(entered[o], d) \in Nat /\ EntriesIn(entered'[o], d) \in Nat
      BY <1>0, <2>3, EntriesAreCounts
    <3>2. CASE o # m
      <4>1. entered'[o] = entered[o]
        BY <1>0, <2>1, <3>2 DEF Entries
      <4> QED
        BY <3>1, <4>1
    <3>3. CASE o = m /\ d = Any
      BY <2>3, <3>1, <3>3 DEF EntriesIn
    <3>4. CASE o = m /\ d # Any
      <4>1. entered'[m][d] = IF d = c THEN entered[m][d] - 1 ELSE entered[m][d]
        BY <1>0, <2>1, <3>4 DEF Entries
      <4> QED
        BY <3>1, <3>4, <4>1 DEF EntriesIn
    <3> QED
      BY <3>1, <3>2, <3>3, <3>4
  <2>6. VerdictStands'
    <3> SUFFICES ASSUME NEW o \in Members, NEW d \in Classes \cup {Any},
                        QuotaCheck(o, d) = "ok"
                 PROVE  QuotaCheck(o, d)' = "ok"
      BY <1>0, <2>1 DEF VerdictStands
    <3>1. VerdictOf(plan[o], entered[o], d) = "ok"
      BY VerdictIs
    <3>2. VerdictOf(plan[o], entered'[o], d) = "ok"
      BY <1>0, <2>5, <3>1, FewerIsFine
    <3> QED
      BY <2>1, <3>2, VerdictThen
  <2> QED
    BY <2>1, <2>3, <2>4, <2>6 DEF CountInv
<1> QED
  BY <1>1, <1>2

\* A plan that ends overtakes what was let through.
LEMMA PlanEndsCounts ==
    ASSUME DeskInv, CountInv, NEW m \in Members, PlanEnds(m)
    PROVE  CountInv'
<1>1. /\ plan' = [plan EXCEPT ![m] = NoPlan] /\ Overtaken(m) /\ UNCHANGED entered
      /\ plan \in [Members -> AllPlans] /\ req \in Requests /\ VerdictStands
  BY DEF PlanEnds, CountInv, DeskInv, DeskTypes
<1>2. Total' = Total
  BY <1>1, TotalIsSum, EntriesThen
<1>3. \A o \in Members : plan'[o] \in Plans[o] \cup {NoPlan}
  BY <1>1 DEF CountInv
<1>4. VerdictStands'
  <2> SUFFICES ASSUME NEW o \in Members, NEW d \in Classes \cup {Any},
                      req'.at = "checked", req'.marked = "ok", ~req'.overtaken,
                      req'.member = o, req'.dialog.class = d
               PROVE  QuotaCheck(o, d)' = "ok"
    BY DEF VerdictStands
  <2>1. /\ req.at = "checked" /\ req.marked = "ok" /\ ~req.overtaken
        /\ req.member = o /\ req.dialog.class = d /\ o # m
    BY <1>1 DEF Overtaken, Requests
  <2>2. QuotaCheck(o, d) = "ok"
    BY <1>1, <2>1 DEF VerdictStands
  <2>3. plan'[o] = plan[o]
    BY <1>1, <2>1
  <2> QED
    BY <1>1, <2>2, <2>3, VerdictIs, VerdictThen
<1> QED
  BY <1>1, <1>2, <1>3, <1>4 DEF CountInv

\* Nothing is entered at first.
LEMMA CountInitHolds == ASSUME Init PROVE CountInv
<1>0. IsFiniteSet(Members) /\ IsFiniteSet(Classes) /\ MaxEntries \in Nat
  BY DeskAssumption DEF DeskAssumption
<1>1. entered \in Entries /\ \A m \in Members, c \in Classes : entered[m][c] = 0
  BY DEF Init, Entries
<1>2. \A m \in Members : SumOf(entered[m], Classes) = 0
  BY <1>0, <1>1, SumOfZeros
<1>3. Total = 0
  BY <1>0, <1>2, SumOfZeros, TotalIsSum DEF EntriesOf
<1>4. VerdictStands /\ \A m \in Members : plan[m] \in Plans[m] \cup {NoPlan}
  BY DEF Init, VerdictStands, NoReq
<1> QED
  BY <1>0, <1>1, <1>3, <1>4 DEF CountInv

\* Every step keeps the counts.
LEMMA CountNextKeeps == ASSUME DeskInv, CountInv, [Next]_vars PROVE CountInv'
<1>1. CASE UNCHANGED vars
  BY <1>1, CountAside DEF vars, deskVars
<1>2. CASE Browse \/ \E m \in Members : Pick(m)
  BY <1>2, CountAside DEF Browse, Pick, deskVars
<1>3. CASE CheckEntry \/ InsertEntry
  BY <1>3, CheckCounts, InsertCounts
<1>4. CASE \/ \E m \in Shared, c \in Classes : OtherEnters(m, c) \/ OtherUndoes(m, c)
           \/ \E m \in Shared : PlanEnds(m)
  <2>1. Shared \subseteq Members
    BY DeskAssumption DEF DeskAssumption
  <2> QED
    BY <1>4, <2>1, OthersCount, PlanEndsCounts
<1>5. CASE \/ \E m \in Members : Decode(m) \/ LateDecode(m)
           \/ OpenScan \/ ScanStarts \/ CloseScan \/ ScanRestarts \/ FetchSummary
           \/ \E c \in Classes : Tap(c)
           \/ Dismiss
  <2>1. UNCHANGED <<plan, entered, req>>
    BY <1>5 DEF Decode, LateDecode, OpenScan, ScanStarts, CloseScan, ScanRestarts,
       FetchSummary, Tap, Dismiss, deskVarsButScan
  <2> QED
    BY <2>1, CountAside
<1>6. CASE Clear
  <2>1. UNCHANGED <<plan, entered>> /\ req' = [req EXCEPT !.live = FALSE] /\ req \in Requests
    BY <1>6 DEF Clear, DeskInv, DeskTypes
  <2>2. /\ req'.at = req.at /\ req'.marked = req.marked /\ req'.member = req.member
        /\ req'.overtaken = req.overtaken /\ req'.dialog = req.dialog
    BY <2>1 DEF Requests
  <2> QED
    BY <2>1, <2>2, CountAside
<1>7. CASE Answered \/ Lost \/ Confirm
  <2>1. UNCHANGED <<plan, entered>>
    BY <1>7 DEF Answered, Lost, Confirm
  <2>2. CASE Answered \/ Lost
    <3>1. req' = NoReq /\ NoReq.at # "checked"
      BY <2>2 DEF Answered, Lost, NoReq
    <3> QED
      BY <2>1, <3>1, CountAside
  <2>3. CASE Confirm
    <3>1. req' = [NoReq EXCEPT !.at = "sent", !.member = member, !.dialog = dialog,
                               !.override = dialog.says # "ok", !.live = TRUE]
      BY <2>3 DEF Confirm
    <3>2. req'.at = "sent"
      BY <3>1 DEF NoReq
    <3> QED
      BY <2>1, <3>2, CountAside
  <2> QED
    BY <1>7, <2>2, <2>3
<1> QED
  BY <1>1, <1>2, <1>3, <1>4, <1>5, <1>6, <1>7 DEF Next

LEMMA CountKeeps == Spec => [](DeskInv /\ CountInv)
<1>1. Init => DeskInv /\ CountInv
  BY DeskInitHolds, CountInitHolds
<1>2. DeskInv /\ CountInv /\ [Next]_vars => (DeskInv /\ CountInv)'
  BY DeskNextKeeps, CountNextKeeps
<1> QED
  BY <1>1, <1>2, PTL DEF Spec

\* An entry is recorded for the member the desk was asked about, unless a
\* card was read meanwhile; and it is one the plan covers, or one the desk was
\* warned of, unless somebody else was faster than the count
\* (CheckInPage.tsx:195-246, attendance_service.py:132-235).
THEOREM EntriesAreMeantHolds == Spec => EntriesAreMeant
<1>1. DeskInv /\ CountInv /\ [Next]_vars =>
        [InsertEntry =>
           /\ req.member = req.dialog.about \/ req.dialog.switched
           /\ \/ QuotaCheck(req.member, req.dialog.class) = "ok"
              \/ req.override /\ req.dialog.says # "ok"
              \/ req.overtaken]_vars
  <2> SUFFICES ASSUME DeskInv, CountInv, InsertEntry
               PROVE  /\ req.member = req.dialog.about \/ req.dialog.switched
                      /\ \/ QuotaCheck(req.member, req.dialog.class) = "ok"
                         \/ req.override /\ req.dialog.says # "ok"
                         \/ req.overtaken
    OBVIOUS
  <2>1. /\ req.at = "checked" /\ req.member \in Members
        /\ req.member = req.dialog.about \/ req.dialog.switched
        /\ req.override = (req.dialog.says # "ok")
        /\ req.marked = "ok" \/ req.override
        /\ req.dialog.class \in Classes \cup {Any}
    BY DEF InsertEntry, DeskInv, DeskTypes, RequestIsMeant, Requests, Dialogs
  <2> QED
    BY <2>1 DEF CountInv, VerdictStands
<1> QED
  BY <1>1, CountKeeps, PTL DEF Spec, EntriesAreMeant

PageInv == /\ cached.known \in BOOLEAN
           /\ scan \in {"closed", "starting", "running"}
           /\ leaked \in BOOLEAN

\* The scanner is in one of its states, and a summary is known or not.
LEMMA PageNextKeeps == ASSUME PageInv, [Next]_vars PROVE PageInv'
<1>0. Unknown.known = FALSE
  BY DEF Unknown
<1>1. CASE UNCHANGED <<cached, scan, leaked>>
  BY <1>1 DEF PageInv
<1>2. CASE \E m \in Members : Pick(m)
  <2>1. UNCHANGED <<scan, leaked>> /\ cached' \in {cached, Unknown}
    BY <1>2 DEF Pick, Select
  <2> QED
    BY <1>0, <2>1 DEF PageInv
<1>3. ASSUME NEW m \in Members, Decode(m) \/ LateDecode(m) PROVE PageInv'
  <2>1. scan' = "closed" /\ cached' \in {cached, Unknown}
    BY <1>3 DEF Decode, LateDecode, ReadCard, Select
  <2>2. leaked' = leaked \/ leaked' = (scan = "starting")
    BY <1>3 DEF Decode, LateDecode
  <2>3. leaked' \in BOOLEAN
    BY <2>2 DEF PageInv
  <2> QED
    BY <1>0, <2>1, <2>3 DEF PageInv
<1>4. CASE OpenScan \/ ScanStarts \/ CloseScan \/ ScanRestarts
  <2>1. scan' \in {"closed", "starting", "running"} /\ UNCHANGED cached
    BY <1>4 DEF OpenScan, ScanStarts, CloseScan, ScanRestarts, deskVarsButScan
  <2>2. leaked' = leaked \/ leaked' = (leaked \/ scan = "starting")
    BY <1>4 DEF OpenScan, ScanStarts, CloseScan, ScanRestarts, Abandons, deskVarsButScan
  <2>3. leaked' \in BOOLEAN
    BY <2>2 DEF PageInv
  <2> QED
    BY <2>1, <2>3 DEF PageInv
<1>5. CASE Clear \/ FetchSummary
  <2>1. UNCHANGED <<scan, leaked>>
    BY <1>5 DEF Clear, FetchSummary
  <2>2. cached' = Unknown \/ cached' = [known |-> TRUE, rows |-> SummaryForMember(member)]
    BY <1>5 DEF Clear, FetchSummary
  <2>3. cached'.known \in BOOLEAN
    <3>1. [known |-> TRUE, rows |-> SummaryForMember(member)].known = TRUE
      OBVIOUS
    <3> QED
      BY <1>0, <2>2, <3>1, Zenon
  <2> QED
    BY <2>1, <2>3 DEF PageInv
<1>6. CASE \/ UNCHANGED vars
           \/ Browse \/ CheckEntry \/ InsertEntry \/ Answered \/ Lost \/ Dismiss
           \/ Confirm
           \/ \E m \in Shared, c \in Classes : OtherEnters(m, c) \/ OtherUndoes(m, c)
           \/ \E m \in Shared : PlanEnds(m)
           \/ \E c \in Classes : Tap(c)
  BY <1>1, <1>6 DEF vars, deskVars, Browse, CheckEntry, InsertEntry, Answered, Lost,
     Dismiss, Confirm, OtherEnters, OtherUndoes, PlanEnds, Tap
<1> QED
  BY <1>2, <1>3, <1>4, <1>5, <1>6 DEF Next

\* No count is negative or beyond the bound, and everything on the page has
\* its type.
THEOREM DeskTypesHold == Spec => []TypeOK
<1>1. Init => LookupInv /\ PageInv
  <2> SUFFICES ASSUME Init PROVE LookupInv /\ PageInv
    OBVIOUS
  <2>1. LookupInit /\ cached = Unknown /\ scan = "closed" /\ leaked = FALSE
    BY DEF Init
  <2> QED
    BY <2>1, RenewedHolds DEF PageInv, Unknown
<1>2. LookupInv /\ PageInv /\ [Next]_vars => (LookupInv /\ PageInv)'
  BY NextIsLookupStep, LookupStepKeeps, PageNextKeeps
<1>3. LookupInv /\ PageInv /\ DeskInv /\ CountInv => TypeOK
  <2> SUFFICES ASSUME LookupInv, PageInv, DeskInv, CountInv PROVE TypeOK
    OBVIOUS
  <2>0. MaxEntries \in Nat
    BY DeskAssumption DEF DeskAssumption
  <2>1. \A m \in Members, c \in Classes : entered[m][c] \in 0 .. MaxEntries
    <3>1. entered \in Entries /\ Total = SumOf(EntriesOf(entered), Members)
      BY TotalIsSum DEF CountInv
    <3>2. /\ SumOf(EntriesOf(entered), Members) \in Nat
          /\ \A m \in Members, c \in Classes :
               entered[m][c] =< SumOf(EntriesOf(entered), Members)
      BY <3>1, EntriesAreCounts
    <3> QED
      BY <2>0, <3>1, <3>2 DEF CountInv, Entries
  <2>2. entered \in [Members -> [Classes -> 0 .. MaxEntries]]
    BY <2>1 DEF CountInv, Entries
  <2>3. LookupTypeOK
    BY DEF LookupInv
  <2> QED
    BY <2>2, <2>3 DEF TypeOK, DeskInv, DeskTypes, CountInv, PageInv, Requests
<1> QED
  BY <1>1, <1>2, <1>3, CountKeeps, PTL DEF Spec

=============================================================================
