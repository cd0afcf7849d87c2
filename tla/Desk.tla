--------------------------------- MODULE Desk ---------------------------------
(***************************************************************************)
(* Somebody works on one row through the pages that show it, in one tab,   *)
(* while others change the row and the shell signs in, signs out, expires  *)
(* and reloads around it (Shell, Screens, Gates and Errors composed).      *)
(*                                                                         *)
(* A control acts on the row as it is on the server and is chosen from the *)
(* row as it was fetched; a dialog may stand between the two for any time. *)
(* What a request did is fetched again when it succeeds, and nothing is    *)
(* fetched again when it is refused.  The cache of fetched rows outlives   *)
(* the page, and a logout.                                                 *)
(*                                                                         *)
(* Kinds are taken one at a time.  Only for the kinds in Restless does the *)
(* shell move (the shell treats all kinds alike, and the state spaces then *)
(* add up instead of multiplying); the others are worked on from a page    *)
(* that shows them, by a user already signed in.                           *)
(***************************************************************************)
EXTENDS Shell, Screens, Errors

CONSTANTS Desks,      \* the kinds of row worked on
          Restless,   \* bound: the kinds during whose work the shell moves
          Doubled     \* bound: the kinds with two requests under way at once

ASSUME DeskAssumption == /\ Restless \subseteq Desks
                         /\ Doubled \subseteq Desks
                         /\ Desks \subseteq Kinds

VARIABLES kind,    \* the kind of the row
          row,     \* its status on the server
          shown,   \* its status in the query cache
          panel,   \* session panel: the status it was opened with, or "closed"
          dialog,  \* the operation of the open dialog, or "none"
          sent,    \* the requests under way: number -> request
          due,     \* whether the cached row was invalidated
          foreign, \* whether others changed the row since it was fetched
          told     \* the sentence the page shows of a refusal, or "nothing"

workVars == <<row, shown, panel, dialog, sent, due, foreign, told>>
deskVars == <<shellVars, kind, workVars>>

Slots     == IF kind \in Doubled THEN {1, 2} ELSE {1}
NoRequest == [op |-> "none", result |-> "none", live |-> FALSE]
Busy(op)  == \E n \in Slots : sent[n].op = op
BusyHere(op) == \E n \in Slots : sent[n].op = op /\ sent[n].live
Idle      == \A n \in Slots : sent[n] = NoRequest

-----------------------------------------------------------------------------
(* The page and its controls.                                              *)

OnPage == page \in Places[kind] /\ ~loading /\ SignedIn(user)

\* The status the controls go by.
Basis == IF kind = "session" THEN panel ELSE shown

Offered == IF OnPage /\ Basis # "closed" THEN Controls(kind, page, user, Basis) ELSE {}

UsesDialog(op) == Confirmed(kind, page, op) \/ <<kind, op>> \in OwnDialogs

IsPageDialog(op) == Confirmed(kind, page, op)

Sends(op) == \E n \in Slots :
               /\ sent[n] = NoRequest
               /\ \A m \in 1 .. n - 1 : sent[m] # NoRequest
               /\ sent' = [sent EXCEPT ![n] = [op |-> op, result |-> "pending",
                                               live |-> TRUE]]
               /\ told' = "nothing"

\* A control that acts at once.
Click(op) == /\ op \in Offered
             /\ ~UsesDialog(op)
             /\ dialog = "none"
             /\ <<kind, op>> \in GreyWhileBusy => ~Busy(op)
             /\ Sends(op)
             /\ UNCHANGED <<shellVars, kind, row, shown, panel, dialog, due, foreign>>

OpenDialog(op) == /\ op \in Offered
                  /\ UsesDialog(op)
                  /\ dialog = "none"
                  /\ dialog' = op
                  /\ UNCHANGED <<shellVars, kind, row, shown, panel, sent, due,
                                 foreign, told>>

\* The button of a dialog is grey while the mutation it uses is pending.
Confirm == /\ dialog # "none"
           /\ OnPage
           /\ Submits(kind, dialog, shown)
           /\ IF IsPageDialog(dialog) THEN ~Busy(dialog) ELSE ~BusyHere(dialog)
           /\ Sends(dialog)
           /\ UNCHANGED <<shellVars, kind, row, shown, panel, dialog, due, foreign>>

\* The callbacks of a closed dialog's own mutation do not run any more.
Forget(ops) == sent' = [n \in Slots |->
                          IF sent[n].op \in ops THEN [sent[n] EXCEPT !.live = FALSE]
                          ELSE sent[n]]

Dismiss == /\ dialog # "none"
           /\ dialog' = "none"
           /\ IF IsPageDialog(dialog) THEN sent' = sent ELSE Forget({dialog})
           /\ UNCHANGED <<shellVars, kind, row, shown, panel, due, foreign, told>>

OpenPanel == /\ kind = "session"
             /\ OnPage
             /\ panel = "closed"
             /\ panel' = shown
             /\ UNCHANGED <<shellVars, kind, row, shown, dialog, sent, due, foreign, told>>

ClosePanel == /\ panel # "closed"
              /\ panel' = "closed"
              /\ dialog' = "none"
              /\ told' = "nothing"
              /\ Forget(Ops(kind))
              /\ UNCHANGED <<shellVars, kind, row, shown, due, foreign>>

-----------------------------------------------------------------------------
(* The server, the answers, and the others.                                *)

\* A change of plan leaves the row and makes a new one, and so does an
\* enrollment when the row on screen has meanwhile ended.
Became(op) == IF kind = "sub" /\ op \in {"enroll", "changePlan"} /\ IsLive(shown)
              THEN "replaced" ELSE After(kind, op, row)

Serve(n) ==
  LET op == sent[n].op
      code == Refusal(kind, op, Whoami, row)
  IN /\ sent[n].result = "pending"
     /\ sent' = [sent EXCEPT ![n].result = code]
     /\ row' = IF code = "ok" THEN Became(op) ELSE row
     /\ UNCHANGED <<shellVars, kind, shown, panel, dialog, due, foreign, told>>

\* The rows whose refusals the page or the dialog shows.
Humanizer ==
  [sub |-> SubscriptionRules, lead |-> LeadRules, payment |-> PaymentRules,
   session |-> ScheduleRules, login |-> CoachRules, class |-> ClassRules,
   coach |-> CoachRules]

Spoken(op) == /\ kind \in DOMAIN Humanizer
              /\ kind \in {"class", "coach"} => op = "save"
              /\ <<kind, op>> # <<"sub", "unfreeze">>

\* A success invalidates the cached row wherever the user has gone; the
\* dialog closes only if it is still the one that sent the request.
Answer(n) ==
  LET op == sent[n].op
      ok == sent[n].result = "ok"
  IN /\ sent[n].result \notin {"none", "pending"}
     /\ due' = (due \/ ok)
     /\ dialog' = IF sent[n].live /\ dialog = op /\ (ok \/ ClosesAnyway(kind, op))
                  THEN "none" ELSE dialog
     /\ told' = IF ~ok /\ sent[n].live /\ Spoken(op)
                THEN Humanize(Humanizer[kind], sent[n].result) ELSE told
     /\ sent' = [sent EXCEPT ![n] = NoRequest]
     /\ UNCHANGED <<shellVars, kind, row, shown, panel, foreign>>

FoundAsIs == row

\* What a fetch finds: for a subscription, the live one that took the place
\* of the row.
Found == IF row = "replaced" THEN "active" ELSE row

\* The subscription dialogs are on screen only while there is a card.
StillOpen == IF kind = "sub" /\ dialog # "enroll" /\ ~IsLive(shown')
             THEN "none" ELSE dialog

\* A fetch for an invalidated row, or on returning to the window; an
\* expired session gets no answer and leaves what was cached.  Bound: the
\* successor of a row is fetched when no request is under way.
Refetch == /\ OnPage
           /\ row = "replaced" => Idle
           /\ row' = IF cookie THEN Found ELSE row
           /\ shown' = IF cookie THEN Found ELSE shown
           /\ due' = (due /\ ~cookie)
           /\ foreign' = (foreign /\ ~cookie)
           /\ dialog' = StillOpen
           /\ UNCHANGED <<shellVars, kind, panel, sent, told>>

\* Somebody else of the gym, or the platform admin, does what they may.
\* Bound: nobody acts on the successor of a row before it is fetched.
Elsewhere(op, role) ==
  /\ row # "replaced"
  /\ Refusal(kind, op, [role |-> role, flags |-> flags], row) = "ok"
  /\ row' = Became(op)
  /\ foreign' = TRUE
  /\ UNCHANGED <<shellVars, kind, shown, panel, dialog, sent, due, told>>

\* A day passes over an entry, or a subscription runs out.
Ages == /\ \/ kind = "entry" /\ row = "recent" /\ row' = "old"
           \/ kind = "sub" /\ row = "active" /\ row' = "expired"
        /\ foreign' = TRUE
        /\ UNCHANGED <<shellVars, kind, shown, panel, dialog, sent, due, told>>

-----------------------------------------------------------------------------
(* The shell around it.                                                    *)

\* Leaving the page drops its dialogs and the callbacks of its requests.
Unmounted == /\ dialog' = "none"
             /\ panel' = "closed"
             /\ told' = "nothing"
             /\ Forget(Ops(kind))
             /\ UNCHANGED <<kind, row, shown, due, foreign>>

\* A reload drops the cache as well.  A request it interrupts was served
\* before or is lost.
Restarted == /\ dialog' = "none"
             /\ panel' = "closed"
             /\ told' = "nothing"
             /\ sent' = [n \in Slots |-> NoRequest]
             /\ shown' = Found
             /\ row' = Found
             /\ due' = FALSE
             /\ foreign' = FALSE
             /\ UNCHANGED kind

Around ==
  /\ kind \in Restless
  /\ \/ Reload /\ Restarted
     \/ /\ ShellStep
        /\ ~Reload
        /\ IF page' # page \/ user' # user THEN Unmounted
           ELSE UNCHANGED <<kind, workVars>>

\* The shell once the first identity request has been answered.
AtWork == /\ account \in Roles
          /\ flags = Gated
          /\ cookie = TRUE
          /\ user = Whoami
          /\ loading = FALSE
          /\ calls = [i \in Ids |-> NoCall]
          /\ asked = 1
          /\ signing = "no"
          /\ waiting = 0
          /\ leaving = FALSE
          /\ page \in {p \in Places[kind] : Admits(user, p)}
          /\ odd = {}

DeskInit ==
  /\ kind \in Desks
  /\ IF kind \in Restless THEN ShellInit ELSE AtWork
  /\ row \in Statuses[kind]
  /\ shown = row
  /\ panel = "closed"
  /\ dialog = "none"
  /\ sent = [n \in Slots |-> NoRequest]
  /\ due = FALSE
  /\ foreign = FALSE
  /\ told = "nothing"

DeskStep == \/ \E op \in Ops(kind) : Click(op) \/ OpenDialog(op)
            \/ Confirm \/ Dismiss \/ OpenPanel \/ ClosePanel
            \/ \E n \in Slots : Serve(n) \/ Answer(n)
            \/ Refetch \/ Ages
            \/ \E op \in Ops(kind), r \in Roles : Elsewhere(op, r)
            \/ Around

DeskSpec == DeskInit /\ [][DeskStep]_deskVars

-----------------------------------------------------------------------------
Results == {"none", "pending", "ok", "INTERNAL", "NOT_AUTHENTICATED",
            "FEATURE_DISABLED", "INSUFFICIENT_PERMISSIONS", "PAYMENT_AMOUNT_INVALID",
            "ATTENDANCE_UNDO_WINDOW_EXPIRED"} \cup {g.code : g \in Gates[kind]}

Sentences ==
  {"sign_in_again", "not_allowed", "only_owners", "system_error", "check_the_details",
   "has_a_subscription", "not_in_this_status", "not_possible", "already_exists"}

DeskTypeOK ==
  /\ ShellTypeOK
  /\ kind \in Desks
  /\ row \in Statuses[kind] \cup {"replaced"}
  /\ shown \in Statuses[kind]
  /\ panel \in Statuses["session"] \cup {"closed"}
  /\ dialog \in Ops(kind) \cup {"none"}
  /\ sent \in [Slots -> [op : Ops(kind) \cup {"none"}, result : Results, live : BOOLEAN]]
  /\ due \in BOOLEAN
  /\ foreign \in BOOLEAN
  /\ told \in Sentences \cup {"nothing"}

\* Controls that never work, though the page offers them.
Dead(op) ==
  \/ kind = "class" /\ op = "save" /\ user.role \notin Owners
  \/ kind = "entry" /\ user.role \notin Staffs
  \/ kind = "sub" /\ row = "frozen" /\ op \in {"cancel", "changePlan"}
  \/ /\ page = "leads"
     /\ \/ op = "new"
        \/ row = "converted"
        \/ row = "lost" /\ op = "trial"

Quiet == Idle /\ ~due /\ ~foreign /\ user = Whoami

\* When the answers are in and nobody else has changed the row since it was
\* fetched, the page shows the row as it is, and the server takes every
\* operation the page has a control for - but for the listed ones, and the
\* session panel, which keeps the session it was opened with.
ControlsWork ==
  Quiet => /\ shown = row
           /\ panel \in {"closed", row} =>
                \A op \in Offered : \/ Refusal(kind, op, user, row) = "ok"
                                     \/ Dead(op)

\* What the user may still do to a row through a page that has gone stale.
Tolerated(op) ==
  \/ kind = "tenant" /\ row = "cancelled" /\ op = "suspend"
  \/ kind = "lead" /\ row = "lost" /\ op = "convert"
  \/ kind = "sub" /\ row = "expired" /\ op \in {"renew", "cancel"}

Fresh(op) == \E p \in Places[kind] :
               op \in Controls(kind, p, [role |-> account, flags |-> flags], row)

\* A click from a stale page or a forgotten dialog changes the row only in a
\* way that a page fetched at that moment would have offered.
StaleClicksHarmless ==
  [][\A n \in Slots :
       sent[n].result = "pending" /\ sent'[n].result = "ok" /\ row' # row
         => Fresh(sent[n].op) \/ Tolerated(sent[n].op)]_deskVars

\* What a refusal of each code may be told as.
Truths(code) ==
  CASE code = "NOT_AUTHENTICATED" -> {"sign_in_again"}
    [] code = "FEATURE_DISABLED" -> {"feature_off", "not_allowed"}
    [] code = "INSUFFICIENT_PERMISSIONS" -> {"not_allowed", "only_owners"}
    [] code = "INTERNAL" -> {"system_error"}
    [] code = "PAYMENT_AMOUNT_INVALID" -> {"bad_amount", "check_the_details"}
    [] code = "MEMBER_HAS_ACTIVE_SUBSCRIPTION" -> {"has_a_subscription"}
    [] code = "LEAD_ALREADY_CONVERTED" -> {"converted_before"}
    [] code = "PAYMENT_ALREADY_FULLY_REFUNDED" -> {"refunded_before"}
    [] code = "COACH_ALREADY_LINKED" -> {"has_a_login"}
    [] OTHER -> {"not_in_this_status", "not_possible"}

\* The refusals that are told as something else: their sentences wait for
\* the code, which the message does not have.
Misread == {"INVALID_LEAD_STATUS_TRANSITION", "LEAD_ALREADY_CONVERTED",
            "PAYMENT_ALREADY_FULLY_REFUNDED", "COACH_ALREADY_LINKED"}

\* What the page says of a refusal is what the refusal was about, whatever
\* the row has become meanwhile - but for the listed codes
\* (api-errors.ts, api-client.ts:50-55).
RefusalsExplained ==
  [][\A n \in Slots :
       sent[n] # NoRequest /\ sent'[n] = NoRequest /\ told' \notin {told, "nothing"}
         => told' \in Truths(sent[n].result) \/ sent[n].result \in Misread]_deskVars
=============================================================================
