-------------------------------- MODULE Editor --------------------------------
(***************************************************************************)
(* One user at one form, or at one button, of a page that shows the answer *)
(* of one request, while others edit the same row (Hooks, Forms, and the   *)
(* query cache they use).                                                  *)
(*                                                                         *)
(* The row has two parts: "own", which the user's request writes, and      *)
(* "other", which the others edit.  Each is the number of its last write.  *)
(*                                                                         *)
(* The query cache is modelled from how the hooks use it: an invalidation  *)
(* fetches again at once what is on screen, abandoning a fetch under way,  *)
(* and only marks what is not; a fetch under way when its page is left     *)
(* goes on, serves the page that is opened next, and clears the mark when  *)
(* it lands; a failed fetch leaves what was cached.                        *)
(***************************************************************************)
EXTENDS Hooks, Forms, FiniteSets

CONSTANTS MaxSends,    \* bound: requests the user sends
          MaxOthers    \* bound: edits the others make

ASSUME EditorAssumption == MaxSends \in Nat \ {0} /\ MaxOthers \in Nat

VARIABLES job,       \* the mutation, the query on screen, the form and one field
          row,       \* the row on the server
          shown,     \* the row in the query cache
          stale,     \* whether the cached row is marked as invalidated
          fetch,     \* the fetch under way
          mounted,   \* whether the page is on screen
          form,      \* the form
          req,       \* the mutation under way
          sends,     \* how many were sent
          claimed,   \* the last of the user's writes that was reported done
          outrun     \* whether the cached row came with a fetch that an
                     \* invalidation had not reached

vars == <<job, row, shown, stale, fetch, mounted, form, req, sends, claimed, outrun>>

None    == -1
Row     == [own : 0 .. MaxSends, other : 0 .. MaxOthers]
NoFetch == [at |-> "none", row |-> [own |-> 0, other |-> 0], passed |-> FALSE]
Sent    == [NoFetch EXCEPT !.at = "sent"]
Closed  == [open |-> FALSE, typed |-> FALSE, value |-> "", base |-> 0]
NoReq   == [at |-> "none", own |-> 0, other |-> None, short |-> FALSE,
            live |-> FALSE, row |-> [own |-> 0, other |-> 0]]

-----------------------------------------------------------------------------
(* The jobs: every mutation against every query its facts touch, and every *)
(* form with each of its fields on the page it belongs to.                  *)

\* Bound: of the fields whose length nobody asks for and which are not
\* dropped, one stands for all.
Telling(f) ==
  LET asked == DOMAIN f.insists
                 \cup IF f.does \in DOMAIN Shortest THEN DOMAIN Shortest[f.does] ELSE {}
                 \cup IF f.does \in DOMAIN Unknown THEN Unknown[f.does] ELSE {}
      rest == f.fields \ asked
  IN (f.fields \cap asked) \cup IF rest = {} THEN {} ELSE {CHOOSE x \in rest : TRUE}

Jobs ==
  {[does |-> p[1], watches |-> p[2], form |-> "none", field |-> "press"] :
     p \in {p \in (DOMAIN Writes) \X (DOMAIN Reads) : Touches(p[1], p[2])}}
  \cup UNION {{[does |-> Forms[f].does, watches |-> Forms[f].from, form |-> f, field |-> x] :
                 x \in Telling(Forms[f])} : f \in DOMAIN Forms \ {"none"}}

FormAtHand == Forms[job.form]

\* What may stand in the field: nothing, a blank, a letter, enough.
Length(v) == CASE v = "" -> 0 [] v \in {" ", "x"} -> 1 [] OTHER -> 9

Demand(of, field) == IF field \in DOMAIN of THEN of[field] ELSE 0

Floor == IF job.does \in DOMAIN Shortest THEN Demand(Shortest[job.does], job.field) ELSE 0

Values == IF Floor > 0 \/ Demand(FormAtHand.insists, job.field) > 0
          THEN {"", " ", "x", "text"} ELSE {"text"}

Trimmed(v) == IF v = " " /\ job.field \in FormAtHand.trims THEN "" ELSE v

\* The button of the form lets the field through.
LetThrough(v) == Length(IF FormAtHand.wary THEN Trimmed(v) ELSE v)
                   >= Demand(FormAtHand.insists, job.field)

Dropped == /\ job.does \in DOMAIN Unknown
           /\ job.field \in Unknown[job.does]

-----------------------------------------------------------------------------
(* The user.                                                               *)

OpenFormEmpty == /\ mounted /\ job.form # "none" /\ ~form.open
                 /\ form' = [Closed EXCEPT !.open = TRUE, !.base = None]
                 /\ UNCHANGED <<job, row, shown, stale, fetch, mounted, req, sends,
                                claimed, outrun>>

OpenForm == /\ mounted
            /\ job.form # "none"
            /\ ~form.open
            /\ form' = [Closed EXCEPT !.open = TRUE, !.base = shown.other]
            /\ UNCHANGED <<job, row, shown, stale, fetch, mounted, req, sends,
                           claimed, outrun>>

Type(v) == /\ form.open
           /\ form' = [form EXCEPT !.typed = TRUE, !.value = v]
           /\ UNCHANGED <<job, row, shown, stale, fetch, mounted, req, sends,
                          claimed, outrun>>

OriginalAsShown == shown.other

\* What an edit is compared with to find the fields that changed.
Original == form.base

\* The field of the others, as far as the form sends it along.
Carried == CASE FormAtHand.sends = "all" -> form.base
             [] FormAtHand.sends = "changed" /\ Original # form.base -> form.base
             [] OTHER -> None

\* The button is grey while the request it sent is under way.
Send == /\ mounted
        /\ req = NoReq
        /\ sends < MaxSends
        /\ \/ job.form = "none"
           \/ form.open /\ form.typed /\ LetThrough(form.value)
        /\ sends' = sends + 1
        /\ req' = [NoReq EXCEPT !.at = "sent", !.own = sends + 1, !.other = Carried,
                     !.short = Length(Trimmed(form.value)) < Floor, !.live = TRUE]
        /\ form' = [form EXCEPT !.typed = FALSE]
        /\ UNCHANGED <<job, row, shown, stale, fetch, mounted, claimed, outrun>>

\* A dialog that was closed is not told of the answer any more, unless it
\* closes whatever the answer: that one shares the mutation of its page.
Dismiss == /\ form.open
           /\ form' = Closed
           /\ req' = [req EXCEPT !.live = @ /\ FormAtHand.ends = "settled"]
           /\ UNCHANGED <<job, row, shown, stale, fetch, mounted, sends, claimed, outrun>>

Leave == /\ mounted
         /\ mounted' = FALSE
         /\ form' = Closed
         /\ req' = [req EXCEPT !.live = FALSE]
         /\ UNCHANGED <<job, row, shown, stale, fetch, sends, claimed, outrun>>

\* Opening the page fetches what is marked, or more than five minutes old.
Return == /\ ~mounted
          /\ mounted' = TRUE
          /\ fetch' \in IF fetch # NoFetch THEN {fetch}
                        ELSE IF stale THEN {Sent} ELSE {NoFetch, Sent}
          /\ UNCHANGED <<job, row, shown, stale, form, req, sends, claimed, outrun>>

Refocus == /\ mounted
           /\ fetch = NoFetch
           /\ fetch' = Sent
           /\ UNCHANGED <<job, row, shown, stale, mounted, form, req, sends,
                          claimed, outrun>>

-----------------------------------------------------------------------------
(* The server and the others.                                              *)

\* Bound: where only a button is pressed nobody edits the row.
Elsewhere == /\ job.form # "none"
             /\ row.other < MaxOthers
             /\ row' = [row EXCEPT !.other = @ + 1]
             /\ UNCHANGED <<job, shown, stale, fetch, mounted, form, req, sends,
                            claimed, outrun>>

Written == [own |-> IF Dropped THEN row.own ELSE req.own,
            other |-> IF req.other = None THEN row.other ELSE req.other]

\* A request may be refused for reasons the form cannot know.
Serve == /\ req.at = "sent"
         /\ \/ /\ ~req.short
               /\ row' = Written
               /\ req' = [req EXCEPT !.at = "ok", !.row = Written]
            \/ /\ row' = row
               /\ req' = [req EXCEPT !.at = "refused"]
         /\ UNCHANGED <<job, shown, stale, fetch, mounted, form, sends, claimed, outrun>>

FetchServed == /\ fetch.at = "sent"
               /\ fetch' = [fetch EXCEPT !.at = "served", !.row = row]
               /\ UNCHANGED <<job, row, shown, stale, mounted, form, req, sends,
                              claimed, outrun>>

-----------------------------------------------------------------------------
(* The answers.                                                            *)

RedrawnAlways(with, then) ==
  IF with # shown THEN [then EXCEPT !.typed = FALSE] ELSE then

\* The query cache holds another row: a form that follows it starts anew.
Redrawn(with, then) ==
  IF FormAtHand.resyncs /\ with # shown THEN [then EXCEPT !.typed = FALSE] ELSE then

FetchLands == /\ fetch.at = "served"
              /\ shown' = fetch.row
              /\ stale' = FALSE
              /\ outrun' = fetch.passed
              /\ fetch' = NoFetch
              /\ form' = Redrawn(fetch.row, form)
              /\ UNCHANGED <<job, row, mounted, req, sends, claimed>>

FetchFails == /\ fetch # NoFetch
              /\ fetch' = NoFetch
              /\ UNCHANGED <<job, row, shown, stale, mounted, form, req, sends,
                             claimed, outrun>>

\* invalidateQueries, before setQueryData.
Invalidated ==
  IF ~Refreshes(job.does, job.watches) THEN UNCHANGED <<stale, fetch>>
  ELSE /\ stale' = ~Sets(job.does, job.watches)
       /\ fetch' = IF mounted THEN Sent
                   ELSE [fetch EXCEPT !.passed = fetch # NoFetch]

Done == /\ req.at = "ok"
        /\ claimed' = req.own
        /\ Invalidated
        /\ shown' = IF Sets(job.does, job.watches) THEN req.row ELSE shown
        /\ form' = IF req.live /\ FormAtHand.ends # "stays" THEN Closed
                   ELSE Redrawn(shown', form)
        /\ req' = NoReq
        /\ UNCHANGED <<job, row, mounted, sends, outrun>>

\* A refusal, or an answer that never comes.
Failed == /\ req # NoReq
          /\ form' = IF req.live /\ FormAtHand.ends = "settled" THEN Closed ELSE form
          /\ req' = NoReq
          /\ UNCHANGED <<job, row, shown, stale, fetch, mounted, sends, claimed, outrun>>

-----------------------------------------------------------------------------
Init == /\ job \in Jobs
        /\ row = [own |-> 0, other |-> 0]
        /\ shown = row
        /\ stale = FALSE
        /\ fetch = NoFetch
        /\ mounted = TRUE
        /\ form = Closed
        /\ req = NoReq
        /\ sends = 0
        /\ claimed = 0
        /\ outrun = FALSE

Next == \/ OpenForm \/ \E v \in Values : Type(v)
        \/ Send \/ Dismiss \/ Leave \/ Return \/ Refocus
        \/ Elsewhere \/ Serve \/ FetchServed
        \/ FetchLands \/ FetchFails \/ Done \/ Failed

Spec == Init /\ [][Next]_vars

-----------------------------------------------------------------------------
TypeOK ==
  /\ job.form \in DOMAIN Forms
  /\ row \in Row
  /\ shown \in Row
  /\ stale \in BOOLEAN
  /\ fetch \in [at : {"none", "sent", "served"}, row : Row, passed : BOOLEAN]
  /\ mounted \in BOOLEAN
  /\ form \in [open : BOOLEAN, typed : BOOLEAN, value : {"", " ", "x", "text"},
               base : 0 .. MaxOthers]
  /\ req \in [at : {"none", "sent", "ok", "refused"}, own : 0 .. MaxSends,
              other : 0 .. MaxOthers \cup {None}, short : BOOLEAN,
              live : BOOLEAN, row : Row]
  /\ sends \in 0 .. MaxSends
  /\ claimed \in 0 .. MaxSends
  /\ outrun \in BOOLEAN

\* The mutations that leave a query they change as it was.
Forgotten ==
  \/ /\ job.watches \in {"memberSummary", "quotaCheck"}
     /\ job.does \notin DOMAIN AttendanceWrites \cup {"reassignEntryCoach"}
  \/ /\ job.watches \in {"getCoachEarnings", "getEarningsSummary"}
     /\ job.does \notin DOMAIN CoachesWrites \ {"reassignEntryCoach"}
  \/ /\ job.watches \in {"listCoachesForClass", "listClassesForCoach"}
     /\ job.does = "bulkAction"
  \/ job.watches = "getPlatformStats"

Quiet == mounted /\ fetch = NoFetch /\ req = NoReq /\ ~stale

\* Once nothing is under way, the page shows every change of the user's own
\* that was reported done - but for the queries the hooks forget, the fields
\* the server drops, and a fetch an invalidation did not reach.
OwnWritesShown == Quiet /\ ~Forgotten /\ ~Dropped /\ ~outrun => shown.own >= claimed

\* Saving never takes back what somebody else has edited, except in the
\* forms that send every field.
OthersEditsSurvive ==
  [][row'.other >= row.other \/ FormAtHand.sends = "all"]_vars

\* What was typed and not yet sent is lost only by closing the form, by
\* leaving the page, or when the form's own request succeeds - but for the
\* forms that follow the cache and those that close whatever the answer.
TypingIsKept ==
  [][form.typed /\ ~form'.typed =>
       \/ Send \/ Dismiss \/ Leave
       \/ req.at = "ok" /\ req' = NoReq
       \/ FormAtHand.resyncs
       \/ FormAtHand.ends = "settled"]_vars

\* The fields a form lets through too short for the server: names that are
\* blank, which are trimmed after they were looked at, and two lengths.
KnownShort ==
  \/ job.field \in FormAtHand.trims /\ job.field \in {"first_name", "last_name", "phone", "name"}
  \/ job.does \in {"createMember", "updateMember"} /\ job.field = "phone"
  \/ job.does = "createTenant" /\ job.field = "slug"

\* No other request is refused for the length of a field.
LongEnough == req.short => KnownShort
=============================================================================
