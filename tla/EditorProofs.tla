----------------------------- MODULE EditorProofs -----------------------------
(***************************************************************************)
(* What holds of every form and every button, however much is sent and     *)
(* edited.  What a single job does rests on nothing in the tables of       *)
(* Hooks, Api and Forms; that every job finds its rows there in order is   *)
(* looked up, request by request and form by form, in the second half.     *)
(***************************************************************************)
EXTENDS Editor, TLAPS

\* A form with something typed in it is open.
TypedIsOpen == form.typed => form.open

\* Only a form that sends every field carries the field of the others.
CarriesAll == req.other # None => FormAtHand.sends = "all"

\* What the user was told is done is on the server, unless the server drops
\* the field; a request under way goes beyond it.
ToldIsWritten ==
  /\ claimed =< sends
  /\ req.at # "none" => claimed =< req.own /\ req.own =< sends
  /\ ~Dropped => /\ row.own >= claimed
                 /\ req.at = "ok" => req.row.own = req.own /\ row.own = req.own

\* Where the mutation refreshes the query, the cached row has it, or is
\* marked, or came too late; and so has a fetch that no invalidation passed.
ToldIsCached ==
  Refreshes(job.does, job.watches) /\ ~Dropped =>
    /\ shown.own >= claimed \/ stale \/ outrun
    /\ fetch.at = "served" /\ ~fetch.passed => fetch.row.own >= claimed

EditorInv == TypeOK /\ TypedIsOpen /\ CarriesAll /\ ToldIsWritten /\ ToldIsCached

USE EditorAssumption DEF EditorAssumption

Fetches == [at : {"none", "sent", "served"}, row : Row, passed : BOOLEAN]
FormRows == [open : BOOLEAN, typed : BOOLEAN, value : {"", " ", "x", "text"},
             base : 0 .. MaxOthers]
Requests == [at : {"none", "sent", "ok", "refused"}, own : 0 .. MaxSends,
             other : 0 .. MaxOthers \cup {None}, short : BOOLEAN,
             live : BOOLEAN, row : Row]

\* The types one by one.
LEMMA Types == TypeOK <=> /\ job.form \in DOMAIN Forms
                          /\ row \in Row /\ shown \in Row
                          /\ stale \in BOOLEAN /\ mounted \in BOOLEAN /\ outrun \in BOOLEAN
                          /\ fetch \in Fetches /\ form \in FormRows /\ req \in Requests
                          /\ sends \in 0 .. MaxSends /\ claimed \in 0 .. MaxSends
  BY DEF TypeOK, Fetches, FormRows, Requests

LEMMA TypesNext == TypeOK' <=> /\ (job.form)' \in DOMAIN Forms
                               /\ row' \in Row /\ shown' \in Row
                               /\ stale' \in BOOLEAN /\ mounted' \in BOOLEAN
                               /\ outrun' \in BOOLEAN
                               /\ fetch' \in Fetches /\ form' \in FormRows
                               /\ req' \in Requests
                               /\ sends' \in 0 .. MaxSends /\ claimed' \in 0 .. MaxSends
  BY DEF TypeOK, Fetches, FormRows, Requests

\* Numbers are numbers.
LEMMA Numbers ==
    ASSUME TypeOK
    PROVE  /\ row.own \in Int /\ shown.own \in Int /\ claimed \in Int /\ sends \in Int
           /\ fetch.row.own \in Int /\ req.own \in Int /\ req.row.own \in Int
           /\ row.other \in Int /\ fetch.row \in Row /\ req.row \in Row
<1>1. \A x \in Row : x.own \in Int /\ x.other \in Int
  BY DEF Row
<1>2. fetch.row \in Row /\ req.row \in Row /\ req.own \in Int
  BY Types DEF Fetches, Requests
<1> QED
  BY <1>1, <1>2, Types

\* The records the variables start from.
LEMMA Blanks == /\ NoFetch \in Fetches /\ Sent \in Fetches
                /\ NoFetch.at = "none" /\ Sent.at = "sent"
                /\ Closed \in FormRows
                /\ ~Closed.open /\ ~Closed.typed
                /\ NoReq \in Requests
                /\ NoReq.at = "none" /\ NoReq.other = None
<1>1. 0 \in 0 .. MaxSends /\ 0 \in 0 .. MaxOthers
  OBVIOUS
<1>2. [own |-> 0, other |-> 0] \in Row
  BY <1>1 DEF Row
<1>3. /\ NoFetch \in Fetches /\ Sent \in Fetches
      /\ NoFetch.at = "none" /\ Sent.at = "sent"
  BY <1>2 DEF NoFetch, Sent, Fetches
<1>4. Closed \in FormRows /\ ~Closed.open /\ ~Closed.typed
  BY <1>1 DEF Closed, FormRows
<1>5. NoReq \in Requests /\ NoReq.at = "none" /\ NoReq.other = None
  BY <1>1, <1>2 DEF NoReq, Requests
<1> QED
  BY <1>3, <1>4, <1>5

\* Every job has a form, if only the one that stands for a button.
LEMMA JobsHaveForms == ASSUME NEW j \in Jobs PROVE j.form \in DOMAIN Forms
<1>1. "none" \in DOMAIN Forms
  BY DEF Forms
<1> QED
  BY <1>1 DEF Jobs

\* Everything starts blank.
LEMMA InitHolds == ASSUME Init PROVE EditorInv
<1>0. 0 \in 0 .. MaxSends /\ 0 \in 0 .. MaxOthers
  OBVIOUS
<1>1. row \in Row /\ shown \in Row
  BY <1>0 DEF Init, Row
<1>2. TypeOK
  BY <1>0, <1>1, Blanks, JobsHaveForms, Types DEF Init
<1>3. TypedIsOpen /\ CarriesAll
  BY Blanks DEF Init, TypedIsOpen, CarriesAll
<1>4. row.own = 0 /\ shown.own = 0 /\ claimed = 0 /\ sends = 0 /\ req.at = "none"
      /\ fetch.at = "none"
  BY Blanks DEF Init
<1>5. ToldIsWritten /\ ToldIsCached
  BY <1>4 DEF ToldIsWritten, ToldIsCached
<1> QED
  BY <1>2, <1>3, <1>5 DEF EditorInv

\* The job, and so the form at hand and the tables, stay what they are.
LEMMA JobStays ==
    ASSUME job' = job
    PROVE  /\ FormAtHand' = FormAtHand
           /\ Dropped' = Dropped
           /\ Refreshes(job.does, job.watches)' = Refreshes(job.does, job.watches)
           /\ Sets(job.does, job.watches)' = Sets(job.does, job.watches)
  BY DEF FormAtHand, Dropped, Refreshes, Sets

-----------------------------------------------------------------------------
(* The steps of the form.                                                  *)

\* A step that changes the form only.
LEMMA FormStepKeeps ==
    ASSUME EditorInv, TypedIsOpen',
           form' \in FormRows,
           req' = req \/ \E b \in BOOLEAN : req' = [req EXCEPT !.live = b],
           mounted' \in BOOLEAN,
           UNCHANGED <<job, row, shown, stale, fetch, sends, claimed, outrun>>
    PROVE  EditorInv'
<1>1. TypeOK'
  <2>1. req' \in Requests
    BY Types DEF EditorInv, Requests
  <2> QED
    BY <2>1, Types, TypesNext DEF EditorInv
<1>2. /\ req'.at = req.at /\ req'.own = req.own /\ req'.other = req.other
      /\ req'.row = req.row
  BY Types DEF EditorInv, Requests
<1>3. CarriesAll'
  BY <1>2, JobStays DEF EditorInv, CarriesAll
<1>4. ToldIsWritten' /\ ToldIsCached'
  BY <1>2, JobStays DEF EditorInv, ToldIsWritten, ToldIsCached
<1> QED
  BY <1>1, <1>3, <1>4 DEF EditorInv

LEMMA OpenFormKeeps == ASSUME EditorInv, OpenForm PROVE EditorInv'
<1>1. /\ form' = [Closed EXCEPT !.open = TRUE, !.base = shown.other]
      /\ UNCHANGED <<job, row, shown, stale, fetch, mounted, req, sends, claimed, outrun>>
  BY DEF OpenForm
<1>2. shown.other \in 0 .. MaxOthers /\ mounted \in BOOLEAN
  BY DEF EditorInv, TypeOK, Row
<1> QED
  BY <1>1, <1>2, FormStepKeeps DEF Closed, TypedIsOpen, FormRows

LEMMA TypeKeeps == ASSUME EditorInv, NEW v \in Values, Type(v) PROVE EditorInv'
<1>1. /\ form' = [form EXCEPT !.typed = TRUE, !.value = v] /\ form.open
      /\ UNCHANGED <<job, row, shown, stale, fetch, mounted, req, sends, claimed, outrun>>
  BY DEF Type
<1>2. v \in {"", " ", "x", "text"}
  BY DEF Values
<1> QED
  BY <1>1, <1>2, Types, FormStepKeeps DEF TypedIsOpen, EditorInv, FormRows

LEMMA DismissKeeps == ASSUME EditorInv, Dismiss PROVE EditorInv'
<1>1. /\ form' = Closed /\ req' = [req EXCEPT !.live = @ /\ FormAtHand.ends = "settled"]
      /\ UNCHANGED <<job, row, shown, stale, fetch, mounted, sends, claimed, outrun>>
  BY DEF Dismiss
<1>2. \E b \in BOOLEAN : req' = [req EXCEPT !.live = b]
  BY <1>1 DEF EditorInv, TypeOK
<1> QED
  BY <1>1, <1>2, Blanks, Types, FormStepKeeps DEF TypedIsOpen, EditorInv

LEMMA LeaveKeeps == ASSUME EditorInv, Leave PROVE EditorInv'
<1>1. /\ form' = Closed /\ req' = [req EXCEPT !.live = FALSE] /\ mounted' = FALSE
      /\ UNCHANGED <<job, row, shown, stale, fetch, sends, claimed, outrun>>
  BY DEF Leave
<1> QED
  BY <1>1, Blanks, FormStepKeeps DEF TypedIsOpen

\* A request leaves, and carries what the form at hand sends.
LEMMA SendKeeps == ASSUME EditorInv, Send PROVE EditorInv'
<1> DEFINE short == Length(Trimmed(form.value)) < Floor
<1>1. /\ sends < MaxSends /\ sends' = sends + 1
      /\ req' = [NoReq EXCEPT !.at = "sent", !.own = sends + 1, !.other = Carried,
                              !.short = short, !.live = TRUE]
      /\ form' = [form EXCEPT !.typed = FALSE]
      /\ UNCHANGED <<job, row, shown, stale, fetch, mounted, claimed, outrun>>
  BY DEF Send
<1>2. /\ Carried \in 0 .. MaxOthers \cup {None}
      /\ Carried # None => FormAtHand.sends = "all"
  BY DEF Carried, Original, EditorInv, TypeOK
<1>3. short \in BOOLEAN
  OBVIOUS
<1> HIDE DEF short
<1>4. req' = [at |-> "sent", own |-> sends + 1, other |-> Carried, short |-> short,
              live |-> TRUE, row |-> [own |-> 0, other |-> 0]]
  BY <1>1 DEF NoReq
<1>5. /\ sends \in Int /\ claimed \in Int
      /\ sends + 1 \in 0 .. MaxSends /\ claimed =< sends
      /\ [own |-> 0, other |-> 0] \in Row
  <2>1. sends \in 0 .. MaxSends /\ claimed \in 0 .. MaxSends /\ claimed =< sends
    BY DEF EditorInv, TypeOK, ToldIsWritten
  <2>2. 0 \in 0 .. MaxSends /\ 0 \in 0 .. MaxOthers
    OBVIOUS
  <2> QED
    BY <1>1, <2>1, <2>2 DEF Row
<1>6. TypeOK'
  <2>1. req' \in Requests
    BY <1>2, <1>3, <1>4, <1>5 DEF Requests
  <2>2. form' \in FormRows
    BY <1>1, Types DEF EditorInv, FormRows
  <2> QED
    BY <1>1, <1>5, <2>1, <2>2, Types, TypesNext DEF EditorInv
<1>7. TypedIsOpen'
  BY <1>1 DEF EditorInv, TypeOK, TypedIsOpen
<1>8. CarriesAll'
  BY <1>1, <1>2, <1>4, JobStays DEF CarriesAll
<1>9. ToldIsWritten'
  BY <1>1, <1>4, <1>5, JobStays DEF EditorInv, ToldIsWritten
<1>10. ToldIsCached'
  BY <1>1, JobStays DEF EditorInv, ToldIsCached
<1> QED
  BY <1>6, <1>7, <1>8, <1>9, <1>10 DEF EditorInv

-----------------------------------------------------------------------------
(* The page and its fetches.                                               *)

\* A step that changes the fetch only, and not to one that was served.
LEMMA FetchStepKeeps ==
    ASSUME EditorInv, fetch' \in {fetch, Sent, NoFetch}, mounted' \in BOOLEAN,
           UNCHANGED <<job, row, shown, stale, form, req, sends, claimed, outrun>>
    PROVE  EditorInv'
<1>1. TypeOK' /\ TypedIsOpen'
  BY Blanks, Types, TypesNext DEF EditorInv, TypedIsOpen
<1>2. CarriesAll' /\ ToldIsWritten'
  BY JobStays DEF EditorInv, CarriesAll, ToldIsWritten
<1>3. ToldIsCached'
  BY Blanks, JobStays DEF EditorInv, ToldIsCached
<1> QED
  BY <1>1, <1>2, <1>3 DEF EditorInv

\* Coming back to the page, or to the window, starts a fetch.
LEMMA PageKeeps ==
    ASSUME EditorInv, Return \/ Refocus \/ FetchFails
    PROVE  EditorInv'
  BY FetchStepKeeps DEF Return, Refocus, FetchFails, EditorInv, TypeOK

\* A fetch reads the row as it is, with all that was told done.
LEMMA FetchServedKeeps == ASSUME EditorInv, FetchServed PROVE EditorInv'
<1>1. /\ fetch' = [fetch EXCEPT !.at = "served", !.row = row]
      /\ UNCHANGED <<job, row, shown, stale, mounted, form, req, sends, claimed, outrun>>
  BY DEF FetchServed
<1>2. fetch' \in Fetches /\ fetch'.row = row
  BY <1>1, Types DEF EditorInv, Fetches
<1>5. TypeOK' /\ TypedIsOpen'
  BY <1>1, <1>2, Types, TypesNext DEF EditorInv, TypedIsOpen
<1>3. CarriesAll' /\ ToldIsWritten'
  BY <1>1, JobStays DEF EditorInv, CarriesAll, ToldIsWritten
<1>4. ToldIsCached'
  BY <1>1, <1>2, JobStays DEF EditorInv, ToldIsCached, ToldIsWritten
<1> QED
  BY <1>3, <1>4, <1>5 DEF EditorInv

\* A redrawn form is the form, or the form with nothing typed.
LEMMA RedrawnIsForm ==
    ASSUME EditorInv, NEW with
    PROVE  /\ Redrawn(with, form) \in FormRows
           /\ Redrawn(with, form).typed => Redrawn(with, form).open
           /\ form.typed /\ ~Redrawn(with, form).typed => FormAtHand.resyncs
  BY Types DEF Redrawn, EditorInv, FormRows, TypedIsOpen

LEMMA FetchLandsKeeps == ASSUME EditorInv, FetchLands PROVE EditorInv'
<1>1. /\ shown' = fetch.row /\ stale' = FALSE /\ outrun' = fetch.passed
      /\ fetch.at = "served" /\ fetch' = NoFetch
      /\ form' = Redrawn(fetch.row, form)
      /\ UNCHANGED <<job, row, mounted, req, sends, claimed>>
  BY DEF FetchLands
<1>2. TypeOK' /\ TypedIsOpen'
  <2>1. fetch.row \in Row /\ fetch.passed \in BOOLEAN
    BY Types DEF EditorInv, Fetches
  <2>2. form' \in FormRows /\ TypedIsOpen'
    BY <1>1, RedrawnIsForm DEF TypedIsOpen
  <2> QED
    BY <1>1, <2>1, <2>2, Blanks, Types, TypesNext DEF EditorInv
<1>3. CarriesAll' /\ ToldIsWritten'
  BY <1>1, JobStays DEF EditorInv, CarriesAll, ToldIsWritten
<1>4. ToldIsCached'
  BY <1>1, Blanks, JobStays, Types DEF EditorInv, Fetches, ToldIsCached
<1> QED
  BY <1>2, <1>3, <1>4 DEF EditorInv

-----------------------------------------------------------------------------
(* The server, and the answers.                                            *)

LEMMA ElsewhereKeeps == ASSUME EditorInv, Elsewhere PROVE EditorInv'
<1>1. /\ row.other < MaxOthers /\ row' = [row EXCEPT !.other = @ + 1]
      /\ UNCHANGED <<job, shown, stale, fetch, mounted, form, req, sends, claimed, outrun>>
  BY DEF Elsewhere
<1>2. row' \in Row /\ row'.own = row.own
  <2>1. row \in Row
    BY Types DEF EditorInv
  <2>2. row.other + 1 \in 0 .. MaxOthers
    BY <1>1, <2>1 DEF Row
  <2> QED
    BY <1>1, <2>1, <2>2 DEF Row
<1>3. TypeOK' /\ TypedIsOpen'
  BY <1>1, <1>2, Types, TypesNext DEF EditorInv, TypedIsOpen
<1>4. CarriesAll' /\ ToldIsWritten' /\ ToldIsCached'
  BY <1>1, <1>2, JobStays DEF EditorInv, CarriesAll, ToldIsWritten, ToldIsCached
<1> QED
  BY <1>3, <1>4 DEF EditorInv

\* What is written is the request, and the others' field only if it carries one.
LEMMA WrittenIsRow ==
    ASSUME EditorInv
    PROVE  /\ Written \in Row
           /\ Written.own = IF Dropped THEN row.own ELSE req.own
           /\ req.other = None => Written.other = row.other
<1>1. row \in Row /\ req \in Requests
  BY Types DEF EditorInv
<1> QED
  BY <1>1 DEF Written, Row, Requests

LEMMA ServeKeeps == ASSUME EditorInv, Serve PROVE EditorInv'
<1>1. /\ req.at = "sent"
      /\ UNCHANGED <<job, shown, stale, fetch, mounted, form, sends, claimed, outrun>>
  BY DEF Serve
<1>2. CASE row' = Written /\ req' = [req EXCEPT !.at = "ok", !.row = Written]
  <2>1. /\ req'.at = "ok" /\ req'.own = req.own /\ req'.other = req.other
        /\ req'.row = Written /\ req' \in Requests
    BY <1>2, WrittenIsRow, Types DEF EditorInv, Requests
  <2>2. TypeOK' /\ TypedIsOpen'
    BY <1>1, <1>2, <2>1, WrittenIsRow, Types, TypesNext DEF EditorInv, TypedIsOpen
  <2>3. CarriesAll' /\ ToldIsCached'
    BY <1>1, <2>1, JobStays DEF EditorInv, CarriesAll, ToldIsCached
  <2>4. ToldIsWritten'
    BY <1>1, <1>2, <2>1, WrittenIsRow, JobStays DEF EditorInv, ToldIsWritten
  <2> QED
    BY <2>2, <2>3, <2>4 DEF EditorInv
<1>3. CASE row' = row /\ req' = [req EXCEPT !.at = "refused"]
  <2>1. /\ req'.at = "refused" /\ req'.own = req.own /\ req'.other = req.other
        /\ req' \in Requests
    BY <1>3, Types DEF EditorInv, Requests
  <2>2. TypeOK' /\ TypedIsOpen'
    BY <1>1, <1>3, <2>1, Types, TypesNext DEF EditorInv, TypedIsOpen
  <2>3. CarriesAll' /\ ToldIsCached' /\ ToldIsWritten'
    BY <1>1, <1>3, <2>1, JobStays DEF EditorInv, CarriesAll, ToldIsCached, ToldIsWritten
  <2> QED
    BY <2>2, <2>3 DEF EditorInv
<1> QED
  BY <1>2, <1>3 DEF Serve

\* A success is told, put into the cache or fetched again, unless the page is
\* gone: then the cached row is marked, and a fetch under way was passed.
LEMMA DoneKeeps == ASSUME EditorInv, Done PROVE EditorInv'
<1>1. /\ req.at = "ok" /\ claimed' = req.own /\ req' = NoReq /\ Invalidated
      /\ shown' = IF Sets(job.does, job.watches) THEN req.row ELSE shown
      /\ UNCHANGED <<job, row, mounted, sends, outrun>>
  BY DEF Done
<1>2. form' = Closed \/ form' = Redrawn(shown', form)
  BY DEF Done
<1>3. form' \in FormRows /\ TypedIsOpen'
  <2>1. Redrawn(shown', form) \in FormRows
        /\ (Redrawn(shown', form).typed => Redrawn(shown', form).open)
    BY RedrawnIsForm
  <2> QED
    BY <1>2, <2>1, Blanks DEF TypedIsOpen
<1>4. fetch' \in Fetches /\ stale' \in BOOLEAN
  <2>1. \/ fetch' \in {fetch, Sent}
        \/ \E b \in BOOLEAN : fetch' = [fetch EXCEPT !.passed = b]
    BY <1>1 DEF Invalidated
  <2>2. fetch \in Fetches /\ stale \in BOOLEAN
    BY Types DEF EditorInv
  <2>3. stale' \in BOOLEAN
    BY <1>1, <2>2 DEF Invalidated
  <2> QED
    BY <2>1, <2>2, <2>3, Blanks DEF Fetches
<1>5. TypeOK'
  <2>1. shown' \in Row /\ claimed' \in 0 .. MaxSends
    BY <1>1, Types, Numbers DEF EditorInv, Requests
  <2> QED
    BY <1>1, <1>3, <1>4, <2>1, Blanks, Types, TypesNext DEF EditorInv
<1>6. CarriesAll'
  BY <1>1, Blanks DEF CarriesAll
<1>7. req.own =< sends /\ req.own \in Int /\ row.own \in Int /\ req.row.own \in Int
  BY <1>1, Numbers DEF EditorInv, ToldIsWritten
<1>8. ToldIsWritten'
  BY <1>1, <1>7, Blanks, JobStays DEF EditorInv, ToldIsWritten
<1>9. ToldIsCached'
  <2>1. SUFFICES ASSUME Refreshes(job.does, job.watches), ~Dropped
                 PROVE  /\ shown'.own >= claimed' \/ stale' \/ outrun'
                        /\ fetch'.at = "served" /\ ~fetch'.passed =>
                            fetch'.row.own >= claimed'
    BY <1>1, JobStays DEF ToldIsCached
  <2>2. /\ stale' = ~Sets(job.does, job.watches)
        /\ fetch' = IF mounted THEN Sent ELSE [fetch EXCEPT !.passed = fetch # NoFetch]
    BY <1>1, <2>1 DEF Invalidated
  <2>3. req.row.own = claimed'
    BY <1>1, <2>1 DEF EditorInv, ToldIsWritten
  <2>4. shown'.own >= claimed' \/ stale'
    <3>1. CASE Sets(job.does, job.watches)
      <4>1. shown'.own = claimed' /\ claimed' \in Int
        BY <1>1, <1>7, <2>3, <3>1
      <4> QED
        BY <4>1
    <3>2. CASE ~Sets(job.does, job.watches)
      BY <2>2, <3>2
    <3> QED
      BY <3>1, <3>2
  <2>5. fetch'.at = "served" => fetch'.passed
    BY <2>2, Blanks, Types DEF EditorInv, Fetches
  <2> QED
    BY <2>4, <2>5
<1> QED
  BY <1>3, <1>5, <1>6, <1>8, <1>9 DEF EditorInv

LEMMA FailedKeeps == ASSUME EditorInv, Failed PROVE EditorInv'
<1>1. /\ req' = NoReq /\ form' \in {form, Closed}
      /\ UNCHANGED <<job, row, shown, stale, fetch, mounted, sends, claimed, outrun>>
  BY DEF Failed
<1>2. TypeOK' /\ TypedIsOpen'
  BY <1>1, Blanks, Types, TypesNext DEF EditorInv, TypedIsOpen
<1>3. CarriesAll' /\ ToldIsCached' /\ ToldIsWritten'
  BY <1>1, Blanks, JobStays DEF EditorInv, CarriesAll, ToldIsCached, ToldIsWritten
<1> QED
  BY <1>2, <1>3 DEF EditorInv

-----------------------------------------------------------------------------
\* Every step keeps the invariant.
LEMMA EditorNextKeeps == ASSUME EditorInv, [Next]_vars PROVE EditorInv'
<1>1. CASE UNCHANGED vars
  BY <1>1, FetchStepKeeps, Types DEF vars, EditorInv
<1>2. CASE OpenForm \/ \E v \in Values : Type(v)
  BY <1>2, OpenFormKeeps, TypeKeeps
<1>3. CASE Send \/ Dismiss \/ Leave
  BY <1>3, SendKeeps, DismissKeeps, LeaveKeeps
<1>4. CASE Return \/ Refocus \/ FetchServed \/ FetchLands \/ FetchFails
  BY <1>4, PageKeeps, FetchServedKeeps, FetchLandsKeeps
<1>5. CASE Elsewhere \/ Serve
  BY <1>5, ElsewhereKeeps, ServeKeeps
<1>6. CASE Done \/ Failed
  BY <1>6, DoneKeeps, FailedKeeps
<1> QED
  BY <1>1, <1>2, <1>3, <1>4, <1>5, <1>6 DEF Next

LEMMA EditorKeeps == Spec => []EditorInv
<1>1. Init => EditorInv
  BY InitHolds
<1>2. EditorInv /\ [Next]_vars => EditorInv'
  BY EditorNextKeeps
<1> QED
  BY <1>1, <1>2, PTL DEF Spec

-----------------------------------------------------------------------------
(* The results.                                                            *)

\* Every value of the form, the cache and the requests is of its type.
THEOREM EditorTypeOK == Spec => []TypeOK
<1>1. EditorInv => TypeOK
  BY DEF EditorInv
<1> QED
  BY <1>1, EditorKeeps, PTL

\* Whatever the tables say, a query that a mutation refreshes shows every
\* change that was reported done, once nothing is under way.
LEMMA RefreshedIsShown ==
  Spec => [](Refreshes(job.does, job.watches) => OwnWritesShown)
<1>1. EditorInv => (Refreshes(job.does, job.watches) => OwnWritesShown)
  BY DEF EditorInv, ToldIsCached, OwnWritesShown, Quiet
<1> QED
  BY <1>1, EditorKeeps, PTL

\* No form but one that sends every field takes back what somebody else has
\* edited (MemberForm.tsx, PlanForm.tsx, ClassForm.tsx, TenantForm.tsx).
THEOREM OthersEditsSurviveHolds == Spec => OthersEditsSurvive
<1>1. EditorInv /\ [Next]_vars => [row'.other >= row.other \/ FormAtHand.sends = "all"]_vars
  <2> SUFFICES ASSUME EditorInv, Next, FormAtHand.sends # "all"
               PROVE  row'.other >= row.other
    OBVIOUS
  <2>1. row.other \in Int
    BY Numbers DEF EditorInv
  <2>2. CASE row' = row
    BY <2>1, <2>2
  <2>3. CASE Elsewhere
    <3>1. row'.other = row.other + 1
      BY <2>3, Types DEF Elsewhere, EditorInv, Row
    <3> QED
      BY <2>1, <3>1
  <2>4. CASE row' = Written
    <3>1. req.other = None
      BY DEF EditorInv, CarriesAll
    <3> QED
      BY <2>1, <2>4, <3>1, WrittenIsRow
  <2>5. row' = row \/ Elsewhere \/ row' = Written
    BY DEF Next, OpenForm, Type, Send, Dismiss, Leave, Return, Refocus, Serve,
           FetchServed, FetchLands, FetchFails, Done, Failed
  <2> QED
    BY <2>2, <2>3, <2>4, <2>5
<1> QED
  BY <1>1, EditorKeeps, PTL DEF Spec, OthersEditsSurvive

\* What was typed is lost only in the listed ways, whatever is sent, edited
\* and fetched meanwhile.
THEOREM TypingIsKeptHolds == Spec => TypingIsKept
<1>1. EditorInv /\ [Next]_vars =>
        [form.typed /\ ~form'.typed =>
           \/ Send \/ Dismiss \/ Leave
           \/ req.at = "ok" /\ req' = NoReq
           \/ FormAtHand.resyncs
           \/ FormAtHand.ends = "settled"]_vars
  <2> SUFFICES ASSUME EditorInv, Next, form.typed, ~form'.typed,
                      ~ (Send \/ Dismiss \/ Leave),
                      ~ (req.at = "ok" /\ req' = NoReq),
                      ~ FormAtHand.resyncs, FormAtHand.ends # "settled"
               PROVE  FALSE
    OBVIOUS
  <2>1. form' # form /\ form.open
    BY DEF EditorInv, TypedIsOpen
  <2>2. CASE \E v \in Values : Type(v)
    BY <2>2, Types DEF Type, EditorInv, FormRows
  <2>3. CASE FetchLands
    BY <2>1, <2>3 DEF FetchLands, Redrawn
  <2>4. CASE Failed
    BY <2>1, <2>4 DEF Failed
  <2>5. CASE Done
    BY <2>5 DEF Done
  <2> QED
    BY <2>1, <2>2, <2>3, <2>4, <2>5 DEF Next, OpenForm, Return, Refocus, Elsewhere,
       Serve, FetchServed, FetchFails
<1> QED
  BY <1>1, EditorKeeps, PTL DEF Spec, TypingIsKept

-----------------------------------------------------------------------------
(* The tables of the requests and the hooks, looked up: what a mutation     *)
(* writes and invalidates against what a query reads and is cached under.   *)

\* A table for a few requests has the same row for each, and no other.
LEMMA InAll == \A S, x : \A q \in DOMAIN All(S, x) : q \in S /\ All(S, x)[q] = x
  BY DEF All

LEMMA InMutation ==
    \A S, x, y : \A q \in DOMAIN Mutation(S, x, y) :
       q \in S /\ Mutation(S, x, y)[q].refreshes = x
  BY DEF Mutation

\* What a joined table has of a request, one of its tables has.
LEMMA InJoined ==
    \A T : \A q \in DOMAIN Joined(T) :
       \E t \in T : q \in DOMAIN t /\ Joined(T)[q] = t[q]
<1> SUFFICES ASSUME NEW T, NEW q \in DOMAIN Joined(T)
             PROVE  \E t \in T : q \in DOMAIN t /\ Joined(T)[q] = t[q]
  OBVIOUS
<1>1. PICK t \in T : q \in DOMAIN t
  BY DEF Joined
<1>2. Joined(T)[q] = (CHOOSE u \in T : q \in DOMAIN u)[q]
  BY DEF Joined
<1> QED
  BY <1>1, <1>2

\* A joined table has the requests of its tables.
LEMMA JoinedDomain ==
    \A T : \A q : q \in DOMAIN Joined(T) <=> \E t \in T : q \in DOMAIN t
  BY DEF Joined

LEMMA InJoin ==
    \A f, g : \A q \in DOMAIN (f \sqcup g) :
       \/ q \in DOMAIN f /\ (f \sqcup g)[q] = f[q]
       \/ q \in DOMAIN g /\ (f \sqcup g)[q] = g[q]
  BY InJoined DEF \sqcup

LEMMA JoinDomain ==
    \A f, g : \A q : q \in DOMAIN (f \sqcup g) <=> q \in DOMAIN f \/ q \in DOMAIN g
  BY JoinedDomain DEF \sqcup

LEMMA AllDomain == \A S, x : \A q : q \in DOMAIN All(S, x) <=> q \in S
  BY DEF All

LEMMA MutationDomain == \A S, x, y : \A q : q \in DOMAIN Mutation(S, x, y) <=> q \in S
  BY DEF Mutation

\* The requests that write, by the rows they write.
MembersWriters == {"createMember", "updateMember", "freezeMember", "unfreezeMember",
                   "cancelMember"}
PlansWriters == {"createPlan", "updatePlan", "deactivatePlan", "activatePlan"}
SubscriptionsWriters == {"createSubscription", "freezeSubscription", "unfreezeSubscription",
                         "renewSubscription", "changePlan", "cancelSubscription"}
PaymentsWriters == {"recordPayment", "refundPayment"}
ClassesWriters == {"createClass", "updateClass", "deactivateClass", "activateClass"}
CoachesWriters == {"createCoach", "updateCoach", "freezeCoach", "unfreezeCoach",
                   "cancelCoach", "inviteCoachUser"}
LinksWriters == {"assignCoachToClass", "updateClassCoachLink", "deleteClassCoachLink"}
EntriesWriters == {"recordEntry", "undoEntry", "reassignEntryCoach"}
TemplatesWriters == {"createTemplate", "updateTemplate", "deactivateTemplate"}
SessionsWriters == {"createAdHocSession", "updateSession", "cancelSession", "bulkAction"}
LeadsWriters == {"createLead", "updateLead", "assignLead", "setLeadStatus", "convertLead"}
TenantsWriters == {"createTenant", "updateTenant", "suspendTenant", "activateTenant",
                   "cancelTenant", "updateTenantFeatures"}
StaffWriters == {"createUser", "deleteUser", "updateUser"}

\* The requests that read a fact.
LEMMA WhoReads ==
    ASSUME NEW r \in DOMAIN Reads
    PROVE  /\ "members" \in Reads[r] =>
                r \in {"listMembers", "getMember", "getTenantStats", "getPlatformStats"}
           /\ "plans" \in Reads[r] =>
                r \in {"listPlans", "getPlan", "memberSummary", "quotaCheck"}
           /\ "subscriptions" \in Reads[r] =>
                r \in {"listSubscriptions", "getSubscription", "memberSummary", "quotaCheck"}
           /\ "events" \in Reads[r] => r = "listSubscriptionEvents"
           /\ "payments" \in Reads[r] =>
                r \in {"listPayments", "getPayment", "listMemberPayments",
                       "getRevenueSummary"}
           /\ "classes" \in Reads[r] => r \in {"listClasses", "getClass"}
           /\ "coaches" \in Reads[r] =>
                r \in {"listCoaches", "getCoach", "getCoachEarnings", "getEarningsSummary"}
           /\ "links" \in Reads[r] =>
                r \in {"listCoachesForClass", "listClassesForCoach", "getCoachEarnings",
                       "getEarningsSummary"}
           /\ "entries" \in Reads[r] =>
                r \in {"listEntries", "listMemberEntries", "memberSummary", "quotaCheck",
                       "getCoachEarnings", "getEarningsSummary"}
           /\ "templates" \in Reads[r] => r \in {"listTemplates", "getTemplate"}
           /\ "sessions" \in Reads[r] =>
                r \in {"listSessions", "getSession", "getCoachEarnings", "getEarningsSummary"}
           /\ "leads" \in Reads[r] =>
                r \in {"listLeads", "getLead", "getLeadStats", "listLostReasons"}
           /\ "activities" \in Reads[r] => r = "listActivities"
           /\ "tenants" \in Reads[r] => r \in {"listTenants", "getTenant", "getPlatformStats"}
           /\ "headcount" \in Reads[r] => r \in {"getTenantStats", "getPlatformStats"}
           /\ "users" \in Reads[r] => r = "listUsersForTenant"
<1>1. \/ r \in DOMAIN MembersReads /\ Reads[r] = MembersReads[r]
      \/ r \in DOMAIN PlansReads /\ Reads[r] = PlansReads[r]
      \/ r \in DOMAIN SubscriptionsReads /\ Reads[r] = SubscriptionsReads[r]
      \/ r \in DOMAIN PaymentsReads /\ Reads[r] = PaymentsReads[r]
      \/ r \in DOMAIN ClassesReads /\ Reads[r] = ClassesReads[r]
      \/ r \in DOMAIN CoachesReads /\ Reads[r] = CoachesReads[r]
      \/ r \in DOMAIN ScheduleReads /\ Reads[r] = ScheduleReads[r]
      \/ r \in DOMAIN AttendanceReads /\ Reads[r] = AttendanceReads[r]
      \/ r \in DOMAIN LeadsReads /\ Reads[r] = LeadsReads[r]
      \/ r \in DOMAIN TenantsReads /\ Reads[r] = TenantsReads[r]
      \/ r \in DOMAIN UsersReads /\ Reads[r] = UsersReads[r]
      \/ r \in DOMAIN DashboardReads /\ Reads[r] = DashboardReads[r]
  BY InJoined DEF Reads
<1>2. \A q \in DOMAIN MembersReads :
        q \in {"listMembers", "getMember"} /\ MembersReads[q] = {"members"}
  BY InAll DEF MembersReads
<1>3. \A q \in DOMAIN PlansReads :
        q \in {"listPlans", "getPlan"} /\ PlansReads[q] = {"plans"}
  BY InAll DEF PlansReads
<1>4. \A q \in DOMAIN SubscriptionsReads :
        \/ /\ q \in {"listSubscriptions", "getSubscription"}
           /\ SubscriptionsReads[q] = {"subscriptions"}
        \/ q = "listSubscriptionEvents" /\ SubscriptionsReads[q] = {"events"}
  BY InAll, InJoin DEF SubscriptionsReads
<1>5. \A q \in DOMAIN PaymentsReads :
        /\ q \in {"listPayments", "getPayment", "listMemberPayments", "getRevenueSummary"}
        /\ PaymentsReads[q] = {"payments"}
  BY InAll DEF PaymentsReads
<1>6. \A q \in DOMAIN ClassesReads :
        q \in {"listClasses", "getClass"} /\ ClassesReads[q] = {"classes"}
  BY InAll DEF ClassesReads
<1>7. \A q \in DOMAIN CoachesReads :
        \/ q \in {"listCoaches", "getCoach"} /\ CoachesReads[q] = {"coaches"}
        \/ /\ q \in {"listCoachesForClass", "listClassesForCoach"}
           /\ CoachesReads[q] = {"links"}
        \/ /\ q \in {"getCoachEarnings", "getEarningsSummary"}
           /\ CoachesReads[q] = {"coaches", "links", "entries", "sessions"}
  BY InAll, InJoin DEF CoachesReads
<1>8. \A q \in DOMAIN ScheduleReads :
        \/ q \in {"listTemplates", "getTemplate"} /\ ScheduleReads[q] = {"templates"}
        \/ q \in {"listSessions", "getSession"} /\ ScheduleReads[q] = {"sessions"}
  BY InAll, InJoin DEF ScheduleReads
<1>9. \A q \in DOMAIN AttendanceReads :
        \/ q \in {"listEntries", "listMemberEntries"} /\ AttendanceReads[q] = {"entries"}
        \/ /\ q \in {"memberSummary", "quotaCheck"}
           /\ AttendanceReads[q] = {"entries", "subscriptions", "plans"}
  BY InAll, InJoin DEF AttendanceReads
<1>10. \A q \in DOMAIN LeadsReads :
         \/ /\ q \in {"listLeads", "getLead", "getLeadStats", "listLostReasons"}
            /\ LeadsReads[q] = {"leads"}
         \/ q = "listActivities" /\ LeadsReads[q] = {"activities"}
  BY InAll, InJoin DEF LeadsReads
<1>11. \A q \in DOMAIN TenantsReads :
         \/ q \in {"listTenants", "getTenant"} /\ TenantsReads[q] = {"tenants"}
         \/ q = "getTenantStats" /\ TenantsReads[q] = {"members", "headcount"}
  BY InAll, InJoin DEF TenantsReads
<1>12. \A q \in DOMAIN UsersReads : q = "listUsersForTenant" /\ UsersReads[q] = {"users"}
  BY InAll DEF UsersReads
<1>13. \A q \in DOMAIN DashboardReads :
         /\ q = "getPlatformStats"
         /\ DashboardReads[q] = {"tenants", "headcount", "members"}
  BY InAll DEF DashboardReads
<1> DEFINE facts == Reads[r]
<1> HIDE DEF facts
<1>14. CASE r \in DOMAIN MembersReads /\ Reads[r] = MembersReads[r]
  BY <1>2, <1>14
<1>15. CASE r \in DOMAIN PlansReads /\ Reads[r] = PlansReads[r]
  BY <1>3, <1>15
<1>16. CASE r \in DOMAIN SubscriptionsReads /\ Reads[r] = SubscriptionsReads[r]
  BY <1>4, <1>16
<1>17. CASE r \in DOMAIN PaymentsReads /\ Reads[r] = PaymentsReads[r]
  BY <1>5, <1>17
<1>18. CASE r \in DOMAIN ClassesReads /\ Reads[r] = ClassesReads[r]
  BY <1>6, <1>18
<1>19. CASE r \in DOMAIN CoachesReads /\ Reads[r] = CoachesReads[r]
  BY <1>7, <1>19
<1>20. CASE r \in DOMAIN ScheduleReads /\ Reads[r] = ScheduleReads[r]
  BY <1>8, <1>20
<1>21. CASE r \in DOMAIN AttendanceReads /\ Reads[r] = AttendanceReads[r]
  BY <1>9, <1>21
<1>22. CASE r \in DOMAIN LeadsReads /\ Reads[r] = LeadsReads[r]
  BY <1>10, <1>22
<1>23. CASE r \in DOMAIN TenantsReads /\ Reads[r] = TenantsReads[r]
  BY <1>11, <1>23
<1>24. CASE r \in DOMAIN UsersReads /\ Reads[r] = UsersReads[r]
  BY <1>12, <1>24
<1>25. CASE r \in DOMAIN DashboardReads /\ Reads[r] = DashboardReads[r]
  BY <1>13, <1>25
<1> QED
  BY <1>1, <1>14, <1>15, <1>16, <1>17, <1>18, <1>19, <1>20, <1>21, <1>22, <1>23, <1>24,
     <1>25

-----------------------------------------------------------------------------
\* What the server writes, request by request.
LEMMA WhatIsWritten ==
    ASSUME NEW w \in DOMAIN Writes
    PROVE  \/ w \in MembersWriters /\ Writes[w] = {"members"}
           \/ w \in PlansWriters /\ Writes[w] = {"plans"}
           \/ w \in SubscriptionsWriters /\ Writes[w] = {"subscriptions", "events", "members"}
           \/ w \in PaymentsWriters /\ Writes[w] = {"payments"}
           \/ w \in ClassesWriters /\ Writes[w] = {"classes"}
           \/ w \in CoachesWriters /\ Writes[w] = {"coaches"}
           \/ w \in LinksWriters /\ Writes[w] = {"links"}
           \/ w \in EntriesWriters /\ Writes[w] = {"entries"}
           \/ w \in TemplatesWriters /\ Writes[w] = {"templates", "sessions"}
           \/ w \in SessionsWriters /\ Writes[w] \subseteq {"sessions", "links"}
              /\ ("links" \in Writes[w] => w = "bulkAction")
           \/ w \in LeadsWriters /\ w # "convertLead"
              /\ Writes[w] \subseteq {"leads", "activities"}
           \/ w = "convertLead"
              /\ Writes[w] = {"leads", "activities", "members", "subscriptions", "events"}
           \/ w = "addActivity" /\ Writes[w] = {"activities"}
           \/ w \in TenantsWriters /\ Writes[w] = {"tenants"}
           \/ w = "uploadLogo" /\ Writes[w] = {}
           \/ w \in StaffWriters /\ Writes[w] \subseteq {"users", "headcount"}
              /\ ("headcount" \in Writes[w] => w # "updateUser")
<1>1. \/ w \in DOMAIN MembersWrites /\ Writes[w] = MembersWrites[w]
      \/ w \in DOMAIN PlansWrites /\ Writes[w] = PlansWrites[w]
      \/ w \in DOMAIN SubscriptionsWrites /\ Writes[w] = SubscriptionsWrites[w]
      \/ w \in DOMAIN PaymentsWrites /\ Writes[w] = PaymentsWrites[w]
      \/ w \in DOMAIN ClassesWrites /\ Writes[w] = ClassesWrites[w]
      \/ w \in DOMAIN CoachesWrites /\ Writes[w] = CoachesWrites[w]
      \/ w \in DOMAIN ScheduleWrites /\ Writes[w] = ScheduleWrites[w]
      \/ w \in DOMAIN AttendanceWrites /\ Writes[w] = AttendanceWrites[w]
      \/ w \in DOMAIN LeadsWrites /\ Writes[w] = LeadsWrites[w]
      \/ w \in DOMAIN TenantsWrites /\ Writes[w] = TenantsWrites[w]
      \/ w \in DOMAIN UsersWrites /\ Writes[w] = UsersWrites[w]
  BY InJoined DEF Writes
<1>2. CASE w \in DOMAIN MembersWrites /\ Writes[w] = MembersWrites[w]
  BY <1>2, InAll DEF MembersWrites, MembersWriters
<1>3. CASE w \in DOMAIN PlansWrites /\ Writes[w] = PlansWrites[w]
  BY <1>3, InAll DEF PlansWrites, PlansWriters
<1>4. CASE w \in DOMAIN SubscriptionsWrites /\ Writes[w] = SubscriptionsWrites[w]
  BY <1>4, InAll DEF SubscriptionsWrites, SubscriptionsWriters
<1>5. CASE w \in DOMAIN PaymentsWrites /\ Writes[w] = PaymentsWrites[w]
  BY <1>5, InAll DEF PaymentsWrites, PaymentsWriters
<1>6. CASE w \in DOMAIN ClassesWrites /\ Writes[w] = ClassesWrites[w]
  BY <1>6, InAll DEF ClassesWrites, ClassesWriters
<1>7. CASE w \in DOMAIN CoachesWrites /\ Writes[w] = CoachesWrites[w]
  BY <1>7, InAll, InJoin DEF CoachesWrites, CoachesWriters, LinksWriters, EntriesWriters
<1>8. CASE w \in DOMAIN ScheduleWrites /\ Writes[w] = ScheduleWrites[w]
  BY <1>8, InAll, InJoin DEF ScheduleWrites, TemplatesWriters, SessionsWriters, TenantsWriters
<1>9. CASE w \in DOMAIN AttendanceWrites /\ Writes[w] = AttendanceWrites[w]
  BY <1>9, InAll DEF AttendanceWrites, EntriesWriters
<1>10. CASE w \in DOMAIN LeadsWrites /\ Writes[w] = LeadsWrites[w]
  BY <1>10, InAll, InJoin DEF LeadsWrites, LeadsWriters
<1>11. CASE w \in DOMAIN TenantsWrites /\ Writes[w] = TenantsWrites[w]
  BY <1>11, InAll, InJoin DEF TenantsWrites, TenantsWriters
<1>12. CASE w \in DOMAIN UsersWrites /\ Writes[w] = UsersWrites[w]
  BY <1>12, InAll, InJoin DEF UsersWrites, StaffWriters
<1> QED
  BY <1>1, <1>2, <1>3, <1>4, <1>5, <1>6, <1>7, <1>8, <1>9, <1>10, <1>11, <1>12

-----------------------------------------------------------------------------
\* The keys that a mutation invalidates.
LEMMA WhatIsRefreshed ==
    ASSUME NEW w \in DOMAIN Hook
    PROVE  /\ w \in MembersWriters \cup SubscriptionsWriters \cup {"convertLead"}
                => <<"members">> \in Hook[w].refreshes
           /\ w \in PlansWriters => <<"plans">> \in Hook[w].refreshes
           /\ w \in SubscriptionsWriters \cup {"convertLead"}
                => <<"subscriptions">> \in Hook[w].refreshes
           /\ w \in PaymentsWriters => <<"payments">> \in Hook[w].refreshes
           /\ w \in ClassesWriters => <<"classes">> \in Hook[w].refreshes
           /\ w \in CoachesWriters \cup LinksWriters => <<"coaches">> \in Hook[w].refreshes
           /\ w \in LinksWriters => \/ <<"class-coaches">> \in Hook[w].refreshes
                                    \/ <<"class-coaches", "class">> \in Hook[w].refreshes
           /\ w \in EntriesWriters => <<"attendance">> \in Hook[w].refreshes
           /\ w \in TemplatesWriters => <<"schedule-templates">> \in Hook[w].refreshes
           /\ w \in TemplatesWriters \cup SessionsWriters
                => <<"schedule-sessions">> \in Hook[w].refreshes
           /\ w \in LeadsWriters => <<"leads">> \in Hook[w].refreshes
           /\ w = "addActivity" => <<"leads", "id", "activities">> \in Hook[w].refreshes
           /\ w \in TenantsWriters => <<"tenants">> \in Hook[w].refreshes
           /\ w \in StaffWriters => <<"tenants", "id", "users">> \in Hook[w].refreshes
           /\ w \in StaffWriters \ {"updateUser"}
                => <<"tenants", "id", "stats">> \in Hook[w].refreshes
<1>1. \/ w \in DOMAIN MembersHooks /\ Hook[w] = MembersHooks[w]
      \/ w \in DOMAIN PlansHooks /\ Hook[w] = PlansHooks[w]
      \/ w \in DOMAIN SubscriptionsHooks /\ Hook[w] = SubscriptionsHooks[w]
      \/ w \in DOMAIN PaymentsHooks /\ Hook[w] = PaymentsHooks[w]
      \/ w \in DOMAIN ClassesHooks /\ Hook[w] = ClassesHooks[w]
      \/ w \in DOMAIN CoachesHooks /\ Hook[w] = CoachesHooks[w]
      \/ w \in DOMAIN ScheduleHooks /\ Hook[w] = ScheduleHooks[w]
      \/ w \in DOMAIN AttendanceHooks /\ Hook[w] = AttendanceHooks[w]
      \/ w \in DOMAIN LeadsHooks /\ Hook[w] = LeadsHooks[w]
      \/ w \in DOMAIN TenantsHooks /\ Hook[w] = TenantsHooks[w]
      \/ w \in DOMAIN UsersHooks /\ Hook[w] = UsersHooks[w]
  BY InJoined DEF Hook
<1>2. \A q \in DOMAIN MembersHooks :
        q \in MembersWriters /\ <<"members">> \in MembersHooks[q].refreshes
  BY InMutation, InJoin DEF MembersHooks, MembersWriters
<1>3. \A q \in DOMAIN PlansHooks :
        q \in PlansWriters /\ <<"plans">> \in PlansHooks[q].refreshes
  BY InMutation, InJoin DEF PlansHooks, PlansWriters
<1>4. \A q \in DOMAIN SubscriptionsHooks :
        /\ q \in SubscriptionsWriters
        /\ SubscriptionsHooks[q].refreshes = {<<"subscriptions">>, <<"members">>}
  BY InMutation, InAll DEF SubscriptionsHooks, SubscriptionsWriters, SubscriptionsWrites
<1>5. \A q \in DOMAIN PaymentsHooks :
        q \in PaymentsWriters /\ <<"payments">> \in PaymentsHooks[q].refreshes
  BY InMutation, InAll DEF PaymentsHooks, PaymentsWriters, PaymentsWrites
<1>6. \A q \in DOMAIN ClassesHooks :
        q \in ClassesWriters /\ <<"classes">> \in ClassesHooks[q].refreshes
  BY InMutation, InJoin DEF ClassesHooks, ClassesWriters
<1>7. \A q \in DOMAIN CoachesHooks :
        \/ q \in CoachesWriters /\ <<"coaches">> \in CoachesHooks[q].refreshes
        \/ /\ q \in LinksWriters /\ <<"coaches">> \in CoachesHooks[q].refreshes
           /\ \/ <<"class-coaches">> \in CoachesHooks[q].refreshes
              \/ <<"class-coaches", "class">> \in CoachesHooks[q].refreshes
        \/ q \in EntriesWriters /\ <<"attendance">> \in CoachesHooks[q].refreshes
  BY InMutation, InJoin DEF CoachesHooks, CoachesWriters, LinksWriters, EntriesWriters
<1>8. \A q \in DOMAIN ScheduleHooks :
        \/ /\ q \in TemplatesWriters
           /\ ScheduleHooks[q].refreshes = {<<"schedule-templates">>, <<"schedule-sessions">>}
        \/ q \in SessionsWriters /\ <<"schedule-sessions">> \in ScheduleHooks[q].refreshes
        \/ q \in TenantsWriters /\ <<"tenants">> \in ScheduleHooks[q].refreshes
  BY InMutation, InJoin DEF ScheduleHooks, TemplatesWriters, SessionsWriters, TenantsWriters
<1>9. \A q \in DOMAIN AttendanceHooks :
        q \in EntriesWriters /\ <<"attendance">> \in AttendanceHooks[q].refreshes
  BY InMutation DEF AttendanceHooks, EntriesWriters
<1>10. \A q \in DOMAIN LeadsHooks :
         \/ /\ q \in LeadsWriters \ {"convertLead"}
            /\ <<"leads">> \in LeadsHooks[q].refreshes
         \/ /\ q = "convertLead"
            /\ LeadsHooks[q].refreshes = {<<"leads">>, <<"members">>, <<"subscriptions">>}
         \/ /\ q = "addActivity"
            /\ <<"leads", "id", "activities">> \in LeadsHooks[q].refreshes
  BY InMutation, InJoin DEF LeadsHooks, LeadsWriters
<1>11. \A q \in DOMAIN TenantsHooks :
         \/ q \in TenantsWriters /\ <<"tenants">> \in TenantsHooks[q].refreshes
         \/ q = "uploadLogo"
  BY InMutation, InJoin DEF TenantsHooks, TenantsWriters
<1>12. \A q \in DOMAIN UsersHooks :
         /\ q \in StaffWriters /\ <<"tenants", "id", "users">> \in UsersHooks[q].refreshes
         /\ q # "updateUser" => <<"tenants", "id", "stats">> \in UsersHooks[q].refreshes
  BY InMutation, InJoin DEF UsersHooks, StaffWriters
<1> USE DEF MembersWriters, PlansWriters, SubscriptionsWriters, PaymentsWriters,
            ClassesWriters, CoachesWriters, LinksWriters, EntriesWriters, TemplatesWriters,
            SessionsWriters, LeadsWriters, TenantsWriters, StaffWriters
<1>13. CASE w \in DOMAIN MembersHooks /\ Hook[w] = MembersHooks[w]
  BY <1>2, <1>13
<1>14. CASE w \in DOMAIN PlansHooks /\ Hook[w] = PlansHooks[w]
  BY <1>3, <1>14
<1>15. CASE w \in DOMAIN SubscriptionsHooks /\ Hook[w] = SubscriptionsHooks[w]
  BY <1>4, <1>15
<1>16. CASE w \in DOMAIN PaymentsHooks /\ Hook[w] = PaymentsHooks[w]
  BY <1>5, <1>16
<1>17. CASE w \in DOMAIN ClassesHooks /\ Hook[w] = ClassesHooks[w]
  BY <1>6, <1>17
<1>18. CASE w \in DOMAIN CoachesHooks /\ Hook[w] = CoachesHooks[w]
  BY <1>7, <1>18
<1>19. CASE w \in DOMAIN ScheduleHooks /\ Hook[w] = ScheduleHooks[w]
  BY <1>8, <1>19
<1>20. CASE w \in DOMAIN AttendanceHooks /\ Hook[w] = AttendanceHooks[w]
  BY <1>9, <1>20
<1>21. CASE w \in DOMAIN LeadsHooks /\ Hook[w] = LeadsHooks[w]
  BY <1>10, <1>21
<1>22. CASE w \in DOMAIN TenantsHooks /\ Hook[w] = TenantsHooks[w]
  BY <1>11, <1>22
<1>23. CASE w \in DOMAIN UsersHooks /\ Hook[w] = UsersHooks[w]
  BY <1>12, <1>23
<1> QED
  BY <1>1, <1>13, <1>14, <1>15, <1>16, <1>17, <1>18, <1>19, <1>20, <1>21, <1>22, <1>23

-----------------------------------------------------------------------------
\* A key begins itself, and the longer keys it was made to begin.
LEMMA Begins ==
    /\ \A a : IsPrefix(<<a>>, <<a>>)
    /\ \A a, b : IsPrefix(<<a>>, <<a, b>>) /\ IsPrefix(<<a, b>>, <<a, b>>)
    /\ \A a, b, c : IsPrefix(<<a>>, <<a, b, c>>) /\ IsPrefix(<<a, b, c>>, <<a, b, c>>)
  BY DEF IsPrefix

\* The keys that begin the key a request is cached under.
LEMMA WhereItIsCached ==
    ASSUME NEW r \in DOMAIN Key
    PROVE  /\ r \in {"listMembers", "getMember"} => IsPrefix(<<"members">>, Key[r])
           /\ r \in {"listPlans", "getPlan"} => IsPrefix(<<"plans">>, Key[r])
           /\ r \in {"listSubscriptions", "getSubscription", "listSubscriptionEvents"}
                => IsPrefix(<<"subscriptions">>, Key[r])
           /\ r \in {"listPayments", "getPayment", "listMemberPayments", "getRevenueSummary"}
                => IsPrefix(<<"payments">>, Key[r])
           /\ r \in {"listClasses", "getClass"} => IsPrefix(<<"classes">>, Key[r])
           /\ r \in {"listCoaches", "getCoach", "listClassesForCoach", "getCoachEarnings",
                     "getEarningsSummary"} => IsPrefix(<<"coaches">>, Key[r])
           /\ r = "listCoachesForClass" => /\ IsPrefix(<<"class-coaches">>, Key[r])
                                           /\ IsPrefix(<<"class-coaches", "class">>, Key[r])
           /\ r \in {"listTemplates", "getTemplate"}
                => IsPrefix(<<"schedule-templates">>, Key[r])
           /\ r \in {"listSessions", "getSession"}
                => IsPrefix(<<"schedule-sessions">>, Key[r])
           /\ r \in {"listEntries", "listMemberEntries", "memberSummary", "quotaCheck"}
                => IsPrefix(<<"attendance">>, Key[r])
           /\ r \in {"listLeads", "getLead", "listActivities", "getLeadStats",
                     "listLostReasons"} => IsPrefix(<<"leads">>, Key[r])
           /\ r = "listActivities" => IsPrefix(<<"leads", "id", "activities">>, Key[r])
           /\ r \in {"listTenants", "getTenant"} => IsPrefix(<<"tenants">>, Key[r])
           /\ r = "getTenantStats" => IsPrefix(<<"tenants", "id", "stats">>, Key[r])
           /\ r = "listUsersForTenant" => IsPrefix(<<"tenants", "id", "users">>, Key[r])
<1>1. \/ r \in DOMAIN MembersKeys /\ Key[r] = MembersKeys[r]
      \/ r \in DOMAIN PlansKeys /\ Key[r] = PlansKeys[r]
      \/ r \in DOMAIN SubscriptionsKeys /\ Key[r] = SubscriptionsKeys[r]
      \/ r \in DOMAIN PaymentsKeys /\ Key[r] = PaymentsKeys[r]
      \/ r \in DOMAIN ClassesKeys /\ Key[r] = ClassesKeys[r]
      \/ r \in DOMAIN CoachesKeys /\ Key[r] = CoachesKeys[r]
      \/ r \in DOMAIN ScheduleKeys /\ Key[r] = ScheduleKeys[r]
      \/ r \in DOMAIN AttendanceKeys /\ Key[r] = AttendanceKeys[r]
      \/ r \in DOMAIN LeadsKeys /\ Key[r] = LeadsKeys[r]
      \/ r \in DOMAIN TenantsKeys /\ Key[r] = TenantsKeys[r]
      \/ r \in DOMAIN UsersKeys /\ Key[r] = UsersKeys[r]
      \/ r \in DOMAIN DashboardKeys /\ Key[r] = DashboardKeys[r]
  BY InJoined DEF Key
<1>2. \A q \in DOMAIN MembersKeys :
        q \in {"listMembers", "getMember"} /\ IsPrefix(<<"members">>, MembersKeys[q])
  BY Begins DEF MembersKeys
<1>3. \A q \in DOMAIN PlansKeys :
        q \in {"listPlans", "getPlan"} /\ IsPrefix(<<"plans">>, PlansKeys[q])
  BY Begins DEF PlansKeys
<1>4. \A q \in DOMAIN SubscriptionsKeys :
        /\ q \in {"listSubscriptions", "getSubscription", "listSubscriptionEvents"}
        /\ IsPrefix(<<"subscriptions">>, SubscriptionsKeys[q])
  BY Begins DEF SubscriptionsKeys
<1>5. \A q \in DOMAIN PaymentsKeys :
        /\ q \in {"listPayments", "getPayment", "listMemberPayments", "getRevenueSummary"}
        /\ IsPrefix(<<"payments">>, PaymentsKeys[q])
  BY Begins DEF PaymentsKeys
<1>6. \A q \in DOMAIN ClassesKeys :
        q \in {"listClasses", "getClass"} /\ IsPrefix(<<"classes">>, ClassesKeys[q])
  BY Begins DEF ClassesKeys
<1>7. \A q \in DOMAIN CoachesKeys :
        \/ /\ q \in {"listCoaches", "getCoach", "listClassesForCoach", "getCoachEarnings",
                     "getEarningsSummary"}
           /\ IsPrefix(<<"coaches">>, CoachesKeys[q])
        \/ /\ q = "listCoachesForClass"
           /\ IsPrefix(<<"class-coaches">>, CoachesKeys[q])
           /\ IsPrefix(<<"class-coaches", "class">>, CoachesKeys[q])
  BY Begins DEF CoachesKeys
<1>8. \A q \in DOMAIN ScheduleKeys :
        \/ /\ q \in {"listTemplates", "getTemplate"}
           /\ IsPrefix(<<"schedule-templates">>, ScheduleKeys[q])
        \/ /\ q \in {"listSessions", "getSession"}
           /\ IsPrefix(<<"schedule-sessions">>, ScheduleKeys[q])
  BY Begins DEF ScheduleKeys
<1>9. \A q \in DOMAIN AttendanceKeys :
        /\ q \in {"listEntries", "listMemberEntries", "memberSummary", "quotaCheck"}
        /\ IsPrefix(<<"attendance">>, AttendanceKeys[q])
  BY Begins DEF AttendanceKeys
<1>10. \A q \in DOMAIN LeadsKeys :
         /\ q \in {"listLeads", "getLead", "listActivities", "getLeadStats",
                  "listLostReasons"}
         /\ IsPrefix(<<"leads">>, LeadsKeys[q])
         /\ q = "listActivities" => IsPrefix(<<"leads", "id", "activities">>, LeadsKeys[q])
  BY Begins DEF LeadsKeys
<1>11. \A q \in DOMAIN TenantsKeys :
         \/ q \in {"listTenants", "getTenant"} /\ IsPrefix(<<"tenants">>, TenantsKeys[q])
         \/ /\ q = "getTenantStats"
            /\ IsPrefix(<<"tenants", "id", "stats">>, TenantsKeys[q])
  BY Begins DEF TenantsKeys
<1>12. \A q \in DOMAIN UsersKeys :
         /\ q = "listUsersForTenant"
         /\ IsPrefix(<<"tenants", "id", "users">>, UsersKeys[q])
  <2>1. DOMAIN UsersKeys = {"listUsersForTenant"}
    BY DEF UsersKeys
  <2>2. UsersKeys["listUsersForTenant"] = <<"tenants", "id", "users">>
    BY DEF UsersKeys
  <2> QED
    BY <2>1, <2>2, Begins
<1>13. \A q \in DOMAIN DashboardKeys : q = "getPlatformStats"
  BY DEF DashboardKeys
<1>14. CASE r \in DOMAIN MembersKeys /\ Key[r] = MembersKeys[r]
  BY <1>2, <1>14
<1>15. CASE r \in DOMAIN PlansKeys /\ Key[r] = PlansKeys[r]
  BY <1>3, <1>15
<1>16. CASE r \in DOMAIN SubscriptionsKeys /\ Key[r] = SubscriptionsKeys[r]
  BY <1>4, <1>16
<1>17. CASE r \in DOMAIN PaymentsKeys /\ Key[r] = PaymentsKeys[r]
  BY <1>5, <1>17
<1>18. CASE r \in DOMAIN ClassesKeys /\ Key[r] = ClassesKeys[r]
  BY <1>6, <1>18
<1>19. CASE r \in DOMAIN CoachesKeys /\ Key[r] = CoachesKeys[r]
  BY <1>7, <1>19
<1>20. CASE r \in DOMAIN ScheduleKeys /\ Key[r] = ScheduleKeys[r]
  BY <1>8, <1>20
<1>21. CASE r \in DOMAIN AttendanceKeys /\ Key[r] = AttendanceKeys[r]
  BY <1>9, <1>21
<1>22. CASE r \in DOMAIN LeadsKeys /\ Key[r] = LeadsKeys[r]
  BY <1>10, <1>22
<1>23. CASE r \in DOMAIN TenantsKeys /\ Key[r] = TenantsKeys[r]
  BY <1>11, <1>23
<1>24. CASE r \in DOMAIN UsersKeys /\ Key[r] = UsersKeys[r]
  BY <1>12, <1>24
<1>25. CASE r \in DOMAIN DashboardKeys /\ Key[r] = DashboardKeys[r]
  BY <1>13, <1>25
<1> QED
  BY <1>1, <1>14, <1>15, <1>16, <1>17, <1>18, <1>19, <1>20, <1>21, <1>22, <1>23, <1>24,
     <1>25

\* Every request that reads is cached, and every one that writes has a hook.
LEMMA EveryRequestHasAHook ==
    /\ \A q \in DOMAIN Reads : q \in DOMAIN Key
    /\ \A q \in DOMAIN Writes : q \in DOMAIN Hook
<1> USE AllDomain, MutationDomain, JoinDomain
<1>1. \A q : q \in DOMAIN MembersReads => q \in DOMAIN MembersKeys
  BY DEF MembersReads, MembersKeys
<1>2. \A q : q \in DOMAIN PlansReads => q \in DOMAIN PlansKeys
  BY DEF PlansReads, PlansKeys
<1>3. \A q : q \in DOMAIN SubscriptionsReads => q \in DOMAIN SubscriptionsKeys
  BY DEF SubscriptionsReads, SubscriptionsKeys
<1>4. \A q : q \in DOMAIN PaymentsReads => q \in DOMAIN PaymentsKeys
  BY DEF PaymentsReads, PaymentsKeys
<1>5. \A q : q \in DOMAIN ClassesReads => q \in DOMAIN ClassesKeys
  BY DEF ClassesReads, ClassesKeys
<1>6. \A q : q \in DOMAIN CoachesReads => q \in DOMAIN CoachesKeys
  BY DEF CoachesReads, CoachesKeys
<1>7. \A q : q \in DOMAIN ScheduleReads => q \in DOMAIN ScheduleKeys
  BY DEF ScheduleReads, ScheduleKeys
<1>8. \A q : q \in DOMAIN AttendanceReads => q \in DOMAIN AttendanceKeys
  BY DEF AttendanceReads, AttendanceKeys
<1>9. \A q : q \in DOMAIN LeadsReads => q \in DOMAIN LeadsKeys
  BY DEF LeadsReads, LeadsKeys
<1>10. \A q : q \in DOMAIN TenantsReads => q \in DOMAIN TenantsKeys
  BY DEF TenantsReads, TenantsKeys
<1>11. \A q : q \in DOMAIN UsersReads => q \in DOMAIN UsersKeys
  BY DEF UsersReads, UsersKeys
<1>12. \A q : q \in DOMAIN DashboardReads => q \in DOMAIN DashboardKeys
  BY DEF DashboardReads, DashboardKeys
<1>13. \A q : q \in DOMAIN MembersWrites => q \in DOMAIN MembersHooks
  BY DEF MembersWrites, MembersHooks
<1>14. \A q : q \in DOMAIN PlansWrites => q \in DOMAIN PlansHooks
  BY DEF PlansWrites, PlansHooks
<1>15. \A q : q \in DOMAIN SubscriptionsWrites => q \in DOMAIN SubscriptionsHooks
  BY DEF SubscriptionsWrites, SubscriptionsHooks
<1>16. \A q : q \in DOMAIN PaymentsWrites => q \in DOMAIN PaymentsHooks
  BY DEF PaymentsWrites, PaymentsHooks
<1>17. \A q : q \in DOMAIN ClassesWrites => q \in DOMAIN ClassesHooks
  BY DEF ClassesWrites, ClassesHooks
<1>18. \A q : q \in DOMAIN CoachesWrites => q \in DOMAIN CoachesHooks
  BY DEF CoachesWrites, CoachesHooks
<1>19. \A q : q \in DOMAIN ScheduleWrites => q \in DOMAIN ScheduleHooks
  BY DEF ScheduleWrites, ScheduleHooks
<1>20. \A q : q \in DOMAIN AttendanceWrites => q \in DOMAIN AttendanceHooks
  BY DEF AttendanceWrites, AttendanceHooks
<1>21. \A q : q \in DOMAIN LeadsWrites => q \in DOMAIN LeadsHooks
  BY DEF LeadsWrites, LeadsHooks
<1>22. \A q : q \in DOMAIN TenantsWrites => q \in DOMAIN TenantsHooks
  BY DEF TenantsWrites, TenantsHooks
<1>23. \A q : q \in DOMAIN UsersWrites => q \in DOMAIN UsersHooks
  BY DEF UsersWrites, UsersHooks
<1>24. \A q \in DOMAIN Reads : q \in DOMAIN Key
  BY <1>1, <1>2, <1>3, <1>4, <1>5, <1>6, <1>7, <1>8, <1>9, <1>10, <1>11, <1>12,
     JoinedDomain DEF Reads, Key
<1>25. \A q \in DOMAIN Writes : q \in DOMAIN Hook
  BY <1>13, <1>14, <1>15, <1>16, <1>17, <1>18, <1>19, <1>20, <1>21, <1>22, <1>23,
     JoinedDomain DEF Writes, Hook
<1> QED
  BY <1>24, <1>25

\* The mutations that leave a query they change as it was (Forgotten).
LeftOut(w, r) ==
  \/ /\ r \in {"memberSummary", "quotaCheck"}
     /\ w \notin DOMAIN AttendanceWrites \cup {"reassignEntryCoach"}
  \/ /\ r \in {"getCoachEarnings", "getEarningsSummary"}
     /\ w \notin DOMAIN CoachesWrites \ {"reassignEntryCoach"}
  \/ /\ r \in {"listCoachesForClass", "listClassesForCoach"}
     /\ w = "bulkAction"
  \/ r = "getPlatformStats"

LEMMA Refreshed ==
    ASSUME NEW w \in DOMAIN Hook, NEW r, NEW k \in Hook[w].refreshes, IsPrefix(k, Key[r])
    PROVE  Refreshes(w, r)
  BY DEF Refreshes

\* A gym's people write its members, the platform admin counts them.
LEMMA MembersAreNotPlatform ==
    /\ \A w \in MembersWriters \cup SubscriptionsWriters \cup {"convertLead"} :
         w \notin PlatformRequests
    /\ "getTenantStats" \in PlatformRequests
<1> USE AllDomain, JoinDomain
<1>1. \A q \in DOMAIN TenantsReads :
        q \in {"listTenants", "getTenant", "getTenantStats"}
  BY DEF TenantsReads
<1>2. \A q \in DOMAIN TenantsWrites : q \in TenantsWriters \cup {"uploadLogo"}
  BY DEF TenantsWrites, TenantsWriters
<1>3. \A q \in DOMAIN UsersReads : q = "listUsersForTenant"
  BY DEF UsersReads
<1>4. \A q \in DOMAIN UsersWrites : q \in StaffWriters
  BY DEF UsersWrites, StaffWriters
<1>5. \A q \in DOMAIN DashboardReads : q = "getPlatformStats"
  BY DEF DashboardReads
<1>6. "getTenantStats" \in DOMAIN TenantsReads
  BY DEF TenantsReads
<1>7. \A q \in PlatformRequests :
        q \in {"listTenants", "getTenant", "getTenantStats", "uploadLogo",
               "listUsersForTenant", "getPlatformStats"} \cup TenantsWriters \cup StaffWriters
  BY <1>1, <1>2, <1>3, <1>4, <1>5 DEF PlatformRequests, TenantsWriters
<1> QED
  BY <1>6, <1>7 DEF PlatformRequests, MembersWriters, SubscriptionsWriters, TenantsWriters,
     StaffWriters

\* A mutation refreshes every query that it changes, but for those left out.
LEMMA TouchedIsRefreshed ==
    ASSUME NEW w \in DOMAIN Writes, NEW r \in DOMAIN Reads, Touches(w, r)
    PROVE  Refreshes(w, r) \/ LeftOut(w, r)
<1>1. w \in DOMAIN Hook /\ r \in DOMAIN Key
  BY EveryRequestHasAHook
<1>2. PICK x \in Writes[w] : x \in Reads[r]
  BY DEF Touches
<1>3. \A k \in Hook[w].refreshes : IsPrefix(k, Key[r]) => Refreshes(w, r)
  BY <1>1, Refreshed
<1>4. w \in MembersWriters \cup SubscriptionsWriters \cup {"convertLead"}
        => r # "getTenantStats"
  BY MembersAreNotPlatform DEF Touches, SameSide
<1>5. SUFFICES ASSUME ~LeftOut(w, r)
               PROVE  Refreshes(w, r)
  OBVIOUS
<1>6. r # "getPlatformStats"
  BY <1>5 DEF LeftOut
<1>7. /\ \A q \in DOMAIN AttendanceWrites : q \in EntriesWriters
      /\ \A q \in DOMAIN CoachesWrites :
           q \in CoachesWriters \cup LinksWriters \cup {"reassignEntryCoach"}
  BY AllDomain, JoinDomain DEF AttendanceWrites, CoachesWrites, EntriesWriters,
     CoachesWriters, LinksWriters
<1>8. r \in {"memberSummary", "quotaCheck"} => w \in EntriesWriters
  BY <1>5, <1>7 DEF LeftOut, EntriesWriters
<1>9. r \in {"getCoachEarnings", "getEarningsSummary"}
        => w \in CoachesWriters \cup LinksWriters
  BY <1>5, <1>7 DEF LeftOut
<1>10. r \in {"listCoachesForClass", "listClassesForCoach"} => w # "bulkAction"
  BY <1>5 DEF LeftOut
<1>11. CASE w \in MembersWriters /\ Writes[w] = {"members"}
  <2>1. <<"members">> \in Hook[w].refreshes
    BY <1>1, <1>11, WhatIsRefreshed
  <2>2. r \in {"listMembers", "getMember"}
    BY <1>2, <1>4, <1>6, <1>11, WhoReads
  <2> QED
    BY <1>1, <1>3, <2>1, <2>2, WhereItIsCached
<1>12. CASE w \in PlansWriters /\ Writes[w] = {"plans"}
  <2>1. <<"plans">> \in Hook[w].refreshes
    BY <1>1, <1>12, WhatIsRefreshed
  <2>2. r \in {"listPlans", "getPlan"}
    BY <1>2, <1>6, <1>8, <1>12, WhoReads DEF PlansWriters, EntriesWriters
  <2> QED
    BY <1>1, <1>3, <2>1, <2>2, WhereItIsCached
<1>13. CASE w \in SubscriptionsWriters /\ Writes[w] = {"subscriptions", "events", "members"}
  <2>1. /\ <<"members">> \in Hook[w].refreshes
        /\ <<"subscriptions">> \in Hook[w].refreshes
    BY <1>1, <1>13, WhatIsRefreshed
  <2>2. r \in {"listMembers", "getMember", "listSubscriptions", "getSubscription",
               "listSubscriptionEvents"}
    BY <1>2, <1>4, <1>6, <1>8, <1>13, WhoReads DEF SubscriptionsWriters, EntriesWriters
  <2> QED
    BY <1>1, <1>3, <2>1, <2>2, WhereItIsCached
<1>14. CASE w \in PaymentsWriters /\ Writes[w] = {"payments"}
  <2>1. <<"payments">> \in Hook[w].refreshes
    BY <1>1, <1>14, WhatIsRefreshed
  <2>2. r \in {"listPayments", "getPayment", "listMemberPayments",
               "getRevenueSummary"}
    BY <1>2, <1>6, <1>14, WhoReads
  <2> QED
    BY <1>1, <1>3, <2>1, <2>2, WhereItIsCached
<1>15. CASE w \in ClassesWriters /\ Writes[w] = {"classes"}
  <2>1. <<"classes">> \in Hook[w].refreshes
    BY <1>1, <1>15, WhatIsRefreshed
  <2>2. r \in {"listClasses", "getClass"}
    BY <1>2, <1>6, <1>15, WhoReads
  <2> QED
    BY <1>1, <1>3, <2>1, <2>2, WhereItIsCached
<1>16. CASE w \in CoachesWriters /\ Writes[w] = {"coaches"}
  <2>1. <<"coaches">> \in Hook[w].refreshes
    BY <1>1, <1>16, WhatIsRefreshed
  <2>2. r \in {"listCoaches", "getCoach", "getCoachEarnings", "getEarningsSummary"}
    BY <1>2, <1>6, <1>16, WhoReads
  <2> QED
    BY <1>1, <1>3, <2>1, <2>2, WhereItIsCached
<1>17. CASE w \in LinksWriters /\ Writes[w] = {"links"}
  <2>1. /\ <<"coaches">> \in Hook[w].refreshes
        /\ \/ <<"class-coaches">> \in Hook[w].refreshes
           \/ <<"class-coaches", "class">> \in Hook[w].refreshes
    BY <1>1, <1>17, WhatIsRefreshed
  <2>2. r \in {"listCoachesForClass", "listClassesForCoach", "getCoachEarnings",
               "getEarningsSummary"}
    BY <1>2, <1>6, <1>17, WhoReads
  <2> QED
    BY <1>1, <1>3, <2>1, <2>2, WhereItIsCached
<1>18. CASE w \in EntriesWriters /\ Writes[w] = {"entries"}
  <2>1. <<"attendance">> \in Hook[w].refreshes
    BY <1>1, <1>18, WhatIsRefreshed
  <2>2. r \in {"listEntries", "listMemberEntries", "memberSummary", "quotaCheck"}
    BY <1>2, <1>6, <1>9, <1>18, WhoReads DEF EntriesWriters, CoachesWriters, LinksWriters
  <2> QED
    BY <1>1, <1>3, <2>1, <2>2, WhereItIsCached
<1>19. CASE w \in TemplatesWriters /\ Writes[w] = {"templates", "sessions"}
  <2>1. /\ <<"schedule-templates">> \in Hook[w].refreshes
        /\ <<"schedule-sessions">> \in Hook[w].refreshes
    BY <1>1, <1>19, WhatIsRefreshed
  <2>2. r \in {"listTemplates", "getTemplate", "listSessions", "getSession"}
    BY <1>2, <1>6, <1>9, <1>19, WhoReads DEF TemplatesWriters, CoachesWriters, LinksWriters
  <2> QED
    BY <1>1, <1>3, <2>1, <2>2, WhereItIsCached
<1>20. CASE w \in SessionsWriters /\ Writes[w] \subseteq {"sessions", "links"}
           /\ ("links" \in Writes[w] => w = "bulkAction")
  <2>1. <<"schedule-sessions">> \in Hook[w].refreshes
    BY <1>1, <1>20, WhatIsRefreshed
  <2>2. r \in {"listSessions", "getSession"}
    BY <1>2, <1>6, <1>9, <1>10, <1>20, WhoReads
       DEF SessionsWriters, CoachesWriters, LinksWriters
  <2> QED
    BY <1>1, <1>3, <2>1, <2>2, WhereItIsCached
<1>21. CASE w \in LeadsWriters /\ Writes[w] \subseteq {"leads", "activities"}
  <2>1. <<"leads">> \in Hook[w].refreshes
    BY <1>1, <1>21, WhatIsRefreshed
  <2>2. r \in {"listLeads", "getLead", "getLeadStats", "listLostReasons",
               "listActivities"}
    BY <1>2, <1>6, <1>21, WhoReads
  <2> QED
    BY <1>1, <1>3, <2>1, <2>2, WhereItIsCached
<1>22. CASE w = "convertLead"
            /\ Writes[w] = {"leads", "activities", "members", "subscriptions", "events"}
  <2>1. /\ <<"leads">> \in Hook[w].refreshes
        /\ <<"members">> \in Hook[w].refreshes
        /\ <<"subscriptions">> \in Hook[w].refreshes
    BY <1>1, <1>22, WhatIsRefreshed DEF LeadsWriters
  <2>2. r \in {"listLeads", "getLead", "getLeadStats", "listLostReasons",
               "listActivities", "listMembers", "getMember", "listSubscriptions",
               "getSubscription", "listSubscriptionEvents"}
    BY <1>2, <1>4, <1>6, <1>8, <1>22, WhoReads DEF LeadsWriters, EntriesWriters
  <2> QED
    BY <1>1, <1>3, <2>1, <2>2, WhereItIsCached
<1>23. CASE w = "addActivity" /\ Writes[w] = {"activities"}
  <2>1. <<"leads", "id", "activities">> \in Hook[w].refreshes
    BY <1>1, <1>23, WhatIsRefreshed
  <2>2. r \in {"listActivities"}
    BY <1>2, <1>6, <1>23, WhoReads
  <2> QED
    BY <1>1, <1>3, <2>1, <2>2, WhereItIsCached
<1>24. CASE w \in TenantsWriters /\ Writes[w] = {"tenants"}
  <2>1. <<"tenants">> \in Hook[w].refreshes
    BY <1>1, <1>24, WhatIsRefreshed
  <2>2. r \in {"listTenants", "getTenant"}
    BY <1>2, <1>6, <1>24, WhoReads
  <2> QED
    BY <1>1, <1>3, <2>1, <2>2, WhereItIsCached
<1>25. CASE w \in StaffWriters /\ Writes[w] \subseteq {"users", "headcount"}
           /\ ("headcount" \in Writes[w] => w # "updateUser")
  <2>1. /\ <<"tenants", "id", "users">> \in Hook[w].refreshes
        /\ w # "updateUser" => <<"tenants", "id", "stats">> \in Hook[w].refreshes
    BY <1>1, <1>25, WhatIsRefreshed
  <2>2. \/ r = "listUsersForTenant"
        \/ r = "getTenantStats" /\ w # "updateUser"
    BY <1>2, <1>6, <1>25, WhoReads
  <2> QED
    BY <1>1, <1>3, <2>1, <2>2, WhereItIsCached
<1> QED
  BY <1>2, <1>11, <1>12, <1>13, <1>14, <1>15, <1>16, <1>17, <1>18, <1>19, <1>20,
     <1>21, <1>22, <1>23, <1>24, <1>25, WhatIsWritten

-----------------------------------------------------------------------------
\* The page of a form belongs to the feature of its request.
AtHome(does, from) ==
  \/ does \in MembersWriters /\ from \in {"listMembers", "getMember"}
  \/ does \in PlansWriters /\ from \in {"listPlans", "getPlan"}
  \/ does \in SubscriptionsWriters /\ from = "listSubscriptions"
  \/ does \in PaymentsWriters /\ from \in {"listMemberPayments", "listPayments"}
  \/ does \in ClassesWriters /\ from \in {"listClasses", "getClass"}
  \/ does \in CoachesWriters /\ from \in {"listCoaches", "getCoach"}
  \/ does \in LinksWriters /\ from = "listCoachesForClass"
  \/ does \in TemplatesWriters /\ from = "listTemplates"
  \/ does \in SessionsWriters /\ from = "listSessions"
  \/ does \in LeadsWriters /\ from \in {"listLeads", "getLead"}
  \/ does = "addActivity" /\ from = "listActivities"
  \/ does \in TenantsWriters /\ from \in {"listTenants", "getTenant"}
  \/ does \in StaffWriters /\ from = "listUsersForTenant"

LEMMA FormsAreAtHome ==
    ASSUME NEW f \in DOMAIN Forms \ {"none"}
    PROVE  AtHome(Forms[f].does, Forms[f].from)
<1>1. f \in {"newMember", "editMember", "newPlan", "editPlan", "newClass",
           "editClass", "newLead", "editLead", "newCoach", "editCoach",
           "activityForm", "lostReasonDialog", "convertLeadDialog", "assignCoachForm",
           "inviteLoginSection", "newTenant", "editTenant", "tenantFeatures",
           "createUserForm", "editUserDialog", "templateDialog", "adHocSessionDialog",
           "bulkActionDialog", "sessionSwap", "sessionCancel", "enrollDialog",
           "freezeDialog", "renewDialog", "changePlanDialog", "cancelDialog",
           "recordPaymentDialog", "refundPaymentDialog"}
  BY DEF Forms
<1>2. CASE f = "newMember"
  <2>1. Forms[f] = NewMember
    BY <1>2 DEF Forms
  <2>2. NewMember.does = "createMember" /\ NewMember.from = "listMembers"
    BY DEF NewMember, MemberForm, Form
  <2> QED
    BY <2>1, <2>2 DEF AtHome, MembersWriters
<1>3. CASE f = "editMember"
  <2>1. Forms[f] = EditMember
    BY <1>3 DEF Forms
  <2>2. EditMember.does = "updateMember" /\ EditMember.from = "getMember"
    BY DEF EditMember, MemberForm, Form
  <2> QED
    BY <2>1, <2>2 DEF AtHome, MembersWriters
<1>4. CASE f = "newPlan"
  <2>1. Forms[f] = NewPlan
    BY <1>4 DEF Forms
  <2>2. NewPlan.does = "createPlan" /\ NewPlan.from = "listPlans"
    BY DEF NewPlan, PlanForm, Form
  <2> QED
    BY <2>1, <2>2 DEF AtHome, PlansWriters
<1>5. CASE f = "editPlan"
  <2>1. Forms[f] = EditPlan
    BY <1>5 DEF Forms
  <2>2. EditPlan.does = "updatePlan" /\ EditPlan.from = "getPlan"
    BY DEF EditPlan, PlanForm, Form
  <2> QED
    BY <2>1, <2>2 DEF AtHome, PlansWriters
<1>6. CASE f = "newClass"
  <2>1. Forms[f] = NewClass
    BY <1>6 DEF Forms
  <2>2. NewClass.does = "createClass" /\ NewClass.from = "listClasses"
    BY DEF NewClass, ClassForm, Form
  <2> QED
    BY <2>1, <2>2 DEF AtHome, ClassesWriters
<1>7. CASE f = "editClass"
  <2>1. Forms[f] = EditClass
    BY <1>7 DEF Forms
  <2>2. EditClass.does = "updateClass" /\ EditClass.from = "getClass"
    BY DEF EditClass, ClassForm, Form
  <2> QED
    BY <2>1, <2>2 DEF AtHome, ClassesWriters
<1>8. CASE f = "newLead"
  <2>1. Forms[f] = NewLead
    BY <1>8 DEF Forms
  <2>2. NewLead.does = "createLead" /\ NewLead.from = "listLeads"
    BY DEF NewLead, LeadForm, Form
  <2> QED
    BY <2>1, <2>2 DEF AtHome, LeadsWriters
<1>9. CASE f = "editLead"
  <2>1. Forms[f] = EditLead
    BY <1>9 DEF Forms
  <2>2. EditLead.does = "updateLead" /\ EditLead.from = "getLead"
    BY DEF EditLead, LeadForm, Form
  <2> QED
    BY <2>1, <2>2 DEF AtHome, LeadsWriters
<1>10. CASE f = "newCoach"
  <2>1. Forms[f] = NewCoach
    BY <1>10 DEF Forms
  <2>2. NewCoach.does = "createCoach" /\ NewCoach.from = "listCoaches"
    BY DEF NewCoach, CoachForm, Form
  <2> QED
    BY <2>1, <2>2 DEF AtHome, CoachesWriters
<1>11. CASE f = "editCoach"
  <2>1. Forms[f] = EditCoach
    BY <1>11 DEF Forms
  <2>2. EditCoach.does = "updateCoach" /\ EditCoach.from = "getCoach"
    BY DEF EditCoach, CoachForm, Form
  <2> QED
    BY <2>1, <2>2 DEF AtHome, CoachesWriters
<1>12. CASE f = "activityForm"
  <2>1. Forms[f] = ActivityForm
    BY <1>12 DEF Forms
  <2>2. ActivityForm.does = "addActivity" /\ ActivityForm.from = "listActivities"
    BY DEF ActivityForm, Form
  <2> QED
    BY <2>1, <2>2 DEF AtHome
<1>13. CASE f = "lostReasonDialog"
  <2>1. Forms[f] = LostReasonDialog
    BY <1>13 DEF Forms
  <2>2. LostReasonDialog.does = "setLeadStatus" /\ LostReasonDialog.from = "getLead"
    BY DEF LostReasonDialog, Form
  <2> QED
    BY <2>1, <2>2 DEF AtHome, LeadsWriters
<1>14. CASE f = "convertLeadDialog"
  <2>1. Forms[f] = ConvertLeadDialog
    BY <1>14 DEF Forms
  <2>2. ConvertLeadDialog.does = "convertLead" /\ ConvertLeadDialog.from = "getLead"
    BY DEF ConvertLeadDialog, Form
  <2> QED
    BY <2>1, <2>2 DEF AtHome, LeadsWriters
<1>15. CASE f = "assignCoachForm"
  <2>1. Forms[f] = AssignCoachForm
    BY <1>15 DEF Forms
  <2>2. /\ AssignCoachForm.does = "assignCoachToClass"
        /\ AssignCoachForm.from = "listCoachesForClass"
    BY DEF AssignCoachForm, Form
  <2> QED
    BY <2>1, <2>2 DEF AtHome, LinksWriters
<1>16. CASE f = "inviteLoginSection"
  <2>1. Forms[f] = InviteLoginSection
    BY <1>16 DEF Forms
  <2>2. InviteLoginSection.does = "inviteCoachUser" /\ InviteLoginSection.from = "getCoach"
    BY DEF InviteLoginSection, Form
  <2> QED
    BY <2>1, <2>2 DEF AtHome, CoachesWriters
<1>17. CASE f = "newTenant"
  <2>1. Forms[f] = NewTenant
    BY <1>17 DEF Forms
  <2>2. NewTenant.does = "createTenant" /\ NewTenant.from = "listTenants"
    BY DEF NewTenant, TenantForm, Form
  <2> QED
    BY <2>1, <2>2 DEF AtHome, TenantsWriters
<1>18. CASE f = "editTenant"
  <2>1. Forms[f] = EditTenant
    BY <1>18 DEF Forms
  <2>2. EditTenant.does = "updateTenant" /\ EditTenant.from = "getTenant"
    BY DEF EditTenant, TenantForm, Form
  <2> QED
    BY <2>1, <2>2 DEF AtHome, TenantsWriters
<1>19. CASE f = "tenantFeatures"
  <2>1. Forms[f] = TenantFeatures
    BY <1>19 DEF Forms
  <2>2. TenantFeatures.does = "updateTenantFeatures" /\ TenantFeatures.from = "getTenant"
    BY DEF TenantFeatures, Form
  <2> QED
    BY <2>1, <2>2 DEF AtHome, TenantsWriters
<1>20. CASE f = "createUserForm"
  <2>1. Forms[f] = CreateUserForm
    BY <1>20 DEF Forms
  <2>2. CreateUserForm.does = "createUser" /\ CreateUserForm.from = "listUsersForTenant"
    BY DEF CreateUserForm, Form
  <2> QED
    BY <2>1, <2>2 DEF AtHome, StaffWriters
<1>21. CASE f = "editUserDialog"
  <2>1. Forms[f] = EditUserDialog
    BY <1>21 DEF Forms
  <2>2. EditUserDialog.does = "updateUser" /\ EditUserDialog.from = "listUsersForTenant"
    BY DEF EditUserDialog, Form
  <2> QED
    BY <2>1, <2>2 DEF AtHome, StaffWriters
<1>22. CASE f = "templateDialog"
  <2>1. Forms[f] = TemplateDialog
    BY <1>22 DEF Forms
  <2>2. TemplateDialog.does = "createTemplate" /\ TemplateDialog.from = "listTemplates"
    BY DEF TemplateDialog, Form
  <2> QED
    BY <2>1, <2>2 DEF AtHome, TemplatesWriters
<1>23. CASE f = "adHocSessionDialog"
  <2>1. Forms[f] = AdHocSessionDialog
    BY <1>23 DEF Forms
  <2>2. /\ AdHocSessionDialog.does = "createAdHocSession"
        /\ AdHocSessionDialog.from = "listSessions"
    BY DEF AdHocSessionDialog, Form
  <2> QED
    BY <2>1, <2>2 DEF AtHome, SessionsWriters
<1>24. CASE f = "bulkActionDialog"
  <2>1. Forms[f] = BulkActionDialog
    BY <1>24 DEF Forms
  <2>2. BulkActionDialog.does = "bulkAction" /\ BulkActionDialog.from = "listSessions"
    BY DEF BulkActionDialog, Form
  <2> QED
    BY <2>1, <2>2 DEF AtHome, SessionsWriters
<1>25. CASE f = "sessionSwap"
  <2>1. Forms[f] = SessionSwap
    BY <1>25 DEF Forms
  <2>2. SessionSwap.does = "updateSession" /\ SessionSwap.from = "listSessions"
    BY DEF SessionSwap, Form
  <2> QED
    BY <2>1, <2>2 DEF AtHome, SessionsWriters
<1>26. CASE f = "sessionCancel"
  <2>1. Forms[f] = SessionCancel
    BY <1>26 DEF Forms
  <2>2. SessionCancel.does = "cancelSession" /\ SessionCancel.from = "listSessions"
    BY DEF SessionCancel, Form
  <2> QED
    BY <2>1, <2>2 DEF AtHome, SessionsWriters
<1>27. CASE f = "enrollDialog"
  <2>1. Forms[f] = EnrollDialog
    BY <1>27 DEF Forms
  <2>2. EnrollDialog.does = "createSubscription" /\ EnrollDialog.from = "listSubscriptions"
    BY DEF EnrollDialog, Form
  <2> QED
    BY <2>1, <2>2 DEF AtHome, SubscriptionsWriters
<1>28. CASE f = "freezeDialog"
  <2>1. Forms[f] = FreezeDialog
    BY <1>28 DEF Forms
  <2>2. FreezeDialog.does = "freezeSubscription" /\ FreezeDialog.from = "listSubscriptions"
    BY DEF FreezeDialog, Form
  <2> QED
    BY <2>1, <2>2 DEF AtHome, SubscriptionsWriters
<1>29. CASE f = "renewDialog"
  <2>1. Forms[f] = RenewDialog
    BY <1>29 DEF Forms
  <2>2. RenewDialog.does = "renewSubscription" /\ RenewDialog.from = "listSubscriptions"
    BY DEF RenewDialog, Form
  <2> QED
    BY <2>1, <2>2 DEF AtHome, SubscriptionsWriters
<1>30. CASE f = "changePlanDialog"
  <2>1. Forms[f] = ChangePlanDialog
    BY <1>30 DEF Forms
  <2>2. ChangePlanDialog.does = "changePlan" /\ ChangePlanDialog.from = "listSubscriptions"
    BY DEF ChangePlanDialog, Form
  <2> QED
    BY <2>1, <2>2 DEF AtHome, SubscriptionsWriters
<1>31. CASE f = "cancelDialog"
  <2>1. Forms[f] = CancelDialog
    BY <1>31 DEF Forms
  <2>2. CancelDialog.does = "cancelSubscription" /\ CancelDialog.from = "listSubscriptions"
    BY DEF CancelDialog, Form
  <2> QED
    BY <2>1, <2>2 DEF AtHome, SubscriptionsWriters
<1>32. CASE f = "recordPaymentDialog"
  <2>1. Forms[f] = RecordPaymentDialog
    BY <1>32 DEF Forms
  <2>2. /\ RecordPaymentDialog.does = "recordPayment"
        /\ RecordPaymentDialog.from = "listMemberPayments"
    BY DEF RecordPaymentDialog, Form
  <2> QED
    BY <2>1, <2>2 DEF AtHome, PaymentsWriters
<1>33. CASE f = "refundPaymentDialog"
  <2>1. Forms[f] = RefundPaymentDialog
    BY <1>33 DEF Forms
  <2>2. /\ RefundPaymentDialog.does = "refundPayment"
        /\ RefundPaymentDialog.from = "listPayments"
    BY DEF RefundPaymentDialog, Form
  <2> QED
    BY <2>1, <2>2 DEF AtHome, PaymentsWriters
<1> QED
  BY <1>1, <1>2, <1>3, <1>4, <1>5, <1>6, <1>7, <1>8, <1>9, <1>10, <1>11, <1>12, <1>13,
     <1>14, <1>15, <1>16, <1>17, <1>18, <1>19, <1>20, <1>21, <1>22, <1>23, <1>24,
     <1>25, <1>26, <1>27, <1>28, <1>29, <1>30, <1>31, <1>32, <1>33

\* A request at home refreshes the query of its page.
LEMMA HomeIsRefreshed ==
    ASSUME NEW does, NEW from, AtHome(does, from)
    PROVE  Refreshes(does, from)
<1>1. does \in DOMAIN Hook
  <2>1. does \in MembersWriters
        => does \in DOMAIN MembersHooks
    BY AllDomain, MutationDomain, JoinDomain DEF MembersHooks, MembersWriters
  <2>2. does \in PlansWriters
        => does \in DOMAIN PlansHooks
    BY AllDomain, MutationDomain, JoinDomain DEF PlansHooks, PlansWriters
  <2>3. does \in SubscriptionsWriters
        => does \in DOMAIN SubscriptionsHooks
    BY AllDomain, MutationDomain, JoinDomain
       DEF SubscriptionsHooks, SubscriptionsWriters, SubscriptionsWrites
  <2>4. does \in PaymentsWriters
        => does \in DOMAIN PaymentsHooks
    BY AllDomain, MutationDomain, JoinDomain
       DEF PaymentsHooks, PaymentsWriters, PaymentsWrites
  <2>5. does \in ClassesWriters
        => does \in DOMAIN ClassesHooks
    BY AllDomain, MutationDomain, JoinDomain DEF ClassesHooks, ClassesWriters
  <2>6. does \in CoachesWriters \cup LinksWriters
        => does \in DOMAIN CoachesHooks
    BY AllDomain, MutationDomain, JoinDomain
       DEF CoachesHooks, CoachesWriters, LinksWriters
  <2>7. does \in TemplatesWriters \cup SessionsWriters
        => does \in DOMAIN ScheduleHooks
    BY AllDomain, MutationDomain, JoinDomain
       DEF ScheduleHooks, TemplatesWriters, SessionsWriters
  <2>8. does \in LeadsWriters \cup {"addActivity"}
        => does \in DOMAIN LeadsHooks
    BY AllDomain, MutationDomain, JoinDomain DEF LeadsHooks, LeadsWriters
  <2>9. does \in TenantsWriters \ {"updateTenantFeatures"}
        => does \in DOMAIN TenantsHooks
    BY AllDomain, MutationDomain, JoinDomain DEF TenantsHooks, TenantsWriters
  <2>10. does \in StaffWriters
        => does \in DOMAIN UsersHooks
    BY AllDomain, MutationDomain, JoinDomain DEF UsersHooks, StaffWriters
  <2>11. does = "updateTenantFeatures" => does \in DOMAIN ScheduleHooks
    BY MutationDomain, JoinDomain DEF ScheduleHooks
  <2> QED
    BY <2>1, <2>2, <2>3, <2>4, <2>5, <2>6, <2>7, <2>8, <2>9, <2>10, <2>11,
       JoinedDomain DEF AtHome, Hook
<1>2. from \in DOMAIN Key
  <2>1. from \in {"listMembers", "getMember"} => from \in DOMAIN MembersKeys
    BY DEF MembersKeys
  <2>2. from \in {"listPlans", "getPlan"} => from \in DOMAIN PlansKeys
    BY DEF PlansKeys
  <2>3. from = "listSubscriptions" => from \in DOMAIN SubscriptionsKeys
    BY DEF SubscriptionsKeys
  <2>4. from \in {"listMemberPayments", "listPayments"} => from \in DOMAIN PaymentsKeys
    BY DEF PaymentsKeys
  <2>5. from \in {"listClasses", "getClass"} => from \in DOMAIN ClassesKeys
    BY DEF ClassesKeys
  <2>6. from \in {"listCoaches", "getCoach", "listCoachesForClass"}
        => from \in DOMAIN CoachesKeys
    BY DEF CoachesKeys
  <2>7. from \in {"listTemplates", "listSessions"} => from \in DOMAIN ScheduleKeys
    BY DEF ScheduleKeys
  <2>8. from \in {"listLeads", "getLead", "listActivities"} => from \in DOMAIN LeadsKeys
    BY DEF LeadsKeys
  <2>9. from \in {"listTenants", "getTenant"} => from \in DOMAIN TenantsKeys
    BY DEF TenantsKeys
  <2>10. from = "listUsersForTenant" => from \in DOMAIN UsersKeys
    BY DEF UsersKeys
  <2> QED
    BY <2>1, <2>2, <2>3, <2>4, <2>5, <2>6, <2>7, <2>8, <2>9, <2>10,
       JoinedDomain DEF AtHome, Key
<1>3. \A k \in Hook[does].refreshes : IsPrefix(k, Key[from]) => Refreshes(does, from)
  BY <1>1, Refreshed
<1>4. CASE does \in MembersWriters /\ from \in {"listMembers", "getMember"}
  BY <1>1, <1>2, <1>3, <1>4, WhatIsRefreshed, WhereItIsCached
<1>5. CASE does \in PlansWriters /\ from \in {"listPlans", "getPlan"}
  BY <1>1, <1>2, <1>3, <1>5, WhatIsRefreshed, WhereItIsCached
<1>6. CASE does \in SubscriptionsWriters /\ from = "listSubscriptions"
  BY <1>1, <1>2, <1>3, <1>6, WhatIsRefreshed, WhereItIsCached
<1>7. CASE does \in PaymentsWriters /\ from \in {"listMemberPayments", "listPayments"}
  BY <1>1, <1>2, <1>3, <1>7, WhatIsRefreshed, WhereItIsCached
<1>8. CASE does \in ClassesWriters /\ from \in {"listClasses", "getClass"}
  BY <1>1, <1>2, <1>3, <1>8, WhatIsRefreshed, WhereItIsCached
<1>9. CASE does \in CoachesWriters /\ from \in {"listCoaches", "getCoach"}
  BY <1>1, <1>2, <1>3, <1>9, WhatIsRefreshed, WhereItIsCached
<1>10. CASE does \in LinksWriters /\ from = "listCoachesForClass"
  BY <1>1, <1>2, <1>3, <1>10, WhatIsRefreshed, WhereItIsCached
<1>11. CASE does \in TemplatesWriters /\ from = "listTemplates"
  BY <1>1, <1>2, <1>3, <1>11, WhatIsRefreshed, WhereItIsCached
<1>12. CASE does \in SessionsWriters /\ from = "listSessions"
  BY <1>1, <1>2, <1>3, <1>12, WhatIsRefreshed, WhereItIsCached
<1>13. CASE does \in LeadsWriters /\ from \in {"listLeads", "getLead"}
  BY <1>1, <1>2, <1>3, <1>13, WhatIsRefreshed, WhereItIsCached
<1>14. CASE does = "addActivity" /\ from = "listActivities"
  BY <1>1, <1>2, <1>3, <1>14, WhatIsRefreshed, WhereItIsCached
<1>15. CASE does \in TenantsWriters /\ from \in {"listTenants", "getTenant"}
  BY <1>1, <1>2, <1>3, <1>15, WhatIsRefreshed, WhereItIsCached
<1>16. CASE does \in StaffWriters /\ from = "listUsersForTenant"
  BY <1>1, <1>2, <1>3, <1>16, WhatIsRefreshed, WhereItIsCached
<1> QED
  BY <1>4, <1>5, <1>6, <1>7, <1>8, <1>9, <1>10, <1>11, <1>12, <1>13, <1>14, <1>15, <1>16
     DEF AtHome

\* A mutation of one of the jobs refreshes the query on screen, or is one of
\* those left out.
LEMMA JobsAreRefreshed ==
    ASSUME job \in Jobs
    PROVE  Refreshes(job.does, job.watches) \/ Forgotten
<1>1. CASE job \in {[does |-> p[1], watches |-> p[2], form |-> "none", field |-> "press"] :
                      p \in {p \in (DOMAIN Writes) \X (DOMAIN Reads) : Touches(p[1], p[2])}}
  <2>1. PICK w \in DOMAIN Writes, r \in DOMAIN Reads :
          Touches(w, r) /\ job.does = w /\ job.watches = r
    BY <1>1
  <2> QED
    BY <2>1, TouchedIsRefreshed DEF LeftOut, Forgotten
<1>2. CASE \E f \in DOMAIN Forms \ {"none"} : \E x \in Telling(Forms[f]) :
             job = [does |-> Forms[f].does, watches |-> Forms[f].from, form |-> f,
                    field |-> x]
  BY <1>2, FormsAreAtHome, HomeIsRefreshed
<1> QED
  BY <1>1, <1>2 DEF Jobs

LEMMA JobNeverChanges == ASSUME [Next]_vars PROVE job' = job
  BY DEF Next, vars, OpenForm, Type, Send, Dismiss, Leave, Return, Refocus,
     Elsewhere, Serve, FetchServed, FetchLands, FetchFails, Done, Failed

\* Once nothing is under way, the page shows every change of the user's own
\* that was reported done, for every mutation and every query its facts touch
\* and for every form on its page, but for the queries the hooks leave as they
\* were, the fields the server drops and a fetch that an invalidation did not
\* reach (hooks.ts: invalidateQueries, setQueryData).
THEOREM OwnWritesShownHolds == Spec => []OwnWritesShown
<1>1. Init => job \in Jobs
  BY DEF Init
<1>2. job \in Jobs /\ [Next]_vars => (job \in Jobs)'
  BY JobNeverChanges
<1>3. job \in Jobs => Refreshes(job.does, job.watches) \/ Forgotten
  BY JobsAreRefreshed
<1>4. Forgotten => OwnWritesShown
  BY DEF OwnWritesShown
<1> QED
  BY <1>1, <1>2, <1>3, <1>4, RefreshedIsShown, PTL DEF Spec

-----------------------------------------------------------------------------
(* The tables of the forms, looked up: what a form insists on against what *)
(* the server demands of the request it sends.                             *)

\* A button without a form sends no field the server measures.
LEMMA ButtonsAreLong ==
    ASSUME NEW does \in DOMAIN Shortest
    PROVE  "press" \notin DOMAIN Shortest[does]
  BY DEF Shortest

\* The requests whose fields the server measures, by the form that sends them.
MeasuredForms ==
  {"newMember", "editMember", "newPlan", "editPlan", "newClass", "editClass",
   "newLead", "editLead", "activityForm", "newCoach", "editCoach",
   "inviteLoginSection", "newTenant", "createUserForm", "editUserDialog",
   "templateDialog"}

\* The other forms send requests none of whose fields is measured.
LEMMA OthersAreUnmeasured ==
    ASSUME NEW f \in DOMAIN Forms \ MeasuredForms
    PROVE  Forms[f].does \notin DOMAIN Shortest
<1>1. DOMAIN Shortest =
        {"createMember", "updateMember", "createPlan", "updatePlan", "createClass",
         "updateClass", "createLead", "updateLead", "addActivity", "createCoach",
         "updateCoach", "inviteCoachUser", "createTenant", "createUser",
         "updateUser", "createTemplate"}
  BY DEF Shortest
<1>2. f \in
        {"none", "lostReasonDialog", "convertLeadDialog", "assignCoachForm",
         "editTenant", "tenantFeatures", "adHocSessionDialog", "bulkActionDialog",
         "sessionSwap", "sessionCancel", "enrollDialog", "freezeDialog",
         "renewDialog", "changePlanDialog", "cancelDialog", "recordPaymentDialog",
         "refundPaymentDialog"}
  BY DEF Forms, MeasuredForms
<1>3. CASE f = "none"
  <2>1. Forms[f] = NoForm
    BY <1>3 DEF Forms
  <2>2. NoForm.does = ""
    BY DEF NoForm, Form
  <2>3. "" \notin DOMAIN Shortest
    BY <1>1
  <2> QED
    BY <2>1, <2>2, <2>3
<1>4. CASE f = "lostReasonDialog"
  BY <1>1, <1>4 DEF Forms, LostReasonDialog, Form
<1>5. CASE f = "convertLeadDialog"
  BY <1>1, <1>5 DEF Forms, ConvertLeadDialog, Form
<1>6. CASE f = "assignCoachForm"
  BY <1>1, <1>6 DEF Forms, AssignCoachForm, Form
<1>7. CASE f = "editTenant"
  BY <1>1, <1>7 DEF Forms, EditTenant, Form, TenantForm
<1>8. CASE f = "tenantFeatures"
  BY <1>1, <1>8 DEF Forms, TenantFeatures, Form
<1>9. CASE f = "adHocSessionDialog"
  BY <1>1, <1>9 DEF Forms, AdHocSessionDialog, Form
<1>10. CASE f = "bulkActionDialog"
  BY <1>1, <1>10 DEF Forms, BulkActionDialog, Form
<1>11. CASE f = "sessionSwap"
  BY <1>1, <1>11 DEF Forms, SessionSwap, Form
<1>12. CASE f = "sessionCancel"
  BY <1>1, <1>12 DEF Forms, SessionCancel, Form
<1>13. CASE f = "enrollDialog"
  BY <1>1, <1>13 DEF Forms, EnrollDialog, Form
<1>14. CASE f = "freezeDialog"
  BY <1>1, <1>14 DEF Forms, FreezeDialog, Form
<1>15. CASE f = "renewDialog"
  BY <1>1, <1>15 DEF Forms, RenewDialog, Form
<1>16. CASE f = "changePlanDialog"
  BY <1>1, <1>16 DEF Forms, ChangePlanDialog, Form
<1>17. CASE f = "cancelDialog"
  BY <1>1, <1>17 DEF Forms, CancelDialog, Form
<1>18. CASE f = "recordPaymentDialog"
  BY <1>1, <1>18 DEF Forms, RecordPaymentDialog, Form
<1>19. CASE f = "refundPaymentDialog"
  BY <1>1, <1>19 DEF Forms, RefundPaymentDialog, Form
<1> QED
  BY <1>2, <1>3, <1>4, <1>5, <1>6, <1>7, <1>8, <1>9, <1>10, <1>11, <1>12, <1>13, <1>14, <1>15,
     <1>16, <1>17, <1>18, <1>19

\* What a form asks of a field that the server measures: as much, of what is
\* left after trimming - but for the fields listed in KnownShort.
Asked(form_, does, x, least) ==
  \/ /\ x \in DOMAIN form_.insists /\ form_.insists[x] \in Int
     /\ form_.insists[x] >= least
     /\ form_.wary \/ x \notin form_.trims
  \/ x \in form_.trims /\ x \in {"first_name", "last_name", "phone", "name"}
  \/ does \in {"createMember", "updateMember"} /\ x = "phone"
  \/ does = "createTenant" /\ x = "slug"

LEMMA MeasuredFormsAsk ==
    ASSUME NEW f \in MeasuredForms
    PROVE  \A x \in DOMAIN Shortest[Forms[f].does] :
             Asked(Forms[f], Forms[f].does, x, Shortest[Forms[f].does][x])
<1>1. CASE f = "newMember"
  <2>1. Forms[f] = NewMember
    BY <1>1 DEF Forms
  <2>2. NewMember.does = "createMember"
    BY DEF NewMember, MemberForm, Form
  <2> QED
    BY <2>1, <2>2 DEF NewMember, MemberForm, Form, Least, Shortest, Asked
<1>2. CASE f = "editMember"
  <2>1. Forms[f] = EditMember
    BY <1>2 DEF Forms
  <2>2. EditMember.does = "updateMember"
    BY DEF EditMember, MemberForm, Form
  <2> QED
    BY <2>1, <2>2 DEF EditMember, MemberForm, Form, Least, Shortest, Asked
<1>3. CASE f = "newPlan"
  <2>1. Forms[f] = NewPlan
    BY <1>3 DEF Forms
  <2>2. NewPlan.does = "createPlan"
    BY DEF NewPlan, PlanForm, Form
  <2> QED
    BY <2>1, <2>2 DEF NewPlan, PlanForm, Form, Least, Shortest, Asked
<1>4. CASE f = "editPlan"
  <2>1. Forms[f] = EditPlan
    BY <1>4 DEF Forms
  <2>2. EditPlan.does = "updatePlan"
    BY DEF EditPlan, PlanForm, Form
  <2> QED
    BY <2>1, <2>2 DEF EditPlan, PlanForm, Form, Least, Shortest, Asked
<1>5. CASE f = "newClass"
  <2>1. Forms[f] = NewClass
    BY <1>5 DEF Forms
  <2>2. NewClass.does = "createClass"
    BY DEF NewClass, ClassForm, Form
  <2> QED
    BY <2>1, <2>2 DEF NewClass, ClassForm, Form, Least, Shortest, Asked
<1>6. CASE f = "editClass"
  <2>1. Forms[f] = EditClass
    BY <1>6 DEF Forms
  <2>2. EditClass.does = "updateClass"
    BY DEF EditClass, ClassForm, Form
  <2> QED
    BY <2>1, <2>2 DEF EditClass, ClassForm, Form, Least, Shortest, Asked
<1>7. CASE f = "newLead"
  <2>1. Forms[f] = NewLead
    BY <1>7 DEF Forms
  <2>2. NewLead.does = "createLead"
    BY DEF NewLead, LeadForm, Form
  <2> QED
    BY <2>1, <2>2 DEF NewLead, LeadForm, Form, Least, Shortest, Asked
<1>8. CASE f = "editLead"
  <2>1. Forms[f] = EditLead
    BY <1>8 DEF Forms
  <2>2. EditLead.does = "updateLead"
    BY DEF EditLead, LeadForm, Form
  <2> QED
    BY <2>1, <2>2 DEF EditLead, LeadForm, Form, Least, Shortest, Asked
<1>9. CASE f = "activityForm"
  <2>1. Forms[f] = ActivityForm
    BY <1>9 DEF Forms
  <2>2. ActivityForm.does = "addActivity"
    BY DEF ActivityForm, Form
  <2> QED
    BY <2>1, <2>2 DEF ActivityForm, Form, Least, Shortest, Asked
<1>10. CASE f = "newCoach"
  <2>1. Forms[f] = NewCoach
    BY <1>10 DEF Forms
  <2>2. NewCoach.does = "createCoach"
    BY DEF NewCoach, CoachForm, Form
  <2> QED
    BY <2>1, <2>2 DEF NewCoach, CoachForm, Form, Least, Shortest, Asked
<1>11. CASE f = "editCoach"
  <2>1. Forms[f] = EditCoach
    BY <1>11 DEF Forms
  <2>2. EditCoach.does = "updateCoach"
    BY DEF EditCoach, CoachForm, Form
  <2> QED
    BY <2>1, <2>2 DEF EditCoach, CoachForm, Form, Least, Shortest, Asked
<1>12. CASE f = "inviteLoginSection"
  <2>1. Forms[f] = InviteLoginSection
    BY <1>12 DEF Forms
  <2>2. InviteLoginSection.does = "inviteCoachUser"
    BY DEF InviteLoginSection, Form
  <2> QED
    BY <2>1, <2>2 DEF InviteLoginSection, Form, Least, Shortest, Asked
<1>13. CASE f = "newTenant"
  <2>1. Forms[f] = NewTenant
    BY <1>13 DEF Forms
  <2>2. NewTenant.does = "createTenant"
    BY DEF NewTenant, TenantForm, Form
  <2> QED
    BY <2>1, <2>2 DEF NewTenant, TenantForm, Form, Least, Shortest, Asked
<1>14. CASE f = "createUserForm"
  <2>1. Forms[f] = CreateUserForm
    BY <1>14 DEF Forms
  <2>2. CreateUserForm.does = "createUser"
    BY DEF CreateUserForm, Form
  <2> QED
    BY <2>1, <2>2 DEF CreateUserForm, Form, Least, Shortest, Asked
<1>15. CASE f = "editUserDialog"
  <2>1. Forms[f] = EditUserDialog
    BY <1>15 DEF Forms
  <2>2. EditUserDialog.does = "updateUser"
    BY DEF EditUserDialog, Form
  <2> QED
    BY <2>1, <2>2 DEF EditUserDialog, Form, Least, Shortest, Asked
<1>16. CASE f = "templateDialog"
  <2>1. Forms[f] = TemplateDialog
    BY <1>16 DEF Forms
  <2>2. TemplateDialog.does = "createTemplate"
    BY DEF TemplateDialog, Form
  <2> QED
    BY <2>1, <2>2 DEF TemplateDialog, Form, Least, Shortest, Asked
<1> QED
  BY <1>1, <1>2, <1>3, <1>4, <1>5, <1>6, <1>7, <1>8, <1>9, <1>10, <1>11, <1>12, <1>13, <1>14,
     <1>15, <1>16 DEF MeasuredForms

LEMMA LeastsAreNumbers ==
    ASSUME NEW does \in DOMAIN Shortest, NEW x \in DOMAIN Shortest[does]
    PROVE  Shortest[does][x] \in Int
  BY DEF Shortest

\* The server measures what is left of the value after trimming.
IsShort(v) == Length(Trimmed(v)) < Floor

\* What may be typed into a field.
Texts == {"", " ", "x", "text"}

LEMMA LengthsAreNumbers == \A v \in Texts : Length(v) \in {0, 1, 9}
  BY DEF Length, Texts

\* Trimming leaves a text, and a field that is not trimmed as it is.
LEMMA TrimmedIsValue ==
    ASSUME NEW v \in Texts
    PROVE  /\ Trimmed(v) \in Texts
           /\ job.field \notin FormAtHand.trims => Trimmed(v) = v
  BY DEF Trimmed, Texts

\* A job has the mutation of its form, or none of its fields is measured.
LEMMA JobsAreMeasured ==
    ASSUME job \in Jobs
    PROVE  \/ job.form # "none" /\ job.does = FormAtHand.does
           \/ job.form = "none" /\ job.field = "press"
<1>1. CASE job \in {[does |-> p[1], watches |-> p[2], form |-> "none", field |-> "press"] :
                      p \in {p \in (DOMAIN Writes) \X (DOMAIN Reads) : Touches(p[1], p[2])}}
  BY <1>1
<1>2. CASE \E f \in DOMAIN Forms \ {"none"} : \E x \in Telling(Forms[f]) :
             job = [does |-> Forms[f].does, watches |-> Forms[f].from, form |-> f,
                    field |-> x]
  BY <1>2 DEF FormAtHand
<1> QED
  BY <1>1, <1>2 DEF Jobs

\* What a form lets through and the server finds short is a known case.
LEMMA ShortIsKnown ==
    ASSUME EditorInv, job \in Jobs, NEW v \in Texts,
           job.form = "none" \/ LetThrough(v), IsShort(v)
    PROVE  KnownShort
<1>1. PICK left \in {0, 1, 9} : left = Length(Trimmed(v))
  BY TrimmedIsValue, LengthsAreNumbers
<1>2. left < Floor
  BY <1>1 DEF IsShort
<1>3. Floor # 0
  BY <1>2
<1>4. job.does \in DOMAIN Shortest /\ job.field \in DOMAIN Shortest[job.does]
  BY <1>3 DEF Floor, Demand
<1>5. job.form # "none" /\ job.does = FormAtHand.does
  BY <1>4, JobsAreMeasured, ButtonsAreLong
<1>6. job.form \in MeasuredForms
  BY <1>4, <1>5, OthersAreUnmeasured DEF FormAtHand, EditorInv, TypeOK
<1>7. Floor = Shortest[job.does][job.field] /\ Floor \in Int
  BY <1>4, LeastsAreNumbers DEF Floor, Demand
<1>8. Asked(FormAtHand, job.does, job.field, Floor)
  BY <1>4, <1>5, <1>6, <1>7, MeasuredFormsAsk DEF FormAtHand
<1>9. ASSUME job.field \in DOMAIN FormAtHand.insists,
             FormAtHand.insists[job.field] \in Int,
             FormAtHand.insists[job.field] >= Floor,
             FormAtHand.wary \/ job.field \notin FormAtHand.trims
      PROVE  FALSE
  <2>1. Trimmed(v) = IF FormAtHand.wary THEN Trimmed(v) ELSE v
    BY <1>9, TrimmedIsValue
  <2>2. left >= Demand(FormAtHand.insists, job.field)
    BY <1>1, <1>5, <2>1 DEF LetThrough
  <2>3. Demand(FormAtHand.insists, job.field) = FormAtHand.insists[job.field]
    BY <1>9 DEF Demand
  <2> QED
    BY <1>2, <1>7, <1>9, <2>2, <2>3
<1> QED
  BY <1>8, <1>9 DEF Asked, KnownShort

\* The job never changes, and a request is measured when it is sent.
LEMMA LongEnoughKeeps ==
    ASSUME EditorInv, job \in Jobs, LongEnough, [Next]_vars
    PROVE  job' \in Jobs /\ LongEnough'
<1>1. job' = job
  BY JobNeverChanges
<1>2. KnownShort' = KnownShort
  BY <1>1 DEF KnownShort, FormAtHand
<1>3. CASE Send
  <2>1. req' = [NoReq EXCEPT !.at = "sent", !.own = sends + 1, !.other = Carried,
                  !.short = IsShort(form.value), !.live = TRUE]
    BY <1>3 DEF Send, IsShort
  <2>2. req'.short => IsShort(form.value)
    BY <2>1 DEF NoReq
  <2>3. form.value \in Texts
    BY Types DEF EditorInv, FormRows, Texts
  <2> QED
    BY <1>1, <1>2, <1>3, <2>2, <2>3, ShortIsKnown DEF Send, LongEnough
<1>4. CASE req'.short => req.short
  BY <1>1, <1>2, <1>4 DEF LongEnough
<1>5. CASE ~Send
  <2>1. req' \in {req, NoReq} \/ \E b \in BOOLEAN : req' = [req EXCEPT !.live = b]
          \/ Serve
    BY <1>5, Types DEF Next, vars, OpenForm, Type, Dismiss, Leave, Return, Refocus,
       Elsewhere, FetchServed, FetchLands, FetchFails, Done, Failed, EditorInv,
       Requests
  <2>2. ~NoReq.short /\ req \in Requests
    BY Types DEF NoReq, EditorInv
  <2>3. ASSUME Serve PROVE req'.short = req.short
    <3>1. \/ req' = [req EXCEPT !.at = "ok", !.row = Written]
          \/ req' = [req EXCEPT !.at = "refused"]
      BY <2>3 DEF Serve
    <3> QED
      BY <2>2, <3>1 DEF Requests
  <2>4. ASSUME NEW b \in BOOLEAN, req' = [req EXCEPT !.live = b]
        PROVE  req'.short = req.short
    BY <2>2, <2>4 DEF Requests
  <2>5. req'.short => req.short
    BY <2>1, <2>2, <2>3, <2>4
  <2> QED
    BY <1>4, <2>5
<1> QED
  BY <1>3, <1>5

\* No form sends the server a field that is too short for it, but for the
\* fields listed in KnownShort: what a form insists on, and what it trims
\* before or after it looked, is looked up in its row of the table for every
\* form and every value of the field (the forms' required, minLength and trim
\* against the min_length of the request schemas).
THEOREM LongEnoughHolds == Spec => []LongEnough
<1>1. Init => job \in Jobs /\ LongEnough
  BY DEF Init, LongEnough, NoReq
<1>2. EditorInv /\ job \in Jobs /\ LongEnough /\ [Next]_vars
        => (job \in Jobs)' /\ LongEnough'
  BY LongEnoughKeeps
<1> QED
  BY <1>1, <1>2, EditorKeeps, PTL DEF Spec

=============================================================================
