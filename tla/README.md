# A verification of dopacrm

dopacrm is a CRM for gyms: a FastAPI backend (`src/backend/app`) over PostgreSQL, a
Celery beat that runs three nightly jobs, a Redis for rate limits and logged-out
tokens, and a React frontend (`src/frontend/src`, half of the code). This directory
holds TLA+ modules that model the core logic of both sides, TLC configurations that
check them on small instances, and TLAPS proofs for every instance.

The backend has four layers (routes, services, entities, repositories). A request
is one `AsyncSession`: a PostgreSQL transaction at READ COMMITTED, without
autoflush, that ends in one `commit()` in the service or in nothing. No query takes
a row lock (`FOR UPDATE` occurs nowhere) and an UPDATE names its row by id alone.
What a service decided on a row it read may therefore be stale when its UPDATE runs;
only the CHECK and UNIQUE constraints of the tables are evaluated at that moment.
Most of the backend's hazards below follow from this.

The frontend keeps three things of its own: the user it believes is signed in
(`AuthProvider`), a cache of the server's answers (TanStack Query: fresh for five
minutes, fetched again when invalidated or when the window is returned to), and the
drafts of forms and dialogs. None of the three is kept in step with the server by
anything but the requests it sends, whose answers arrive in any order or not at all.
The hazards of the frontend follow from that.

## 1. Inventory

| Component | State | Operations | Hard behaviour | What makes it correct |
|---|---|---|---|---|
| Subscriptions (`services/subscription_service.py`, `workers/subscription_tasks.py`) | `subscriptions`, `subscription_events`, `members.status` | create, freeze, unfreeze, renew, change_plan, cancel, auto_unfreeze_due, auto_expire_due | overlapping requests, jobs on stale lists, batches refused as a whole, dates | one live subscription per member; ended stays ended; plan changes complete; member status agrees; overdue expires, and only overdue |
| Members (`member_service.py`) | `members` | create, update, freeze, unfreeze, cancel | writes the status column that Subscriptions also writes | the status agrees with the subscription |
| Membership plans (`membership_plan_service.py`) | `membership_plans`, `plan_entitlements` | create, update, deactivate, activate | entitlements replaced while attendance reads them | an active plan has a usable set of entitlements |
| Attendance (`attendance_service.py`) | `class_entries` | record_entry, reassign_coach, undo, quota_check | the quota is counted and then an entry is inserted; undo window; entitlement windows | the entries of a window do not exceed the quota unless overridden; an entry is undone once |
| Payments (`payment_service.py`) | `payments` (append-only) | record, refund, revenue queries | refunds are summed and then one is inserted; retries of a recorded payment | refunds never exceed the payment; an amount is neither lost nor counted twice |
| Leads (`lead_service.py`) | `leads`, `lead_activities`, and through convert `members`, `subscriptions` | create, update, assign, set_status, add_activity, convert | conversion creates a member and a subscription in the same transaction; overlapping conversions | converted is final and goes with one member; a lost lead has a reason |
| Schedule (`schedule_service.py`, `schedule_materialize.py`, `workers/schedule_tasks.py`) | `class_schedule_templates`, `class_sessions` | create/update/deactivate template, ad hoc, update, cancel, bulk action, extend horizon | template edits re-materialize future sessions while the horizon job inserts | a slot has one session; cancelled or customised sessions are not overwritten; no session outlives its template's end |
| Coaches (`coach_service.py`) | `coaches`, `class_coaches` | create, freeze, unfreeze, cancel, invite_user, assign_to_class, unassign, earnings | links are dated intervals, earnings are computed from links and entries | an entry is paid once and to one coach; a cancelled coach has no open link |
| Classes (`gym_class_service.py`) | `gym_classes` | create, update, activate, deactivate | (tenant, name) unique | a class is deactivated, never deleted |
| Tenants and feature flags (`tenant_service.py`, `core/feature_flags.py`) | `tenants`, `saas_plans` | create, update, suspend, activate, cancel, update_features | each status command writes unconditionally; flags are merged in one statement | plain CRUD |
| Users and authentication (`user_service.py`, `api/v1/auth`, `core/security.py`, `core/token_blacklist.py`) | `users`, `refresh_tokens` (written by no route), Redis | login, logout, create, update, soft delete | Redis fails open | a logged-out token is refused while Redis answers |
| Rate limiting (`api/dependencies/rate_limit.py`) | Redis counters | one check per request | INCR and EXPIRE are two calls | at most `limit` requests in a window |
| Uploads (`adapters/storage/s3`) | S3 objects | put, presign | pure I/O | |
| Routes and schemas (`api/v1`) | none | parse, call a service, map errors | none | |
| Dashboard (`api/v1/dashboard`) | none | counting queries | none | |
| Session and access (`features/auth`, `components/layout`, `app/App.tsx`) | `user`, `isLoading`, the cookie, the address | first load, login, logout, guards, links | identity answers that overlap, expiry, flags switched meanwhile | the user shown is the holder of the session; no page before a user who may not see it |
| Pages (`features/*/…Page.tsx`, sections, dialogs) | query cache, open dialogs and panels, pending mutations | a control for each operation of a service | controls chosen from a stale row, dialogs that stand, second clicks, callbacks after leaving | what is offered works, what is refused is explained, a stale click does no harm |
| API client (`lib/api-client.ts`, `lib/api-errors.ts`) | none | fetch, one humanizer for each feature | the code of a refusal is dropped and guessed again from its words | a sentence says what the refusal was about |
| Hooks and forms (`features/*/hooks.ts`, `…Form.tsx`, `…Dialog.tsx`) | query cache, drafts | 37 requests that read, 56 that write, 32 forms | invalidations against fetches under way, forms that send every field or follow the cache | a reported write is shown; nobody's edit is taken back; a draft is not lost |
| Check-in (`features/attendance`) | member, summary, scanner, dialogs | find, scan, check in, override | a card read under a dialog, a scanner nobody stops, a stale summary | the entry recorded is the one agreed to |
| Lookup (`components/ui/async-combobox.tsx`) | search, pages, debounce | open, type, load more | late pages | the list is the pages of the search, without a gap |

The components interact through tables and calls inside one transaction, never by
messages: LeadService.convert calls the repositories of Members and Subscriptions;
AttendanceService reads the live subscription, the plan's entitlements, the coach
links and the sessions; PaymentService looks at members and subscriptions only to
validate; Schedule creates the sessions that Attendance attributes entries to;
CoachService pays from the entries that Attendance recorded; every service asks
Tenants for the feature flags. The frontend reaches all of them through the routes, one
request per operation.

## 2. Plan

Modules in the order of what matters most, each written to be proved about
(parameters as CONSTANTS with named assumptions, one action per operation, no
RECURSIVE operator).

1. `Subscriptions`, with the abstract `SubscriptionLifecycle` it implements and
   `SubscriptionNights` for what the jobs eventually do. **Done, with proofs.**
2. `Payments`: the ledger, its refunds and the revenue summary. **Done, with proofs.**
3. `Schedule`: templates, sessions and the horizon job. **Done, with proofs.**
4. `Access` and `Shell`, the session of a browser tab; `Screens`, `Gates` and `Errors`,
   what the pages offer, what the services let through and what is said of a refusal;
   `Desk`, which composes them. **Done, with proofs.**
5. `Api`, `Hooks` and `Forms`, the tables of requests, cache keys and forms; `Editor`,
   which runs them against the query cache. **Done, with proofs.**
6. `Lookup`, and `FrontDesk`, which composes it with the check-in page and the server's
   quota check. **Done, with proofs.**

Left for later: `members.status` as MemberService writes it, composed with
`Subscriptions`; the periods of a quota; the dated links and earnings of coaches;
conversion of a lead composed with `Subscriptions.create`.

How the modules build on each other:

    Subscriptions -> SubscriptionLifecycle (refined)      Payments      Schedule
      SubscriptionNights
    Access <- Shell  <- Desk -> Screens -> Gates -> Access
                        Desk -> Errors
    Api <- Hooks <- Editor -> Forms
    Lookup <- FrontDesk

## 3. What is modelled

### Subscriptions

The state of `Subscriptions.tla` and the code it stands for:

| Variable | Code |
|---|---|
| `rows` | the `subscriptions` table: status, member, plan, the dates, whether `cancelled_at` and `replaced_at` are set, `replaced_by_id`. An id whose status is `none` has not been drawn |
| `memberStatus` | `members.status` |
| `cancelEvents` | the number of `cancelled` rows of `subscription_events` for a subscription |
| `tx` | for each database session, the statements it has decided on and not yet committed |
| `today` | `date.today()` |

Each operation is a pair of actions. `ReadX` is the service method up to its first
UPDATE: it takes the row (or, for a job, the list of due rows), checks the guard of
the entity and computes the dates. `CommitX` is everything from there to
`commit()`: the UPDATE by id, the events, `_sync_member_status`. It applies to the
row as it is *then*. `Admissible` is the table's CHECK constraints and its partial
UNIQUE index; a transaction that would break one is rolled back (`Refuse`).
`Crash` loses a transaction in flight and `NextDay` moves the calendar.

One action per commit is sound. The rows that a transaction has updated are locked
and its other effects are invisible until COMMIT, so another session sees all of
them or none; the statements of one transaction do not read each other's tables
except by id. Between `ReadX` and `CommitX` anything may happen.

`SubscriptionLifecycle.tla` is what the documentation promises
(`docs/features/subscriptions.md`, the table of transitions): a machine over the
status, the owner and the successor of each subscription, with the permitted moves
as a constant. `Subscriptions` implements it twice. When sessions take turns
(`turns.cfg`) the moves are the documented ones. When they overlap (`overlap.cfg`)
exactly three more occur: a stale freeze or plan change of a subscription that has
expired meanwhile, and a second plan change of a replaced one.

`SubscriptionNights.tla` gives the jobs fairness. Interference is budgeted there
(`left`): staff requests and crashes are finite, so the question is whether the jobs
put things right after the last of them.

Left out: prices, payment methods, notes, event payloads, `expired_at` (no
constraint or guard reads it), `started_at`, the role and tenant gates (a refused
caller changes nothing), and MemberService's own writes of `members.status`, which
belong to the next module of the plan.

### Payments

`Payments.tla`: `ledger` is the append-only `payments` table, `tx` what a session is in
the middle of, `shown` the last revenue summary a session was given. `record` depends
on nothing that can change before its INSERT and is one action. `refund` reads the
payment and adds up its refunds (`ReadRefund`), then inserts (`CommitRefund`).
`revenue_summary` runs five aggregate queries, each on its own snapshot: five actions
in the order of the code. Left out: notes, references, the currency, list queries.

### Schedule

| Variable of `Schedule.tla` | Code |
|---|---|
| `templates` | `class_schedule_templates`: weekdays, time, coach, last day, `is_active` |
| `calendar` | `class_sessions`: template, day and time (`starts_at`), coach, status, `is_customized` |
| `tx` | what each worker (API session or Celery worker) is in the middle of |
| `today`, `slot` | `date.today()` and the hour |

A PATCH of a template updates the template's row first, which locks it until COMMIT
(`Unlocked`), lists the sessions to bring in line, updates each of them by id and fills
the horizon. `Materialize` is the loop of `INSERT ... ON CONFLICT DO NOTHING`.
Creating a template is two transactions: the template, then its sessions. Edits of
sessions, one or a range, are a Read with the guard and a Commit by id that the unique
index may refuse. The job lists the active templates once (`ReadActive`) and extends
and commits one after the other (`ExtendOne`), going on when one fails (`FailOne`).
The week is shortened to `Weekdays`, the day to `Slots`; the arithmetic on both is the
code's. Left out: assistants, notes, the end of a session, the pay link that a bulk
swap creates, time zones.

### The tab: Access, Shell

`Access.tla` holds `permissions.ts` and the route table of `App.tsx`: `Baseline`,
`CanAccess`, `PageFeature`, and `Landing`, the page on screen once `ProtectedRoute` and
`RequireFeature` have redirected. `Shell.tla` is one tab:

| Variable | Code |
|---|---|
| `cookie` | whether the browser holds a session that the server accepts |
| `user`, `loading` | the state of `AuthProvider` |
| `calls`, `asked` | the `GET /auth/me` requests: sent, served, answered |
| `signing`, `waiting` | the login form: sent, or awaiting the identity answer after it |
| `leaving` | a logout under way |
| `page` | the address |
| `flags`, `account` | the gym's flags and the role of the account, on the server |
| `odd` | history: what happened since the page was loaded that may part user and session |

`fetchUser` neither abandons an old request nor orders the answers, and its `catch`
takes any failure for "nobody"; so does the model (`Heard`, `MeLost`). `SettledAgree`
says that the user shown is the holder of the session once everything is answered, and
names through `odd` when it is not: requests that overlapped, an answer or a logout that
was lost, a session that expired, flags that changed. `PageIsAdmitted` has no exception.

### The pages: Screens, Gates, Errors, Desk

`Gates.tla` says what a service lets a caller do to a row (roles, statuses from and to,
the code of the refusal), `Screens.tla` which page has a control for what and when,
`Errors.tla` what each humanizer of `api-errors.ts` makes of what `api-client.ts` keeps of
a refusal. `Desk.tla` composes the three with `Shell`: a row on the server (`row`), in
the query cache (`shown`) and, in the schedule, in a panel that keeps the session it was
opened with (`panel`); a dialog; the requests under way, which greys which buttons, and
which of them still call back (`live`: the callbacks that a component gives to `mutate`
do not run once it is gone); what others do meanwhile (`Elsewhere`, `Ages`).

The exceptions of its properties are consequences of the code that have no statement of
the repository against them, and each is named:

- `Dead` (`ControlsWork`): a control that never works although it is offered. The class
  page lets every role press save; the recent entries offer undo to a coach; a converted
  lead may be dragged, a lost one too, to trial; a kanban card may be dropped on "new";
  and cancel and change of plan of a *frozen* subscription pass their guards and are
  refused by `ck_subs_frozen_shape`, which the user sees as a system error.
- `Tolerated` (`StaleClicksHarmless`): what may still be done through a stale page that a
  fresh one would not offer (suspend a cancelled tenant, convert a lost lead, renew or
  cancel an expired subscription).
- `Misread` (`RefusalsExplained`): four codes whose sentence waits for a word that the
  message does not have.

### The forms: Api, Hooks, Forms, Editor

`Api.tla` has every request with the facts it reads or writes, `Hooks.tla` every query's
key and the keys every mutation invalidates or sets, `Forms.tla` every form: its fields,
what it insists on and trims, whether it sends everything, the changed fields or a new
row, and when it closes. `Editor.tla` takes one mutation with one query it touches, and
for a form one telling field (`Jobs`), through the query cache:

| Variable | Code |
|---|---|
| `row` | the row on the server: `own`, what the user's request writes, `other`, what others edit, each as the number of its last write |
| `shown`, `stale`, `fetch` | the cached answer, its invalidation mark, the fetch under way |
| `form`, `req` | the draft with the row it was filled from, the mutation under way |
| `claimed` | the last write that was reported done |
| `outrun` | history: the cached row came with a fetch an invalidation had not reached |

An invalidation fetches what is on screen and abandons a fetch under way; for a query
off screen it only marks, and a fetch that left earlier clears the mark when it lands.
Exceptions by name: `Forgotten` (quota figures after a change of subscription, earnings
after entries, platform figures), `Dropped` (a member's join date and a tenant's slug
are no field of the request, `Unknown` in `Forms`), forms that send every field
(members, plans, classes), forms that follow the cache (the payment dialog, the
feature switches), `KnownShort` (blanks that are trimmed after they were looked at, a
member's phone, a tenant's slug).

### The check-in: Lookup, FrontDesk

`Lookup.tla` is `AsyncCombobox`: the debounce, a first page that is given up when the
search changes, further pages that are not. `FrontDesk.tla` composes it with the page
and the server:

| Variable | Code |
|---|---|
| `plan` | the rules (`plan_entitlements`) of each member's live subscription |
| `entered` | the effective entries (`class_entries`) in the running period |
| `member`, `cached` | the member on the page, the member's summary in the query cache |
| `scan`, `leaked` | the scanner panel; a scanner that was abandoned while starting runs on |
| `dialog`, `req` | the confirmation or override, the request to record |

`CheckEntry` and `InsertEntry` are `record_entry` before and after its INSERT, with no
lock between them. A frozen member may check in: `find_live_for_member` includes frozen
subscriptions, so `live` stands for both. A lost answer (`Lost`) leaves the dialog open
and a second confirmation records a second entry; there is no idempotency key.
`EntriesAreMeant` excepts a card that was read while a dialog was open (the workspace is
not built anew for another member, so the dialog stays) and an entry of another desk
between count and insert. `ShownIsServed` excepts a summary that is no longer current.

## 4. Runs

| Run | Instance | Properties | Shows |
|---|---|---|---|
| `overlap` | 1 member, 3 subscriptions, 2 plans, 2 sessions, 2 days | `TypeOK`, `OneLivePerMember`, `StatusIsCovered`, `ReplacedHasSuccessor`, `TerminalIsFinal`, `FollowsRacedLifecycle` | whatever two requests, jobs and crashes do to a chain of three subscriptions, at most one is live, the member is not shown as active or frozen without one in that state, plan changes are complete and what has ended stays ended |
| `turns` | 1 session, 3 subscriptions, 3 days, payments up to day 3 | `CancelledOnce`, `FollowsDocumentedLifecycle`, `ExpiresOnlyOverdue`, `FreezeKeepsDaysLeft`, `SuccessorIsFinal` | without overlap the documented lifecycle holds, dates included |
| `nights` | 2 members, 2 subscriptions, 2 sessions, 4 requests or crashes | `OverdueIsExpired`, `EndedFreezeIsLifted` | the jobs recover from refused batches and lost runs |
| `ledger` | 2 members, 3 payments, 2 sessions, 2 months | `TypeOK`, `RefundMatchesOriginal`, `RefundNotBeforePayment`, `RevenueHasPayers` | overlapping refunds and summaries keep the ledger consistent; the five snapshots of a summary agree on whether anybody paid |
| `refunds` | 3 payments, 1 session, 2 methods, amounts up to 2 | `RefundsWithinOriginal`, `FiguresAgree` | one request at a time, a payment is not refunded beyond its amount, in any split, and the split by method adds up |
| `timetable` | 1 template, 4 sessions, 2 coaches, 2 times, 1 worker that serves requests and jobs in turn | `FutureFollowsTemplate`, `FutureIsCovered`, `CustomStays` | edits of a template reach every session ahead that nobody has touched, and none that somebody has; a deactivated template leaves nothing behind |
| `calendar` | 1 template, 3 sessions and 1 ad hoc, 1 request and 1 job at a time, 2 days and the horizon | `TypeOK`, `OwnerDecides`, `CancelledStays`, `HorizonCatchesUp` | a job that overlaps the owner's edits of sessions and weekdays revives nothing and doubles nothing, and the horizon is filled again after crashes and failed runs |
| `desk` | one row of each of the 13 kinds, 2 requests at once for 4 kinds, 2 identity requests, 1 flag | `DeskTypeOK`, `ControlsWork`, `SettledAgree`, `PageIsAdmitted`, `StaleClicksHarmless`, `RefusalsExplained` | what the pages offer the services take, refusals are told for what they are, stale clicks do no harm, and the tab shows the right user the right pages |
| `editor` | every mutation with every query it touches, every form; 2 requests, 1 edit of others | `TypeOK`, `OwnWritesShown`, `LongEnough`, `OthersEditsSurvive`, `TypingIsKept` | reported writes are shown, drafts and other users' edits are kept, whatever the order of answers, refetches and failures |
| `frontdesk` | 2 members, 2 classes, 5 plans, 2 entries, 2 searches of 2 pages | `TypeOK`, `EntriesAreMeant`, `ShownIsServed` | nobody is checked in by accident, and the page's verdict is the server's |

The runs that end in a violation each check one statement of the repository's own
docs, comments or tests, quoted under `findings` of PROJECT.json:

| Run | Property | What the counterexample shows |
|---|---|---|
| `member_lockstep` | `LiveSetsStatus` | an expired subscription is cancelled after a new one was bought: the member is shown as cancelled |
| `no_rules` | `NoRulesNoLimit` | a member on a plan without entitlements is offered no class: the page takes the empty summary for no subscription, and the server answers `not_covered` |

Other consequences of the same causes were met while modelling, and have no run of
their own:

- A frozen subscription can be neither cancelled nor moved to another plan: the UPDATE
  leaves `frozen_at` on the row and `ck_subs_frozen_shape` refuses it.
- Two overlapping refunds of one payment read the same remainder and both commit
  (`RefundsWithinOriginal` is checked one request at a time).
- A weekday taken off a template leaves its sessions in the calendar (`FutureIsCovered`
  is checked where none is), and an edit of a template overwrites a session that was
  cancelled or moved after the edit had listed it (`CustomStays` with one worker).
- `auto_expire_due` expires by id, so a subscription renewed between its query and its
  UPDATE is expired; two overlapping cancellations both log a `cancelled` event; a
  freeze may land on a subscription expired meanwhile. These are what `turns` does
  not allow and the three moves that `overlap` adds.
- A subscription that was overdue when it was frozen is resumed still overdue, since
  only the frozen days are added.
- After a month of net refunds the percentage of the revenue summary is negative for a
  rise (`payment_service.py:344` divides by a negative sum).
- The horizon job extends from rows it read before: a template edited or deactivated
  meanwhile gets sessions of its old self (`FutureFollowsTemplate` is checked with the
  job in turn for that reason).
- A cancelled or moved session keeps its key in the unique index, so after an edit of
  the template's *time*, or after a move, a second session appears on the day the
  owner had decided about (`OwnerDecides` is checked with times fixed).
- The horizon begins with today: a template created in the evening gets a session
  this morning.

Bounds. Most hazards of this code are races of two transactions on one row, so two
sessions suffice to show each; three subscriptions are a chain with a middle.
In the frontend, `MaxAsks` = 2 lets identity requests overlap, two requests at once
(`Doubled`) suffice for a second click, `MaxSends` = 2 and `MaxOthers` = 1 for a write
that is reported before the fetch of an earlier one lands, `MaxEntries` = 2 for a quota
of one to be exceeded, `MaxPage` = 1 for a further page. The kinds of row differ only in
their tables, so the shell moves during the work on one of them (`Restless`), and other
desks act on one of two members (`Shared`).
`MaxDay` and `MaxPaid` bound the calendar; a day of `NextDay` is enough to make
today differ from the day of a read. Each bound is a CONSTANT named in its module.
Every cfg of the backend says `CHECK_DEADLOCK FALSE`: at the last day, with every id used and
every subscription ended, nothing more can happen, and that is how the instance
ends. `desk` and `editor` say it because a user who stays on the login page, or has sent
all of `MaxSends`, has nothing left to do. Symmetry is used in the safety runs only, over sets of model values that no
definition orders.

Fairness (`nights`, `calendar`). Beat sends both jobs every night, and `acks_late` gives the run
of a dead worker to another, so a job with something due is started again and again
(`WF` of the two reads); the database answers a statement it was sent (`WF` of commit or
refusal, per session); days pass (`WF` of `NextDay`). Nothing is assumed of the staff,
whose requests and crashes may stop at any time. In `calendar`, beat starts the horizon
job every night (`WF` of `ReadActive`) and a job that is started over and over is not
stopped before the same template each time (`SF` of `ExtendOne`): `docs/features/schedule.md`
says "Failed runs just re-execute next night". Crashes are not limited there.

The frontend's modules state no fairness: a user may stop at any time, and an answer may
never come (the client sets no timeout). What they promise is therefore stated of the
moment when everything is answered (`Settled`, `Quiet`).

## 5. Proofs

Each proof module is for every value of the constants its component declares, under the
assumptions named there; the sets of members, rows, sessions and workers may be infinite
unless a sum is taken over them (`MethodsAssumption`, `DeskAssumption`). A theorem that
states a property of a run names it.

Some properties fail where certain transactions overlap, and are checked with one session
or one worker. Their theorems do not limit the number. They assume of the behaviour only
that those transactions stay apart (`KeepApart`): no two under way about the same
subscription; nobody else concerned with a template while it is patched or deactivated.
Everything else may overlap and crash. That whoever takes turns keeps apart is a lemma
(`TurnsAreApart`), and of a single session or worker, which is what the runs check, the
properties follow from the specification alone (`OneSessionFollows`, `OneWorkerFollows`,
`OneSessionAgrees`).

### Subscriptions

`SubscriptionsProofs.tla`:

- `TypeCorrect`, `OneLiveAlways`. The inductive invariant is `IInv`: types, the CHECK and
  UNIQUE constraints of the table, that an id a session has drawn is no row's
  (`DrawnIdsFree`) and that a row an UPDATE aims at exists (`TargetsExist`). A commit
  checks the constraints on the table it leaves, so they need no other history, but a
  read must know that what it prepares is a transaction over existing rows.
- `TerminalForGood`: `TerminalIsFinal`. No guard protects an ended row from a stale
  UPDATE. The argument is about the stamps: no statement clears `cancelled_at` or
  `replaced_at`, so a statement that gives a stamped row another status breaks
  `ck_subs_cancelled_shape` or `ck_subs_replaced_shape` and is refused
  (`StampsStay`, `StampsDecide`).
- `PlanChangesComplete`: `ReplacedHasSuccessor`. `SInv` strengthens it with what a
  prepared plan change knows: its new id is drawn by it alone and used by no row,
  and the plan it moves to differs from the plan of the row it replaces, which no
  statement changes.
- `ShownStatusIsCovered`: `StatusIsCovered`, with overlap and crashes. A commit gives the
  member of every row it writes the status of a row it writes (`WrittenStatus`: for a plan
  change, of the new row), and a member it does not touch has lost none of their rows,
  because an UPDATE leaves a row with its member and goes to an existing row (`IInv`).
- `ImplementsRacedLifecycle`, `ImplementsDocumentedLifecycle`: each commit is one move of
  the abstract lifecycle, or several at once for a batch, under the refinement mapping of
  the two INSTANCEs. With overlap, `ConstraintsDecide` says what the constraints leave of
  the statuses a statement may have found; under `KeepApart`, `FoundAsRead` leaves only
  the one that was read.
- `FrozenIsOnlyResumed`: a frozen row becomes nothing but active, since cancellations and
  plan changes leave `frozen_at` where it was and break `ck_subs_frozen_shape`.
- `CancelledOnceApart`, `ExpiresOverdueApart`, `FreezeStopsTheClockApart`,
  `SuccessorOnceApart`: under `KeepApart`. `TInv` says that the guard a transaction
  passed still holds of the row (`StillMeant`), that the expiry it will write gives back
  the frozen days (`GivesBack`), that no freeze starts on a day to come (`NothingAhead`)
  and that a row has logged its cancellation and no other (`EventsCount`). Other sessions
  commit in between, but to other rows (`OthersRowsStay`), and the calendar moves.
- `OneSessionFollows`: all five of the run `turns`, of one session, without a condition.
- `NightsRefine`: every behaviour of `SubscriptionNights` is one of `Subscriptions`.

### Payments

A sum is a fold over a set (`MapThenSumSet`), that is, a recursion. `Sums.tla` has what the
proofs need of it - a sum is an integer, takes one member after the other, splits, is
unchanged where the numbers are, lies between bounds - each by looking at a smallest set
that would violate it (`SmallestSet`: strict inclusion is well-founded on the subsets of a
finite set), so without an induction rule.

`PaymentsProofs.tla`:

- `RefundsMatch`: `RefundMatchesOriginal`, and `RefundsComeLater`:
  `RefundNotBeforePayment`. `PInv` adds to both what a prepared refund knows
  (`Sound`): its payment exists, is itself no refund and is dated no later than today.
  It survives the steps of the others because rows are only ever added
  (`InsertKeeps`, `InsertKeepsSound`).
- `LedgerTypes`, `RevenueIsSomebodys`: `TypeOK` and `RevenueHasPayers`, with overlap.
  `FiguresInv` keeps the ledger finite with payments positive and refunds negative
  (`BooksOK`), and a summary under way that has found revenue has a paying row behind it
  (`EarnedFromRows`); the row is still there when the count runs, which is last.
- `RefundsInTurnStayWithin`: `RefundsWithinOriginal`, if no *one* payment is being refunded
  twice at once; everything else may overlap. `LeftInv`: what is left of each payment is
  not negative, and is enough for the refund that is prepared.
- `QuietFiguresAgree`: `FiguresAgree`, if nothing is booked during a summary. `AgreeInv`:
  the figures found so far are those of the ledger as it is. The total of a month is the
  sum over the methods of the sums by method (`MethodsAddUp`).
- `OneSessionAgrees`: a single session meets both conditions.

### Schedule

`ScheduleProofs.tla`:

- `TypeCorrect`. `MaterializeAdds` says what the insert loop does to a calendar: it keeps
  every session and adds new ids, one for each missing day.
- `OwnerHasTheLastWord`: `OwnerDecides`, under `TimesFixed` (no edit changes a time).
  The unique index is on template and *time*; it speaks about days only because every
  session of a template then has the template's time. `OInv` states that (`OwnTime`),
  the index, and what each worker still knows when it commits although it read without
  a lock (`Knows`): rows it listed keep their template, day and time (`Grows`).
- `OffForGood`: `CancelledStays`, with overlap: no UPDATE writes "scheduled".
- `FutureFollows`, `FutureCovered`, `CustomIsTheOwners`: `FutureFollowsTemplate`,
  `FutureIsCovered` (under `CoverageFixed`, no edit changes which days a template covers)
  and `CustomStays`, under `KeepApart`. `FInv`: each session ahead that its template
  decides about is as the template says (`AllFollow`), and what a worker has read is what
  there is (`UpToDate`): its list is all that the template decides about. Edits by hand,
  fills, patches of other templates and the nightly job go on meanwhile; they leave what
  was read as it is (`ReadOfOthersIsStill`), a fill because it only adds rows of its own
  template (`FillKeepsOthers`).
- `OneWorkerFollows`: the three of the run `timetable`, of one worker, without a condition.

### The frontend

- `ShellProofs.tla`: `ShellHolds`, for any bound on the requests. `ShellInv` strengthens
  `SettledAgree` with what holds while answers are under way and nothing out of the
  ordinary has happened (`Ordinary`): at most one identity request, whose answer, once
  served, is what the server would still say.
- `DeskProofs.tla`: every step of `Desk` is a step of `Shell` or leaves it alone
  (`DeskStepIsShellStep`), and the pages it starts on are admitted, so
  `DeskSettledAgree` and `DeskPageIsAdmitted` follow from `ShellInv`.
  `DeskTypes`, `ControlsDoWork`, `StaleClicksDoNoHarm` and `RefusalsAreExplained` join what
  is true of the tables, whichever row is looked at - gates are sound (`GatesAreSound`),
  what a page offers the service takes (`OfferedWorks`), what a service takes some page
  offered (`ChangeIsOffered`), the first rule of a humanizer that fits a refusal speaks the
  truth about it (`ToldTruly`) - with what is true of the work under way (`WorkInv`): each
  answer is the answer of the service (`Answered`), and the copy on the page is the
  row unless a fetch is due, somebody else has changed it or the page has yet to hear that
  its own request was taken.
- `EditorProofs.tla`: `EditorTypeOK`; `OthersEditsSurviveHolds`; `TypingIsKeptHolds`.
  `EditorInv` adds that a draft is open, a request of a form that sends nothing of the
  others carries nothing (`CarriesAll`), a write that was reported is on the server
  (`ToldIsWritten`), and, if the query is refreshed, in the cache, in the fetch under way,
  or behind a mark (`ToldIsCached`).
- `EditorProofs.tla`, the tables: `OwnWritesShownHolds` is `OwnWritesShown`.
  `RefreshedIsShown` is the part that holds whatever the tables say; the rest looks them
  up. Which requests read a fact (`WhoReads`), what a mutation writes (`WhatIsWritten`)
  and invalidates (`WhatIsRefreshed`) and where an answer is cached (`WhereItIsCached`)
  give `TouchedIsRefreshed`: what a mutation changes it refreshes, but for the `Forgotten`
  pairs; and `FormsAreAtHome` with `HomeIsRefreshed` give the same of every form on its
  page. `LongEnoughHolds`: `LongEnough`, by form: what a form demands is no less than what
  the server does, or the field is in `KnownShort` (`ShortIsKnown`).
- `FrontDeskProofs.tla`, the lookup: `LookupIsWhole`; the strengthening is that page 0 is
  only ever awaited for what stands in the search box (`FetchIsCurrent`).
  `DeskImplementsLookup`: every step of the check-in page is a step of the lookup or leaves
  it alone, so `DeskListIsWhole` takes it over.
- `FrontDeskProofs.tla`, the page: `PageReadsAsServer`, that `findQuotaForClass` on the
  summary and `_find_matching_entitlement` on the rules agree for every plan; from it
  `ShownIsServedHolds`. `DeskInv` carries what a dialog knows into the request
  (`DialogIsMeant`, `RequestIsMeant`).
- `FrontDeskProofs.tla`, the count: `EntriesAreMeantHolds` is `EntriesAreMeant`, and
  `DeskTypesHold` is `TypeOK`. `CountInv`: the entries of all members together stay within
  the bound, and what the server found when it counted stands until the row is inserted,
  unless the request was overtaken (`VerdictStands`): fewer entries only make room
  (`FewerIsFine`, a fact about sums).

### Only model-checked

- Liveness: `OverdueIsExpired`, `EndedFreezeIsLifted`, `HorizonCatchesUp`. The prover has
  no rule for fairness.
- The properties proved under a condition, where the condition fails: there they are
  false, for the reasons listed in section 4.

## 6. Not modelled

- Of the backend's services other than the first three, what decides whether a request is
  let through is in `Gates`, what it writes in `Api`, and the quota check in
  `FrontDesk`; their uniqueness constraints, the periods of quotas, the dated links and
  earnings of coaches, and the concurrency of their transactions are not.
- Rate limiting is a Redis counter that lets requests through when Redis does not answer;
  uploads are pure I/O; routes parse and call. None has a state of its own to go wrong.
- `lib/api-schema.ts` is generated from the server's schema and only declares types;
  `LandingPage.tsx` is static. Labels, layout, tables, charts, colours and formats of
  dates and money are left out everywhere.
- What the query library does inside is modelled as the hooks use it and marked external.

PROJECT.json names each part with its reason.
