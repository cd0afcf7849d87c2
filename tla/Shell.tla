-------------------------------- MODULE Shell ---------------------------------
(***************************************************************************)
(* One browser tab of the web application: the session it holds, the user  *)
(* it believes is signed in, and the page it is on (AuthProvider, api.ts,  *)
(* LoginPage, Sidebar, the route guards of Access).                        *)
(*                                                                         *)
(* The cookie belongs to the browser and the server, the user to React;    *)
(* they meet only in the answers of GET /auth/me.  Such a request is sent, *)
(* served and answered in three steps, several may be under way, and       *)
(* nothing orders their answers or abandons an old one.  A failed request  *)
(* counts as "nobody", as the catch of fetchUser has it.                   *)
(*                                                                         *)
(* Left out: the fields of the user no guard reads, the landing page, the  *)
(* texts of a refused login, a second click on logout.                     *)
(***************************************************************************)
EXTENDS Access, Integers

CONSTANTS MaxAsks,     \* bound: identity requests of one behaviour
          Switchable   \* bound: flags the platform admin may flip meanwhile

ASSUME ShellAssumption == MaxAsks \in Nat \ {0} /\ Switchable \subseteq Gated

VARIABLES account,     \* the role of the account this browser signs in with
          flags,       \* the gym's feature flags, on the server
          cookie,      \* whether the browser holds a session the server accepts
          user,        \* AuthProvider: user
          loading,     \* AuthProvider: isLoading
          calls,       \* the identity requests
          asked,       \* how many were sent
          signing,     \* LoginPage: "no", "sent", or "asking"
          waiting,     \* the identity request the login form awaits
          leaving,     \* whether a logout is under way
          page,        \* the address
          odd          \* what happened since the page was loaded that may
                       \* part the user from the session

shellVars == <<account, flags, cookie, user, loading, calls, asked, signing,
               waiting, leaving, page, odd>>

Ids      == 1 .. MaxAsks
NoCall   == [at |-> "none", says |-> NoUser]
Sent     == [at |-> "sent", says |-> NoUser]
Calls    == [at : {"none", "sent", "served"}, says : Users \cup {NoUser}]
InFlight == {i \in Ids : calls[i].at # "none"}

\* What the server says of the holder of the session.
Whoami == IF cookie THEN [role |-> account, flags |-> flags] ELSE NoUser

Oddities == {"overlap", "lost answer", "lost logout", "expired", "flags"}

\* GET /auth/me leaves while no more than the bound of them have.
Ask(busy) == /\ asked < MaxAsks
             /\ asked' = asked + 1
             /\ calls' = [i \in Ids |-> IF i = asked + 1 THEN Sent
                                        ELSE IF busy THEN calls[i] ELSE NoCall]

-----------------------------------------------------------------------------
(* Loading the application, and the identity requests.                     *)

ShellInit == /\ account \in Roles
             /\ flags \in {Gated, Gated \ Switchable}
             /\ cookie \in BOOLEAN
             /\ user = NoUser
             /\ loading = TRUE
             /\ calls = [i \in Ids |-> IF i = 1 THEN Sent ELSE NoCall]
             /\ asked = 1
             /\ signing = "no"
             /\ waiting = 0
             /\ leaving = FALSE
             /\ page \in Pages
             /\ odd = {}

\* Reloading drops the state of the page and every answer on its way; a
\* login or a logout under way may or may not have reached the server.
Reload == /\ Ask(FALSE)
          /\ \/ cookie' = cookie
             \/ signing = "sent" /\ cookie' = TRUE
             \/ leaving /\ cookie' = FALSE
          /\ user' = NoUser
          /\ loading' = TRUE
          /\ signing' = "no"
          /\ waiting' = 0
          /\ leaving' = FALSE
          /\ odd' = {}
          /\ UNCHANGED <<account, flags, page>>

MeServed(i) == /\ calls[i].at = "sent"
               /\ calls' = [calls EXCEPT ![i] = [at |-> "served", says |-> Whoami]]
               /\ UNCHANGED <<account, flags, cookie, user, loading, asked,
                              signing, waiting, leaving, page, odd>>

\* fetchUser goes on with what was said.  If the login form awaited this
\* answer, it then leaves for the dashboard whatever the answer was.
Heard(i, who) ==
  /\ user' = who
  /\ loading' = FALSE
  /\ calls' = [calls EXCEPT ![i] = NoCall]
  /\ IF i = waiting
     THEN /\ signing' = "no"
          /\ waiting' = 0
          /\ page' = Landing(who, FALSE, "dashboard")
     ELSE /\ page' = Landing(who, FALSE, page)
          /\ UNCHANGED <<signing, waiting>>
  /\ UNCHANGED <<account, flags, cookie, asked, leaving>>

MeHeard(i) == /\ calls[i].at = "served"
              /\ Heard(i, calls[i].says)
              /\ UNCHANGED odd

MeLost(i) == /\ calls[i].at # "none"
             /\ Heard(i, NoUser)
             /\ odd' = odd \cup {"lost answer"}

-----------------------------------------------------------------------------
(* Signing in and out.                                                     *)

\* The login page shows its form whether or not the session is loading and
\* whether or not somebody is signed in.
LoginSent == /\ page = "login"
             /\ signing = "no"
             /\ signing' = "sent"
             /\ UNCHANGED <<account, flags, cookie, user, loading, calls, asked,
                            waiting, leaving, page, odd>>

LoginAccepted == /\ signing = "sent"
                 /\ cookie' = TRUE
                 /\ Ask(TRUE)
                 /\ signing' = "asking"
                 /\ waiting' = asked + 1
                 /\ odd' = IF InFlight = {} THEN odd ELSE odd \cup {"overlap"}
                 /\ UNCHANGED <<account, flags, user, loading, leaving, page>>

LoginRefused == /\ signing = "sent"
                /\ signing' = "no"
                /\ UNCHANGED <<account, flags, cookie, user, loading, calls,
                               asked, waiting, leaving, page, odd>>

\* The button of the sidebar, on every page behind the guards.
LogoutSent == /\ page \in ProtectedPages
              /\ ~loading
              /\ SignedIn(user)
              /\ ~leaving
              /\ leaving' = TRUE
              /\ UNCHANGED <<account, flags, cookie, user, loading, calls,
                             asked, signing, waiting, page, odd>>

LeftQuietly == /\ leaving
               /\ leaving' = FALSE
               /\ page' = "login"
               /\ UNCHANGED <<account, flags, user, loading, calls, asked, signing, waiting>>

\* logout goes on whether or not the server was reached.
Left == /\ leaving
        /\ leaving' = FALSE
        /\ user' = NoUser
        /\ page' = "login"
        /\ UNCHANGED <<account, flags, loading, calls, asked, signing, waiting>>

LogoutServed == /\ Left
                /\ cookie' = FALSE
                /\ odd' = IF InFlight = {} THEN odd ELSE odd \cup {"overlap"}

LogoutLost == /\ Left
              /\ cookie' = cookie
              /\ odd' = odd \cup {"lost logout"}

-----------------------------------------------------------------------------
(* Moving about, and what changes behind the tab's back.                   *)

Go(p) == /\ page \in ProtectedPages
         /\ ~loading
         /\ SignedIn(user)
         /\ p \in Links(user, page)
         /\ page' = Landing(user, loading, p)
         /\ UNCHANGED <<account, flags, cookie, user, loading, calls, asked,
                        signing, waiting, leaving, odd>>

\* The back button reaches the login page of an earlier visit.
Back == /\ page' = "login"
        /\ UNCHANGED <<account, flags, cookie, user, loading, calls, asked,
                       signing, waiting, leaving, odd>>

Expire == /\ cookie
          /\ cookie' = FALSE
          /\ odd' = odd \cup {"expired"}
          /\ UNCHANGED <<account, flags, user, loading, calls, asked, signing,
                         waiting, leaving, page>>

FlipFlag(f) == /\ flags' = IF f \in flags THEN flags \ {f} ELSE flags \cup {f}
               /\ odd' = odd \cup {"flags"}
               /\ UNCHANGED <<account, cookie, user, loading, calls, asked,
                              signing, waiting, leaving, page>>

ShellStep == \/ Reload
             \/ \E i \in Ids : MeServed(i) \/ MeHeard(i) \/ MeLost(i)
             \/ LoginSent \/ LoginAccepted \/ LoginRefused
             \/ LogoutSent \/ LogoutServed \/ LogoutLost
             \/ \E p \in ProtectedPages : Go(p)
             \/ Back \/ Expire
             \/ \E f \in Switchable : FlipFlag(f)

ShellSpec == ShellInit /\ [][ShellStep]_shellVars

-----------------------------------------------------------------------------
ShellTypeOK ==
  /\ account \in Roles
  /\ flags \in SUBSET Gated
  /\ cookie \in BOOLEAN
  /\ user \in Users \cup {NoUser}
  /\ loading \in BOOLEAN
  /\ calls \in [Ids -> Calls]
  /\ asked \in Ids
  /\ signing \in {"no", "sent", "asking"}
  /\ waiting \in 0 .. MaxAsks
  /\ leaving \in BOOLEAN
  /\ page \in Pages
  /\ odd \in SUBSET Oddities

Settled == InFlight = {} /\ ~leaving

\* Once every answer is in, the tab shows a user exactly when the browser
\* holds a session, and the right one - unless identity requests overlapped,
\* an answer or a logout was lost, the session expired or the flags changed
\* (auth-provider.tsx:34-62: the last answer to arrive wins, not the last
\* one asked for).
SettledAgree == Settled /\ odd = {} => user = Whoami

\* Whatever happens, a protected page is on screen only with a user who may
\* see it: redirects are never outrun by a logout or a late answer.
PageIsAdmitted == page \in ProtectedPages /\ ~loading =>
                    SignedIn(user) /\ Admits(user, page)
=============================================================================
