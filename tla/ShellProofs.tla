----------------------------- MODULE ShellProofs -----------------------------
(***************************************************************************)
(* What holds of every tab, however many identity requests it sends: the   *)
(* types, the guards, and that the tab and the server agree once they have *)
(* had the chance to.                                                      *)
(***************************************************************************)
EXTENDS Shell, TLAPS

\* While nothing out of the ordinary has happened there is at most one
\* identity request, what it was told still stands, and without one the tab
\* and the server agree.
Ordinary == odd = {} =>
              /\ \A i, j \in InFlight : i = j
              /\ \A i \in Ids : calls[i].at = "served" => calls[i].says = Whoami
              /\ InFlight = {} => user = Whoami

ShellInv == ShellTypeOK /\ Ordinary /\ PageIsAdmitted

USE ShellAssumption DEF ShellAssumption

\* The server answers with a user, or with nobody.
LEMMA WhoamiIsUser ==
    ASSUME ShellTypeOK
    PROVE  Whoami \in Users \cup {NoUser}
  BY DEF ShellTypeOK, Whoami, Users

\* The guards lead to a page, and to a protected one only who may see it.
LEMMA LandingIsAdmitted ==
    ASSUME NEW who \in Users \cup {NoUser}, NEW busy \in BOOLEAN, NEW p \in Pages
    PROVE  /\ Landing(who, busy, p) \in Pages
           /\ Landing(who, busy, p) \in ProtectedPages /\ ~busy =>
                SignedIn(who) /\ Admits(who, Landing(who, busy, p))
<1>1. "login" \in OpenPages /\ "login" \notin ProtectedPages
  BY DEF OpenPages, ProtectedPages, PageFeature
<1>2. "dashboard" \in ProtectedPages /\ "dashboard" \notin OpenPages
  BY DEF OpenPages, ProtectedPages, PageFeature
<1>3. OpenPages \cap ProtectedPages = {}
  BY DEF OpenPages, ProtectedPages, PageFeature
<1>4. CASE p \in OpenPages \/ busy
  <2>1. Landing(who, busy, p) = p
    BY <1>4 DEF Landing
  <2> QED
    BY <1>3, <1>4, <2>1
<1>5. CASE ~(p \in OpenPages \/ busy) /\ ~SignedIn(who)
  <2>1. Landing(who, busy, p) = "login"
    BY <1>5 DEF Landing
  <2> QED
    BY <1>1, <2>1 DEF Pages
<1>6. CASE ~(p \in OpenPages \/ busy) /\ SignedIn(who) /\ Admits(who, p)
  <2>1. Landing(who, busy, p) = p
    BY <1>6 DEF Landing
  <2> QED
    BY <1>6, <2>1
<1>7. CASE ~(p \in OpenPages \/ busy) /\ SignedIn(who) /\ ~Admits(who, p)
  <2>1. Landing(who, busy, p) = "dashboard"
    BY <1>7 DEF Landing
  <2> QED
    BY <1>2, <1>7, <2>1 DEF Pages, Admits
<1> QED
  BY <1>4, <1>5, <1>6, <1>7

\* A request that leaves is a request under way, and the others stay or go.
LEMMA AskSends ==
    ASSUME ShellTypeOK, NEW busy \in BOOLEAN, Ask(busy)
    PROVE  /\ asked' \in Ids
           /\ calls' \in [Ids -> Calls]
           /\ calls'[asked + 1] = Sent
           /\ \A i \in Ids : i # asked + 1 =>
                calls'[i] = IF busy THEN calls[i] ELSE NoCall
           /\ asked + 1 \in Ids
  BY DEF ShellTypeOK, Ask, Ids, Calls, Sent, NoCall

\* What every step may count on.
LEMMA InitHolds == ASSUME ShellInit PROVE ShellInv
<1>1. ShellTypeOK
  <2>1. calls \in [Ids -> Calls]
    BY DEF ShellInit, Ids, Calls, Sent, NoCall
  <2>2. asked \in Ids /\ waiting \in 0 .. MaxAsks
    BY DEF ShellInit, Ids
  <2> QED
    BY <2>1, <2>2 DEF ShellInit, ShellTypeOK
<1>2. Ordinary
  <2>1. 1 \in Ids /\ calls[1].at = "sent"
    BY DEF ShellInit, Ids, Sent
  <2>2. \A i \in Ids : i # 1 => calls[i].at = "none"
    BY DEF ShellInit, Ids, NoCall
  <2> QED
    BY <2>1, <2>2 DEF Ordinary, InFlight
<1>3. PageIsAdmitted
  BY DEF ShellInit, PageIsAdmitted
<1> QED
  BY <1>1, <1>2, <1>3 DEF ShellInv

-----------------------------------------------------------------------------
(* One lemma for each step.                                                *)

\* A reload leaves one request, and a spinner in the place of the page.
LEMMA ReloadKeeps == ASSUME ShellInv, Reload PROVE ShellInv'
<1>1. ShellTypeOK
  BY DEF ShellInv
<1>2. /\ asked' \in Ids /\ calls' \in [Ids -> Calls] /\ asked + 1 \in Ids
      /\ calls'[asked + 1] = Sent
      /\ \A i \in Ids : i # asked + 1 => calls'[i] = NoCall
  BY <1>1, AskSends DEF Reload
<1>3. ShellTypeOK'
  <2>1. cookie' \in BOOLEAN
    BY <1>1 DEF ShellTypeOK, Reload
  <2>2. waiting' \in 0 .. MaxAsks
    BY DEF Reload
  <2> QED
    BY <1>1, <1>2, <2>1, <2>2 DEF ShellTypeOK, Reload
<1>4. Ordinary'
  BY <1>2 DEF Ordinary, InFlight, Sent, NoCall
<1>5. PageIsAdmitted'
  BY DEF PageIsAdmitted, Reload
<1> QED
  BY <1>3, <1>4, <1>5 DEF ShellInv

\* The server tells the truth of the moment.
LEMMA MeServedKeeps == ASSUME ShellInv, NEW i \in Ids, MeServed(i) PROVE ShellInv'
<1>1. ShellTypeOK /\ Whoami \in Users \cup {NoUser}
  BY WhoamiIsUser DEF ShellInv
<1>2. UNCHANGED <<account, flags, cookie, user, loading, asked, signing,
                  waiting, leaving, page, odd>>
  BY DEF MeServed
<1>3. calls' = [calls EXCEPT ![i] = [at |-> "served", says |-> Whoami]]
  BY DEF MeServed
<1>4. ShellTypeOK'
  BY <1>1, <1>2, <1>3 DEF ShellTypeOK, Calls
<1>5. InFlight' = InFlight /\ Whoami' = Whoami
  BY <1>1, <1>2, <1>3 DEF ShellTypeOK, InFlight, Whoami, MeServed
<1>6. Ordinary'
  BY <1>1, <1>2, <1>3, <1>5 DEF ShellInv, Ordinary, ShellTypeOK
<1>7. PageIsAdmitted'
  BY <1>2 DEF ShellInv, PageIsAdmitted
<1> QED
  BY <1>4, <1>6, <1>7 DEF ShellInv

\* Whatever an answer says, the page shown then is one for that user.
LEMMA HeardKeeps ==
    ASSUME ShellInv, NEW i \in Ids, NEW who \in Users \cup {NoUser}, Heard(i, who)
    PROVE  PageIsAdmitted' /\ page' \in Pages
<1>1. page \in Pages /\ "dashboard" \in Pages
  BY DEF ShellInv, ShellTypeOK, Pages, ProtectedPages, PageFeature
<1>2. \E p \in Pages : page' = Landing(who, FALSE, p)
  BY <1>1 DEF Heard
<1>3. user' = who
  BY DEF Heard
<1> QED
  BY <1>2, <1>3, LandingIsAdmitted DEF PageIsAdmitted

\* Hearing keeps the types.
LEMMA HeardKeepsTypes ==
    ASSUME ShellInv, NEW i \in Ids, NEW who \in Users \cup {NoUser}, Heard(i, who),
           odd' \in SUBSET Oddities
    PROVE  ShellTypeOK'
<1>1. page' \in Pages
  BY HeardKeeps
<1>2. calls' \in [Ids -> Calls]
  BY DEF ShellInv, ShellTypeOK, Heard, Calls, NoCall
<1>3. signing' \in {"no", "sent", "asking"}
  BY DEF ShellInv, ShellTypeOK, Heard
<1>4. waiting' \in 0 .. MaxAsks
  <2>1. waiting \in 0 .. MaxAsks /\ 0 \in 0 .. MaxAsks
    BY DEF ShellInv, ShellTypeOK
  <2>2. waiting' = 0 \/ waiting' = waiting
    BY DEF Heard
  <2> QED
    BY <2>1, <2>2
<1> QED
  BY <1>1, <1>2, <1>3, <1>4 DEF ShellInv, ShellTypeOK, Heard

\* The only answer under way is heard: the tab then agrees with the server.
LEMMA MeHeardKeeps == ASSUME ShellInv, NEW i \in Ids, MeHeard(i) PROVE ShellInv'
<1>1. ShellTypeOK /\ Ordinary /\ calls[i].at = "served" /\ odd' = odd
  BY DEF ShellInv, MeHeard
<1>2. calls[i].says \in Users \cup {NoUser}
  BY <1>1 DEF ShellTypeOK, Calls
<1>3. Heard(i, calls[i].says)
  BY DEF MeHeard
<1>4. ShellTypeOK'
  BY <1>1, <1>2, <1>3, HeardKeepsTypes DEF ShellTypeOK
<1>5. PageIsAdmitted'
  BY <1>2, <1>3, HeardKeeps
<1>6. Ordinary'
  <2>1. SUFFICES ASSUME odd = {} PROVE Ordinary'
    BY <1>1 DEF Ordinary
  <2>2. calls' = [calls EXCEPT ![i] = NoCall] /\ user' = calls[i].says
    BY <1>3 DEF Heard
  <2>3. i \in InFlight
    BY <1>1 DEF InFlight
  <2>4. InFlight' = InFlight \ {i}
    BY <1>1, <2>2 DEF InFlight, ShellTypeOK, NoCall
  <2>5. InFlight' = {}
    BY <1>1, <2>1, <2>3, <2>4 DEF Ordinary
  <2>6. user' = Whoami /\ Whoami' = Whoami
    BY <1>1, <1>3, <2>1, <2>2 DEF Ordinary, Heard, Whoami
  <2>7. \A j \in Ids : calls'[j].at = "none"
    BY <2>5 DEF InFlight
  <2> QED
    BY <2>5, <2>6, <2>7 DEF Ordinary
<1> QED
  BY <1>4, <1>5, <1>6 DEF ShellInv

\* A lost answer is out of the ordinary.
LEMMA MeLostKeeps == ASSUME ShellInv, NEW i \in Ids, MeLost(i) PROVE ShellInv'
<1>1. Heard(i, NoUser) /\ odd' = odd \cup {"lost answer"}
  BY DEF MeLost
<1>2. odd' \in SUBSET Oddities /\ odd' # {}
  BY <1>1 DEF ShellInv, ShellTypeOK, Oddities
<1> QED
  BY <1>1, <1>2, HeardKeeps, HeardKeepsTypes DEF ShellInv, Ordinary

\* Two steps of the login form that nobody else notices.
LEMMA FormKeeps ==
    ASSUME ShellInv, signing' \in {"no", "sent"}, leaving' \in BOOLEAN,
           UNCHANGED <<account, flags, cookie, user, loading, calls, asked,
                       waiting, page, odd>>
    PROVE  ShellInv'
  BY DEF ShellInv, ShellTypeOK, Ordinary, PageIsAdmitted, InFlight, Whoami

\* A login that is accepted asks, and overlaps with whoever asks already.
LEMMA LoginAcceptedKeeps == ASSUME ShellInv, LoginAccepted PROVE ShellInv'
<1>1. ShellTypeOK
  BY DEF ShellInv
<1>2. /\ asked' \in Ids /\ calls' \in [Ids -> Calls] /\ asked + 1 \in Ids
      /\ calls'[asked + 1] = Sent
      /\ \A i \in Ids : i # asked + 1 => calls'[i] = calls[i]
  BY <1>1, AskSends DEF LoginAccepted
<1>3. ShellTypeOK'
  <2>1. waiting' \in 0 .. MaxAsks
    BY <1>2 DEF LoginAccepted, Ids
  <2>2. odd' \in SUBSET Oddities
    BY <1>1 DEF ShellTypeOK, LoginAccepted, Oddities
  <2> QED
    BY <1>1, <1>2, <2>1, <2>2 DEF ShellTypeOK, LoginAccepted
<1>4. Ordinary'
  <2>1. SUFFICES ASSUME odd' = {} PROVE Ordinary'
    BY DEF Ordinary
  <2>2. InFlight = {}
    BY <2>1 DEF LoginAccepted
  <2>3. \A i \in Ids : i # asked + 1 => calls'[i].at = "none"
    BY <1>2, <2>2 DEF InFlight
  <2> QED
    BY <1>2, <2>3 DEF Ordinary, InFlight, Sent
<1>5. PageIsAdmitted'
  BY DEF ShellInv, PageIsAdmitted, LoginAccepted
<1> QED
  BY <1>3, <1>4, <1>5 DEF ShellInv

\* The login page is open to everybody.
LEMMA LoginIsOpen == "login" \in Pages /\ "login" \notin ProtectedPages
  BY DEF Pages, OpenPages, ProtectedPages, PageFeature

\* A logout leaves nobody in the tab; served in peace, also none at the server.
LEMMA LogoutServedKeeps == ASSUME ShellInv, LogoutServed PROVE ShellInv'
<1>1. /\ user' = NoUser /\ cookie' = FALSE /\ leaving' = FALSE /\ page' = "login"
      /\ UNCHANGED <<account, flags, loading, calls, asked, signing, waiting>>
      /\ odd' = IF InFlight = {} THEN odd ELSE odd \cup {"overlap"}
  BY DEF LogoutServed, Left
<1>2. ShellTypeOK'
  BY <1>1, LoginIsOpen DEF ShellInv, ShellTypeOK, Oddities
<1>3. Ordinary'
  <2>1. SUFFICES ASSUME odd' = {} PROVE Ordinary'
    BY DEF Ordinary
  <2>2. InFlight = {} /\ InFlight' = InFlight
    BY <1>1, <2>1 DEF InFlight
  <2>3. user' = Whoami'
    BY <1>1 DEF Whoami
  <2> QED
    BY <1>1, <2>2, <2>3 DEF Ordinary, InFlight
<1>4. PageIsAdmitted'
  BY <1>1, LoginIsOpen DEF PageIsAdmitted
<1> QED
  BY <1>2, <1>3, <1>4 DEF ShellInv

\* A logout that does not reach the server is out of the ordinary.
LEMMA LogoutLostKeeps == ASSUME ShellInv, LogoutLost PROVE ShellInv'
<1>1. /\ user' = NoUser /\ leaving' = FALSE /\ page' = "login"
      /\ UNCHANGED <<account, flags, cookie, loading, calls, asked, signing, waiting>>
      /\ odd' = odd \cup {"lost logout"}
  BY DEF LogoutLost, Left
<1> QED
  BY <1>1, LoginIsOpen DEF ShellInv, ShellTypeOK, Oddities, Ordinary, PageIsAdmitted

\* Going anywhere ends on a page for this user.
LEMMA GoKeeps == ASSUME ShellInv, NEW p \in ProtectedPages, Go(p) PROVE ShellInv'
<1>1. user \in Users \cup {NoUser} /\ loading \in BOOLEAN /\ p \in Pages
  BY DEF ShellInv, ShellTypeOK, Pages
<1>2. page' = Landing(user, loading, p)
  BY DEF Go
<1>3. UNCHANGED <<account, flags, cookie, user, loading, calls, asked,
                  signing, waiting, leaving, odd>>
  BY DEF Go
<1>4. PageIsAdmitted' /\ page' \in Pages
  BY <1>1, <1>2, <1>3, LandingIsAdmitted DEF PageIsAdmitted
<1> QED
  BY <1>3, <1>4 DEF ShellInv, ShellTypeOK, Ordinary, InFlight, Whoami

\* The back button ends on the login page.
LEMMA BackKeeps == ASSUME ShellInv, Back PROVE ShellInv'
  BY LoginIsOpen DEF ShellInv, ShellTypeOK, Ordinary, InFlight, Whoami,
                     PageIsAdmitted, Back

\* What changes behind the tab's back is out of the ordinary.
LEMMA ExpireKeeps == ASSUME ShellInv, Expire PROVE ShellInv'
<1>1. odd' \in SUBSET Oddities /\ odd' # {}
  BY DEF ShellInv, ShellTypeOK, Expire, Oddities
<1> QED
  BY <1>1 DEF ShellInv, ShellTypeOK, Ordinary, PageIsAdmitted, Expire

LEMMA FlipFlagKeeps == ASSUME ShellInv, NEW f \in Switchable, FlipFlag(f) PROVE ShellInv'
<1>1. odd' \in SUBSET Oddities /\ odd' # {}
  BY DEF ShellInv, ShellTypeOK, FlipFlag, Oddities
<1>2. flags' \in SUBSET Gated
  BY DEF ShellInv, ShellTypeOK, FlipFlag
<1> QED
  BY <1>1, <1>2 DEF ShellInv, ShellTypeOK, Ordinary, PageIsAdmitted, FlipFlag

\* Every step of the shell keeps the invariant.
LEMMA ShellStepKeeps == ASSUME ShellInv, ShellStep PROVE ShellInv'
<1>1. CASE LoginSent \/ LoginRefused \/ LogoutSent
  <2>1. signing' \in {"no", "sent"} \/ LogoutSent
    BY <1>1 DEF LoginSent, LoginRefused
  <2>2. CASE LogoutSent
    BY <2>2 DEF LogoutSent, ShellInv, ShellTypeOK, Ordinary, PageIsAdmitted,
                InFlight, Whoami
  <2>3. CASE LoginSent
    BY <2>3, FormKeeps DEF LoginSent, ShellInv, ShellTypeOK
  <2>4. CASE LoginRefused
    BY <2>4, FormKeeps DEF LoginRefused, ShellInv, ShellTypeOK
  <2> QED
    BY <1>1, <2>2, <2>3, <2>4
<1>2. CASE \E i \in Ids : MeServed(i) \/ MeHeard(i) \/ MeLost(i)
  BY <1>2, MeServedKeeps, MeHeardKeeps, MeLostKeeps
<1> QED
  BY <1>1, <1>2, ReloadKeeps, LoginAcceptedKeeps, LogoutServedKeeps, LogoutLostKeeps,
     GoKeeps, BackKeeps, ExpireKeeps, FlipFlagKeeps DEF ShellStep

\* A step that leaves the shell alone keeps the invariant.
LEMMA ShellStutterKeeps == ASSUME ShellInv, UNCHANGED shellVars PROVE ShellInv'
  BY DEF ShellInv, ShellTypeOK, Ordinary, PageIsAdmitted, InFlight, Whoami, shellVars

\* The invariant says what the runs check.
LEMMA ShellInvSays == ASSUME ShellInv PROVE ShellTypeOK /\ SettledAgree /\ PageIsAdmitted
  BY DEF ShellInv, Ordinary, SettledAgree, Settled

-----------------------------------------------------------------------------
\* The state of a tab keeps its types, its page is one for its user, and
\* once every answer is in the user is the holder of the session unless
\* something out of the ordinary happened (auth-provider.tsx:30-62,
\* ProtectedRoute.tsx, RequireFeature.tsx).
THEOREM ShellHolds == ShellSpec => [](ShellTypeOK /\ SettledAgree /\ PageIsAdmitted)
<1>1. ShellInit => ShellInv
  BY InitHolds
<1>2. ShellInv /\ [ShellStep]_shellVars => ShellInv'
  BY ShellStepKeeps, ShellStutterKeeps
<1>3. ShellInv => ShellTypeOK /\ SettledAgree /\ PageIsAdmitted
  BY ShellInvSays
<1> QED
  BY <1>1, <1>2, <1>3, PTL DEF ShellSpec
=============================================================================
