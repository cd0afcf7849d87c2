--------------------------- MODULE PaymentsProofs ---------------------------
(***************************************************************************)
(* What holds of every ledger, however many sessions record, refund and    *)
(* sum up at once; and what holds of it when no payment is refunded twice  *)
(* at once, or nothing is booked while a summary is being taken.           *)
(***************************************************************************)
EXTENDS Payments, Sums

\* The ledger is one of payments, none dated after today.
LedgerInv == /\ DOMAIN ledger \subseteq Payments
             /\ ledger \in [DOMAIN ledger -> Payment]
             /\ today \in Days
             /\ \A p \in DOMAIN ledger : ledger[p].day =< today

\* A prepared refund is of a payment in the ledger that is no refund itself and
\* was made by the day of the refund.
Sound(r) == /\ "op" \in DOMAIN r
            /\ r.op = "refund" =>
                  /\ r \in RefundTx
                  /\ r.of \in DOMAIN ledger
                  /\ ~IsRefund(r.of)
                  /\ ledger[r.of].day =< r.day
                  /\ r.day =< today

RefundInv == \A x \in Sessions : Sound(tx[x])

PInv == /\ LedgerInv
        /\ DOMAIN tx = Sessions
        /\ RefundInv
        /\ RefundMatchesOriginal
        /\ RefundNotBeforePayment

\* A step that only changes what one session is in the middle of keeps PInv
\* when what it changes to is sound.
LEMMA SessionStep ==
    ASSUME PInv, NEW x \in Sessions, NEW r,
           tx' = [tx EXCEPT ![x] = r], UNCHANGED <<ledger, today>>,
           Sound(r)
    PROVE  PInv'
  BY DEF PInv, LedgerInv, RefundInv, Sound, RefundMatchesOriginal,
         RefundNotBeforePayment, IsRefund

\* A session that is free holds no refund.
LEMMA IdleIsSound == Sound(Idle)
  BY DEF Sound, Idle

\* An insert leaves the rows there are as they were.
LEMMA InsertKeeps ==
    ASSUME NEW p \in Unused, NEW row, Insert(p, row)
    PROVE  /\ DOMAIN ledger' = DOMAIN ledger \cup {p}
           /\ ledger'[p] = row
           /\ \A q \in DOMAIN ledger : ledger'[q] = ledger[q] /\ q # p
  BY DEF Insert, Unused

\* A prepared refund stays sound when rows are added.
LEMMA InsertKeepsSound ==
    ASSUME NEW p \in Unused, NEW row, Insert(p, row), UNCHANGED today,
           NEW r, Sound(r)
    PROVE  Sound(r)'
  BY InsertKeeps DEF Sound, IsRefund

\* record keeps the invariant.
LEMMA RecordKeeps ==
    ASSUME PInv, NEW x \in Sessions, NEW m \in Members, NEW s \in Subs \cup {NoSub},
           NEW k \in Methods, NEW c \in Amounts, NEW d \in Days,
           Record(x, m, s, k, c, d)
    PROVE  PInv'
<1> DEFINE row == [member |-> m, sub |-> s, method |-> k, cents |-> c,
                   day |-> d, of |-> NoPayment]
<1>1. PICK p \in Unused : Insert(p, row)
  BY DEF Record
<1>2. UNCHANGED <<tx, today>> /\ d =< today
  BY DEF Record
<1>3. row \in Payment
  BY DEF Payment, Amounts
<1>4. row.of = NoPayment /\ row.day = d
  OBVIOUS
<1> HIDE DEF row
<1>5. /\ DOMAIN ledger' = DOMAIN ledger \cup {p}
      /\ ledger'[p] = row
      /\ \A q \in DOMAIN ledger : ledger'[q] = ledger[q] /\ q # p
  BY <1>1, InsertKeeps
<1>6. LedgerInv'
  <2>1. ledger' = [q \in DOMAIN ledger \cup {p} |->
                     IF q = p THEN row ELSE ledger[q]]
    BY <1>1 DEF Insert
  <2>2. \A q \in DOMAIN ledger' : ledger'[q] \in Payment
    BY <1>3, <1>5 DEF PInv, LedgerInv
  <2>3. ledger' \in [DOMAIN ledger' -> Payment]
    BY <2>1, <2>2, <1>5
  <2>4. \A q \in DOMAIN ledger' : ledger'[q].day =< today'
    BY <1>2, <1>4, <1>5 DEF PInv, LedgerInv
  <2> QED
    BY <1>1, <1>2, <1>5, <2>3, <2>4 DEF PInv, LedgerInv, Unused
<1>7. RefundInv'
  BY <1>1, <1>2, InsertKeepsSound DEF PInv, RefundInv
<1>8. RefundMatchesOriginal' /\ RefundNotBeforePayment'
  BY <1>4, <1>5 DEF PInv, RefundMatchesOriginal, RefundNotBeforePayment, IsRefund
<1> QED
  BY <1>2, <1>6, <1>7, <1>8 DEF PInv

\* refund prepares a sound refund.
LEMMA ReadRefundKeeps ==
    ASSUME PInv, NEW x \in Sessions, NEW p \in Payments, NEW c \in Amounts,
           ReadRefund(x, p, c)
    PROVE  PInv'
<1> DEFINE r == [op |-> "refund", of |-> p, cents |-> c, day |-> today]
<1>1. Sound(r)
  <2>1. p \in DOMAIN ledger /\ ~IsRefund(p)
    BY DEF ReadRefund, CanRefund
  <2>2. today \in Days /\ today =< today /\ ledger[p].day =< today
    BY <2>1 DEF PInv, LedgerInv, Days
  <2> QED
    BY <2>1, <2>2 DEF Sound, RefundTx
<1>2. tx' = [tx EXCEPT ![x] = r] /\ UNCHANGED <<ledger, today>>
  BY DEF ReadRefund, Begin
<1> QED
  BY <1>1, <1>2, SessionStep

\* The refund row that is inserted matches its payment, whatever else has been
\* inserted since it was prepared.
LEMMA CommitRefundKeeps ==
    ASSUME PInv, NEW x \in Sessions, CommitRefund(x)
    PROVE  PInv'
<1> DEFINE r   == tx[x]
           row == RefundRow(r)
<1>1. PICK p \in Unused : Insert(p, row)
  BY DEF CommitRefund
<1>2. tx' = [tx EXCEPT ![x] = Idle] /\ UNCHANGED today
  BY DEF CommitRefund
<1>3. /\ r \in RefundTx
      /\ r.of \in DOMAIN ledger
      /\ ~IsRefund(r.of)
      /\ ledger[r.of].day =< r.day
      /\ r.day =< today
  BY DEF CommitRefund, PInv, RefundInv, Sound
<1>4. r.of \in Payments /\ r.cents \in Amounts /\ r.day \in Days
  BY <1>3 DEF RefundTx
<1>5. ledger[r.of] \in Payment
  BY <1>3 DEF PInv, LedgerInv
<1>6. /\ row \in Payment
      /\ row.of = r.of /\ row.day = r.day
      /\ row.cents < 0
      /\ row.member = ledger[r.of].member
      /\ row.sub = ledger[r.of].sub
      /\ row.method = ledger[r.of].method
  BY <1>4, <1>5, BoundsAssumption DEF RefundRow, Payment, Amounts
<1> HIDE DEF row
<1>7. /\ DOMAIN ledger' = DOMAIN ledger \cup {p}
      /\ ledger'[p] = row
      /\ \A q \in DOMAIN ledger : ledger'[q] = ledger[q] /\ q # p
  BY <1>1, InsertKeeps
<1>8. LedgerInv'
  <2>1. ledger' = [q \in DOMAIN ledger \cup {p} |->
                     IF q = p THEN row ELSE ledger[q]]
    BY <1>1 DEF Insert
  <2>2. \A q \in DOMAIN ledger' : ledger'[q] \in Payment
    BY <1>6, <1>7 DEF PInv, LedgerInv
  <2>3. ledger' \in [DOMAIN ledger' -> Payment]
    BY <2>1, <2>2, <1>7
  <2>4. \A q \in DOMAIN ledger' : ledger'[q].day =< today'
    BY <1>2, <1>3, <1>6, <1>7 DEF PInv, LedgerInv
  <2> QED
    BY <1>1, <1>2, <1>7, <2>3, <2>4 DEF PInv, LedgerInv, Unused
<1>9. RefundInv'
  <2> SUFFICES ASSUME NEW y \in Sessions PROVE Sound(tx[y])'
    BY DEF RefundInv
  <2>1. CASE y = x
    BY <1>2, <2>1 DEF PInv, Sound, Idle
  <2>2. CASE y # x
    BY <1>1, <1>2, <2>2, InsertKeepsSound DEF PInv, RefundInv
  <2> QED
    BY <2>1, <2>2
<1>10. RefundMatchesOriginal'
  BY <1>3, <1>6, <1>7 DEF PInv, RefundMatchesOriginal, IsRefund
<1>11. RefundNotBeforePayment'
  BY <1>3, <1>6, <1>7 DEF PInv, RefundMatchesOriginal, RefundNotBeforePayment, IsRefund
<1>12. DOMAIN tx' = Sessions
  BY <1>2 DEF PInv
<1> QED
  BY <1>8, <1>9, <1>10, <1>11, <1>12 DEF PInv

\* The queries of a summary and a lost session leave ledger and refunds alone.
LEMMA SummaryKeeps ==
    ASSUME PInv, NEW x \in Sessions,
           \/ SumThisMonth(x) \/ SumLastMonth(x) \/ SumByPlan(x)
           \/ SumByMethod(x) \/ CountPaying(x) \/ Crash(x)
    PROVE  PInv'
<1>1. CASE SumThisMonth(x)
  <2> DEFINE r == [op |-> "summary", next |-> "last", day |-> today,
                   this |-> Cents(ThisMonth(today)), last |-> 0,
                   plan |-> [k \in Plans |-> 0],
                   method |-> [k \in Methods |-> 0]]
  <2>1. tx' = [tx EXCEPT ![x] = r] /\ UNCHANGED <<ledger, today>>
    BY <1>1 DEF SumThisMonth, Begin
  <2>2. Sound(r)
    BY DEF Sound
  <2> QED
    BY <2>1, <2>2, SessionStep
<1>2. CASE SumLastMonth(x)
  <2> DEFINE r == [tx[x] EXCEPT !.last = Cents(LastMonth(tx[x].day)), !.next = "plan"]
  <2>1. /\ tx[x].op = "summary"
        /\ tx' = [tx EXCEPT ![x] = r]
        /\ UNCHANGED <<ledger, today>>
    BY <1>2 DEF SumLastMonth, Continue
  <2>2. Sound(r)
    BY <2>1 DEF PInv, RefundInv, Sound
  <2> QED
    BY <2>1, <2>2, SessionStep
<1>3. CASE SumByPlan(x)
  <2> DEFINE r == [tx[x] EXCEPT !.plan = ByPlan(tx[x].day), !.next = "method"]
  <2>1. /\ tx[x].op = "summary"
        /\ tx' = [tx EXCEPT ![x] = r]
        /\ UNCHANGED <<ledger, today>>
    BY <1>3 DEF SumByPlan, Continue
  <2>2. Sound(r)
    BY <2>1 DEF PInv, RefundInv, Sound
  <2> QED
    BY <2>1, <2>2, SessionStep
<1>4. CASE SumByMethod(x)
  <2> DEFINE r == [tx[x] EXCEPT !.method = ByMethod(tx[x].day), !.next = "paying"]
  <2>1. /\ tx[x].op = "summary"
        /\ tx' = [tx EXCEPT ![x] = r]
        /\ UNCHANGED <<ledger, today>>
    BY <1>4 DEF SumByMethod, Continue
  <2>2. Sound(r)
    BY <2>1 DEF PInv, RefundInv, Sound
  <2> QED
    BY <2>1, <2>2, SessionStep
<1>5. CASE CountPaying(x)
  <2>1. tx' = [tx EXCEPT ![x] = Idle] /\ UNCHANGED <<ledger, today>>
    BY <1>5 DEF CountPaying
  <2> QED
    BY <2>1, IdleIsSound, SessionStep
<1>6. CASE Crash(x)
  <2>1. tx' = [tx EXCEPT ![x] = Idle] /\ UNCHANGED <<ledger, today>>
    BY <1>6 DEF Crash
  <2> QED
    BY <2>1, IdleIsSound, SessionStep
<1> QED
  BY <1>1, <1>2, <1>3, <1>4, <1>5, <1>6

\* Tomorrow, what was dated up to today still is.
LEMMA NextDayKeeps == PInv /\ NextDay => PInv'
<1> SUFFICES ASSUME PInv, NextDay PROVE PInv'
  OBVIOUS
<1>1. today \in Days /\ today' \in Days /\ today' = today + 1
  BY BoundsAssumption DEF NextDay, Days, PInv, LedgerInv
<1>2. UNCHANGED <<ledger, tx>>
  BY DEF NextDay
<1>3. LedgerInv'
  BY <1>1, <1>2 DEF PInv, LedgerInv, Payment, Days
<1>4. RefundInv'
  BY <1>1, <1>2 DEF PInv, RefundInv, Sound, RefundTx, IsRefund, Days
<1> QED
  BY <1>2, <1>3, <1>4 DEF PInv, RefundMatchesOriginal, RefundNotBeforePayment,
     IsRefund

\* The empty ledger satisfies the invariant.
LEMMA InitPInv == Init => PInv
  BY BoundsAssumption
     DEF Init, PInv, LedgerInv, RefundInv, Sound, Idle, Days,
         RefundMatchesOriginal, RefundNotBeforePayment

\* Every step keeps it.
LEMMA NextPInv == PInv /\ [Next]_vars => PInv'
<1> SUFFICES ASSUME PInv, [Next]_vars PROVE PInv'
  OBVIOUS
<1>1. CASE UNCHANGED vars
  BY <1>1 DEF vars, PInv, LedgerInv, RefundInv, Sound, RefundMatchesOriginal,
     RefundNotBeforePayment, IsRefund
<1>2. CASE NextDay
  BY <1>2, NextDayKeeps
<1>3. ASSUME NEW x \in Sessions, NEW m \in Members, NEW s \in Subs \cup {NoSub},
             NEW k \in Methods, NEW c \in Amounts, NEW d \in Days,
             Record(x, m, s, k, c, d)
      PROVE  PInv'
  BY <1>3, RecordKeeps
<1>4. ASSUME NEW x \in Sessions, NEW p \in Payments, NEW c \in Amounts,
             ReadRefund(x, p, c)
      PROVE  PInv'
  BY <1>4, ReadRefundKeeps
<1>5. ASSUME NEW x \in Sessions, CommitRefund(x) PROVE PInv'
  BY <1>5, CommitRefundKeeps
<1>6. ASSUME NEW x \in Sessions,
             \/ SumThisMonth(x) \/ SumLastMonth(x) \/ SumByPlan(x)
             \/ SumByMethod(x) \/ CountPaying(x) \/ Crash(x)
      PROVE  PInv'
  BY <1>6, SummaryKeeps
<1> QED
  BY <1>1, <1>2, <1>3, <1>4, <1>5, <1>6 DEF Next

\* Every refund undoes one payment of the ledger, under the same member,
\* subscription and method, however many refunds are made at once.
THEOREM RefundsMatch == Spec => []RefundMatchesOriginal
<1>1. PInv => RefundMatchesOriginal
  BY DEF PInv
<1> QED
  BY <1>1, InitPInv, NextPInv, PTL DEF Spec

\* No refund is booked before the payment it undoes.
THEOREM RefundsComeLater == Spec => []RefundNotBeforePayment
<1>1. PInv => RefundNotBeforePayment
  BY DEF PInv
<1> QED
  BY <1>1, InitPInv, NextPInv, PTL DEF Spec

-----------------------------------------------------------------------------
(* Sums over a ledger.                                                     *)

CentsIn(l, S) == MapThenSumSet(LAMBDA p : l[p].cents, S)

\* The sum is one of the numbers that the rows have as their cents.
LEMMA CentsIsSum ==
    ASSUME NEW l, NEW S, IsFiniteSet(S)
    PROVE  CentsIn(l, S) = SumOf([p \in S |-> l[p].cents], S)
<1> DEFINE w == [p \in S |-> l[p].cents]
           Fold(g) == g = [s \in SUBSET S |-> IF s = {} THEN 0
                             ELSE l[OneOf(s)].cents + g[s \ {OneOf(s)}]]
<1>1. CentsIn(l, S) = (CHOOSE g : Fold(g))[S]
  BY DEF CentsIn, MapThenSumSet, MapThenFoldSet, OneOf
<1>2. PICK h : AddsUp(h, w, S) /\ SumOf(w, S) = h[S]
  BY SumIsFolded
<1>3. \A s \in SUBSET S : s # {} => w[OneOf(s)] = l[OneOf(s)].cents
  BY DEF OneOf
<1> HIDE DEF w
<1>4. \A g : Fold(g) <=> AddsUp(g, w, S)
  BY <1>3 DEF AddsUp
<1>5. Fold(CHOOSE g : Fold(g))
  BY <1>2, <1>4
<1>6. PICK g : g = (CHOOSE f : Fold(f)) /\ Fold(g)
  BY <1>5
<1> HIDE DEF Fold
<1>7. g[S] = h[S]
  BY <1>2, <1>4, <1>6, FoldIsUnique
<1> QED
  BY <1>1, <1>2, <1>6, <1>7 DEF w
\* What the sums say of the rows of a ledger.
LEMMA CentsFacts ==
    ASSUME NEW l, NEW S, IsFiniteSet(S), \A p \in S : l[p].cents \in Int
    PROVE  /\ CentsIn(l, S) \in Int
           /\ S = {} => CentsIn(l, S) = 0
           /\ \A p : p \notin S /\ l[p].cents \in Int =>
                CentsIn(l, S \cup {p}) = l[p].cents + CentsIn(l, S)
<1> DEFINE w(T) == [p \in T |-> l[p].cents]
<1>1. CentsIn(l, S) = SumOf(w(S), S)
  BY CentsIsSum
<1>2. SumOf(w(S), S) \in Int
  BY SumIsInt
<1>3. S = {} => SumOf(w(S), S) = 0
  BY SumOfNone
<1>4. ASSUME NEW p, p \notin S, l[p].cents \in Int
      PROVE  CentsIn(l, S \cup {p}) = l[p].cents + CentsIn(l, S)
  <2> DEFINE T == S \cup {p}
  <2>1. IsFiniteSet(T)
    BY FS_AddElement
  <2>2. CentsIn(l, T) = SumOf(w(T), T)
    BY <2>1, CentsIsSum
  <2>3. (\A q \in S : w(T)[q] = w(S)[q] /\ w(T)[q] \in Int) /\ w(T)[p] = l[p].cents
    OBVIOUS
  <2> HIDE DEF w
  <2>4. SumOf(w(T), S \cup {p}) = w(T)[p] + SumOf(w(T), S)
    BY <1>4, <2>3, SumAdds
  <2>5. SumOf(w(T), S) = SumOf(w(S), S)
    BY <2>3, SumAgrees
  <2> QED
    BY <1>1, <2>2, <2>3, <2>4, <2>5
<1> QED
  BY <1>1, <1>2, <1>3, <1>4

\* Rows that have the same cents in two ledgers have the same sum.
LEMMA CentsAgree ==
    ASSUME NEW l, NEW k, NEW S, IsFiniteSet(S), \A p \in S : l[p].cents = k[p].cents
    PROVE  CentsIn(l, S) = CentsIn(k, S)
<1>1. [p \in S |-> l[p].cents] = [p \in S |-> k[p].cents]
  OBVIOUS
<1> QED
  BY <1>1, CentsIsSum

\* The figures per method add up to the sum.
LEMMA MethodsAddUp ==
    ASSUME NEW l, NEW S, IsFiniteSet(S),
           \A p \in S : l[p].cents \in Int /\ l[p].method \in Methods
    PROVE  SumOf([k \in Methods |-> CentsIn(l, {p \in S : l[p].method = k})], Methods)
             = CentsIn(l, S)
<1> DEFINE w == [p \in S |-> l[p].cents]
           of == [p \in S |-> l[p].method]
           part(k) == {p \in S : of[p] = k}
<1>1. /\ \A p \in S : w[p] \in Int /\ of[p] \in Methods
      /\ \A k : {p \in S : l[p].method = k} = part(k)
  OBVIOUS
<1>2. \A k : IsFiniteSet(part(k))
  <2> TAKE k
  <2>1. part(k) \subseteq S
    OBVIOUS
  <2> QED
    BY <2>1, FS_Subset
<1>3. \A k : CentsIn(l, part(k)) = SumOf(w, part(k))
  <2> TAKE k
  <2> DEFINE v == [p \in part(k) |-> l[p].cents]
  <2>1. \A p \in part(k) : v[p] = w[p]
    OBVIOUS
  <2>2. CentsIn(l, part(k)) = SumOf(v, part(k))
    BY <1>2, CentsIsSum
  <2> HIDE DEF v, w, part
  <2>3. SumOf(v, part(k)) = SumOf(w, part(k))
    BY <1>2, <2>1, SumAgrees
  <2> QED
    BY <2>2, <2>3
<1>4. CentsIn(l, S) = SumOf(w, S)
  BY CentsIsSum
<1>5. SumOf([k \in Methods |-> SumOf(w, {p \in S : of[p] = k})], Methods) = SumOf(w, S)
  <2> HIDE DEF w, of
  <2> QED
    BY <1>1, MethodsAssumption, SumSplits
<1>6. [k \in Methods |-> CentsIn(l, {p \in S : l[p].method = k})]
        = [k \in Methods |-> SumOf(w, {p \in S : of[p] = k})]
  <2>1. \A k : CentsIn(l, {p \in S : l[p].method = k}) = SumOf(w, {p \in S : of[p] = k})
    BY <1>1, <1>3
  <2> HIDE DEF w, of
  <2> QED
    BY <2>1
<1> HIDE DEF w, of
<1> QED
  BY <1>4, <1>5, <1>6
-----------------------------------------------------------------------------
(* Types, and the members who paid.                                        *)

\* The ledger is a finite one of payments, those with a negative amount being
\* the refunds.
BooksOK == /\ IsFiniteSet(DOMAIN ledger)
           /\ DOMAIN ledger \subseteq Payments
           /\ ledger \in [DOMAIN ledger -> Payment]
           /\ \A p \in DOMAIN ledger : IsRefund(p) <=> ledger[p].cents < 0

Txs == {Idle} \cup RefundTx \cup SummaryTx

\* A summary that has found revenue in its month has found rows of that month.
EarnedFromRows == \A x \in Sessions :
    tx[x].op = "summary" /\ tx[x].this # 0 => ThisMonth(tx[x].day) # {}

FiguresInv == /\ BooksOK
              /\ tx \in [Sessions -> Txs]
              /\ shown \in Summary \cup {NoSummary}
              /\ today \in Days
              /\ EarnedFromRows
              /\ RevenueHasPayers

\* The sum over any rows of the ledger is a number, and nothing for no rows.
LEMMA LedgerSums ==
    ASSUME BooksOK, NEW S, S \subseteq DOMAIN ledger
    PROVE  /\ IsFiniteSet(S)
           /\ Cents(S) = CentsIn(ledger, S)
           /\ Cents(S) \in Int
           /\ S = {} => Cents(S) = 0
<1>1. IsFiniteSet(S)
  BY FS_Subset DEF BooksOK
<1>2. Cents(S) = CentsIn(ledger, S)
  BY DEF Cents, CentsIn
<1>3. \A p \in S : ledger[p].cents \in Int
  BY DEF BooksOK, Payment
<1> QED
  BY <1>1, <1>2, <1>3, CentsFacts

\* The sum after a step is the sum over the ledger after it.
LEMMA CentsThen == \A S : Cents(S)' = CentsIn(ledger', S)
  BY DEF Cents, CentsIn, MapThenSumSet, MapThenFoldSet

\* Another row is another row of its month.
LEMMA BooksGrow ==
    ASSUME BooksOK, NEW p \in Unused, NEW row \in Payment, Insert(p, row),
           row.of # NoPayment <=> row.cents < 0
    PROVE  /\ BooksOK'
           /\ \A day : ThisMonth(day) \subseteq ThisMonth(day)'
<1>1. /\ DOMAIN ledger' = DOMAIN ledger \cup {p}
      /\ ledger'[p] = row
      /\ \A q \in DOMAIN ledger : ledger'[q] = ledger[q] /\ q # p
  BY InsertKeeps
<1>2. IsFiniteSet(DOMAIN ledger')
  BY <1>1, FS_AddElement DEF BooksOK
<1>3. ledger' \in [DOMAIN ledger' -> Payment]
  <2>1. ledger' = [q \in DOMAIN ledger \cup {p} |-> IF q = p THEN row ELSE ledger[q]]
    BY DEF Insert
  <2>2. \A q \in DOMAIN ledger' : ledger'[q] \in Payment
    BY <1>1 DEF BooksOK
  <2> QED
    BY <1>1, <2>1, <2>2
<1>4. BooksOK'
  BY <1>1, <1>2, <1>3 DEF BooksOK, IsRefund, Unused
<1>5. \A day : ThisMonth(day) \subseteq ThisMonth(day)'
  BY <1>1 DEF ThisMonth
<1> QED
  BY <1>4, <1>5

\* The members who paid can be counted, and a month with rows has some.
LEMMA PayingAreCounted ==
    ASSUME BooksOK, NEW day
    PROVE  /\ Cardinality(Paying(day)) \in Nat
           /\ ThisMonth(day) # {} => Cardinality(Paying(day)) > 0
<1> DEFINE S == ThisMonth(day)
           f == [p \in S |-> ledger[p].member]
<1>1. IsFiniteSet(S)
  BY LedgerSums DEF ThisMonth
<1>2. f \in Surjection(S, Paying(day))
  BY DEF Surjection, Paying
<1>3. IsFiniteSet(Paying(day))
  BY <1>1, <1>2, FS_Surjection
<1>4. Cardinality(Paying(day)) \in Nat
  BY <1>3, FS_CardinalityType
<1>5. S # {} => Paying(day) # {}
  BY DEF Paying
<1>6. Paying(day) # {} => Cardinality(Paying(day)) # 0
  BY <1>3, FS_EmptySet
<1> QED
  BY <1>4, <1>5, <1>6

\* An empty ledger.
LEMMA InitFigures == Init => FiguresInv
<1> SUFFICES ASSUME Init PROVE FiguresInv
  OBVIOUS
<1>1. BooksOK
  BY FS_EmptySet DEF Init, BooksOK
<1>2. tx \in [Sessions -> Txs] /\ EarnedFromRows
  BY DEF Init, Txs, EarnedFromRows, Idle
<1> QED
  BY <1>1, <1>2, BoundsAssumption DEF Init, FiguresInv, Days, RevenueHasPayers

\* A step that books nothing, shows nothing new, and leaves one session with
\* something sound.
LEMMA FiguresSessionStep ==
    ASSUME FiguresInv, NEW x \in Sessions, NEW r \in Txs,
           tx' = [tx EXCEPT ![x] = r], UNCHANGED <<ledger, shown, today>>,
           r.op = "summary" /\ r.this # 0 => ThisMonth(r.day) # {}
    PROVE  FiguresInv'
<1>1. tx' \in [Sessions -> Txs]
  BY DEF FiguresInv
<1>2. BooksOK' /\ RevenueHasPayers'
  BY DEF FiguresInv, BooksOK, IsRefund, RevenueHasPayers
<1>3. EarnedFromRows'
  BY DEF FiguresInv, EarnedFromRows, ThisMonth
<1> QED
  BY <1>1, <1>2, <1>3 DEF FiguresInv

\* A step that books a row, and at most frees a session.
LEMMA FiguresBookingStep ==
    ASSUME FiguresInv, NEW x \in Sessions, NEW p \in Unused, NEW row \in Payment,
           Insert(p, row), row.of # NoPayment <=> row.cents < 0,
           tx' = tx \/ tx' = [tx EXCEPT ![x] = Idle], UNCHANGED <<shown, today>>
    PROVE  FiguresInv'
<1>1. BooksOK' /\ \A day : ThisMonth(day) \subseteq ThisMonth(day)'
  BY BooksGrow DEF FiguresInv
<1>2. tx' \in [Sessions -> Txs]
  BY DEF FiguresInv, Txs
<1>3. EarnedFromRows'
  BY <1>1 DEF FiguresInv, EarnedFromRows, Idle
<1>4. RevenueHasPayers'
  BY DEF FiguresInv, RevenueHasPayers
<1> QED
  BY <1>1, <1>2, <1>3, <1>4 DEF FiguresInv
\* record books a payment of a positive amount.
LEMMA RecordFigures ==
    ASSUME FiguresInv, NEW x \in Sessions, NEW m \in Members, NEW s \in Subs \cup {NoSub},
           NEW k \in Methods, NEW c \in Amounts, NEW d \in Days,
           Record(x, m, s, k, c, d)
    PROVE  FiguresInv'
<1> DEFINE row == [member |-> m, sub |-> s, method |-> k, cents |-> c,
                   day |-> d, of |-> NoPayment]
<1>1. PICK p \in Unused : Insert(p, row)
  BY DEF Record
<1>2. UNCHANGED <<tx, shown, today>>
  BY DEF Record
<1>3. row \in Payment /\ row.of = NoPayment /\ ~(row.cents < 0)
  BY BoundsAssumption DEF Payment, Amounts
<1> HIDE DEF row
<1> QED
  BY <1>1, <1>2, <1>3, FiguresBookingStep

\* A refund is prepared with an amount, and booked with the amount negated.
LEMMA RefundFigures ==
    ASSUME FiguresInv, RefundInv, NEW x \in Sessions,
           CommitRefund(x) \/ \E p \in Payments, c \in Amounts : ReadRefund(x, p, c)
    PROVE  FiguresInv'
<1>1. CASE CommitRefund(x)
  <2> DEFINE r   == tx[x]
             row == RefundRow(r)
  <2>1. PICK p \in Unused : Insert(p, row)
    BY <1>1 DEF CommitRefund
  <2>2. tx' = [tx EXCEPT ![x] = Idle] /\ UNCHANGED <<shown, today>>
    BY <1>1 DEF CommitRefund
  <2>3. r \in RefundTx /\ r.of \in DOMAIN ledger
    BY <1>1 DEF CommitRefund, RefundInv, Sound
  <2>4. /\ r.of \in Payments /\ r.cents \in Amounts /\ r.day \in Days
        /\ ledger[r.of] \in Payment
    BY <2>3 DEF RefundTx, FiguresInv, BooksOK
  <2>5. row \in Payment /\ row.of # NoPayment /\ row.cents < 0
    BY <2>4, BoundsAssumption, PaymentsAssumption DEF RefundRow, Payment, Amounts
  <2> HIDE DEF row
  <2> QED
    BY <2>1, <2>2, <2>5, FiguresBookingStep
<1>2. ASSUME NEW p \in Payments, NEW c \in Amounts, ReadRefund(x, p, c)
      PROVE  FiguresInv'
  <2> DEFINE r == [op |-> "refund", of |-> p, cents |-> c, day |-> today]
  <2>1. r \in Txs
    BY DEF Txs, RefundTx, FiguresInv
  <2>2. tx' = [tx EXCEPT ![x] = r] /\ UNCHANGED <<ledger, shown, today>>
    BY <1>2 DEF ReadRefund, Begin
  <2> QED
    BY <2>1, <2>2, FiguresSessionStep
<1> QED
  BY <1>1, <1>2

\* The figures that the queries find are numbers.
LEMMA QueriesFind ==
    ASSUME BooksOK, NEW day
    PROVE  /\ Cents(ThisMonth(day)) \in Int
           /\ Cents(ThisMonth(day)) # 0 => ThisMonth(day) # {}
           /\ Cents(LastMonth(day)) \in Int
           /\ ByPlan(day) \in [Plans -> Int]
           /\ ByMethod(day) \in [Methods -> Int]
<1>1. ThisMonth(day) \subseteq DOMAIN ledger /\ LastMonth(day) \subseteq DOMAIN ledger
  BY DEF ThisMonth, LastMonth
<1>2. \A S : S \subseteq DOMAIN ledger => Cents(S) \in Int /\ (S = {} => Cents(S) = 0)
  BY LedgerSums
<1>3. ByPlan(day) \in [Plans -> Int]
  <2>1. \A k \in Plans : {p \in ThisMonth(day) : /\ ledger[p].sub # NoSub
                                                 /\ PlanOf[ledger[p].sub] = k}
                           \subseteq DOMAIN ledger
    BY <1>1
  <2> QED
    BY <1>2, <2>1 DEF ByPlan
<1>4. ByMethod(day) \in [Methods -> Int]
  <2>1. \A k \in Methods : {p \in ThisMonth(day) : ledger[p].method = k}
                             \subseteq DOMAIN ledger
    BY <1>1
  <2> QED
    BY <1>2, <2>1 DEF ByMethod
<1> QED
  BY <1>1, <1>2, <1>3, <1>4

\* A session in the middle of a summary holds the figures so far.
LEMMA SummaryIsTyped ==
    ASSUME FiguresInv, NEW x \in Sessions, tx[x].op = "summary"
    PROVE  /\ tx[x] \in SummaryTx
           /\ tx[x].this # 0 => ThisMonth(tx[x].day) # {}
  BY DEF FiguresInv, Txs, Idle, RefundTx, EarnedFromRows

\* Each query adds its figure.
LEMMA SummaryFigures ==
    ASSUME FiguresInv, NEW x \in Sessions,
           SumThisMonth(x) \/ SumLastMonth(x) \/ SumByPlan(x) \/ SumByMethod(x)
    PROVE  FiguresInv'
<1>0. BooksOK /\ today \in Days
  BY DEF FiguresInv
<1>1. CASE SumThisMonth(x)
  <2> DEFINE r == [op |-> "summary", next |-> "last", day |-> today,
                   this |-> Cents(ThisMonth(today)), last |-> 0,
                   plan |-> [k \in Plans |-> 0],
                   method |-> [k \in Methods |-> 0]]
  <2>1. tx' = [tx EXCEPT ![x] = r] /\ UNCHANGED <<ledger, shown, today>>
    BY <1>1 DEF SumThisMonth, Begin
  <2>2. Cents(ThisMonth(today)) \in Int
    BY <1>0, QueriesFind
  <2>3. r \in SummaryTx
    BY <1>0, <2>2 DEF SummaryTx, Queries
  <2>4. r.this # 0 => ThisMonth(r.day) # {}
    BY <1>0, QueriesFind
  <2> HIDE DEF r
  <2> QED
    BY <2>1, <2>3, <2>4, FiguresSessionStep DEF Txs
<1>2. CASE SumLastMonth(x) \/ SumByPlan(x) \/ SumByMethod(x)
  <2>1. PICK r : /\ \/ r = [tx[x] EXCEPT !.last = Cents(LastMonth(tx[x].day)),
                                         !.next = "plan"]
                    \/ r = [tx[x] EXCEPT !.plan = ByPlan(tx[x].day), !.next = "method"]
                    \/ r = [tx[x] EXCEPT !.method = ByMethod(tx[x].day),
                                         !.next = "paying"]
                 /\ tx[x].op = "summary"
                 /\ tx' = [tx EXCEPT ![x] = r]
                 /\ UNCHANGED <<ledger, shown, today>>
    BY <1>2 DEF SumLastMonth, SumByPlan, SumByMethod, Continue
  <2>2. tx[x] \in SummaryTx /\ (tx[x].this # 0 => ThisMonth(tx[x].day) # {})
    BY <2>1, SummaryIsTyped
  <2>3. /\ Cents(LastMonth(tx[x].day)) \in Int
        /\ ByPlan(tx[x].day) \in [Plans -> Int]
        /\ ByMethod(tx[x].day) \in [Methods -> Int]
    BY <1>0, QueriesFind
  <2>4. r \in SummaryTx
    BY <2>1, <2>2, <2>3 DEF SummaryTx, Queries
  <2>5. r.this = tx[x].this /\ r.day = tx[x].day
    BY <2>1, <2>2 DEF SummaryTx
  <2> QED
    BY <2>1, <2>2, <2>4, <2>5, FiguresSessionStep DEF Txs
<1> QED
  BY <1>1, <1>2

\* The count comes last and finds at least the rows that the sum found.
LEMMA CountFigures ==
    ASSUME FiguresInv, NEW x \in Sessions, CountPaying(x)
    PROVE  FiguresInv'
<1> DEFINE n == Cardinality(Paying(tx[x].day))
<1>1. /\ tx[x].op = "summary"
      /\ shown' = [this |-> tx[x].this, last |-> tx[x].last, plan |-> tx[x].plan,
                   method |-> tx[x].method, paying |-> n]
      /\ tx' = [tx EXCEPT ![x] = Idle] /\ UNCHANGED <<ledger, today>>
  BY DEF CountPaying
<1>2. tx[x] \in SummaryTx /\ (tx[x].this # 0 => ThisMonth(tx[x].day) # {})
  BY <1>1, SummaryIsTyped
<1>3. n \in Nat /\ (ThisMonth(tx[x].day) # {} => n > 0)
  BY PayingAreCounted DEF FiguresInv
<1> HIDE DEF n
<1>4. shown' \in Summary /\ RevenueHasPayers'
  BY <1>1, <1>2, <1>3 DEF SummaryTx, Summary, RevenueHasPayers
<1>5. BooksOK' /\ EarnedFromRows' /\ tx' \in [Sessions -> Txs]
  BY <1>1 DEF FiguresInv, BooksOK, IsRefund, EarnedFromRows, ThisMonth, Idle, Txs
<1> QED
  BY <1>1, <1>4, <1>5 DEF FiguresInv

\* Every step keeps the figures right.
LEMMA NextFigures == PInv /\ FiguresInv /\ [Next]_vars => FiguresInv'
<1> SUFFICES ASSUME PInv, FiguresInv, [Next]_vars PROVE FiguresInv'
  OBVIOUS
<1>0. RefundInv
  BY DEF PInv
<1>1. CASE UNCHANGED vars
  BY <1>1 DEF vars, FiguresInv, BooksOK, IsRefund, EarnedFromRows, ThisMonth,
              RevenueHasPayers
<1>2. CASE NextDay
  <2>1. today' \in Days
    BY <1>2, BoundsAssumption DEF NextDay, FiguresInv, Days
  <2> QED
    BY <1>2, <2>1 DEF NextDay, FiguresInv, BooksOK, IsRefund, EarnedFromRows, ThisMonth,
                      RevenueHasPayers
<1>3. ASSUME NEW x \in Sessions, NEW m \in Members, NEW s \in Subs \cup {NoSub},
             NEW k \in Methods, NEW c \in Amounts, NEW d \in Days,
             Record(x, m, s, k, c, d)
      PROVE  FiguresInv'
  BY <1>3, RecordFigures
<1>4. ASSUME NEW x \in Sessions,
             CommitRefund(x) \/ \E p \in Payments, c \in Amounts : ReadRefund(x, p, c)
      PROVE  FiguresInv'
  BY <1>0, <1>4, RefundFigures
<1>5. ASSUME NEW x \in Sessions,
             \/ SumThisMonth(x) \/ SumLastMonth(x) \/ SumByPlan(x) \/ SumByMethod(x)
             \/ CountPaying(x)
      PROVE  FiguresInv'
  BY <1>5, SummaryFigures, CountFigures
<1>6. ASSUME NEW x \in Sessions, Crash(x) PROVE FiguresInv'
  <2>1. tx' = [tx EXCEPT ![x] = Idle] /\ UNCHANGED <<ledger, shown, today>>
    BY <1>6 DEF Crash
  <2>2. Idle \in Txs /\ Idle.op # "summary"
    BY DEF Txs, Idle
  <2> QED
    BY <2>1, <2>2, FiguresSessionStep
<1> QED
  BY <1>1, <1>2, <1>3, <1>4, <1>5, <1>6 DEF Next

LEMMA FiguresAlways == Spec => [](PInv /\ FiguresInv)
  BY InitPInv, NextPInv, InitFigures, NextFigures, PTL DEF Spec

\* The ledger holds payments, the negative ones being the refunds; every
\* figure is a number (payment_service.py:120-287).
THEOREM LedgerTypes == Spec => []TypeOK
<1>1. FiguresInv => TypeOK
  BY DEF FiguresInv, BooksOK, TypeOK, Txs
<1> QED
  BY <1>1, FiguresAlways, PTL

\* However many sessions book while a summary is being taken, a month that is
\* shown with revenue is shown with members who paid
\* (payment_service.py:327-368).
THEOREM RevenueIsSomebodys == Spec => []RevenueHasPayers
<1>1. FiguresInv => RevenueHasPayers
  BY DEF FiguresInv
<1> QED
  BY <1>1, FiguresAlways, PTL
-----------------------------------------------------------------------------
(* Refunds of a payment one after the other.                               *)

\* No payment is being refunded by two sessions at once.
RefundsInTurn == \A x, y \in Sessions :
    tx[x].op = "refund" /\ tx[y].op = "refund" /\ tx[x].of = tx[y].of => x = y

\* What is left of a payment is not negative, and is enough for the refund that
\* is prepared.
LeftInv == /\ \A p \in DOMAIN ledger : ~IsRefund(p) => Remaining(p) >= 0
           /\ \A x \in Sessions, p \in DOMAIN ledger :
                tx[x].op = "refund" /\ tx[x].of = p => tx[x].cents =< Remaining(p)

\* What is left is a number.
LEMMA RemainingIsInt ==
    ASSUME BooksOK, NEW p \in DOMAIN ledger
    PROVE  /\ IsFiniteSet(RefundsOf(p))
           /\ Remaining(p) = ledger[p].cents + CentsIn(ledger, RefundsOf(p))
           /\ CentsIn(ledger, RefundsOf(p)) \in Int
           /\ ledger[p].cents \in Int
           /\ Remaining(p) \in Int
<1>1. RefundsOf(p) \subseteq DOMAIN ledger
  BY DEF RefundsOf
<1>2. ledger[p].cents \in Int
  BY DEF BooksOK, Payment
<1>3. /\ IsFiniteSet(RefundsOf(p))
      /\ Cents(RefundsOf(p)) = CentsIn(ledger, RefundsOf(p))
      /\ Cents(RefundsOf(p)) \in Int
  BY <1>1, LedgerSums
<1> QED
  BY <1>2, <1>3 DEF Remaining

\* A new row takes from the payment it refunds and from no other.
LEMMA InsertTakes ==
    ASSUME BooksOK, NEW p \in Unused, NEW row \in Payment, Insert(p, row),
           NEW q \in DOMAIN ledger
    PROVE  Remaining(q)' = IF row.of = q THEN Remaining(q) + row.cents ELSE Remaining(q)
<1> DEFINE R == RefundsOf(q)
           S == RefundsOf(q)'
<1>1. /\ DOMAIN ledger' = DOMAIN ledger \cup {p}
      /\ ledger'[p] = row
      /\ \A r \in DOMAIN ledger : ledger'[r] = ledger[r] /\ r # p
  BY InsertKeeps
<1>2. S = {r \in DOMAIN ledger' : ledger'[r].of = q}
  BY DEF RefundsOf
<1>3. R = {r \in DOMAIN ledger : ledger[r].of = q}
  BY DEF RefundsOf
<1>4. S = (IF row.of = q THEN R \cup {p} ELSE R) /\ p \notin R
  BY <1>1, <1>2, <1>3
<1>5. /\ IsFiniteSet(R)
      /\ Remaining(q) = ledger[q].cents + CentsIn(ledger, R)
      /\ CentsIn(ledger, R) \in Int /\ ledger[q].cents \in Int
  BY RemainingIsInt
<1>6. Remaining(q)' = ledger[q].cents + CentsIn(ledger', S)
  BY <1>1, CentsThen DEF Remaining
<1>7. R \subseteq DOMAIN ledger
  BY <1>3
<1> HIDE DEF R, S
<1>8. \A r \in R : ledger'[r].cents = ledger[r].cents /\ ledger'[r].cents \in Int
  BY <1>1, <1>7 DEF BooksOK, Payment
<1>9. CentsIn(ledger, R) = CentsIn(ledger', R)
  BY <1>5, <1>8, CentsAgree
<1>10. row.cents \in Int
  BY DEF Payment
<1>11. CentsIn(ledger', R \cup {p}) = row.cents + CentsIn(ledger', R)
  BY <1>1, <1>4, <1>5, <1>8, <1>10, CentsFacts
<1>12. CASE row.of = q
  BY <1>4, <1>5, <1>6, <1>9, <1>10, <1>11, <1>12
<1>13. CASE row.of # q
  BY <1>4, <1>5, <1>6, <1>9, <1>13
<1> QED
  BY <1>12, <1>13

\* Nothing has been taken from a new payment.
LEMMA NewIsWhole ==
    ASSUME BooksOK, RefundMatchesOriginal, NEW p \in Unused, NEW row \in Payment,
           Insert(p, row), row.of = NoPayment
    PROVE  Remaining(p)' = row.cents
<1>1. /\ DOMAIN ledger' = DOMAIN ledger \cup {p}
      /\ ledger'[p] = row
      /\ \A r \in DOMAIN ledger : ledger'[r] = ledger[r] /\ r # p
  BY InsertKeeps
<1>2. p # NoPayment /\ p \notin DOMAIN ledger
  BY PaymentsAssumption DEF Unused
<1>3. \A r \in DOMAIN ledger : ledger[r].of # p
  BY <1>2 DEF RefundMatchesOriginal, IsRefund
<1>4. RefundsOf(p)' = {}
  BY <1>1, <1>2, <1>3 DEF RefundsOf
<1>5. CentsIn(ledger', {}) = 0
  BY FS_EmptySet, CentsFacts
<1>6. Remaining(p)' = row.cents + CentsIn(ledger', {})
  BY <1>1, <1>4, CentsThen DEF Remaining
<1> QED
  BY <1>5, <1>6 DEF Payment
\* Without a booking as much is left as before.
LEMMA NothingTaken ==
    ASSUME UNCHANGED ledger
    PROVE  \A p : Remaining(p)' = Remaining(p)
<1> TAKE p
<1>1. Cents(RefundsOf(p)) = CentsIn(ledger, RefundsOf(p))
  BY DEF Cents, CentsIn
<1>2. RefundsOf(p)' = RefundsOf(p)
  BY DEF RefundsOf
<1> QED
  BY <1>1, <1>2, CentsThen DEF Remaining

\* A step that books nothing, and prepares at most a refund there is enough for.
LEMMA LeftSessionStep ==
    ASSUME PInv, LeftInv, NEW x \in Sessions, NEW r, tx' = [tx EXCEPT ![x] = r],
           UNCHANGED ledger,
           \A p \in DOMAIN ledger : r.op = "refund" /\ r.of = p => r.cents =< Remaining(p)
    PROVE  LeftInv'
<1>1. \A p : Remaining(p)' = Remaining(p)
  BY NothingTaken
<1>2. \A p \in DOMAIN ledger' : ~IsRefund(p)' => Remaining(p)' >= 0
  BY <1>1 DEF LeftInv, IsRefund
<1>3. \A y \in Sessions, q \in DOMAIN ledger' :
        tx'[y].op = "refund" /\ tx'[y].of = q => tx'[y].cents =< Remaining(q)'
  BY <1>1 DEF PInv, LeftInv
<1> QED
  BY <1>2, <1>3 DEF LeftInv

\* A payment takes nothing from another.
LEMMA RecordLeaves ==
    ASSUME PInv, FiguresInv, LeftInv, NEW x \in Sessions, NEW m \in Members,
           NEW s \in Subs \cup {NoSub}, NEW k \in Methods, NEW c \in Amounts,
           NEW d \in Days, Record(x, m, s, k, c, d)
    PROVE  LeftInv'
<1> DEFINE row == [member |-> m, sub |-> s, method |-> k, cents |-> c,
                   day |-> d, of |-> NoPayment]
<1>1. PICK p \in Unused : Insert(p, row)
  BY DEF Record
<1>2. UNCHANGED tx
  BY DEF Record
<1>3. row \in Payment /\ row.of = NoPayment /\ row.cents > 0
  BY BoundsAssumption DEF Payment, Amounts
<1>4. BooksOK /\ RefundMatchesOriginal
  BY DEF PInv, FiguresInv
<1> HIDE DEF row
<1>5. /\ DOMAIN ledger' = DOMAIN ledger \cup {p}
      /\ ledger'[p] = row
      /\ \A q \in DOMAIN ledger : ledger'[q] = ledger[q] /\ q # p
  BY <1>1, InsertKeeps
<1>6. \A q \in DOMAIN ledger : Remaining(q)' = Remaining(q)
  <2>1. DOMAIN ledger \subseteq Payments
    BY <1>4 DEF BooksOK
  <2> QED
    BY <1>1, <1>3, <1>4, <2>1, InsertTakes, PaymentsAssumption
<1>7. Remaining(p)' = row.cents /\ row.cents \in Int
  BY <1>1, <1>3, <1>4, NewIsWhole DEF Payment
<1>8. \A q \in DOMAIN ledger' : ~IsRefund(q)' => Remaining(q)' >= 0
  BY <1>3, <1>5, <1>6, <1>7 DEF LeftInv, IsRefund
<1>9. \A y \in Sessions, q \in DOMAIN ledger' :
        tx'[y].op = "refund" /\ tx'[y].of = q => tx'[y].cents =< Remaining(q)'
  BY <1>2, <1>6 DEF PInv, RefundInv, Sound, LeftInv
<1> QED
  BY <1>8, <1>9 DEF LeftInv

\* A refund takes from its payment what is left there, and from no payment
\* that another session is about to refund.
LEMMA CommitRefundLeaves ==
    ASSUME PInv, FiguresInv, LeftInv, RefundsInTurn, NEW x \in Sessions, CommitRefund(x)
    PROVE  LeftInv'
<1> DEFINE r   == tx[x]
           row == RefundRow(r)
<1>1. PICK p \in Unused : Insert(p, row)
  BY DEF CommitRefund
<1>2. tx' = [tx EXCEPT ![x] = Idle] /\ r.op = "refund" /\ DOMAIN tx = Sessions
  BY DEF CommitRefund, PInv
<1>3. r \in RefundTx /\ r.of \in DOMAIN ledger /\ r.cents =< Remaining(r.of)
  BY <1>2 DEF PInv, RefundInv, Sound, LeftInv
<1>4. BooksOK
  BY DEF FiguresInv
<1>5. /\ r.of \in Payments /\ r.cents \in Amounts /\ r.day \in Days
      /\ ledger[r.of] \in Payment
  BY <1>3, <1>4 DEF RefundTx, BooksOK
<1>6. /\ row \in Payment /\ row.of = r.of /\ row.cents = -r.cents /\ r.cents \in Int
      /\ row.of # NoPayment
  BY <1>5, BoundsAssumption, PaymentsAssumption DEF RefundRow, Payment, Amounts
<1> HIDE DEF row
<1>7. /\ DOMAIN ledger' = DOMAIN ledger \cup {p}
      /\ ledger'[p] = row
      /\ \A q \in DOMAIN ledger : ledger'[q] = ledger[q] /\ q # p
  BY <1>1, InsertKeeps
<1>8. \A q \in DOMAIN ledger : Remaining(q) \in Int /\
        Remaining(q)' = IF r.of = q THEN Remaining(q) - r.cents ELSE Remaining(q)
  BY <1>1, <1>4, <1>6, InsertTakes, RemainingIsInt
<1>9. \A q \in DOMAIN ledger' : ~IsRefund(q)' => Remaining(q)' >= 0
  <2> SUFFICES ASSUME NEW q \in DOMAIN ledger', ~IsRefund(q)'
               PROVE  Remaining(q)' >= 0
    OBVIOUS
  <2>1. q \in DOMAIN ledger /\ ~IsRefund(q)
    BY <1>6, <1>7 DEF IsRefund
  <2>2. Remaining(q) >= 0 /\ Remaining(q) \in Int
    BY <1>8, <2>1 DEF LeftInv
  <2> QED
    BY <1>3, <1>6, <1>8, <2>1, <2>2
<1>10. \A y \in Sessions, q \in DOMAIN ledger' :
         tx'[y].op = "refund" /\ tx'[y].of = q => tx'[y].cents =< Remaining(q)'
  <2> SUFFICES ASSUME NEW y \in Sessions, NEW q \in DOMAIN ledger',
                      tx'[y].op = "refund", tx'[y].of = q
               PROVE  tx'[y].cents =< Remaining(q)'
    OBVIOUS
  <2>1. y # x /\ tx'[y] = tx[y]
    BY <1>2 DEF Idle
  <2>2. tx[y].of # r.of
    BY <1>2, <2>1 DEF RefundsInTurn
  <2>3. q \in DOMAIN ledger /\ tx[y].cents =< Remaining(q)
    BY <2>1 DEF PInv, RefundInv, Sound, LeftInv
  <2> QED
    BY <1>8, <2>1, <2>2, <2>3
<1> QED
  BY <1>9, <1>10 DEF LeftInv

\* As long as no payment is refunded twice at once, a refund finds as much as
\* was left when it was prepared.
LEMMA NextLeaves == PInv /\ FiguresInv /\ LeftInv /\ RefundsInTurn /\ [Next]_vars => LeftInv'
<1> SUFFICES ASSUME PInv, FiguresInv, LeftInv, RefundsInTurn, [Next]_vars PROVE LeftInv'
  OBVIOUS
<1>1. CASE UNCHANGED vars \/ NextDay
  <2>1. UNCHANGED <<ledger, tx>>
    BY <1>1 DEF vars, NextDay
  <2>2. \A p : Remaining(p)' = Remaining(p)
    BY <2>1, NothingTaken
  <2>3. \A p \in DOMAIN ledger' : ~IsRefund(p)' => Remaining(p)' >= 0
    BY <2>1, <2>2 DEF LeftInv, IsRefund
  <2>4. \A y \in Sessions, q \in DOMAIN ledger' :
          tx'[y].op = "refund" /\ tx'[y].of = q => tx'[y].cents =< Remaining(q)'
    BY <2>1, <2>2 DEF LeftInv
  <2> QED
    BY <2>3, <2>4 DEF LeftInv
<1>2. ASSUME NEW x \in Sessions, NEW m \in Members, NEW s \in Subs \cup {NoSub},
             NEW k \in Methods, NEW c \in Amounts, NEW d \in Days,
             Record(x, m, s, k, c, d)
      PROVE  LeftInv'
  BY <1>2, RecordLeaves
<1>3. ASSUME NEW x \in Sessions, NEW p \in Payments, NEW c \in Amounts,
             ReadRefund(x, p, c)
      PROVE  LeftInv'
  <2> DEFINE r == [op |-> "refund", of |-> p, cents |-> c, day |-> today]
  <2>1. tx' = [tx EXCEPT ![x] = r] /\ UNCHANGED ledger /\ c =< Remaining(p)
    BY <1>3 DEF ReadRefund, Begin
  <2>2. r.of = p /\ r.cents = c
    OBVIOUS
  <2> HIDE DEF r
  <2> QED
    BY <2>1, <2>2, LeftSessionStep
<1>4. ASSUME NEW x \in Sessions, CommitRefund(x) PROVE LeftInv'
  BY <1>4, CommitRefundLeaves
<1>5. ASSUME NEW x \in Sessions,
             \/ SumThisMonth(x) \/ SumLastMonth(x) \/ SumByPlan(x) \/ SumByMethod(x)
             \/ CountPaying(x) \/ Crash(x)
      PROVE  LeftInv'
  <2>1. PICK r : tx' = [tx EXCEPT ![x] = r] /\ UNCHANGED ledger /\ r.op # "refund"
    <3>1. CASE SumThisMonth(x)
      <4> DEFINE s == [op |-> "summary", next |-> "last", day |-> today,
                       this |-> Cents(ThisMonth(today)), last |-> 0,
                       plan |-> [k \in Plans |-> 0],
                       method |-> [k \in Methods |-> 0]]
      <4>1. tx' = [tx EXCEPT ![x] = s] /\ UNCHANGED ledger
        BY <3>1 DEF SumThisMonth, Begin
      <4>2. s.op # "refund"
        OBVIOUS
      <4> HIDE DEF s
      <4> QED
        BY <4>1, <4>2
    <3>2. CASE SumLastMonth(x) \/ SumByPlan(x) \/ SumByMethod(x)
      <4>1. tx[x].op = "summary"
        BY <3>2 DEF SumLastMonth, SumByPlan, SumByMethod, Continue
      <4>2. tx[x] \in SummaryTx
        BY <4>1, SummaryIsTyped
      <4>3. PICK s : /\ \/ s = [tx[x] EXCEPT !.last = Cents(LastMonth(tx[x].day)),
                                              !.next = "plan"]
                        \/ s = [tx[x] EXCEPT !.plan = ByPlan(tx[x].day),
                                              !.next = "method"]
                        \/ s = [tx[x] EXCEPT !.method = ByMethod(tx[x].day),
                                              !.next = "paying"]
                     /\ tx' = [tx EXCEPT ![x] = s]
                     /\ UNCHANGED ledger
        BY <3>2 DEF SumLastMonth, SumByPlan, SumByMethod, Continue
      <4>4. s.op # "refund"
        BY <4>2, <4>3 DEF SummaryTx
      <4> QED
        BY <4>3, <4>4
    <3>3. CASE CountPaying(x) \/ Crash(x)
      BY <3>3 DEF CountPaying, Crash, Idle
    <3> QED
      BY <1>5, <3>1, <3>2, <3>3
  <2> QED
    BY <2>1, LeftSessionStep
<1> QED
  BY <1>1, <1>2, <1>3, <1>4, <1>5 DEF Next

\* What is left of a payment is the sum of it and its refunds.
LEMMA LeftIsEnough == ASSUME PInv, FiguresInv, LeftInv PROVE RefundsWithinOriginal
<1> SUFFICES ASSUME NEW p \in DOMAIN ledger, ~IsRefund(p)
             PROVE  Cents({p} \cup RefundsOf(p)) >= 0
  BY DEF RefundsWithinOriginal
<1> DEFINE R == RefundsOf(p)
<1>1. BooksOK /\ p \in Payments /\ Remaining(p) >= 0
  BY DEF FiguresInv, BooksOK, LeftInv
<1>2. /\ IsFiniteSet(R) /\ Remaining(p) = ledger[p].cents + CentsIn(ledger, R)
      /\ ledger[p].cents \in Int
  BY <1>1, RemainingIsInt
<1>3. p \notin R /\ R \subseteq DOMAIN ledger
  BY <1>1, PaymentsAssumption DEF RefundsOf, IsRefund
<1> HIDE DEF R
<1>4. \A r \in R : ledger[r].cents \in Int
  BY <1>1, <1>3 DEF BooksOK, Payment
<1>5. CentsIn(ledger, R \cup {p}) = ledger[p].cents + CentsIn(ledger, R)
  BY <1>2, <1>3, <1>4, CentsFacts
<1>6. Cents({p} \cup R) = CentsIn(ledger, {p} \cup R)
  BY DEF Cents, CentsIn
<1>7. {p} \cup R = R \cup {p}
  OBVIOUS
<1> QED
  BY <1>1, <1>2, <1>5, <1>6, <1>7 DEF R

\* As long as no payment is being refunded by two sessions at once, the refunds
\* of a payment never exceed it, whoever else records, refunds or crashes
\* meanwhile (payment_service.py:198-287).
THEOREM RefundsInTurnStayWithin == Spec /\ []RefundsInTurn => []RefundsWithinOriginal
<1>1. Init => LeftInv
  BY DEF Init, LeftInv, Idle
<1>2. PInv /\ FiguresInv /\ LeftInv => RefundsWithinOriginal
  BY LeftIsEnough
<1> QED
  BY <1>1, <1>2, FiguresAlways, NextLeaves, PTL DEF Spec
-----------------------------------------------------------------------------
(* Summaries while nothing is booked.                                      *)

\* While a summary is being taken, nothing is booked.
Quiet == (\E x \in Sessions : tx[x].op = "summary") => UNCHANGED ledger

\* The figures found so far are those of the ledger as it is.
FiguresStand == \A x \in Sessions, day \in Days :
    tx[x].op = "summary" /\ tx[x].day = day =>
      /\ tx[x].this = Cents(ThisMonth(day))
      /\ tx[x].next = "paying" => tx[x].method = ByMethod(day)

AgreeInv == FiguresStand /\ FiguresAgree

\* The figures per method of a month add up to the sum of the month.
LEMMA MonthAddsUp ==
    ASSUME BooksOK, NEW day
    PROVE  MapThenSumSet(LAMBDA k : ByMethod(day)[k], Methods) = Cents(ThisMonth(day))
<1> DEFINE S == ThisMonth(day)
           parts == [k \in Methods |-> CentsIn(ledger, {p \in S : ledger[p].method = k})]
<1>1. S \subseteq DOMAIN ledger
  BY DEF ThisMonth
<1>2. IsFiniteSet(S) /\ Cents(S) = CentsIn(ledger, S)
  BY <1>1, LedgerSums
<1>3. \A p \in S : ledger[p].cents \in Int /\ ledger[p].method \in Methods
  BY <1>1 DEF BooksOK, Payment
<1>4. ByMethod(day) = parts
  <2>1. \A k \in Methods : Cents({p \in S : ledger[p].method = k}) =
                             CentsIn(ledger, {p \in S : ledger[p].method = k})
    BY DEF Cents, CentsIn
  <2> HIDE DEF S
  <2> QED
    BY <2>1 DEF ByMethod, S
<1> HIDE DEF S
<1>5. SumOf(parts, Methods) = CentsIn(ledger, S)
  BY <1>2, <1>3, MethodsAddUp
<1>6. MapThenSumSet(LAMBDA k : ByMethod(day)[k], Methods) = SumOf(ByMethod(day), Methods)
  BY DEF SumOf
<1> QED
  BY <1>2, <1>4, <1>5, <1>6 DEF S

\* Without a booking the queries find the same again.
LEMMA SameFigures ==
    ASSUME BooksOK, UNCHANGED ledger
    PROVE  \A day : /\ Cents(ThisMonth(day))' = Cents(ThisMonth(day))
                    /\ ByMethod(day)' = ByMethod(day)
<1> TAKE day
<1>1. \A S : Cents(S)' = Cents(S)
  <2>1. \A S : Cents(S) = CentsIn(ledger, S)
    BY DEF Cents, CentsIn
  <2> QED
    BY <2>1, CentsThen
<1>2. ThisMonth(day)' = ThisMonth(day)
  BY DEF ThisMonth
<1>3. Cents(ThisMonth(day))' = Cents(ThisMonth(day))
  BY <1>1, <1>2
<1>4. ByMethod(day)' = ByMethod(day)
  BY <1>1, <1>2 DEF ByMethod
<1> QED
  BY <1>3, <1>4
\* A step that books nothing and leaves one session with figures that stand.
LEMMA StandSessionStep ==
    ASSUME FiguresInv, FiguresStand, NEW x \in Sessions, NEW r,
           tx' = [tx EXCEPT ![x] = r], UNCHANGED ledger,
           \A day \in Days : r.op = "summary" /\ r.day = day =>
             /\ r.this = Cents(ThisMonth(day))
             /\ r.next = "paying" => r.method = ByMethod(day)
    PROVE  FiguresStand'
<1>1. \A day : /\ Cents(ThisMonth(day))' = Cents(ThisMonth(day))
               /\ ByMethod(day)' = ByMethod(day)
  BY SameFigures DEF FiguresInv
<1>2. \A y \in Sessions : tx'[y] = r \/ tx'[y] = tx[y]
  BY DEF FiguresInv
<1> QED
  BY <1>1, <1>2 DEF FiguresStand

\* Each query finds what stands.
LEMMA QueriesStand ==
    ASSUME FiguresInv, FiguresStand, NEW x \in Sessions,
           SumThisMonth(x) \/ SumLastMonth(x) \/ SumByPlan(x) \/ SumByMethod(x)
    PROVE  FiguresStand'
<1>1. CASE SumThisMonth(x)
  <2> DEFINE r == [op |-> "summary", next |-> "last", day |-> today,
                   this |-> Cents(ThisMonth(today)), last |-> 0,
                   plan |-> [k \in Plans |-> 0],
                   method |-> [k \in Methods |-> 0]]
  <2>1. tx' = [tx EXCEPT ![x] = r] /\ UNCHANGED ledger
    BY <1>1 DEF SumThisMonth, Begin
  <2>2. r.day = today /\ r.this = Cents(ThisMonth(today)) /\ r.next # "paying"
    OBVIOUS
  <2> HIDE DEF r
  <2> QED
    BY <2>1, <2>2, StandSessionStep
<1>2. CASE SumLastMonth(x) \/ SumByPlan(x) \/ SumByMethod(x)
  <2>1. PICK r : /\ \/ r = [tx[x] EXCEPT !.last = Cents(LastMonth(tx[x].day)),
                                         !.next = "plan"]
                    \/ r = [tx[x] EXCEPT !.plan = ByPlan(tx[x].day), !.next = "method"]
                    \/ r = [tx[x] EXCEPT !.method = ByMethod(tx[x].day),
                                         !.next = "paying"]
                 /\ tx[x].op = "summary"
                 /\ tx' = [tx EXCEPT ![x] = r]
                 /\ UNCHANGED ledger
    BY <1>2 DEF SumLastMonth, SumByPlan, SumByMethod, Continue
  <2>2. tx[x] \in SummaryTx /\ tx[x].day \in Days
    BY <2>1, SummaryIsTyped DEF SummaryTx
  <2>3. tx[x].this = Cents(ThisMonth(tx[x].day))
    BY <2>1, <2>2 DEF FiguresStand
  <2>4. /\ r.day = tx[x].day /\ r.this = tx[x].this
        /\ r.next = "paying" => r.method = ByMethod(tx[x].day)
    BY <2>1, <2>2 DEF SummaryTx
  <2>5. \A day \in Days : r.op = "summary" /\ r.day = day =>
          /\ r.this = Cents(ThisMonth(day))
          /\ r.next = "paying" => r.method = ByMethod(day)
    BY <2>3, <2>4
  <2> QED
    BY <2>1, <2>5, StandSessionStep
<1> QED
  BY <1>1, <1>2

\* What is shown are figures that stood when they were found.
LEMMA CountAgrees ==
    ASSUME FiguresInv, AgreeInv, NEW x \in Sessions, CountPaying(x)
    PROVE  AgreeInv'
<1> DEFINE n == Cardinality(Paying(tx[x].day))
           day == tx[x].day
<1>1. /\ tx[x].op = "summary" /\ tx[x].next = "paying"
      /\ shown' = [this |-> tx[x].this, last |-> tx[x].last, plan |-> tx[x].plan,
                   method |-> tx[x].method, paying |-> n]
      /\ tx' = [tx EXCEPT ![x] = Idle] /\ UNCHANGED ledger
  BY DEF CountPaying
<1>2. tx[x] \in SummaryTx /\ day \in Days /\ BooksOK
  BY <1>1, SummaryIsTyped DEF SummaryTx, FiguresInv
<1> HIDE DEF n
<1>3. tx[x].this = Cents(ThisMonth(day)) /\ tx[x].method = ByMethod(day)
  BY <1>1, <1>2 DEF AgreeInv, FiguresStand
<1>4. MapThenSumSet(LAMBDA k : ByMethod(day)[k], Methods) = Cents(ThisMonth(day))
  BY <1>2, MonthAddsUp
<1>5. SumOf(tx[x].method, Methods) = tx[x].this
  <2>1. SumOf(ByMethod(day), Methods) = Cents(ThisMonth(day))
    BY <1>4 DEF SumOf
  <2> QED
    BY <1>3, <2>1
<1>6. shown'.method = tx[x].method /\ shown'.this = tx[x].this
  BY <1>1
<1>7. FiguresAgree'
  <2>1. SumOf(shown'.method, Methods) = shown'.this
    BY <1>5, <1>6
  <2> QED
    BY <2>1 DEF FiguresAgree, SumOf, MapThenSumSet, MapThenFoldSet
<1>8. FiguresStand'
  <2>1. Idle.op # "summary"
    BY DEF Idle
  <2> QED
    BY <1>1, <2>1, StandSessionStep DEF AgreeInv
<1> QED
  BY <1>7, <1>8 DEF AgreeInv

\* What was shown stays shown.
LEMMA ShownStays == ASSUME FiguresAgree, UNCHANGED shown PROVE FiguresAgree'
  BY DEF FiguresAgree, MapThenSumSet, MapThenFoldSet

\* As long as nothing is booked while a summary is being taken, its figures
\* stand.
LEMMA NextAgrees == FiguresInv /\ AgreeInv /\ [Quiet]_vars /\ [Next]_vars => AgreeInv'
<1> SUFFICES ASSUME FiguresInv, AgreeInv, [Quiet]_vars, [Next]_vars PROVE AgreeInv'
  OBVIOUS
<1>0. FiguresStand /\ FiguresAgree
  BY DEF AgreeInv
<1>1. CASE UNCHANGED vars \/ NextDay
  <2>1. UNCHANGED <<ledger, tx, shown>>
    BY <1>1 DEF vars, NextDay
  <2>2. \A day : /\ Cents(ThisMonth(day))' = Cents(ThisMonth(day))
                 /\ ByMethod(day)' = ByMethod(day)
    BY <2>1, SameFigures DEF FiguresInv
  <2>3. FiguresStand'
    BY <1>0, <2>1, <2>2 DEF FiguresStand
  <2> QED
    BY <1>0, <2>1, <2>3, ShownStays DEF AgreeInv
<1>2. ASSUME NEW x \in Sessions, ~UNCHANGED vars,
             \/ CommitRefund(x)
             \/ \E m \in Members, s \in Subs \cup {NoSub}, k \in Methods,
                   c \in Amounts, d \in Days : Record(x, m, s, k, c, d)
      PROVE  AgreeInv'
  <2>1. UNCHANGED shown /\ (tx' = tx \/ tx' = [tx EXCEPT ![x] = Idle])
    BY <1>2 DEF CommitRefund, Record
  <2>2. CASE UNCHANGED ledger
    <3>1. tx' = [tx EXCEPT ![x] = tx[x]] \/ tx' = [tx EXCEPT ![x] = Idle]
      BY <2>1 DEF FiguresInv
    <3>2. Idle.op # "summary"
      BY DEF Idle
    <3>3. \A day \in Days : tx[x].op = "summary" /\ tx[x].day = day =>
            /\ tx[x].this = Cents(ThisMonth(day))
            /\ tx[x].next = "paying" => tx[x].method = ByMethod(day)
      BY <1>0 DEF FiguresStand
    <3>4. FiguresStand'
      BY <1>0, <2>2, <3>1, <3>2, <3>3, StandSessionStep
    <3> QED
      BY <1>0, <2>1, <3>4, ShownStays DEF AgreeInv
  <2>3. CASE ~UNCHANGED ledger
    <3>1. \A y \in Sessions : tx[y].op # "summary"
      BY <1>2, <2>3 DEF Quiet
    <3>2. \A y \in Sessions : tx'[y].op # "summary"
      BY <2>1, <3>1 DEF Idle, FiguresInv
    <3>3. FiguresStand'
      BY <3>2 DEF FiguresStand
    <3> QED
      BY <1>0, <2>1, <3>3, ShownStays DEF AgreeInv
  <2> QED
    BY <2>2, <2>3
<1>3. ASSUME NEW x \in Sessions,
             SumThisMonth(x) \/ SumLastMonth(x) \/ SumByPlan(x) \/ SumByMethod(x)
      PROVE  AgreeInv'
  <2>1. UNCHANGED shown
    BY <1>3 DEF SumThisMonth, SumLastMonth, SumByPlan, SumByMethod, Begin, Continue
  <2>2. FiguresStand'
    BY <1>0, <1>3, QueriesStand
  <2> QED
    BY <1>0, <2>1, <2>2, ShownStays DEF AgreeInv
<1>4. ASSUME NEW x \in Sessions, CountPaying(x) PROVE AgreeInv'
  BY <1>4, CountAgrees
<1>5. ASSUME NEW x \in Sessions,
             Crash(x) \/ \E p \in Payments, c \in Amounts : ReadRefund(x, p, c)
      PROVE  AgreeInv'
  <2>1. PICK r : /\ tx' = [tx EXCEPT ![x] = r] /\ r.op # "summary"
                 /\ UNCHANGED <<ledger, shown>>
    <3>1. CASE Crash(x)
      <4>1. tx' = [tx EXCEPT ![x] = Idle] /\ UNCHANGED <<ledger, shown>>
        BY <3>1 DEF Crash
      <4>2. Idle.op # "summary"
        BY DEF Idle
      <4> QED
        BY <4>1, <4>2
    <3>2. ASSUME NEW p \in Payments, NEW c \in Amounts, ReadRefund(x, p, c)
          PROVE  \E r : /\ tx' = [tx EXCEPT ![x] = r] /\ r.op # "summary"
                        /\ UNCHANGED <<ledger, shown>>
      <4> DEFINE s == [op |-> "refund", of |-> p, cents |-> c, day |-> today]
      <4>1. tx' = [tx EXCEPT ![x] = s] /\ UNCHANGED <<ledger, shown>>
        BY <3>2 DEF ReadRefund, Begin
      <4>2. s.op # "summary"
        OBVIOUS
      <4> HIDE DEF s
      <4> QED
        BY <4>1, <4>2
    <3> QED
      BY <1>5, <3>1, <3>2
  <2>2. FiguresStand'
    BY <1>0, <2>1, StandSessionStep
  <2> QED
    BY <1>0, <2>1, <2>2, ShownStays DEF AgreeInv
<1> QED
  BY <1>1, <1>2, <1>3, <1>4, <1>5 DEF Next

\* A summary during which nothing is booked, by however many other sessions,
\* is split by method without a remainder (payment_service.py:327-368).
THEOREM QuietFiguresAgree == Spec /\ [][Quiet]_vars => []FiguresAgree
<1>1. Init => AgreeInv
  BY DEF Init, AgreeInv, FiguresStand, FiguresAgree, Idle
<1>2. AgreeInv => FiguresAgree
  BY DEF AgreeInv
<1> QED
  BY <1>1, <1>2, FiguresAlways, NextAgrees, PTL DEF Spec

\* One session is enough for both: it never refunds twice at once, and books
\* nothing while it takes a summary.
LEMMA OneSessionTakesTurns ==
    ASSUME \A x, y \in Sessions : x = y
    PROVE  Spec => []RefundsInTurn /\ [][Quiet]_vars
<1>1. RefundsInTurn
  BY DEF RefundsInTurn
<1>2. PInv /\ [Next]_vars => [Quiet]_vars
  <2> SUFFICES ASSUME PInv, Next, NEW x \in Sessions, tx[x].op = "summary"
               PROVE  UNCHANGED ledger
    BY DEF Quiet
  <2>1. ASSUME NEW y \in Sessions, tx[y] = Idle PROVE FALSE
    BY <2>1 DEF Idle
  <2>2. ASSUME NEW y \in Sessions, tx[y].op = "refund" PROVE FALSE
    BY <2>2
  <2> QED
    BY <2>1, <2>2 DEF Next, NextDay, Record, ReadRefund, Begin, CommitRefund, SumThisMonth,
       SumLastMonth, SumByPlan, SumByMethod, Continue, CountPaying, Crash
<1> QED
  BY <1>1, <1>2, FiguresAlways, PTL DEF Spec

\* With a single session the refunds stay within the payments, and the figures
\* agree (payment_service.py:198-287, 327-368).
THEOREM OneSessionAgrees ==
    ASSUME \A x, y \in Sessions : x = y
    PROVE  Spec => [](RefundsWithinOriginal /\ FiguresAgree)
  BY OneSessionTakesTurns, RefundsInTurnStayWithin, QuietFiguresAgree, PTL

=============================================================================
