------------------------- MODULE SubscriptionsProofs -------------------------
(***************************************************************************)
(* Theorems about Subscriptions for every number of members, rows,         *)
(* sessions and days.                                                      *)
(***************************************************************************)
EXTENDS SubscriptionNights, TLAPS

USE PlansAssumption, DatesAssumption, MembersAssumption, SubsAssumption

(***************************************************************************)
(* The constraints hold of every stored row; an id that a pending insert   *)
(* has drawn is still unused and drawn once; and the row a pending UPDATE  *)
(* aims at exists.                                                         *)
(***************************************************************************)
StoredRowsPass == \A s \in Subs : Checks(rows[s])

DrawnIdsFree ==
    \A x \in Sessions : Inserts(tx[x]) =>
        /\ ~Exists(tx[x].new)
        /\ \A y \in Sessions : Inserts(tx[y]) /\ tx[y].new = tx[x].new => x = y

TargetsExist ==
    \A x \in Sessions :
        /\ tx[x].op \in RowOps \cup {"change_plan"} => Exists(tx[x].sub)
        /\ tx[x].op \in BatchOps => \A s \in tx[x].due : Exists(s)

IInv == TypeOK /\ StoredRowsPass /\ UniqueLive(rows) /\ DrawnIdsFree
          /\ TargetsExist

-----------------------------------------------------------------------------
\* A transaction in flight is of the kind its operation says.
LEMMA TxKinds ==
  ASSUME NEW r \in Tx
  PROVE  /\ r.op = "create" => r \in CreateTx
         /\ r.op \in RowOps => r \in RowTx
         /\ r.op = "change_plan" => r \in ChangeTx
         /\ r.op \in BatchOps => r \in BatchTx
BY DEF Tx, Idle, CreateTx, RowTx, ChangeTx, BatchTx, RowOps, BatchOps

\* The dates that requests and jobs compute are dates.
LEMMA DatesTyped ==
  ASSUME TypeOK
  PROVE  /\ \A s \in Subs : ExtendedExpires(rows[s]) \in MaybeDate
         /\ Entered \subseteq MaybeDate
         /\ Days \subseteq MaybeDate
BY DEF TypeOK, Row, MaybeDate, ExtendedExpires, Later, Entered, Days

\* Touched and Written, one operation at a time.
LEMMA Statements ==
  ASSUME NEW r, NEW s
  PROVE  /\ r.op = "create" =>
              /\ Touched(r) = {r.new}
              /\ Written(r, s) = NewRow(r.member, r.plan, r.expires)
         /\ r.op = "freeze" =>
              Touched(r) = {r.sub} /\ Written(r, s) = FrozenRow(rows[s], r)
         /\ r.op = "unfreeze" =>
              Touched(r) = {r.sub} /\ Written(r, s) = ActiveRow(rows[s], r.expires)
         /\ r.op = "renew" =>
              Touched(r) = {r.sub} /\ Written(r, s) = RenewedRow(rows[s], r.expires)
         /\ r.op = "cancel" =>
              Touched(r) = {r.sub} /\ Written(r, s) = CancelledRow(rows[s])
         /\ r.op = "change_plan" =>
              /\ Touched(r) = {r.sub, r.new}
              /\ Written(r, s) = IF s = r.sub THEN ReplacedRow(rows[s], r.new)
                                 ELSE NewRow(rows[r.sub].member, r.plan, r.expires)
         /\ r.op = "auto_unfreeze" =>
              Touched(r) = r.due /\ Written(r, s) = ActiveRow(rows[s], r.expires[s])
         /\ r.op = "auto_expire" =>
              Touched(r) = r.due /\ Written(r, s) = ExpiredRow(rows[s])
BY DEF Touched, Written, RowOps, BatchOps

\* Each statement turns a row into a row, and none of them unwrites it.
LEMMA RowsStayRows ==
  ASSUME NEW row \in Row
  PROVE  /\ \A r \in RowTx : /\ FrozenRow(row, r) \in Row
                             /\ FrozenRow(row, r).status # "none"
         /\ \A e \in MaybeDate : /\ ActiveRow(row, e) \in Row
                                 /\ ActiveRow(row, e).status # "none"
                                 /\ RenewedRow(row, e) \in Row
                                 /\ RenewedRow(row, e).status # "none"
         /\ ExpiredRow(row) \in Row /\ ExpiredRow(row).status # "none"
         /\ CancelledRow(row) \in Row /\ CancelledRow(row).status # "none"
         /\ \A n \in Subs : /\ ReplacedRow(row, n) \in Row
                            /\ ReplacedRow(row, n).status # "none"
<1>1. /\ \A r \in RowTx : r.day \in MaybeDate /\ r.until \in MaybeDate
      /\ NoDate \in MaybeDate
  BY DEF RowTx, Days, MaybeDate
<1>2. {"active", "frozen", "expired", "cancelled", "replaced"}
         \subseteq RowStatus \cup {"none"}
  BY DEF RowStatus, Live, Terminal
<1>3. \A r \in RowTx : /\ FrozenRow(row, r) \in Row
                       /\ FrozenRow(row, r).status # "none"
  BY <1>1, <1>2 DEF Row, FrozenRow
<1>4. \A e \in MaybeDate : /\ ActiveRow(row, e) \in Row
                           /\ ActiveRow(row, e).status # "none"
  BY <1>1, <1>2 DEF Row, ActiveRow
<1>5. \A e \in MaybeDate : /\ RenewedRow(row, e) \in Row
                           /\ RenewedRow(row, e).status # "none"
  BY <1>1, <1>2 DEF Row, RenewedRow
<1>6. /\ ExpiredRow(row) \in Row /\ ExpiredRow(row).status # "none"
      /\ CancelledRow(row) \in Row /\ CancelledRow(row).status # "none"
  BY <1>1, <1>2 DEF Row, ExpiredRow, CancelledRow
<1>7. \A n \in Subs : /\ ReplacedRow(row, n) \in Row
                      /\ ReplacedRow(row, n).status # "none"
  BY <1>1, <1>2 DEF Row, ReplacedRow
<1>8. QED
  BY <1>3, <1>4, <1>5, <1>6, <1>7

\* An inserted row is a row, and it exists.
LEMMA NewRowTyped ==
  ASSUME NEW m \in Members, NEW p \in Plans, NEW e \in MaybeDate
  PROVE  NewRow(m, p, e) \in Row /\ NewRow(m, p, e).status # "none"
BY DEF Row, NewRow, RowStatus, Live, Terminal, MaybeDate

\* Every row that a prepared transaction writes is a row that exists.
LEMMA WrittenTyped ==
  ASSUME TypeOK, NEW r \in Tx, r # Idle, NEW s \in Touched(r)
  PROVE  s \in Subs /\ Written(r, s) \in Row /\ Written(r, s).status # "none"
<1>1. CASE r.op = "create"
  <2>1. r \in CreateTx
    BY <1>1, TxKinds DEF RowOps, BatchOps
  <2>2. s \in Subs
    BY <1>1, <2>1, Statements DEF CreateTx
  <2>3. QED
    BY <1>1, <2>1, <2>2, Statements, NewRowTyped DEF CreateTx
<1>2. CASE r.op = "freeze"
  <2>1. r \in RowTx
    BY <1>2, TxKinds DEF RowOps, BatchOps
  <2>2. s \in Subs
    BY <1>2, <2>1, Statements DEF RowTx
  <2>3. rows[s] \in Row
    BY <2>2 DEF TypeOK
  <2>4. Written(r, s) = FrozenRow(rows[s], r)
    BY <1>2, Statements
  <2>5. QED
    BY <2>1, <2>2, <2>3, <2>4, RowsStayRows
<1>3. CASE r.op = "unfreeze"
  <2>1. r \in RowTx
    BY <1>3, TxKinds DEF RowOps, BatchOps
  <2>2. s \in Subs
    BY <1>3, <2>1, Statements DEF RowTx
  <2>3. rows[s] \in Row
    BY <2>2 DEF TypeOK
  <2>4. Written(r, s) = ActiveRow(rows[s], r.expires)
    BY <1>3, Statements
  <2>5. r.expires \in MaybeDate
    BY <2>1, <2>2 DEF RowTx
  <2>6. QED
    BY <2>2, <2>3, <2>4, <2>5, RowsStayRows
<1>4. CASE r.op = "renew"
  <2>1. r \in RowTx
    BY <1>4, TxKinds DEF RowOps, BatchOps
  <2>2. s \in Subs
    BY <1>4, <2>1, Statements DEF RowTx
  <2>3. rows[s] \in Row
    BY <2>2 DEF TypeOK
  <2>4. Written(r, s) = RenewedRow(rows[s], r.expires)
    BY <1>4, Statements
  <2>5. r.expires \in MaybeDate
    BY <2>1, <2>2 DEF RowTx
  <2>6. QED
    BY <2>2, <2>3, <2>4, <2>5, RowsStayRows
<1>5. CASE r.op = "cancel"
  <2>1. r \in RowTx
    BY <1>5, TxKinds DEF RowOps, BatchOps
  <2>2. s \in Subs
    BY <1>5, <2>1, Statements DEF RowTx
  <2>3. rows[s] \in Row
    BY <2>2 DEF TypeOK
  <2>4. Written(r, s) = CancelledRow(rows[s])
    BY <1>5, Statements
  <2>5. QED
    BY <2>1, <2>2, <2>3, <2>4, RowsStayRows
<1>6. CASE r.op = "change_plan"
  <2>1. r \in ChangeTx
    BY <1>6, TxKinds DEF RowOps, BatchOps
  <2>2. s \in Subs
    BY <1>6, <2>1, Statements DEF ChangeTx
  <2>3. rows[s] \in Row /\ rows[r.sub].member \in Members
    BY <2>1, <2>2 DEF TypeOK, ChangeTx, Row
  <2>4. r.new \in Subs /\ r.plan \in Plans /\ r.expires \in MaybeDate
    BY <2>1 DEF ChangeTx
  <2>5. CASE s = r.sub
    <3>1. Written(r, s) = ReplacedRow(rows[s], r.new)
      BY <1>6, <2>5, Statements
    <3>2. QED
      BY <2>2, <2>3, <2>4, <3>1, RowsStayRows
  <2>6. CASE s # r.sub
    <3>1. Written(r, s) = NewRow(rows[r.sub].member, r.plan, r.expires)
      BY <1>6, <2>6, Statements
    <3>2. QED
      BY <2>2, <2>3, <2>4, <3>1, NewRowTyped
  <2>7. QED
    BY <2>5, <2>6
<1>7. CASE r.op = "auto_unfreeze"
  <2>1. r \in BatchTx
    BY <1>7, TxKinds DEF RowOps, BatchOps
  <2>2. s \in Subs
    BY <1>7, <2>1, Statements DEF BatchTx
  <2>3. rows[s] \in Row
    BY <2>2 DEF TypeOK
  <2>4. Written(r, s) = ActiveRow(rows[s], r.expires[s])
    BY <1>7, Statements
  <2>5. r.expires[s] \in MaybeDate
    BY <2>1, <2>2 DEF BatchTx
  <2>6. QED
    BY <2>2, <2>3, <2>4, <2>5, RowsStayRows
<1>8. CASE r.op = "auto_expire"
  <2>1. r \in BatchTx
    BY <1>8, TxKinds DEF RowOps, BatchOps
  <2>2. s \in Subs
    BY <1>8, <2>1, Statements DEF BatchTx
  <2>3. rows[s] \in Row
    BY <2>2 DEF TypeOK
  <2>4. Written(r, s) = ExpiredRow(rows[s])
    BY <1>8, Statements
  <2>5. QED
    BY <2>1, <2>2, <2>3, <2>4, RowsStayRows
<1>9. QED
  BY <1>1, <1>2, <1>3, <1>4, <1>5, <1>6, <1>7, <1>8
     DEF Tx, CreateTx, RowTx, ChangeTx, BatchTx, RowOps, BatchOps

\* The table after a transaction is a table of rows.
LEMMA AfterTyped ==
  ASSUME TypeOK, NEW r \in Tx, r # Idle
  PROVE  /\ After(r) \in [Subs -> Row]
         /\ \A s \in Subs : Exists(s) => After(r)[s].status # "none"
<1>1. ASSUME NEW s \in Subs
      PROVE  After(r)[s] \in Row /\ (Exists(s) => After(r)[s].status # "none")
  <2>1. CASE s \in Touched(r)
    BY <2>1, WrittenTyped DEF After
  <2>2. CASE s \notin Touched(r)
    BY <2>2 DEF After, TypeOK, Exists
  <2>3. QED
    BY <2>1, <2>2
<1>2. After(r) = [s \in Subs |-> After(r)[s]]
  BY DEF After
<1>3. QED
  BY <1>1, <1>2

-----------------------------------------------------------------------------
(* The invariant is inductive: one lemma for each way a session moves.     *)

\* Preparing a well-typed transaction keeps the invariant.
LEMMA PrepareKeepsIInv ==
  ASSUME IInv, NEW x \in Sessions, NEW r \in Tx, Prepare(x, r),
         Inserts(r) => r.new \in Fresh,
         r.op \in RowOps \cup {"change_plan"} => Exists(r.sub),
         r.op \in BatchOps => \A s \in r.due : Exists(s)
  PROVE  IInv'
<1>1. /\ tx' = [tx EXCEPT ![x] = r]
      /\ UNCHANGED <<rows, memberStatus, cancelEvents, today>>
  BY DEF Prepare
<1>2. TypeOK'
  BY <1>1 DEF IInv, TypeOK, Days
<1>3. StoredRowsPass' /\ UniqueLive(rows)'
  BY <1>1 DEF IInv, StoredRowsPass
<1>4. \A s : Exists(s)' <=> Exists(s)
  BY <1>1 DEF Exists
<1>5. tx \in [Sessions -> Tx]
  BY DEF IInv, TypeOK
<1>6. DrawnIdsFree'
  <2>1. ASSUME NEW y \in Sessions, Inserts(tx'[y])
        PROVE  ~Exists(tx'[y].new)
    BY <1>1, <1>5, <2>1 DEF IInv, DrawnIdsFree, Fresh
  <2>2. ASSUME NEW y \in Sessions, NEW z \in Sessions, Inserts(tx'[y]),
               Inserts(tx'[z]), tx'[z].new = tx'[y].new
        PROVE  y = z
    BY <1>1, <1>5, <2>2 DEF IInv, DrawnIdsFree, Fresh
  <2>3. QED
    BY <1>4, <2>1, <2>2 DEF DrawnIdsFree, Inserts
<1>7. TargetsExist'
  BY <1>1, <1>4, <1>5 DEF IInv, TargetsExist
<1>8. QED
  BY <1>2, <1>3, <1>6, <1>7 DEF IInv

\* A rollback, whatever its cause, keeps the invariant.
LEMMA RollbackKeepsIInv ==
  ASSUME IInv, NEW x \in Sessions, Rollback(x)
  PROVE  IInv'
<1>1. /\ tx' = [tx EXCEPT ![x] = Idle]
      /\ UNCHANGED <<rows, memberStatus, cancelEvents, today>>
  BY DEF Rollback
<1>2. Idle \in Tx /\ ~Inserts(Idle) /\ Idle.op \notin RowOps \cup BatchOps
        /\ Idle.op # "change_plan"
  BY DEF Idle, Tx, Inserts, RowOps, BatchOps
<1>3. tx \in [Sessions -> Tx]
  BY DEF IInv, TypeOK
<1>4. \A s : Exists(s)' <=> Exists(s)
  BY <1>1 DEF Exists
<1>5. TypeOK'
  BY <1>1, <1>2 DEF IInv, TypeOK, Days
<1>6. StoredRowsPass' /\ UniqueLive(rows)'
  BY <1>1 DEF IInv, StoredRowsPass
<1>7. DrawnIdsFree'
  BY <1>1, <1>2, <1>3, <1>4 DEF IInv, DrawnIdsFree, Inserts
<1>8. TargetsExist'
  BY <1>1, <1>2, <1>3, <1>4 DEF IInv, TargetsExist
<1>9. QED
  BY <1>5, <1>6, <1>7, <1>8 DEF IInv

\* A commit keeps the invariant: the constraints refuse a table that breaks it.
LEMMA CommitKeepsIInv ==
  ASSUME IInv, NEW x \in Sessions, NEW op, NEW status \in MemberState,
         op # "idle", Commit(x, op, status)
  PROVE  IInv'
<1> DEFINE r == tx[x]
<1>1. /\ r.op = op
      /\ Admissible(After(r))
      /\ rows' = After(r)
      /\ memberStatus' = Synced(r, status)
      /\ tx' = [tx EXCEPT ![x] = Idle]
      /\ today' = today
  BY DEF Commit
<1>2. TypeOK /\ r \in Tx /\ r # Idle
  BY <1>1 DEF IInv, TypeOK, Idle
<1>3. tx \in [Sessions -> Tx]
  BY DEF IInv, TypeOK
<1>4. Idle \in Tx /\ ~Inserts(Idle) /\ Idle.op \notin RowOps \cup BatchOps
        /\ Idle.op # "change_plan"
  BY DEF Idle, Tx, Inserts, RowOps, BatchOps
<1>5. cancelEvents' \in [Subs -> Nat]
  <2>1. CASE op = "cancel"
    BY <1>1, <1>2, <2>1, TxKinds DEF Commit, RowOps, RowTx, TypeOK
  <2>2. CASE op # "cancel"
    BY <1>2, <2>2 DEF Commit, TypeOK
  <2>3. QED
    BY <2>1, <2>2
<1>6. TypeOK'
  <2>1. rows' \in [Subs -> Row]
    BY <1>1, <1>2, AfterTyped
  <2>2. memberStatus' \in [Members -> MemberState]
    BY <1>1, <1>2 DEF Synced, TypeOK
  <2>3. tx' \in [Sessions -> Tx] /\ today' \in Days
    BY <1>1, <1>2, <1>3, <1>4 DEF TypeOK
  <2>4. QED
    BY <1>5, <2>1, <2>2, <2>3 DEF TypeOK, Days
<1>7. StoredRowsPass' /\ UniqueLive(rows)'
  BY <1>1 DEF Admissible, StoredRowsPass
<1>8. \A s \in Subs : Exists(s) => Exists(s)'
  BY <1>1, <1>2, AfterTyped DEF Exists
<1>9. \A y \in Sessions : y # x => tx'[y] = tx[y]
  BY <1>1, <1>3
<1>10. tx'[x] = Idle
  BY <1>1, <1>3
<1>11. DrawnIdsFree'
  <2>1. ASSUME NEW y \in Sessions, Inserts(tx[y]), y # x
        PROVE  rows'[tx[y].new].status = "none"
    <3>1. tx[y].new \in Subs /\ ~Exists(tx[y].new)
      BY <1>3, <2>1, TxKinds DEF IInv, DrawnIdsFree, Inserts, CreateTx, ChangeTx
    <3>2. tx[y].new \notin Touched(r)
      <4>1. CASE r.op = "create"
        BY <2>1, <4>1, Statements DEF IInv, DrawnIdsFree, Inserts
      <4>2. CASE r.op \in RowOps
        <5>1. Touched(r) = {r.sub}
          BY <4>2, Statements DEF RowOps
        <5>2. QED
          BY <3>1, <4>2, <5>1 DEF IInv, TargetsExist
      <4>3. CASE r.op = "change_plan"
        BY <2>1, <3>1, <4>3, Statements
           DEF IInv, DrawnIdsFree, TargetsExist, Inserts
      <4>4. CASE r.op \in BatchOps
        <5>1. Touched(r) = r.due
          BY <4>4, Statements DEF BatchOps
        <5>2. QED
          BY <3>1, <4>4, <5>1 DEF IInv, TargetsExist
      <4>5. QED
        BY <1>2, <4>1, <4>2, <4>3, <4>4
           DEF Tx, CreateTx, RowTx, ChangeTx, BatchTx
    <3>3. rows'[tx[y].new] = rows[tx[y].new]
      BY <1>1, <3>1, <3>2 DEF After
    <3>4. QED
      BY <3>1, <3>3 DEF Exists
  <2>2. QED
    BY <1>4, <1>9, <1>10, <2>1 DEF IInv, DrawnIdsFree, Inserts, Exists
<1>12. TargetsExist'
  <2>1. ASSUME NEW y \in Sessions, y # x
        PROVE  /\ tx[y].op \in RowOps \cup {"change_plan"} => tx[y].sub \in Subs
               /\ tx[y].op \in BatchOps => tx[y].due \subseteq Subs
    BY <1>3, <2>1, TxKinds DEF RowTx, ChangeTx, BatchTx
  <2>2. QED
    BY <1>4, <1>8, <1>9, <1>10, <2>1 DEF IInv, TargetsExist, Exists
<1>13. QED
  BY <1>6, <1>7, <1>11, <1>12 DEF IInv

-----------------------------------------------------------------------------
(* The reads of staff and of the two jobs.                                 *)

\* create prepares a well-typed transaction.
LEMMA ReadCreateKeepsIInv ==
  ASSUME IInv, NEW x \in Sessions, NEW m \in Members, NEW p \in Plans,
         NEW d \in Entered, ReadCreate(x, m, p, d)
  PROVE  IInv'
<1>1. PICK n \in Fresh :
        Prepare(x, [op |-> "create", new |-> n, member |-> m, plan |-> p,
                    expires |-> ResolveExpires(p, d)])
  BY DEF ReadCreate
<1> DEFINE r == [op |-> "create", new |-> n, member |-> m, plan |-> p,
                 expires |-> ResolveExpires(p, d)]
<1>2. ResolveExpires(p, d) \in MaybeDate
  BY DatesTyped DEF IInv, ReadCreate
<1>3. r \in Tx
  BY <1>2 DEF Tx, CreateTx, Fresh
<1>4. QED
  BY <1>1, <1>3, PrepareKeepsIInv DEF RowOps, BatchOps

\* An operation on one row prepares a well-typed transaction.
LEMMA PrepareRowKeepsIInv ==
  ASSUME IInv, NEW x \in Sessions, NEW op \in RowOps, NEW s \in Subs,
         NEW until \in MaybeDate, NEW e \in MaybeDate, Exists(s),
         PrepareRow(x, op, s, until, e)
  PROVE  IInv'
<1> DEFINE r == [op |-> op, sub |-> s, day |-> today, until |-> until,
                 expires |-> e]
<1>1. r \in Tx
  BY DEF Tx, RowTx, IInv, TypeOK
<1>2. ~Inserts(r) /\ r.op \notin BatchOps
  BY DEF Inserts, RowOps, BatchOps
<1>3. QED
  BY <1>1, <1>2, PrepareKeepsIInv DEF PrepareRow

\* change_plan prepares a well-typed transaction.
LEMMA ReadChangePlanKeepsIInv ==
  ASSUME IInv, NEW x \in Sessions, NEW s \in Subs, NEW p \in Plans,
         ReadChangePlan(x, s, p)
  PROVE  IInv'
<1>1. PICK n \in Fresh :
        Prepare(x, [op |-> "change_plan", sub |-> s, new |-> n, plan |-> p,
                    expires |-> ResolveExpires(p, NoDate)])
  BY DEF ReadChangePlan
<1> DEFINE r == [op |-> "change_plan", sub |-> s, new |-> n, plan |-> p,
                 expires |-> ResolveExpires(p, NoDate)]
<1>2. ResolveExpires(p, NoDate) \in MaybeDate
  BY DatesTyped DEF IInv, ReadChangePlan
<1>3. r \in Tx
  BY <1>2 DEF Tx, ChangeTx, Fresh
<1>4. Exists(s)
  BY DEF ReadChangePlan, CanChangePlan, Exists
<1>5. QED
  BY <1>1, <1>3, <1>4, PrepareKeepsIInv DEF RowOps, BatchOps

\* Both nightly jobs prepare a well-typed transaction.
LEMMA BeatKeepsIInv ==
  ASSUME IInv, NEW x \in Sessions, Beat(x)
  PROVE  IInv'
<1>1. CASE ReadAutoUnfreeze(x)
  <2> DEFINE e == [s \in Subs |-> IF s \in DueForUnfreeze
                                  THEN ExtendedExpires(rows[s]) ELSE NoDate]
             r == [op |-> "auto_unfreeze", due |-> DueForUnfreeze,
                   day |-> today, expires |-> e]
  <2>1. Prepare(x, r)
    BY <1>1 DEF ReadAutoUnfreeze
  <2>2. e \in [Subs -> MaybeDate]
    BY DatesTyped DEF IInv, MaybeDate
  <2>3. r \in Tx
    BY <2>2 DEF Tx, BatchTx, BatchOps, DueForUnfreeze, IInv, TypeOK
  <2>4. \A s \in DueForUnfreeze : Exists(s)
    BY DEF DueForUnfreeze, Exists
  <2>5. QED
    BY <2>1, <2>3, <2>4, PrepareKeepsIInv DEF RowOps, BatchOps, Inserts
<1>2. CASE ReadAutoExpire(x)
  <2> DEFINE r == [op |-> "auto_expire", due |-> DueForExpire,
                   day |-> today, expires |-> [s \in Subs |-> NoDate]]
  <2>1. Prepare(x, r)
    BY <1>2 DEF ReadAutoExpire
  <2>2. r \in Tx
    BY DEF Tx, BatchTx, BatchOps, DueForExpire, MaybeDate, IInv, TypeOK
  <2>3. \A s \in DueForExpire : Exists(s)
    BY DEF DueForExpire, Exists
  <2>4. QED
    BY <2>1, <2>2, <2>3, PrepareKeepsIInv DEF RowOps, BatchOps, Inserts
<1>3. QED
  BY <1>1, <1>2 DEF Beat

\* Every staff request keeps the invariant.
LEMMA StaffKeepsIInv ==
  ASSUME IInv, NEW x \in Sessions, Staff(x)
  PROVE  IInv'
<1>0. Entered \subseteq MaybeDate /\ NoDate \in MaybeDate
  BY DatesTyped DEF IInv, MaybeDate
<1>1. CASE \E m \in Members, p \in Plans, d \in Entered : ReadCreate(x, m, p, d)
  BY <1>1, ReadCreateKeepsIInv
<1>2. ASSUME NEW s \in Subs, NEW d \in Entered, ReadFreeze(x, s, d)
      PROVE  IInv'
  BY <1>0, <1>2, PrepareRowKeepsIInv DEF ReadFreeze, CanFreeze, Exists, RowOps
<1>3. ASSUME NEW s \in Subs, ReadUnfreeze(x, s)
      PROVE  IInv'
  <2>1. ExtendedExpires(rows[s]) \in MaybeDate
    BY DatesTyped DEF IInv
  <2>2. QED
    BY <1>0, <1>3, <2>1, PrepareRowKeepsIInv DEF ReadUnfreeze, CanUnfreeze, Exists, RowOps
<1>4. ASSUME NEW s \in Subs, NEW d \in Entered, ReadRenew(x, s, d)
      PROVE  IInv'
  <2>1. RenewedExpires(rows[s], d) \in MaybeDate
    BY <1>0, <1>4 DEF ReadRenew
  <2>2. QED
    BY <1>0, <1>4, <2>1, PrepareRowKeepsIInv DEF ReadRenew, CanRenew, Exists, RowOps
<1>5. ASSUME NEW s \in Subs, ReadCancel(x, s)
      PROVE  IInv'
  BY <1>0, <1>5, PrepareRowKeepsIInv DEF ReadCancel, CanCancel, Exists, RowOps
<1>6. ASSUME NEW s \in Subs, NEW p \in Plans, ReadChangePlan(x, s, p)
      PROVE  IInv'
  BY <1>6, ReadChangePlanKeepsIInv
<1>7. QED
  BY <1>1, <1>2, <1>3, <1>4, <1>5, <1>6 DEF Staff

\* Every kind of commit keeps the invariant.
LEMMA FinishKeepsIInv ==
  ASSUME IInv, NEW x \in Sessions, Finish(x)
  PROVE  IInv'
<1>1. PICK op \in {"create", "freeze", "unfreeze", "renew", "cancel",
                   "change_plan", "auto_unfreeze", "auto_expire"},
           status \in MemberState : Commit(x, op, status)
  BY DEF Finish, MemberState, Live, CommitCreate, CommitFreeze, CommitUnfreeze,
         CommitRenew, CommitCancel, CommitChangePlan, CommitAutoUnfreeze,
         CommitAutoExpire
<1>2. QED
  BY <1>1, CommitKeepsIInv

-----------------------------------------------------------------------------
\* The empty table satisfies the invariant.
LEMMA InitIInv == Init => IInv
<1> SUFFICES ASSUME Init PROVE IInv
  OBVIOUS
<1>1. \A s \in Subs : /\ rows[s] \in Row
                      /\ rows[s].status = "none"
                      /\ Checks(rows[s])
  BY DEF Init, NewRow, Row, MaybeDate, Checks, FrozenShape, FrozenSpan,
         CancelledShape, ReplacedShape
<1>2. \A x \in Sessions : tx[x] = Idle
  BY DEF Init
<1>3. Idle \in Tx /\ ~Inserts(Idle) /\ Idle.op \notin RowOps \cup BatchOps
        /\ Idle.op # "change_plan"
  BY DEF Idle, Tx, Inserts, RowOps, BatchOps
<1>4. TypeOK
  BY <1>1, <1>3 DEF Init, TypeOK, MemberState, Live, Days
<1>5. UniqueLive(rows)
  BY <1>1 DEF UniqueLive, Live
<1>6. QED
  BY <1>1, <1>2, <1>3, <1>4, <1>5
     DEF IInv, StoredRowsPass, DrawnIdsFree, TargetsExist

\* Every step keeps the invariant.
LEMMA NextIInv == IInv /\ [Next]_vars => IInv'
<1> SUFFICES ASSUME IInv, [Next]_vars PROVE IInv'
  OBVIOUS
<1>1. ASSUME NEW x \in Sessions, Staff(x) PROVE IInv'
  BY <1>1, StaffKeepsIInv
<1>2. ASSUME NEW x \in Sessions, Beat(x) PROVE IInv'
  BY <1>2, BeatKeepsIInv
<1>3. ASSUME NEW x \in Sessions, Finish(x) PROVE IInv'
  BY <1>3, FinishKeepsIInv
<1>4. ASSUME NEW x \in Sessions, Refuse(x) \/ Crash(x) PROVE IInv'
  BY <1>4, RollbackKeepsIInv DEF Refuse, Crash
<1>5. CASE NextDay
  BY <1>5 DEF NextDay, IInv, TypeOK, Days, StoredRowsPass, DrawnIdsFree,
     TargetsExist, Exists
<1>6. CASE UNCHANGED vars
  BY <1>6 DEF vars, IInv, TypeOK, Days, StoredRowsPass, DrawnIdsFree,
     TargetsExist, Exists
<1>7. QED
  BY <1>1, <1>2, <1>3, <1>4, <1>5, <1>6 DEF Next

\* The inductive invariant holds throughout.
THEOREM Inductive == Spec => []IInv
BY InitIInv, NextIInv, PTL DEF Spec

\* Every column, status and prepared statement stays in its domain.
THEOREM TypeCorrect == Spec => []TypeOK
<1>1. IInv => TypeOK
  BY DEF IInv
<1>2. QED
  BY <1>1, Inductive, PTL

\* A member never holds two live subscriptions, whatever requests and jobs
\* overlap and however often sessions die.
THEOREM OneLiveAlways == Spec => []OneLivePerMember
<1>1. IInv => OneLivePerMember
  BY DEF IInv, UniqueLive, OneLivePerMember
<1>2. QED
  BY <1>1, Inductive, PTL

-----------------------------------------------------------------------------
(* No statement leads out of `cancelled` or `replaced`: the stamps that     *)
(* cancelled_at and replaced_at left on the row contradict every other     *)
(* status, and no statement clears them.                                   *)

\* What becomes of the two stamps when a row is overwritten.
LEMMA StampsStay ==
  ASSUME NEW row \in Row, NEW e, NEW r, NEW n
  PROVE  /\ FrozenRow(row, r).status = "frozen"
         /\ ActiveRow(row, e).status = "active"
         /\ ExpiredRow(row).status = "expired"
         /\ RenewedRow(row, e).status = "active"
         /\ CancelledRow(row).status = "cancelled"
         /\ ReplacedRow(row, n).status = "replaced"
         /\ \A new \in {FrozenRow(row, r), ActiveRow(row, e), ExpiredRow(row),
                        RenewedRow(row, e), ReplacedRow(row, n)} :
               new.cancelled = row.cancelled
         /\ \A new \in {FrozenRow(row, r), ActiveRow(row, e), ExpiredRow(row),
                        RenewedRow(row, e), CancelledRow(row)} :
               new.replaced = row.replaced
BY DEF Row, FrozenRow, ActiveRow, ExpiredRow, RenewedRow, CancelledRow,
       ReplacedRow

\* A row that passes the constraints and overwrites a terminal one without
\* clearing a stamp has the status of the row it overwrites.
LEMMA StampsDecide ==
  ASSUME NEW old \in Row, NEW new \in Row, Checks(old), Checks(new),
         old.status \in Terminal,
         \/ new.cancelled = old.cancelled /\ new.replaced = old.replaced
         \/ new.status = "cancelled" /\ new.replaced = old.replaced
         \/ new.status = "replaced" /\ new.cancelled = old.cancelled
  PROVE  new.status = old.status
BY DEF Checks, CancelledShape, ReplacedShape, Terminal, Row

\* No commit takes a cancelled or replaced row out of its status.
LEMMA CommitKeepsTerminal ==
  ASSUME IInv, NEW x \in Sessions, NEW op, NEW status \in MemberState,
         op # "idle", Commit(x, op, status)
  PROVE  TerminalStays
<1> DEFINE r == tx[x]
<1> SUFFICES ASSUME NEW s \in Subs, rows[s].status \in Terminal
             PROVE  rows'[s].status = rows[s].status
  BY DEF TerminalStays
<1>1. r.op = op /\ rows' = After(r) /\ Admissible(After(r))
  BY DEF Commit
<1>2. TypeOK /\ r \in Tx /\ r # Idle
  BY <1>1 DEF IInv, TypeOK, Idle
<1>3. rows[s] \in Row /\ Checks(rows[s]) /\ Exists(s)
  BY DEF IInv, TypeOK, StoredRowsPass, Exists, Terminal
<1>4. CASE s \notin Touched(r)
  BY <1>1, <1>4 DEF After
<1>5. CASE s \in Touched(r)
  <2>1. rows'[s] = Written(r, s)
    BY <1>1, <1>5 DEF After
  <2>2. Written(r, s) \in Row /\ Checks(Written(r, s))
    BY <1>1, <1>2, <1>5, <2>1, WrittenTyped DEF Admissible
  <2>3. CASE r.op = "create"
    BY <1>3, <1>5, <2>3, Statements DEF IInv, DrawnIdsFree, Inserts
  <2>4. CASE r.op = "freeze"
    <3>1. Written(r, s) = FrozenRow(rows[s], r)
      BY <2>4, Statements
    <3>2. QED
      BY <1>3, <2>1, <2>2, <3>1, StampsStay, StampsDecide
  <2>5. CASE r.op \in {"unfreeze", "auto_unfreeze"}
    <3>1. PICK e : Written(r, s) = ActiveRow(rows[s], e)
      BY <2>5, Statements
    <3>2. QED
      BY <1>3, <2>1, <2>2, <3>1, StampsStay, StampsDecide
  <2>6. CASE r.op = "renew"
    <3>1. Written(r, s) = RenewedRow(rows[s], r.expires)
      BY <2>6, Statements
    <3>2. QED
      BY <1>3, <2>1, <2>2, <3>1, StampsStay, StampsDecide
  <2>7. CASE r.op = "cancel"
    <3>1. Written(r, s) = CancelledRow(rows[s])
      BY <2>7, Statements
    <3>2. QED
      BY <1>3, <2>1, <2>2, <3>1, StampsStay, StampsDecide
  <2>8. CASE r.op = "change_plan"
    <3>1. s # r.new
      BY <1>3, <2>8 DEF IInv, DrawnIdsFree, Inserts
    <3>2. s = r.sub
      BY <1>5, <2>8, <3>1, Statements
    <3>3. Written(r, s) = ReplacedRow(rows[s], r.new)
      BY <2>8, <3>2, Statements
    <3>4. QED
      BY <1>3, <2>1, <2>2, <3>3, StampsStay, StampsDecide
  <2>9. CASE r.op = "auto_expire"
    <3>1. Written(r, s) = ExpiredRow(rows[s])
      BY <2>9, Statements
    <3>2. QED
      BY <1>3, <2>1, <2>2, <3>1, StampsStay, StampsDecide
  <2>10. QED
    BY <1>2, <2>3, <2>4, <2>5, <2>6, <2>7, <2>8, <2>9
       DEF Tx, CreateTx, RowTx, ChangeTx, BatchTx, RowOps, BatchOps
<1>6. QED
  BY <1>4, <1>5

\* No step does: only commits write rows.
LEMMA TerminalStep == IInv /\ [Next]_vars => TerminalStays
<1> SUFFICES ASSUME IInv, [Next]_vars PROVE TerminalStays
  OBVIOUS
<1>1. CASE \E x \in Sessions : Finish(x)
  <2>1. PICK x \in Sessions : Finish(x)
    BY <1>1
  <2>2. PICK op \in {"create", "freeze", "unfreeze", "renew", "cancel",
                     "change_plan", "auto_unfreeze", "auto_expire"},
             status \in MemberState : Commit(x, op, status)
    BY <2>1 DEF Finish, MemberState, Live, CommitCreate, CommitFreeze,
       CommitUnfreeze, CommitRenew, CommitCancel, CommitChangePlan,
       CommitAutoUnfreeze, CommitAutoExpire
  <2>3. QED
    BY <2>2, CommitKeepsTerminal
<1>2. CASE UNCHANGED rows
  BY <1>2 DEF TerminalStays
<1>3. CASE Next /\ ~ \E x \in Sessions : Finish(x)
  <2>1. UNCHANGED rows
    BY <1>3 DEF Next, Staff, Beat, ReadCreate, ReadFreeze, ReadUnfreeze, ReadRenew,
       ReadCancel, ReadChangePlan, ReadAutoUnfreeze, ReadAutoExpire, PrepareRow,
       Prepare, Refuse, Crash, Rollback, NextDay
  <2>2. QED
    BY <1>2, <2>1
<1>4. QED
  BY <1>1, <1>2, <1>3 DEF vars

\* A cancelled or replaced subscription never comes back, however stale the
\* statement that hits it.
THEOREM TerminalForGood == Spec => TerminalIsFinal
BY Inductive, TerminalStep, PTL DEF Spec, TerminalIsFinal

-----------------------------------------------------------------------------
(* Plan changes.  A pending change of plan names a plan other than the     *)
(* row's, and rows keep their member and plan for good, so the successor   *)
(* found at COMMIT still differs.                                          *)

SwapsDiffer == \A x \in Sessions :
    tx[x].op = "change_plan" => tx[x].plan # rows[tx[x].sub].plan

SInv == IInv /\ SwapsDiffer /\ ReplacedHasSuccessor

\* No statement changes whose subscription it is or for which plan.
LEMMA IdentityStays ==
  ASSUME NEW row \in Row, NEW e, NEW r, NEW n
  PROVE  \A new \in {FrozenRow(row, r), ActiveRow(row, e), ExpiredRow(row),
                     RenewedRow(row, e), CancelledRow(row),
                     ReplacedRow(row, n)} :
             new.member = row.member /\ new.plan = row.plan
BY DEF Row, FrozenRow, ActiveRow, ExpiredRow, RenewedRow, CancelledRow,
       ReplacedRow

\* Only change_plan leaves a row replaced.
LEMMA SuccessorStays ==
  ASSUME NEW row \in Row, NEW e, NEW r
  PROVE  \A new \in {FrozenRow(row, r), ActiveRow(row, e), ExpiredRow(row),
                     RenewedRow(row, e), CancelledRow(row)} :
             new.status # "replaced"
BY DEF Row, FrozenRow, ActiveRow, ExpiredRow, RenewedRow, CancelledRow

\* An existing row that a transaction touches is updated, never inserted.
LEMMA UpdatesOfExisting ==
  ASSUME IInv, NEW x \in Sessions, tx[x] # Idle, NEW s \in Touched(tx[x]),
         Exists(s)
  PROVE  /\ Written(tx[x], s).member = rows[s].member
         /\ Written(tx[x], s).plan = rows[s].plan
         /\ tx[x].op # "change_plan" => Written(tx[x], s).status # "replaced"
         /\ tx[x].op = "change_plan" =>
              s = tx[x].sub /\ Written(tx[x], s) = ReplacedRow(rows[s], tx[x].new)
<1> DEFINE r == tx[x]
<1>1. TypeOK /\ r \in Tx
  BY DEF IInv, TypeOK
<1>2. s \in Subs
  BY <1>1, WrittenTyped
<1>3. rows[s] \in Row
  BY <1>1, <1>2 DEF TypeOK
<1>4. r.op # "create"
  BY Statements DEF IInv, DrawnIdsFree, Inserts
<1>5. CASE r.op = "change_plan"
  <2>1. s # r.new
    BY <1>5 DEF IInv, DrawnIdsFree, Inserts
  <2>2. s = r.sub
    BY <1>5, <2>1, Statements
  <2>3. Written(r, s) = ReplacedRow(rows[s], r.new)
    BY <1>5, <2>2, Statements
  <2>4. QED
    BY <1>3, <1>5, <2>2, <2>3, IdentityStays
<1>6. CASE r.op # "change_plan"
  <2>1. PICK e : Written(r, s) \in
          {FrozenRow(rows[s], r), ActiveRow(rows[s], e), ExpiredRow(rows[s]),
           RenewedRow(rows[s], e), CancelledRow(rows[s])}
    <3>1. CASE r.op = "freeze"
      BY <3>1, Statements
    <3>2. CASE r.op \in {"unfreeze", "renew"}
      BY <3>2, Statements
    <3>3. CASE r.op = "auto_unfreeze"
      BY <3>3, Statements
    <3>4. CASE r.op \in {"cancel", "auto_expire"}
      BY <3>4, Statements
    <3>5. QED
      BY <1>1, <1>4, <1>6, <3>1, <3>2, <3>3, <3>4
         DEF Tx, CreateTx, RowTx, ChangeTx, BatchTx, RowOps, BatchOps
  <2>2. QED
    BY <1>3, <1>6, <2>1, IdentityStays, SuccessorStays
<1>7. QED
  BY <1>5, <1>6

\* A commit keeps the invariant about plan changes, committed and prepared.
LEMMA CommitKeepsSInv ==
  ASSUME SInv, NEW x \in Sessions, NEW op, NEW status \in MemberState,
         op # "idle", Commit(x, op, status)
  PROVE  SwapsDiffer' /\ ReplacedHasSuccessor'
<1> DEFINE r == tx[x]
<1>1. r.op = op /\ rows' = After(r) /\ tx' = [tx EXCEPT ![x] = Idle]
  BY DEF Commit
<1>2. IInv /\ TypeOK /\ r \in Tx /\ r # Idle
  BY <1>1 DEF SInv, IInv, TypeOK, Idle
<1>3. ASSUME NEW s \in Subs, Exists(s)
      PROVE  /\ rows'[s].member = rows[s].member
             /\ rows'[s].plan = rows[s].plan
             /\ rows'[s].status # "none"
  <2>1. CASE s \in Touched(r)
    BY <1>1, <1>2, <1>3, <2>1, UpdatesOfExisting, WrittenTyped DEF After
  <2>2. CASE s \notin Touched(r)
    BY <1>1, <1>3, <2>2 DEF After, Exists
  <2>3. QED
    BY <2>1, <2>2
<1>4. SwapsDiffer'
  <2>1. ASSUME NEW y \in Sessions, tx'[y].op = "change_plan"
        PROVE  tx'[y].plan # rows'[tx'[y].sub].plan
    <3>1. y # x /\ tx'[y] = tx[y]
      BY <1>1, <1>2, <2>1 DEF Idle, TypeOK
    <3>2. tx[y].sub \in Subs /\ Exists(tx[y].sub)
      BY <1>2, <2>1, <3>1, TxKinds DEF IInv, TypeOK, TargetsExist, ChangeTx
    <3>3. QED
      BY <1>3, <2>1, <3>1, <3>2 DEF SInv, SwapsDiffer
  <2>2. QED
    BY <2>1 DEF SwapsDiffer
<1>5. ASSUME NEW s \in Subs, rows'[s].status = "replaced",
             ~(op = "change_plan" /\ s = r.sub)
      PROVE  rows'[s] = rows[s]
  <2>1. s \notin Touched(r)
    <3>1. SUFFICES ASSUME s \in Touched(r) PROVE FALSE
      OBVIOUS
    <3>2. rows'[s] = Written(r, s)
      BY <1>1, <3>1 DEF After
    <3>3. CASE Exists(s)
      BY <1>1, <1>2, <1>5, <3>1, <3>2, <3>3, UpdatesOfExisting
    <3>4. CASE ~Exists(s)
      <4>1. Inserts(r)
        BY <1>2, <3>1, <3>4, Statements, TxKinds
           DEF IInv, TargetsExist, Inserts, Tx, CreateTx, RowTx, ChangeTx,
               BatchTx, RowOps, BatchOps
      <4>2. Written(r, s).status = "active"
        BY <1>1, <1>5, <4>1, Statements DEF Inserts, NewRow
      <4>3. QED
        BY <1>5, <3>2, <4>2
    <3>5. QED
      BY <3>3, <3>4
  <2>2. QED
    BY <1>1, <2>1 DEF After
<1>6. ASSUME NEW s \in Subs, rows'[s].status = "replaced"
      PROVE  /\ rows'[s].successor # NoSub
             /\ rows'[rows'[s].successor].status # "none"
             /\ rows'[rows'[s].successor].member = rows'[s].member
             /\ rows'[rows'[s].successor].plan # rows'[s].plan
  <2>1. CASE op = "change_plan" /\ s = r.sub
    <3>1. r \in ChangeTx /\ r.new \in Subs
      BY <1>1, <1>2, <2>1, TxKinds DEF ChangeTx
    <3>2. Exists(s) /\ r.new # s
      BY <1>1, <1>2, <2>1 DEF IInv, TargetsExist, DrawnIdsFree, Inserts
    <3>3. s \in Touched(r) /\ r.new \in Touched(r)
      BY <1>1, <2>1, Statements
    <3>4. rows'[s] = ReplacedRow(rows[s], r.new)
      BY <1>1, <2>1, <3>3, Statements DEF After
    <3>5. rows'[r.new] = NewRow(rows[s].member, r.plan, r.expires)
      BY <1>1, <2>1, <3>1, <3>2, <3>3, Statements DEF After
    <3>6. rows[s] \in Row
      BY <1>2 DEF TypeOK
    <3>7. rows'[s].successor = r.new
      BY <3>4, <3>6 DEF ReplacedRow, Row
    <3>8. r.plan # rows[s].plan
      BY <1>1, <2>1 DEF SInv, SwapsDiffer
    <3>9. QED
      BY <1>3, <3>1, <3>2, <3>5, <3>7, <3>8, SubsAssumption DEF NewRow
  <2>2. CASE ~(op = "change_plan" /\ s = r.sub)
    <3>1. rows'[s] = rows[s]
      BY <1>5, <1>6, <2>2
    <3>2. /\ rows[s].successor # NoSub
          /\ Exists(rows[s].successor)
          /\ rows[rows[s].successor].member = rows[s].member
          /\ rows[rows[s].successor].plan # rows[s].plan
      BY <1>6, <3>1 DEF SInv, ReplacedHasSuccessor
    <3>3. rows[s].successor \in Subs
      BY <1>2, <3>2 DEF TypeOK, Row
    <3>4. QED
      BY <1>3, <3>1, <3>2, <3>3
  <2>3. QED
    BY <2>1, <2>2
<1>7. QED
  BY <1>4, <1>6 DEF ReplacedHasSuccessor, Exists

\* Every step keeps the invariant about plan changes.
LEMMA NextSInv == SInv /\ [Next]_vars => SInv'
<1> SUFFICES ASSUME SInv, [Next]_vars PROVE SInv'
  OBVIOUS
<1>1. IInv /\ IInv'
  BY NextIInv DEF SInv
<1>2. tx \in [Sessions -> Tx]
  BY <1>1 DEF IInv, TypeOK
<1>3. ASSUME UNCHANGED rows,
             \A x \in Sessions : tx'[x].op = "change_plan" =>
               tx'[x] = tx[x] \/ tx'[x].plan # rows[tx'[x].sub].plan
      PROVE  SInv'
  BY <1>1, <1>3 DEF SInv, SwapsDiffer, ReplacedHasSuccessor, Exists
<1>4. ASSUME NEW x \in Sessions, NEW r, Prepare(x, r),
             r.op = "change_plan" => r.plan # rows[r.sub].plan
      PROVE  SInv'
  BY <1>2, <1>3, <1>4 DEF Prepare
<1>5. ASSUME NEW x \in Sessions, Staff(x) PROVE SInv'
  <2>1. CASE \E m \in Members, p \in Plans, d \in Entered : ReadCreate(x, m, p, d)
    BY <1>4, <2>1 DEF ReadCreate
  <2>2. ASSUME NEW s \in Subs, NEW p \in Plans, ReadChangePlan(x, s, p)
        PROVE  SInv'
    BY <1>4, <2>2 DEF ReadChangePlan
  <2>3. ASSUME NEW s, NEW op \in RowOps, NEW until, NEW e,
               PrepareRow(x, op, s, until, e)
        PROVE  SInv'
    BY <1>4, <2>3 DEF PrepareRow, RowOps
  <2>4. QED
    BY <1>5, <2>1, <2>2, <2>3
       DEF Staff, ReadFreeze, ReadUnfreeze, ReadRenew, ReadCancel, RowOps
<1>6. ASSUME NEW x \in Sessions, Beat(x) PROVE SInv'
  BY <1>4, <1>6 DEF Beat, ReadAutoUnfreeze, ReadAutoExpire
<1>7. ASSUME NEW x \in Sessions, Finish(x) PROVE SInv'
  <2>1. PICK op \in {"create", "freeze", "unfreeze", "renew", "cancel",
                     "change_plan", "auto_unfreeze", "auto_expire"},
             status \in MemberState : Commit(x, op, status)
    BY <1>7 DEF Finish, MemberState, Live, CommitCreate, CommitFreeze,
       CommitUnfreeze, CommitRenew, CommitCancel, CommitChangePlan,
       CommitAutoUnfreeze, CommitAutoExpire
  <2>2. QED
    BY <1>1, <2>1, CommitKeepsSInv DEF SInv
<1>8. ASSUME NEW x \in Sessions, Refuse(x) \/ Crash(x) PROVE SInv'
  BY <1>2, <1>3, <1>8 DEF Refuse, Crash, Rollback, Idle
<1>9. CASE NextDay \/ UNCHANGED vars
  BY <1>3, <1>9 DEF NextDay, vars
<1>10. QED
  BY <1>5, <1>6, <1>7, <1>8, <1>9 DEF Next

\* A committed plan change is complete: the replaced subscription names an
\* existing successor of the same member on another plan.
THEOREM PlanChangesComplete == Spec => []ReplacedHasSuccessor
<1>1. Init => SInv
  BY InitIInv DEF Init, SInv, SwapsDiffer, ReplacedHasSuccessor, Idle, NewRow
<1>2. SInv => ReplacedHasSuccessor
  BY DEF SInv
<1>3. QED
  BY <1>1, <1>2, NextSInv, PTL DEF Spec

-----------------------------------------------------------------------------
(* The status a member is shown with.  A commit gives the member of every  *)
(* row it writes the status of a row it writes; the members it leaves      *)
(* alone have lost none of their rows.                                     *)

\* The status each kind of transaction hands to _sync_member_status.
StatusOf == {<<"create", "active">>, <<"freeze", "frozen">>,
             <<"unfreeze", "active">>, <<"renew", "active">>,
             <<"cancel", "cancelled">>, <<"change_plan", "active">>,
             <<"auto_unfreeze", "active">>, <<"auto_expire", "expired">>}

\* A session finishes with the commit of one operation.
LEMMA Finishes ==
  ASSUME NEW x \in Sessions, Finish(x)
  PROVE  \E op, status : /\ <<op, status>> \in StatusOf
                         /\ op # "idle" /\ status \in MemberState
                         /\ Commit(x, op, status)
BY DEF Finish, StatusOf, MemberState, Live, CommitCreate, CommitFreeze,
       CommitUnfreeze, CommitRenew, CommitCancel, CommitChangePlan,
       CommitAutoUnfreeze, CommitAutoExpire

\* Whatever else a session or the calendar does, the tables stay as they are.
LEMMA QuietSteps ==
  ASSUME [Next]_vars, ~ \E x \in Sessions : Finish(x)
  PROVE  UNCHANGED <<rows, memberStatus, cancelEvents>>
BY DEF Next, Staff, Beat, ReadCreate, ReadFreeze, ReadUnfreeze, ReadRenew,
       ReadCancel, ReadChangePlan, ReadAutoUnfreeze, ReadAutoExpire, PrepareRow,
       Prepare, Refuse, Crash, Rollback, NextDay, vars

\* Every row a transaction writes gets that status, but for the row that a
\* plan change retires: there the new row has it.
LEMMA WrittenStatus ==
  ASSUME TypeOK, NEW r \in Tx, NEW op, NEW status, r.op = op,
         <<op, status>> \in StatusOf, NEW s \in Touched(r)
  PROVE  \/ Written(r, s).status = status
         \/ op = "change_plan" /\ s = r.sub
<1>1. r # Idle
  BY DEF Idle, StatusOf
<1>2. s \in Subs
  BY <1>1, WrittenTyped
<1>3. rows[s] \in Row
  BY <1>2 DEF TypeOK
<1>4. CASE op = "create"
  BY <1>4, Statements DEF StatusOf, NewRow
<1>5. CASE op = "change_plan"
  BY <1>5, Statements DEF StatusOf, NewRow
<1>6. CASE op = "freeze"
  <2>1. Written(r, s) = FrozenRow(rows[s], r)
    BY <1>6, Statements
  <2>2. QED
    BY <1>3, <1>6, <2>1, StampsStay DEF StatusOf
<1>7. CASE op \in {"unfreeze", "renew", "auto_unfreeze"}
  <2>1. PICK e : \/ Written(r, s) = ActiveRow(rows[s], e)
                 \/ Written(r, s) = RenewedRow(rows[s], e)
    BY <1>7, Statements
  <2>2. QED
    BY <1>3, <1>7, <2>1, StampsStay DEF StatusOf
<1>8. CASE op \in {"cancel", "auto_expire"}
  BY <1>3, <1>8, Statements, StampsStay DEF StatusOf
<1>9. QED
  BY <1>4, <1>5, <1>6, <1>7, <1>8 DEF StatusOf

\* A plan change writes two rows of one member, and the new one is active.
LEMMA ChangeWrites ==
  ASSUME IInv, NEW x \in Sessions, tx[x].op = "change_plan"
  PROVE  /\ tx[x].sub \in Subs /\ tx[x].new \in Subs /\ tx[x].sub # tx[x].new
         /\ Exists(tx[x].sub) /\ ~Exists(tx[x].new)
         /\ Touched(tx[x]) = {tx[x].sub, tx[x].new}
         /\ After(tx[x])[tx[x].sub] = ReplacedRow(rows[tx[x].sub], tx[x].new)
         /\ After(tx[x])[tx[x].new] =
              NewRow(rows[tx[x].sub].member, tx[x].plan, tx[x].expires)
         /\ After(tx[x])[tx[x].new].member = After(tx[x])[tx[x].sub].member
<1> DEFINE r == tx[x]
<1>1. r \in ChangeTx
  BY TxKinds DEF IInv, TypeOK
<1>2. r.sub \in Subs /\ r.new \in Subs
  BY <1>1 DEF ChangeTx
<1>3. Exists(r.sub) /\ ~Exists(r.new)
  BY DEF IInv, TargetsExist, DrawnIdsFree, Inserts
<1>4. r.sub # r.new
  BY <1>3
<1>5. Touched(r) = {r.sub, r.new}
  BY Statements
<1>6. After(r)[r.sub] = ReplacedRow(rows[r.sub], r.new)
  BY <1>2, <1>5, Statements DEF After
<1>7. After(r)[r.new] = NewRow(rows[r.sub].member, r.plan, r.expires)
  BY <1>2, <1>4, <1>5, Statements DEF After
<1>8. ReplacedRow(rows[r.sub], r.new).member = rows[r.sub].member
  BY <1>2, IdentityStays DEF IInv, TypeOK
<1>9. NewRow(rows[r.sub].member, r.plan, r.expires).member = rows[r.sub].member
  BY DEF NewRow
<1>10. QED
  BY <1>2, <1>3, <1>4, <1>5, <1>6, <1>7, <1>8, <1>9

\* A commit keeps every shown status covered.
LEMMA CommitKeepsCovered ==
  ASSUME IInv, StatusIsCovered, NEW x \in Sessions, NEW op, NEW status,
         <<op, status>> \in StatusOf, op # "idle", Commit(x, op, status)
  PROVE  StatusIsCovered'
<1> DEFINE r == tx[x]
           ms == {After(r)[s].member : s \in Touched(r)}
<1>1. /\ r.op = op /\ rows' = After(r)
      /\ memberStatus' = [m \in Members |-> IF m \in ms THEN status
                                                        ELSE memberStatus[m]]
  BY DEF Commit, Synced
<1>2. TypeOK /\ r \in Tx /\ r # Idle
  BY <1>1 DEF IInv, TypeOK, Idle
<1>3. \A s \in Touched(r) : s \in Subs /\ rows'[s] = Written(r, s)
  BY <1>1, <1>2, WrittenTyped DEF After
<1>4. \A s \in Subs : s \notin Touched(r) => rows'[s] = rows[s]
  BY <1>1 DEF After
<1>5. SUFFICES ASSUME NEW m \in Members, memberStatus'[m] \in Live,
                      NEW z \in Subs, Exists(z)', rows'[z].member = m
               PROVE  \E s \in Subs : /\ rows'[s].member = m
                                      /\ rows'[s].status = memberStatus'[m]
  BY DEF StatusIsCovered
<1>6. CASE m \in ms
  <2>1. memberStatus'[m] = status
    BY <1>1, <1>6
  <2>2. PICK t \in Touched(r) : rows'[t].member = m
    BY <1>1, <1>6
  <2>3. CASE Written(r, t).status = status
    BY <1>3, <2>1, <2>2, <2>3
  <2>4. CASE op = "change_plan" /\ t = r.sub
    <3>1. r.new \in Subs /\ r.new \in Touched(r) /\ r.new # r.sub
      BY <1>1, <2>4, ChangeWrites
    <3>2. rows'[r.new].member = m
      BY <1>1, <2>2, <2>4, ChangeWrites
    <3>3. rows'[r.new].status = status
      BY <1>1, <1>2, <1>3, <3>1, WrittenStatus
    <3>4. QED
      BY <2>1, <3>1, <3>2, <3>3
  <2>5. QED
    BY <1>1, <1>2, <2>2, <2>3, <2>4, WrittenStatus
<1>7. CASE m \notin ms
  <2>1. memberStatus'[m] = memberStatus[m]
    BY <1>1, <1>7
  <2>2. \A s \in Subs : rows'[s].member = m => rows'[s] = rows[s]
    BY <1>1, <1>4, <1>7
  <2>3. Exists(z) /\ rows[z].member = m
    BY <1>5, <2>2 DEF Exists
  <2>4. PICK s \in Subs : rows[s].member = m /\ rows[s].status = memberStatus[m]
    BY <1>5, <2>1, <2>3 DEF StatusIsCovered
  <2>5. Exists(s)
    BY <1>5, <2>1, <2>4 DEF Exists, Live
  <2>6. s \notin Touched(r)
    BY <1>1, <1>2, <1>3, <1>7, <2>4, <2>5, UpdatesOfExisting
  <2>7. QED
    BY <1>4, <2>1, <2>4, <2>6
<1>8. QED
  BY <1>6, <1>7

\* Every step does.
LEMMA NextCovered ==
  IInv /\ StatusIsCovered /\ [Next]_vars => StatusIsCovered'
<1> SUFFICES ASSUME IInv, StatusIsCovered, [Next]_vars PROVE StatusIsCovered'
  OBVIOUS
<1>1. ASSUME NEW x \in Sessions, Finish(x) PROVE StatusIsCovered'
  BY <1>1, Finishes, CommitKeepsCovered
<1>2. CASE UNCHANGED <<rows, memberStatus, cancelEvents>>
  BY <1>2 DEF StatusIsCovered, Exists
<1>3. QED
  BY <1>1, <1>2, QuietSteps

\* However requests and jobs overlap, a member who has subscribed is shown as
\* active or frozen only with a subscription in that very state.
THEOREM ShownStatusIsCovered == Spec => []StatusIsCovered
<1>1. Init => StatusIsCovered
  BY DEF Init, StatusIsCovered, Exists, NewRow
<1>2. QED
  BY <1>1, Inductive, NextCovered, PTL DEF Spec

-----------------------------------------------------------------------------
(* What a commit is to the state machine of SubscriptionLifecycle: an       *)
(* enrolment, a plan change, or a move of the rows it touches to one       *)
(* status.  The rows that have that status already do not move.            *)

Moved(r, status) == {s \in Touched(r) : rows[s].status # status}

\* Inserting a row enrols its member.
LEMMA CreateEnrols ==
  ASSUME IInv, NEW x \in Sessions, tx[x].op = "create", rows' = After(tx[x])
  PROVE  Raced!Enrol(tx[x].new, tx[x].member)
<1> DEFINE r == tx[x]
           n == r.new
<1>1. r \in CreateTx /\ n \in Subs /\ r.member \in Members
  BY TxKinds DEF IInv, TypeOK, CreateTx
<1>2. Touched(r) = {n}
  BY Statements
<1>3. rows'[n] = NewRow(r.member, r.plan, r.expires)
  BY <1>1, <1>2, Statements DEF After
<1>4. \A s \in Subs : s # n => rows'[s] = rows[s]
  BY <1>2 DEF After
<1>5. rows[n].status = "none" /\ rows[n].successor = NoSub
  BY <1>1 DEF IInv, DrawnIdsFree, Inserts, Exists, StoredRowsPass, Checks,
              ReplacedShape
<1>6. /\ rows'[n].status = "active" /\ rows'[n].member = r.member
      /\ rows'[n].successor = NoSub
  BY <1>3 DEF NewRow
<1>7. StateOf' = [StateOf EXCEPT ![n] = "active"]
  BY <1>4, <1>6 DEF StateOf
<1>8. OwnerOf' = [OwnerOf EXCEPT ![n] = r.member]
  BY <1>4, <1>6 DEF OwnerOf
<1>9. SuccessorOf' = SuccessorOf
  BY <1>4, <1>5, <1>6 DEF SuccessorOf
<1>10. StateOf[n] = "none"
  BY <1>1, <1>5 DEF StateOf
<1>11. QED
  BY <1>7, <1>8, <1>9, <1>10 DEF Raced!Enrol

\* A plan change writes exactly what Replace writes.
LEMMA ChangeReplaces ==
  ASSUME IInv, NEW x \in Sessions, tx[x].op = "change_plan",
         rows' = After(tx[x])
  PROVE  /\ StateOf[tx[x].new] = "none"
         /\ StateOf' = [StateOf EXCEPT ![tx[x].sub] = "replaced",
                                       ![tx[x].new] = "active"]
         /\ OwnerOf' = [OwnerOf EXCEPT ![tx[x].new] = OwnerOf[tx[x].sub]]
         /\ SuccessorOf' = [SuccessorOf EXCEPT ![tx[x].sub] = tx[x].new]
<1> DEFINE r == tx[x]
           o == r.sub
           n == r.new
<1>1. /\ o \in Subs /\ n \in Subs /\ o # n /\ Exists(o) /\ ~Exists(n)
      /\ Touched(r) = {o, n}
      /\ rows'[o] = ReplacedRow(rows[o], n)
      /\ rows'[n] = NewRow(rows[o].member, r.plan, r.expires)
  BY ChangeWrites
<1>2. \A s \in Subs : s # o /\ s # n => rows'[s] = rows[s]
  BY <1>1 DEF After
<1>3. rows[o] \in Row
  BY <1>1 DEF IInv, TypeOK
<1>4. /\ rows'[o].status = "replaced" /\ rows'[o].member = rows[o].member
      /\ rows'[o].successor = n
  BY <1>1, <1>3 DEF ReplacedRow, Row
<1>5. /\ rows'[n].status = "active" /\ rows'[n].member = rows[o].member
      /\ rows'[n].successor = NoSub
  BY <1>1 DEF NewRow
<1>6. rows[n].status = "none" /\ rows[n].successor = NoSub
  BY <1>1 DEF IInv, Exists, StoredRowsPass, Checks, ReplacedShape
<1>7. StateOf' = [StateOf EXCEPT ![o] = "replaced", ![n] = "active"]
  BY <1>1, <1>2, <1>4, <1>5 DEF StateOf
<1>8. OwnerOf' = [OwnerOf EXCEPT ![n] = OwnerOf[o]]
  BY <1>1, <1>2, <1>4, <1>5 DEF OwnerOf
<1>9. SuccessorOf' = [SuccessorOf EXCEPT ![o] = n]
  BY <1>1, <1>2, <1>4, <1>5, <1>6 DEF SuccessorOf
<1>10. StateOf[n] = "none"
  BY <1>1, <1>6 DEF StateOf
<1>11. QED
  BY <1>7, <1>8, <1>9, <1>10

\* Only change_plan writes the link to the successor.
LEMMA LinkStays ==
  ASSUME NEW row \in Row, NEW e, NEW r
  PROVE  \A new \in {FrozenRow(row, r), ActiveRow(row, e), ExpiredRow(row),
                     RenewedRow(row, e), CancelledRow(row)} :
             new.successor = row.successor
BY DEF Row, FrozenRow, ActiveRow, ExpiredRow, RenewedRow, CancelledRow

\* Every other commit moves rows to its status and writes nothing else that
\* the state machine sees.
LEMMA OthersMove ==
  ASSUME IInv, NEW x \in Sessions, NEW op, NEW status, tx[x].op = op,
         <<op, status>> \in StatusOf, op \notin {"create", "change_plan"},
         rows' = After(tx[x]), Admissible(After(tx[x]))
  PROVE  /\ Moved(tx[x], status) \subseteq Subs
         /\ StateOf' = [s \in Subs |-> IF s \in Moved(tx[x], status)
                                       THEN status ELSE StateOf[s]]
         /\ OwnerOf' = OwnerOf
         /\ SuccessorOf' = SuccessorOf
<1> DEFINE r == tx[x]
<1>1. TypeOK /\ r \in Tx /\ r # Idle
  BY DEF IInv, TypeOK, Idle, StatusOf
<1>2. \A s \in Touched(r) : s \in Subs /\ rows'[s] = Written(r, s)
  BY <1>1, WrittenTyped DEF After
<1>3. ASSUME NEW s \in Touched(r)
      PROVE  /\ rows'[s].status = status
             /\ rows'[s].member = rows[s].member
             /\ rows'[s].successor = rows[s].successor
  <2>1. rows[s] \in Row /\ Exists(s)
    <3>1. op \in RowOps \cup BatchOps
      BY DEF StatusOf, RowOps, BatchOps
    <3>2. Exists(s)
      BY <3>1, Statements DEF IInv, TargetsExist, RowOps, BatchOps
    <3>3. QED
      BY <1>1, <1>2, <3>2 DEF TypeOK
  <2>2. rows'[s].status = status /\ rows'[s].member = rows[s].member
    BY <1>1, <1>2, <2>1, WrittenStatus, UpdatesOfExisting
  <2>3. rows'[s].successor = rows[s].successor
    <3>1. PICK e : Written(r, s) \in
            {FrozenRow(rows[s], r), ActiveRow(rows[s], e), ExpiredRow(rows[s]),
             RenewedRow(rows[s], e), CancelledRow(rows[s])}
      <4>1. CASE op = "freeze"
        BY <4>1, Statements
      <4>2. CASE op \in {"unfreeze", "renew"}
        BY <4>2, Statements
      <4>3. CASE op = "auto_unfreeze"
        BY <4>3, Statements
      <4>4. CASE op \in {"cancel", "auto_expire"}
        BY <4>4, Statements
      <4>5. QED
        BY <4>1, <4>2, <4>3, <4>4 DEF StatusOf
    <3>2. QED
      BY <1>2, <2>1, <3>1, LinkStays
  <2>4. QED
    BY <2>2, <2>3
<1>4. \A s \in Subs : s \notin Touched(r) => rows'[s] = rows[s]
  BY DEF After
<1>5. Moved(r, status) \subseteq Subs
  BY <1>2 DEF Moved
<1>6. StateOf' = [s \in Subs |-> IF s \in Moved(r, status)
                                 THEN status ELSE StateOf[s]]
  BY <1>3, <1>4 DEF StateOf, Moved
<1>7. OwnerOf' = OwnerOf
  BY <1>3, <1>4 DEF OwnerOf
<1>8. SuccessorOf' = SuccessorOf
  BY <1>3, <1>4 DEF SuccessorOf
<1>9. QED
  BY <1>5, <1>6, <1>7, <1>8

\* Which rows the CHECK constraints let a statement hit: a frozen row can be
\* neither cancelled nor replaced nor expired nor renewed, because no statement
\* but an unfreeze clears frozen_at.
LEMMA ConstraintsDecide ==
  ASSUME NEW row \in Row, Checks(row), row.status # "none",
         NEW e, NEW r, NEW n
  PROVE  /\ Checks(FrozenRow(row, r))
              => row.status \in {"active", "frozen", "expired"}
         /\ Checks(ActiveRow(row, e))
              => row.status \in {"active", "frozen", "expired"}
         /\ Checks(RenewedRow(row, e)) => row.status \in {"active", "expired"}
         /\ Checks(ExpiredRow(row)) => row.status \in {"active", "expired"}
         /\ Checks(CancelledRow(row))
              => row.status \in {"active", "expired", "cancelled"}
         /\ Checks(ReplacedRow(row, n))
              => row.status \in {"active", "expired", "replaced"}
<1>1. /\ row.status \in {"active", "frozen", "cancelled", "replaced", "expired"}
      /\ row.status = "frozen" <=> row.frozenAt # NoDate
      /\ row.status = "cancelled" <=> row.cancelled
      /\ row.status = "replaced" <=> row.replaced
  BY DEF Row, RowStatus, Live, Terminal, Checks, FrozenShape, CancelledShape,
         ReplacedShape
<1>2. ASSUME Checks(FrozenRow(row, r))
      PROVE  row.status \in {"active", "frozen", "expired"}
  BY <1>1, <1>2 DEF Checks, CancelledShape, ReplacedShape, FrozenRow, Row
<1>3. ASSUME Checks(ActiveRow(row, e))
      PROVE  row.status \in {"active", "frozen", "expired"}
  BY <1>1, <1>3 DEF Checks, CancelledShape, ReplacedShape, ActiveRow, Row
<1>4. ASSUME Checks(RenewedRow(row, e))
      PROVE  row.status \in {"active", "expired"}
  BY <1>1, <1>4 DEF Checks, FrozenShape, CancelledShape, ReplacedShape,
                    RenewedRow, Row
<1>5. ASSUME Checks(ExpiredRow(row))
      PROVE  row.status \in {"active", "expired"}
  BY <1>1, <1>5 DEF Checks, FrozenShape, CancelledShape, ReplacedShape,
                    ExpiredRow, Row
<1>6. ASSUME Checks(CancelledRow(row))
      PROVE  row.status \in {"active", "expired", "cancelled"}
  BY <1>1, <1>6 DEF Checks, FrozenShape, ReplacedShape, CancelledRow, Row
<1>7. ASSUME Checks(ReplacedRow(row, n))
      PROVE  row.status \in {"active", "expired", "replaced"}
  BY <1>1, <1>7 DEF Checks, FrozenShape, CancelledShape, ReplacedRow, Row
<1>8. QED
  BY <1>2, <1>3, <1>4, <1>5, <1>6, <1>7

\* What a commit may find in a row that it moves or replaces.
LEMMA FoundStatus ==
  ASSUME IInv, NEW x \in Sessions, Admissible(After(tx[x])),
         NEW s \in Touched(tx[x]), tx[x].op # "create",
         tx[x].op = "change_plan" => s = tx[x].sub
  PROVE  /\ tx[x].op \in {"freeze", "unfreeze", "auto_unfreeze"}
              => rows[s].status \in {"active", "frozen", "expired"}
         /\ tx[x].op \in {"renew", "auto_expire"}
              => rows[s].status \in {"active", "expired"}
         /\ tx[x].op = "cancel"
              => rows[s].status \in {"active", "expired", "cancelled"}
         /\ tx[x].op = "change_plan"
              => rows[s].status \in {"active", "expired", "replaced"}
<1> DEFINE r == tx[x]
<1>1. r # Idle
  BY DEF Touched, Idle, RowOps, BatchOps
<1>2. TypeOK /\ r \in Tx
  BY DEF IInv, TypeOK
<1>3. s \in Subs /\ Written(r, s) = After(r)[s]
  BY <1>1, <1>2, WrittenTyped DEF After
<1>4. Checks(Written(r, s))
  BY <1>3 DEF Admissible
<1>5. Exists(s)
  BY <1>1, <1>2, Statements
     DEF IInv, TargetsExist, Tx, CreateTx, RowTx, ChangeTx, BatchTx, RowOps,
         BatchOps
<1>6. rows[s] \in Row /\ Checks(rows[s]) /\ rows[s].status # "none"
  BY <1>2, <1>3, <1>5 DEF TypeOK, IInv, StoredRowsPass, Exists
<1>7. CASE r.op = "freeze"
  <2>1. Written(r, s) = FrozenRow(rows[s], r)
    BY <1>7, Statements
  <2>2. QED
    BY <1>4, <1>6, <1>7, <2>1, ConstraintsDecide
<1>8. CASE r.op \in {"unfreeze", "auto_unfreeze"}
  <2>1. PICK e : Written(r, s) = ActiveRow(rows[s], e)
    BY <1>8, Statements
  <2>2. QED
    BY <1>4, <1>6, <1>8, <2>1, ConstraintsDecide
<1>9. CASE r.op = "renew"
  <2>1. Written(r, s) = RenewedRow(rows[s], r.expires)
    BY <1>9, Statements
  <2>2. QED
    BY <1>4, <1>6, <1>9, <2>1, ConstraintsDecide
<1>10. CASE r.op = "auto_expire"
  <2>1. Written(r, s) = ExpiredRow(rows[s])
    BY <1>10, Statements
  <2>2. QED
    BY <1>4, <1>6, <1>10, <2>1, ConstraintsDecide
<1>11. CASE r.op = "cancel"
  <2>1. Written(r, s) = CancelledRow(rows[s])
    BY <1>11, Statements
  <2>2. QED
    BY <1>4, <1>6, <1>11, <2>1, ConstraintsDecide
<1>12. CASE r.op = "change_plan"
  <2>1. Written(r, s) = ReplacedRow(rows[s], r.new)
    BY <1>12, Statements
  <2>2. QED
    BY <1>4, <1>6, <1>12, <2>1, ConstraintsDecide
<1>13. QED
  BY <1>7, <1>8, <1>9, <1>10, <1>11, <1>12

\* The index keeps one live row per member in the state machine too.
LEMMA LiveOnce == UniqueLive(rows)' => Raced!OneEach' /\ Documented!OneEach'
BY DEF UniqueLive, Raced!OneEach, Documented!OneEach, Raced!Current,
       Documented!Current, StateOf, OwnerOf, Live

\* A commit is a step of the wider state machine.
LEMMA CommitIsRaced ==
  ASSUME IInv, NEW x \in Sessions, NEW op, NEW status,
         <<op, status>> \in StatusOf, op # "idle", Commit(x, op, status),
         IInv'
  PROVE  Raced!Next
<1> DEFINE r == tx[x]
<1>1. r.op = op /\ rows' = After(r) /\ Admissible(After(r))
  BY DEF Commit
<1>2. Raced!OneEach'
  BY LiveOnce DEF IInv
<1>3. CASE op = "create"
  <2>1. r.new \in Subs /\ r.member \in Members
    BY <1>1, <1>3, TxKinds DEF IInv, TypeOK, CreateTx
  <2>2. QED
    BY <1>1, <1>2, <1>3, <2>1, CreateEnrols DEF Raced!Next
<1>4. CASE op = "change_plan"
  <2>1. r.sub \in Subs /\ r.new \in Subs /\ r.sub \in Touched(r)
    BY <1>1, <1>4, ChangeWrites
  <2>2. rows[r.sub].status \in {"active", "expired", "replaced"}
    BY <1>1, <1>4, <2>1, FoundStatus
  <2>3. <<StateOf[r.sub], "replaced">> \in RacedMoves
    BY <2>1, <2>2 DEF StateOf, RacedMoves, DocumentedMoves
  <2>4. Raced!Replace(r.sub, r.new)
    BY <1>1, <1>4, <2>3, ChangeReplaces DEF Raced!Replace
  <2>5. QED
    BY <1>2, <2>1, <2>4 DEF Raced!Next
<1>5. CASE op \notin {"create", "change_plan"}
  <2> DEFINE D == Moved(r, status)
  <2>1. /\ D \subseteq Subs
        /\ StateOf' = [s \in Subs |-> IF s \in D THEN status ELSE StateOf[s]]
        /\ OwnerOf' = OwnerOf
        /\ SuccessorOf' = SuccessorOf
    BY <1>1, <1>5, OthersMove
  <2>2. ASSUME NEW s \in D PROVE <<StateOf[s], status>> \in RacedMoves
    <3>1. s \in Touched(r) /\ rows[s].status # status /\ s \in Subs
      BY <2>1 DEF Moved
    <3>2. /\ op \in {"freeze", "unfreeze", "auto_unfreeze"}
                => rows[s].status \in {"active", "frozen", "expired"}
          /\ op \in {"renew", "auto_expire"}
                => rows[s].status \in {"active", "expired"}
          /\ op = "cancel"
                => rows[s].status \in {"active", "expired", "cancelled"}
      BY <1>1, <1>5, <3>1, FoundStatus
    <3>3. <<rows[s].status, status>> \in RacedMoves
      BY <1>5, <3>1, <3>2 DEF StatusOf, RacedMoves, DocumentedMoves
    <3>4. QED
      BY <3>1, <3>3 DEF StateOf
  <2>3. status \in Raced!Targets /\ status # "replaced"
    <3>1. \A from : \A to : <<from, to>>[2] = to
      OBVIOUS
    <3>2. /\ <<"active", "frozen">> \in RacedMoves
          /\ <<"frozen", "active">> \in RacedMoves
          /\ <<"active", "expired">> \in RacedMoves
          /\ <<"active", "cancelled">> \in RacedMoves
      BY DEF RacedMoves, DocumentedMoves
    <3>3. {"frozen", "active", "expired", "cancelled"} \subseteq Raced!Targets
      BY <3>1, <3>2 DEF Raced!Targets
    <3>4. status \in {"frozen", "active", "expired", "cancelled"}
      BY DEF StatusOf
    <3>5. QED
      BY <3>3, <3>4
  <2>4. Raced!Move(D, status)
    BY <2>1, <2>2, <2>3 DEF Raced!Move
  <2>5. QED
    BY <1>2, <2>1, <2>3, <2>4 DEF Raced!Next
<1>6. QED
  BY <1>3, <1>4, <1>5

\* A step is a step of the wider state machine or leaves it where it is.
LEMMA StepIsRaced ==
  IInv /\ IInv' /\ [Next]_vars => [Raced!Next]_(Raced!avars)
<1> SUFFICES ASSUME IInv, IInv', [Next]_vars
             PROVE  [Raced!Next]_(Raced!avars)
  OBVIOUS
<1>1. ASSUME NEW x \in Sessions, Finish(x) PROVE Raced!Next
  BY <1>1, Finishes, CommitIsRaced
<1>2. CASE UNCHANGED <<rows, memberStatus, cancelEvents>>
  BY <1>2 DEF Raced!avars, StateOf, OwnerOf, SuccessorOf
<1>3. QED
  BY <1>1, <1>2, QuietSteps

\* Sessions that overlap implement the state machine with the three moves
\* that staleness adds to the documented table, and no others.
THEOREM ImplementsRacedLifecycle == Spec => FollowsRacedLifecycle
<1>1. Init => Raced!Init
  BY DEF Init, Raced!Init, StateOf, OwnerOf, SuccessorOf, NewRow
<1>2. QED
  BY <1>1, Inductive, StepIsRaced, PTL
     DEF Spec, FollowsRacedLifecycle, Raced!Spec

\* A frozen subscription can only be resumed.  The documented table also lets
\* it be cancelled or change plan, and both guards accept it, but the UPDATE
\* leaves frozen_at on the row and ck_subs_frozen_shape refuses the
\* transaction, with one session as with many.
FrozenOnlyThaws == [][\A s \in Subs : rows[s].status = "frozen"
                         => rows'[s].status \in {"frozen", "active"}]_vars

THEOREM FrozenIsOnlyResumed == Spec => FrozenOnlyThaws
<1>1. IInv /\ [Next]_vars => \A s \in Subs : rows[s].status = "frozen"
                               => rows'[s].status \in {"frozen", "active"}
  <2> SUFFICES ASSUME IInv, [Next]_vars, NEW s \in Subs,
                      rows[s].status = "frozen"
               PROVE  rows'[s].status \in {"frozen", "active"}
    OBVIOUS
  <2>1. ASSUME NEW x \in Sessions, Finish(x)
        PROVE  rows'[s].status \in {"frozen", "active"}
    <3>1. PICK op, status : /\ <<op, status>> \in StatusOf /\ op # "idle"
                            /\ Commit(x, op, status)
      BY <2>1, Finishes
    <3>2. /\ tx[x].op = op /\ rows' = After(tx[x])
          /\ Admissible(After(tx[x]))
      BY <3>1 DEF Commit
    <3>3. TypeOK /\ tx[x] \in Tx /\ tx[x] # Idle /\ Exists(s)
      BY <3>1, <3>2 DEF IInv, TypeOK, Idle, Exists
    <3>4. CASE s \notin Touched(tx[x])
      BY <3>2, <3>4 DEF After
    <3>5. CASE s \in Touched(tx[x])
      <4>1. op # "create"
        BY <3>2, <3>3, <3>5, Statements DEF IInv, DrawnIdsFree, Inserts
      <4>2. op = "change_plan" => s = tx[x].sub
        BY <3>2, <3>3, <3>5, UpdatesOfExisting
      <4>3. op \in {"freeze", "unfreeze", "auto_unfreeze"}
        BY <3>1, <3>2, <3>5, <4>1, <4>2, FoundStatus DEF StatusOf
      <4>4. rows'[s].status = status /\ status \in {"frozen", "active"}
        BY <3>1, <3>2, <3>3, <3>5, <4>3, WrittenStatus DEF After, StatusOf
      <4>5. QED
        BY <4>4
    <3>6. QED
      BY <3>4, <3>5
  <2>2. CASE UNCHANGED <<rows, memberStatus, cancelEvents>>
    BY <2>2
  <2>3. QED
    BY <2>1, <2>2, QuietSteps
<1>2. QED
  BY <1>1, Inductive, PTL DEF Spec, FrozenOnlyThaws

-----------------------------------------------------------------------------
(* Sessions that keep apart: any number of transactions may be in flight,  *)
(* as long as no two are about one subscription.  Then nothing but the     *)
(* calendar moves between a read and its commit as far as the transaction  *)
(* is concerned, and the guard that a request passed still holds when its  *)
(* statement is executed.                                                  *)

KeepApart ==
    \A x, y \in Sessions : x # y => Touched(tx[x]) \cap Touched(tx[y]) = {}

\* The simplest case: one transaction is over before another reads.
TakeTurns == \A x, y \in Sessions : tx[x] # Idle /\ tx[y] # Idle => x = y

\* The guard of a prepared transaction holds of the rows as they are.
StillMeant == \A x \in Sessions :
    /\ tx[x].op = "freeze"        => CanFreeze(rows[tx[x].sub])
    /\ tx[x].op = "unfreeze"      => CanUnfreeze(rows[tx[x].sub])
    /\ tx[x].op = "renew"         => CanRenew(rows[tx[x].sub])
    /\ tx[x].op = "cancel"        => CanCancel(rows[tx[x].sub])
    /\ tx[x].op = "change_plan"   => CanChangePlan(rows[tx[x].sub])
    /\ tx[x].op = "auto_unfreeze" => \A s \in tx[x].due : CanUnfreeze(rows[s])
    /\ tx[x].op = "auto_expire"   => \A s \in tx[x].due :
         /\ rows[s].status = "active"
         /\ rows[s].expires # NoDate
         /\ rows[s].expires < today

\* The expiry that resumes row, on day, with the frozen days given back.
Extends(row, e, day) ==
    row.expires # NoDate =>
        /\ row.frozenAt \in Nat
        /\ row.frozenAt =< day
        /\ e = row.expires + (day - row.frozenAt)

GivesBack == \A x \in Sessions :
    /\ tx[x].op = "unfreeze"
         => Extends(rows[tx[x].sub], tx[x].expires, tx[x].day)
    /\ tx[x].op = "auto_unfreeze" => \A s \in tx[x].due :
         Extends(rows[s], tx[x].expires[s], tx[x].day)

\* No freeze starts, and no transaction was prepared, on a day to come.
NothingAhead ==
    /\ \A s \in Subs : rows[s].frozenAt # NoDate => rows[s].frozenAt =< today
    /\ \A x \in Sessions : tx[x].op \in RowOps \cup BatchOps => tx[x].day =< today

\* Each row has logged its cancellation and no other.
EventsCount == \A s \in Subs :
    cancelEvents[s] = IF rows[s].status = "cancelled" THEN 1 ELSE 0

TInv == StillMeant /\ GivesBack /\ NothingAhead /\ EventsCount

\* What a prepared transaction must satisfy for TInv.
Meant(r) ==
    /\ r.op = "freeze"        => CanFreeze(rows[r.sub])
    /\ r.op = "unfreeze"      => /\ CanUnfreeze(rows[r.sub])
                                 /\ Extends(rows[r.sub], r.expires, r.day)
    /\ r.op = "renew"         => CanRenew(rows[r.sub])
    /\ r.op = "cancel"        => CanCancel(rows[r.sub])
    /\ r.op = "change_plan"   => CanChangePlan(rows[r.sub])
    /\ r.op = "auto_unfreeze" => \A s \in r.due :
         CanUnfreeze(rows[s]) /\ Extends(rows[s], r.expires[s], r.day)
    /\ r.op = "auto_expire"   => \A s \in r.due :
         /\ rows[s].status = "active"
         /\ rows[s].expires # NoDate
         /\ rows[s].expires < today
    /\ r.op \in RowOps \cup BatchOps => r.day =< today

\* A session without a transaction is about no subscription, so sessions that
\* take turns keep apart.
LEMMA TurnsAreApart == TakeTurns => KeepApart
<1>1. Touched(Idle) = {}
  BY DEF Touched, Idle, RowOps, BatchOps
<1>2. QED
  BY <1>1 DEF TakeTurns, KeepApart

\* Preparing a transaction whose guard has just been checked keeps TInv.
LEMMA PrepareKeepsTInv ==
  ASSUME IInv, TInv, NEW x \in Sessions, NEW r, Prepare(x, r), Meant(r)
  PROVE  TInv'
<1>1. /\ tx' = [tx EXCEPT ![x] = r]
      /\ UNCHANGED <<rows, memberStatus, cancelEvents, today>>
  BY DEF Prepare
<1>2. \A y \in Sessions : tx'[y] = IF y = x THEN r ELSE tx[y]
  BY <1>1 DEF IInv, TypeOK
<1>3. StillMeant'
  BY <1>1, <1>2 DEF Meant, StillMeant, TInv
<1>4. GivesBack'
  BY <1>1, <1>2 DEF Meant, GivesBack, TInv
<1>5. NothingAhead'
  BY <1>1, <1>2 DEF Meant, NothingAhead, TInv
<1>6. EventsCount'
  BY <1>1 DEF EventsCount, TInv
<1>7. QED
  BY <1>3, <1>4, <1>5, <1>6 DEF TInv

\* _extend_expires_for_unfreeze gives back the days since the freeze.
LEMMA ExtendedGivesBack ==
  ASSUME IInv, TInv, NEW s \in Subs, rows[s].status = "frozen"
  PROVE  Extends(rows[s], ExtendedExpires(rows[s]), today)
<1>1. rows[s] \in Row /\ rows[s].frozenAt # NoDate
  BY DEF IInv, TypeOK, StoredRowsPass, Checks, FrozenShape
<1>2. rows[s].frozenAt \in Nat /\ rows[s].frozenAt =< today /\ today \in Nat
  BY <1>1 DEF Row, MaybeDate, TInv, NothingAhead, IInv, TypeOK, Days
<1>3. rows[s].expires # NoDate => rows[s].expires \in Nat
  BY <1>1 DEF Row, MaybeDate
<1>4. Later(0, today - rows[s].frozenAt) = today - rows[s].frozenAt
  BY <1>2 DEF Later
<1>5. QED
  BY <1>1, <1>2, <1>3, <1>4 DEF Extends, ExtendedExpires

\* Every read prepares a transaction that is meant.
LEMMA ReadKeepsTInv ==
  ASSUME IInv, TInv, NEW x \in Sessions, Staff(x) \/ Beat(x)
  PROVE  TInv'
<1>0. today \in Nat
  BY DEF IInv, TypeOK, Days
<1>1. CASE \E m \in Members, p \in Plans, d \in Entered : ReadCreate(x, m, p, d)
  BY <1>1, PrepareKeepsTInv DEF ReadCreate, Meant, RowOps, BatchOps
<1>2. ASSUME NEW s \in Subs, NEW d \in Entered, ReadFreeze(x, s, d)
      PROVE  TInv'
  BY <1>0, <1>2, PrepareKeepsTInv
     DEF ReadFreeze, PrepareRow, Meant, RowOps, BatchOps
<1>3. ASSUME NEW s \in Subs, ReadUnfreeze(x, s)
      PROVE  TInv'
  <2>1. Extends(rows[s], ExtendedExpires(rows[s]), today)
    BY <1>3, ExtendedGivesBack DEF ReadUnfreeze, CanUnfreeze
  <2>2. QED
    BY <1>0, <1>3, <2>1, PrepareKeepsTInv
       DEF ReadUnfreeze, PrepareRow, Meant, RowOps, BatchOps
<1>4. ASSUME NEW s \in Subs, NEW d \in Entered, ReadRenew(x, s, d)
      PROVE  TInv'
  BY <1>0, <1>4, PrepareKeepsTInv
     DEF ReadRenew, PrepareRow, Meant, RowOps, BatchOps
<1>5. ASSUME NEW s \in Subs, ReadCancel(x, s)
      PROVE  TInv'
  BY <1>0, <1>5, PrepareKeepsTInv
     DEF ReadCancel, PrepareRow, Meant, RowOps, BatchOps
<1>6. ASSUME NEW s \in Subs, NEW p \in Plans, ReadChangePlan(x, s, p)
      PROVE  TInv'
  BY <1>6, PrepareKeepsTInv DEF ReadChangePlan, Meant, RowOps, BatchOps
<1>7. CASE ReadAutoUnfreeze(x)
  <2> DEFINE e == [s \in Subs |-> IF s \in DueForUnfreeze
                                  THEN ExtendedExpires(rows[s]) ELSE NoDate]
             r == [op |-> "auto_unfreeze", due |-> DueForUnfreeze,
                   day |-> today, expires |-> e]
  <2>1. Prepare(x, r)
    BY <1>7 DEF ReadAutoUnfreeze
  <2>2. ASSUME NEW s \in DueForUnfreeze
        PROVE  CanUnfreeze(rows[s]) /\ Extends(rows[s], e[s], today)
    <3>1. s \in Subs /\ rows[s].status = "frozen"
      BY DEF DueForUnfreeze
    <3>2. e[s] = ExtendedExpires(rows[s])
      BY <3>1
    <3>3. QED
      BY <3>1, <3>2, ExtendedGivesBack DEF CanUnfreeze
  <2>3. /\ r.op = "auto_unfreeze" /\ r.due = DueForUnfreeze
        /\ r.day = today /\ r.expires = e
    OBVIOUS
  <2> HIDE DEF r, e
  <2>4. Meant(r)
    BY <1>0, <2>2, <2>3 DEF Meant
  <2>5. QED
    BY <2>1, <2>4, PrepareKeepsTInv
<1>8. CASE ReadAutoExpire(x)
  <2> DEFINE r == [op |-> "auto_expire", due |-> DueForExpire,
                   day |-> today, expires |-> [s \in Subs |-> NoDate]]
  <2>1. Prepare(x, r)
    BY <1>8 DEF ReadAutoExpire
  <2>2. Meant(r)
    BY <1>0 DEF Meant, DueForExpire
  <2>3. QED
    BY <2>1, <2>2, PrepareKeepsTInv
<1>9. QED
  BY <1>1, <1>2, <1>3, <1>4, <1>5, <1>6, <1>7, <1>8 DEF Staff, Beat

\* A commit cancels a row at most, and one that was not cancelled.
LEMMA CommitKeepsCount ==
  ASSUME IInv, TInv, NEW x \in Sessions, NEW op, NEW status,
         <<op, status>> \in StatusOf, op # "idle", status \in MemberState,
         Commit(x, op, status)
  PROVE  EventsCount'
<1> DEFINE r == tx[x]
<1>1. r.op = op /\ rows' = After(r)
  BY DEF Commit
<1>2. TypeOK /\ r \in Tx /\ r # Idle
  BY <1>1 DEF IInv, TypeOK, Idle
<1> SUFFICES ASSUME NEW s \in Subs
             PROVE  cancelEvents'[s] = IF rows'[s].status = "cancelled"
                                       THEN 1 ELSE 0
  BY DEF EventsCount
<1>3. cancelEvents[s] = IF rows[s].status = "cancelled" THEN 1 ELSE 0
  BY DEF TInv, EventsCount
<1>4. rows[s].status = "cancelled" => rows'[s].status = "cancelled"
  BY CommitKeepsTerminal DEF TerminalStays, Terminal
<1>5. CASE s \notin Touched(r)
  <2>1. rows'[s] = rows[s]
    BY <1>1, <1>5 DEF After
  <2>2. cancelEvents'[s] = cancelEvents[s]
    <3>1. CASE op = "cancel"
      <4>1. s # r.sub
        BY <1>1, <1>5, <3>1, Statements
      <4>2. QED
        BY <1>2, <3>1, <4>1 DEF Commit, TypeOK
    <3>2. CASE op # "cancel"
      BY <3>2 DEF Commit
    <3>3. QED
      BY <3>1, <3>2
  <2>3. QED
    BY <1>3, <2>1, <2>2
<1>6. CASE s \in Touched(r)
  <2>1. rows'[s] = Written(r, s)
    BY <1>1, <1>6 DEF After
  <2>2. CASE op = "cancel"
    <3>1. s = r.sub
      BY <1>1, <1>6, <2>2, Statements
    <3>2. rows[s].status # "cancelled"
      BY <1>1, <2>2, <3>1 DEF TInv, StillMeant, CanCancel
    <3>3. cancelEvents'[s] = 1
      BY <1>2, <1>3, <2>2, <3>1, <3>2 DEF Commit, TypeOK
    <3>4. rows'[s].status = "cancelled"
      BY <1>1, <1>2, <1>6, <2>1, <2>2, WrittenStatus DEF StatusOf
    <3>5. QED
      BY <3>3, <3>4
  <2>3. CASE op # "cancel"
    <3>1. cancelEvents'[s] = cancelEvents[s]
      BY <2>3 DEF Commit
    <3>2. rows'[s].status # "cancelled"
      <4>1. CASE op = "change_plan" /\ s = r.sub
        <5>1. rows[s] \in Row /\ Written(r, s) = ReplacedRow(rows[s], r.new)
          BY <1>1, <1>2, <4>1, Statements DEF TypeOK
        <5>2. QED
          BY <2>1, <5>1, StampsStay
      <4>2. CASE Written(r, s).status = status
        BY <2>1, <2>3, <4>2 DEF StatusOf
      <4>3. QED
        BY <1>1, <1>2, <1>6, <4>1, <4>2, WrittenStatus
    <3>3. QED
      BY <1>3, <1>4, <3>1, <3>2
  <2>4. QED
    BY <2>2, <2>3
<1>7. QED
  BY <1>5, <1>6

\* A statement leaves frozen_at alone, clears it, or sets it to the day of its
\* transaction.
LEMMA FrozenAtWritten ==
  ASSUME IInv, NEW r \in Tx, r # Idle, NEW s \in Touched(r)
  PROVE  \/ Written(r, s).frozenAt = rows[s].frozenAt
         \/ Written(r, s).frozenAt = NoDate
         \/ Written(r, s).frozenAt = r.day /\ r.op = "freeze"
<1>1. rows[s] \in Row
  BY WrittenTyped DEF IInv, TypeOK
<1>2. CASE r.op \in {"create", "change_plan"}
  <2>1. PICK m, p, e, n : \/ Written(r, s) = NewRow(m, p, e)
                          \/ Written(r, s) = ReplacedRow(rows[s], n)
    BY <1>2, Statements
  <2>2. NewRow(m, p, e).frozenAt = NoDate
    BY DEF NewRow
  <2>3. ReplacedRow(rows[s], n).frozenAt = rows[s].frozenAt
    BY <1>1 DEF ReplacedRow, Row
  <2>4. QED
    BY <2>1, <2>2, <2>3
<1>3. CASE r.op = "freeze"
  <2>1. Written(r, s) = FrozenRow(rows[s], r)
    BY <1>3, Statements
  <2>2. QED
    BY <1>1, <1>3, <2>1 DEF FrozenRow, Row
<1>4. CASE r.op \in {"unfreeze", "renew", "auto_unfreeze"}
  <2>1. PICK e : \/ Written(r, s) = ActiveRow(rows[s], e)
                 \/ Written(r, s) = RenewedRow(rows[s], e)
    BY <1>4, Statements
  <2>2. QED
    BY <1>1, <2>1 DEF ActiveRow, RenewedRow, Row
<1>5. CASE r.op \in {"cancel", "auto_expire"}
  <2>1. \/ Written(r, s) = CancelledRow(rows[s])
        \/ Written(r, s) = ExpiredRow(rows[s])
    BY <1>5, Statements
  <2>2. QED
    BY <1>1, <2>1 DEF CancelledRow, ExpiredRow, Row
<1>6. QED
  BY <1>2, <1>3, <1>4, <1>5
     DEF Tx, CreateTx, RowTx, ChangeTx, BatchTx, RowOps, BatchOps

\* A commit leaves the rows that the others are about as they were.
LEMMA OthersRowsStay ==
  ASSUME IInv, KeepApart, NEW x \in Sessions, tx[x] # Idle, rows' = After(tx[x]),
         NEW y \in Sessions, y # x
  PROVE  \A s \in Touched(tx[y]) : rows'[s] = rows[s]
<1> SUFFICES ASSUME NEW s \in Touched(tx[y]) PROVE rows'[s] = rows[s]
  OBVIOUS
<1>1. s \notin Touched(tx[x])
  BY DEF KeepApart
<1>2. tx[y] # Idle
  BY DEF Touched, Idle, RowOps, BatchOps
<1>3. s \in Subs
  BY <1>2, WrittenTyped DEF IInv, TypeOK
<1>4. QED
  BY <1>1, <1>3 DEF After

\* So a commit leaves what the others have prepared as it was meant.
LEMMA CommitKeepsTInv ==
  ASSUME IInv, TInv, KeepApart, NEW x \in Sessions, NEW op, NEW status,
         <<op, status>> \in StatusOf, op # "idle", status \in MemberState,
         Commit(x, op, status)
  PROVE  TInv'
<1> DEFINE r == tx[x]
<1>1. /\ r.op = op /\ rows' = After(r) /\ today' = today
      /\ tx' = [tx EXCEPT ![x] = Idle]
  BY DEF Commit
<1>2. TypeOK /\ r \in Tx /\ r # Idle
  BY <1>1 DEF IInv, TypeOK, Idle
<1>3. \A y \in Sessions : tx'[y] = IF y = x THEN Idle ELSE tx[y]
  BY <1>1, <1>2 DEF TypeOK
<1>4. StillMeant' /\ GivesBack'
  <2>1. ASSUME NEW y \in Sessions, y # x
        PROVE  /\ tx[y].op \in RowOps \cup {"change_plan"}
                    => rows'[tx[y].sub] = rows[tx[y].sub]
               /\ tx[y].op \in BatchOps
                    => \A s \in tx[y].due : rows'[s] = rows[s]
    <3>1. \A s \in Touched(tx[y]) : rows'[s] = rows[s]
      BY <1>1, <1>2, <2>1, OthersRowsStay
    <3>2. /\ tx[y].op \in RowOps \cup {"change_plan"} => tx[y].sub \in Touched(tx[y])
          /\ tx[y].op \in BatchOps => tx[y].due = Touched(tx[y])
      BY Statements DEF RowOps, BatchOps
    <3>3. QED
      BY <3>1, <3>2
  <2>2. StillMeant'
    BY <1>1, <1>3, <2>1 DEF TInv, StillMeant, Idle, RowOps, BatchOps
  <2>3. GivesBack'
    BY <1>1, <1>3, <2>1 DEF TInv, GivesBack, Idle, RowOps, BatchOps
  <2>4. QED
    BY <2>2, <2>3
<1>5. NothingAhead'
  <2>1. ASSUME NEW s \in Subs, rows'[s].frozenAt # NoDate
        PROVE  rows'[s].frozenAt =< today
    <3>1. CASE s \notin Touched(r)
      BY <1>1, <2>1, <3>1 DEF After, TInv, NothingAhead
    <3>2. CASE s \in Touched(r)
      <4>1. rows'[s] = Written(r, s)
        BY <1>1, <3>2 DEF After
      <4>2. r.op = "freeze" => r.day =< today
        BY DEF TInv, NothingAhead, RowOps
      <4>3. QED
        BY <1>2, <2>1, <3>2, <4>1, <4>2, FrozenAtWritten DEF TInv, NothingAhead
    <3>3. QED
      BY <3>1, <3>2
  <2>2. QED
    BY <1>1, <1>3, <2>1 DEF TInv, NothingAhead, Idle, RowOps, BatchOps
<1>6. EventsCount'
  BY CommitKeepsCount
<1>7. QED
  BY <1>4, <1>5, <1>6 DEF TInv

\* While sessions keep apart, every step keeps TInv.
LEMMA NextTInv == KeepApart /\ IInv /\ TInv /\ [Next]_vars => TInv'
<1> SUFFICES ASSUME KeepApart, IInv, TInv, [Next]_vars PROVE TInv'
  OBVIOUS
<1>1. ASSUME NEW x \in Sessions, Staff(x) \/ Beat(x) PROVE TInv'
  BY <1>1, ReadKeepsTInv
<1>2. ASSUME NEW x \in Sessions, Finish(x) PROVE TInv'
  BY <1>2, Finishes, CommitKeepsTInv
<1>3. ASSUME NEW x \in Sessions, Rollback(x) PROVE TInv'
  <2>1. /\ \A y \in Sessions : tx'[y] = IF y = x THEN Idle ELSE tx[y]
        /\ UNCHANGED <<rows, memberStatus, cancelEvents, today>>
    BY <1>3 DEF Rollback, IInv, TypeOK
  <2>2. StillMeant' /\ GivesBack'
    BY <2>1 DEF TInv, StillMeant, GivesBack, Idle
  <2>3. NothingAhead' /\ EventsCount'
    BY <2>1 DEF TInv, NothingAhead, EventsCount, Idle, RowOps, BatchOps
  <2>4. QED
    BY <2>2, <2>3 DEF TInv
<1>4. CASE NextDay
  <2>1. /\ today \in Nat /\ today' = today + 1
        /\ UNCHANGED <<rows, memberStatus, cancelEvents, tx>>
    BY <1>4 DEF NextDay, IInv, TypeOK, Days
  <2>2. /\ \A s \in Subs : /\ rows[s].frozenAt \in Nat \cup {NoDate}
                           /\ rows[s].expires \in Nat \cup {NoDate}
        /\ \A y \in Sessions : /\ tx[y].op \in RowOps \cup BatchOps
                                    => tx[y].day \in Nat
                               /\ tx[y].op \in BatchOps => tx[y].due \subseteq Subs
    BY TxKinds DEF IInv, TypeOK, Row, MaybeDate, RowTx, BatchTx, Days
  <2>3. StillMeant'
    <3>1. ASSUME NEW y \in Sessions, tx[y].op = "auto_expire", NEW s \in tx[y].due
          PROVE  rows[s].status = "active" /\ rows[s].expires # NoDate
                   /\ rows[s].expires < today'
      <4>1. s \in Subs
        BY <2>2, <3>1 DEF BatchOps
      <4>2. QED
        BY <2>1, <2>2, <3>1, <4>1 DEF TInv, StillMeant
    <3>2. QED
      BY <2>1, <3>1 DEF TInv, StillMeant
  <2>4. GivesBack'
    BY <2>1 DEF TInv, GivesBack
  <2>5. NothingAhead'
    BY <2>1, <2>2 DEF TInv, NothingAhead
  <2>6. EventsCount'
    BY <2>1 DEF TInv, EventsCount
  <2>7. QED
    BY <2>3, <2>4, <2>5, <2>6 DEF TInv
<1>5. CASE UNCHANGED vars
  BY <1>5 DEF vars, TInv, StillMeant, GivesBack, NothingAhead, EventsCount
<1>6. QED
  BY <1>1, <1>2, <1>3, <1>4, <1>5 DEF Next, Refuse, Crash

\* The two invariants hold together.
LEMMA ApartInv == Spec /\ []KeepApart => [](IInv /\ TInv)
<1>1. Init => TInv
  <2> SUFFICES ASSUME Init PROVE TInv
    OBVIOUS
  <2>1. \A s \in Subs : rows[s].status = "none" /\ rows[s].frozenAt = NoDate
    BY DEF Init, NewRow
  <2>2. \A y \in Sessions : tx[y] = Idle
    BY DEF Init
  <2>3. StillMeant /\ GivesBack /\ NothingAhead
    BY <2>1, <2>2 DEF StillMeant, GivesBack, NothingAhead, Idle, RowOps, BatchOps
  <2>4. EventsCount
    BY <2>1 DEF Init, EventsCount
  <2>5. QED
    BY <2>3, <2>4 DEF TInv
<1>2. QED
  BY <1>1, NextTInv, Inductive, PTL DEF Spec

\* Sessions that keep apart cancel a subscription once.
THEOREM CancelledOnceApart == Spec /\ []KeepApart => []CancelledOnce
<1>1. TInv => CancelledOnce
  BY DEF TInv, EventsCount, CancelledOnce
<1>2. QED
  BY <1>1, ApartInv, PTL

\* What a commit that was not interfered with finds in a row it updates.
LEMMA FoundAsRead ==
  ASSUME IInv, TInv, NEW x \in Sessions, Admissible(After(tx[x])),
         NEW s \in Touched(tx[x]), Exists(s)
  PROVE  /\ tx[x].op # "create"
         /\ tx[x].op = "change_plan" => s = tx[x].sub
         /\ tx[x].op = "freeze" => rows[s].status = "active"
         /\ tx[x].op \in {"unfreeze", "auto_unfreeze"} => rows[s].status = "frozen"
         /\ tx[x].op = "renew" => rows[s].status \in {"active", "expired"}
         /\ tx[x].op = "auto_expire" => /\ rows[s].status = "active"
                                        /\ rows[s].expires # NoDate
                                        /\ rows[s].expires < today
         /\ tx[x].op = "cancel" => rows[s].status \in {"active", "expired"}
         /\ tx[x].op = "change_plan" => rows[s].status = "active"
<1> DEFINE r == tx[x]
<1>1. tx[x] # Idle
  BY DEF Touched, Idle, RowOps, BatchOps
<1>2. r.op # "create"
  BY Statements DEF IInv, DrawnIdsFree, Inserts
<1>3. r.op = "change_plan" => s = r.sub
  BY <1>1, UpdatesOfExisting
<1>4. r.op \in RowOps => s = r.sub
  BY Statements DEF RowOps
<1>5. r.op \in BatchOps => s \in r.due
  BY Statements DEF BatchOps
<1>6. /\ r.op = "cancel" => rows[s].status \in {"active", "expired", "cancelled"}
      /\ r.op = "change_plan"
           => rows[s].status \in {"active", "expired", "replaced"}
  BY <1>2, <1>3, FoundStatus
<1>7. QED
  BY <1>2, <1>3, <1>4, <1>5, <1>6
     DEF TInv, StillMeant, CanFreeze, CanUnfreeze, CanRenew, CanCancel,
         CanChangePlan, RowOps, BatchOps

\* Only overdue subscriptions expire when sessions keep apart.
LEMMA ExpiryStep ==
  ASSUME IInv, TInv, [Next]_vars, NEW s \in Subs,
         rows'[s].status = "expired", rows[s].status # "expired"
  PROVE  rows[s].expires # NoDate /\ rows[s].expires < today
<1>1. PICK x \in Sessions : Finish(x)
  BY QuietSteps
<1>2. PICK op, status : /\ <<op, status>> \in StatusOf /\ op # "idle"
                        /\ Commit(x, op, status)
  BY <1>1, Finishes
<1>3. tx[x].op = op /\ rows' = After(tx[x]) /\ Admissible(After(tx[x]))
  BY <1>2 DEF Commit
<1>4. s \in Touched(tx[x]) /\ rows'[s] = Written(tx[x], s)
  BY <1>3 DEF After
<1>5. TypeOK /\ tx[x] \in Tx /\ rows[s] \in Row
  BY DEF IInv, TypeOK
<1>6. op = "auto_expire"
  <2>1. CASE Written(tx[x], s).status = status
    BY <1>2, <1>4, <2>1 DEF StatusOf
  <2>2. CASE op = "change_plan" /\ s = tx[x].sub
    <3>1. Written(tx[x], s) = ReplacedRow(rows[s], tx[x].new)
      BY <1>3, <2>2, Statements
    <3>2. QED
      BY <1>4, <1>5, <3>1, StampsStay
  <2>3. QED
    BY <1>2, <1>3, <1>4, <1>5, <2>1, <2>2, WrittenStatus
<1>7. Exists(s)
  BY <1>3, <1>4, <1>6, Statements DEF IInv, TargetsExist, BatchOps
<1>8. QED
  BY <1>3, <1>4, <1>6, <1>7, FoundAsRead

\* An expiry job that is not overtaken never takes back a renewal.
THEOREM ExpiresOverdueApart == Spec /\ []KeepApart => ExpiresOnlyOverdue
<1>1. IInv /\ TInv /\ [Next]_vars =>
        \A s \in Subs : rows'[s].status = "expired" /\ rows[s].status # "expired"
                          => rows[s].expires # NoDate /\ rows[s].expires < today
  BY ExpiryStep
<1>2. QED
  BY <1>1, ApartInv, PTL DEF Spec, ExpiresOnlyOverdue

\* The step that resumes a row gives it the days it had left.
LEMMA ResumeStep ==
  ASSUME IInv, TInv, [Next]_vars, NEW s \in Subs,
         rows[s].status = "frozen", rows'[s].status = "active",
         rows[s].expires # NoDate
  PROVE  \E x \in Sessions :
           /\ tx[x] # tx'[x]
           /\ rows'[s].expires - tx[x].day = rows[s].expires - rows[s].frozenAt
<1>1. PICK x \in Sessions : Finish(x)
  BY QuietSteps
<1>2. PICK op, status : /\ <<op, status>> \in StatusOf /\ op # "idle"
                        /\ Commit(x, op, status)
  BY <1>1, Finishes
<1>3. /\ tx[x].op = op /\ rows' = After(tx[x]) /\ Admissible(After(tx[x]))
      /\ tx' = [tx EXCEPT ![x] = Idle]
  BY <1>2 DEF Commit
<1>4. s \in Touched(tx[x]) /\ rows'[s] = Written(tx[x], s) /\ Exists(s)
  BY <1>3 DEF After, Exists
<1>5. TypeOK /\ tx[x] \in Tx /\ rows[s] \in Row
  BY DEF IInv, TypeOK
<1>6. op \in {"unfreeze", "auto_unfreeze"}
  BY <1>2, <1>3, <1>4, FoundAsRead DEF StatusOf
<1>7. PICK e : /\ Written(tx[x], s) = ActiveRow(rows[s], e)
               /\ Extends(rows[s], e, tx[x].day)
  <2>1. CASE op = "unfreeze"
    BY <1>3, <1>4, <2>1, Statements DEF TInv, GivesBack
  <2>2. CASE op = "auto_unfreeze"
    BY <1>3, <1>4, <2>2, Statements DEF TInv, GivesBack
  <2>3. QED
    BY <1>6, <2>1, <2>2
<1>8. rows'[s].expires = e
  BY <1>4, <1>5, <1>7 DEF ActiveRow, Row
<1>9. rows[s].expires \in Nat /\ tx[x].day \in Nat
  BY <1>3, <1>5, <1>6, TxKinds
     DEF Row, MaybeDate, RowTx, BatchTx, RowOps, BatchOps, Days
<1>10. rows'[s].expires - tx[x].day = rows[s].expires - rows[s].frozenAt
  BY <1>7, <1>8, <1>9 DEF Extends
<1>11. tx[x] # tx'[x]
  BY <1>2, <1>3, <1>5 DEF TypeOK, Idle
<1>12. QED
  BY <1>10, <1>11

\* A freeze stops the clock: a resumed subscription has as many days left as
\* on the day it was frozen, whether staff or the job resumes it.
THEOREM FreezeStopsTheClockApart == Spec /\ []KeepApart => FreezeKeepsDaysLeft
<1>1. IInv /\ TInv /\ [Next]_vars =>
        \A s \in Subs :
          /\ rows[s].status = "frozen" /\ rows'[s].status = "active"
          /\ rows[s].expires # NoDate
          => \E x \in Sessions :
               /\ tx[x] # tx'[x]
               /\ rows'[s].expires - tx[x].day
                    = rows[s].expires - rows[s].frozenAt
  BY ResumeStep
<1>2. QED
  BY <1>1, ApartInv, PTL DEF Spec, FreezeKeepsDaysLeft

\* A commit that was not interfered with is a step of the documented table.
LEMMA CommitIsDocumented ==
  ASSUME IInv, TInv, NEW x \in Sessions, NEW op, NEW status,
         <<op, status>> \in StatusOf, op # "idle", Commit(x, op, status),
         IInv'
  PROVE  Documented!Next
<1> DEFINE r == tx[x]
<1>1. r.op = op /\ rows' = After(r) /\ Admissible(After(r))
  BY DEF Commit
<1>2. Documented!OneEach'
  BY LiveOnce DEF IInv
<1>3. CASE op = "create"
  <2>1. r.new \in Subs /\ r.member \in Members
    BY <1>1, <1>3, TxKinds DEF IInv, TypeOK, CreateTx
  <2>2. Documented!Enrol(r.new, r.member)
    BY <1>1, <1>3, CreateEnrols DEF Raced!Enrol, Documented!Enrol
  <2>3. QED
    BY <1>2, <2>1, <2>2 DEF Documented!Next
<1>4. CASE op = "change_plan"
  <2>1. r.sub \in Subs /\ r.new \in Subs /\ r.sub \in Touched(r) /\ Exists(r.sub)
    BY <1>1, <1>4, ChangeWrites
  <2>2. rows[r.sub].status = "active"
    BY <1>1, <1>4, <2>1, FoundAsRead
  <2>3. <<StateOf[r.sub], "replaced">> \in DocumentedMoves
    BY <2>1, <2>2 DEF StateOf, DocumentedMoves
  <2>4. Documented!Replace(r.sub, r.new)
    BY <1>1, <1>4, <2>3, ChangeReplaces DEF Documented!Replace
  <2>5. QED
    BY <1>2, <2>1, <2>4 DEF Documented!Next
<1>5. CASE op \notin {"create", "change_plan"}
  <2> DEFINE D == Moved(r, status)
  <2>1. /\ D \subseteq Subs
        /\ StateOf' = [s \in Subs |-> IF s \in D THEN status ELSE StateOf[s]]
        /\ OwnerOf' = OwnerOf
        /\ SuccessorOf' = SuccessorOf
    BY <1>1, <1>5, OthersMove
  <2>2. ASSUME NEW s \in D PROVE <<StateOf[s], status>> \in DocumentedMoves
    <3>1. s \in Touched(r) /\ rows[s].status # status /\ s \in Subs
      BY <2>1 DEF Moved
    <3>2. Exists(s)
      BY <1>1, <1>5, <3>1, Statements
         DEF IInv, TargetsExist, StatusOf, RowOps, BatchOps
    <3>3. /\ op = "freeze" => rows[s].status = "active"
          /\ op \in {"unfreeze", "auto_unfreeze"} => rows[s].status = "frozen"
          /\ op = "renew" => rows[s].status \in {"active", "expired"}
          /\ op = "auto_expire" => rows[s].status = "active"
          /\ op = "cancel" => rows[s].status \in {"active", "expired"}
      BY <1>1, <3>1, <3>2, FoundAsRead
    <3>4. <<rows[s].status, status>> \in DocumentedMoves
      BY <1>5, <3>1, <3>3 DEF StatusOf, DocumentedMoves
    <3>5. QED
      BY <3>1, <3>4 DEF StateOf
  <2>3. status \in Documented!Targets /\ status # "replaced"
    <3>1. \A from : \A to : <<from, to>>[2] = to
      OBVIOUS
    <3>2. /\ <<"active", "frozen">> \in DocumentedMoves
          /\ <<"frozen", "active">> \in DocumentedMoves
          /\ <<"active", "expired">> \in DocumentedMoves
          /\ <<"active", "cancelled">> \in DocumentedMoves
      BY DEF DocumentedMoves
    <3>3. {"frozen", "active", "expired", "cancelled"} \subseteq Documented!Targets
      BY <3>1, <3>2 DEF Documented!Targets
    <3>4. status \in {"frozen", "active", "expired", "cancelled"}
      BY <1>5 DEF StatusOf
    <3>5. QED
      BY <3>3, <3>4
  <2>4. Documented!Move(D, status)
    BY <2>1, <2>2, <2>3 DEF Documented!Move
  <2>5. QED
    BY <1>2, <2>1, <2>3, <2>4 DEF Documented!Next
<1>6. QED
  BY <1>3, <1>4, <1>5

\* Every other step leaves the documented machine alone.
LEMMA StepIsDocumented ==
  IInv /\ TInv /\ IInv' /\ [Next]_vars => [Documented!Next]_(Documented!avars)
<1> SUFFICES ASSUME IInv, TInv, IInv', [Next]_vars
             PROVE  [Documented!Next]_(Documented!avars)
  OBVIOUS
<1>1. ASSUME NEW x \in Sessions, Finish(x) PROVE Documented!Next
  BY <1>1, Finishes, CommitIsDocumented
<1>2. CASE UNCHANGED <<rows, memberStatus, cancelEvents>>
  BY <1>2 DEF Documented!avars, StateOf, OwnerOf, SuccessorOf
<1>3. QED
  BY <1>1, <1>2, QuietSteps

\* Sessions that keep apart implement the documented state machine.
THEOREM ImplementsDocumentedLifecycle ==
  Spec /\ []KeepApart => FollowsDocumentedLifecycle
<1>1. Init => Documented!Init
  BY DEF Init, Documented!Init, StateOf, OwnerOf, SuccessorOf, NewRow
<1>2. QED
  BY <1>1, ApartInv, StepIsDocumented, PTL
     DEF Spec, FollowsDocumentedLifecycle, Documented!Spec

\* A commit that was not interfered with writes no link that is already there.
LEMMA LinkStep ==
  ASSUME IInv, TInv, [Next]_vars, NEW s \in Subs, rows[s].successor # NoSub
  PROVE  rows'[s].successor = rows[s].successor
<1>0. rows[s].status = "replaced" /\ Exists(s)
  BY DEF IInv, StoredRowsPass, Checks, ReplacedShape, Exists
<1>1. ASSUME NEW x \in Sessions, Finish(x)
      PROVE  rows'[s] = rows[s]
  <2>1. PICK op, status : /\ <<op, status>> \in StatusOf /\ op # "idle"
                          /\ Commit(x, op, status)
    BY <1>1, Finishes
  <2>2. tx[x].op = op /\ rows' = After(tx[x]) /\ Admissible(After(tx[x]))
    BY <2>1 DEF Commit
  <2>3. s \notin Touched(tx[x])
    BY <1>0, <2>1, <2>2, FoundAsRead DEF StatusOf
  <2>4. QED
    BY <2>2, <2>3 DEF After
<1>2. QED
  BY <1>1, QuietSteps

\* The link from a replaced subscription to its successor is written once.
THEOREM SuccessorOnceApart == Spec /\ []KeepApart => SuccessorIsFinal
<1>1. IInv /\ TInv /\ [Next]_vars =>
        \A s \in Subs : rows[s].successor # NoSub
                          => rows'[s].successor = rows[s].successor
  BY LinkStep
<1>2. QED
  BY <1>1, ApartInv, PTL DEF Spec, SuccessorIsFinal

\* A single session keeps apart from itself: all of these hold of it without a
\* condition on the behaviour.
THEOREM OneSessionFollows ==
    ASSUME \A x, y \in Sessions : x = y
    PROVE  Spec => /\ FollowsDocumentedLifecycle
                   /\ []CancelledOnce
                   /\ ExpiresOnlyOverdue
                   /\ FreezeKeepsDaysLeft
                   /\ SuccessorIsFinal
<1>1. KeepApart
  BY DEF KeepApart
<1> QED
  BY <1>1, ImplementsDocumentedLifecycle, CancelledOnceApart, ExpiresOverdueApart,
     FreezeStopsTheClockApart, SuccessorOnceApart, PTL

-----------------------------------------------------------------------------
(* SubscriptionNights only bounds the interference and adds fairness, so    *)
(* everything above holds of its nights too.                               *)

\* The nights on which the two jobs must catch up are behaviours of the
\* subscriptions: a batch that catches up does so within every invariant above.
THEOREM NightsRefine == NSpec => Spec
<1>1. NInit => Init
  BY DEF NInit
<1>2. [NNext]_nvars => [Next]_vars
  BY DEF NNext, Unhindered, Interfere, nvars, Next
<1>3. QED
  BY <1>1, <1>2, PTL DEF NSpec, Spec

=============================================================================
