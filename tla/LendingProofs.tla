---------------------------- MODULE LendingProofs ----------------------------
(***************************************************************************)
(* Proofs about the two registers that lend: InventoryService, for any     *)
(* number of assets, people, periods, rows and concurrent exporters, and   *)
(* LibraryLoans, for any number of sets, loans and issues.                 *)
(*                                                                         *)
(* IInv is inductive.  RowsHaveAssets is the strengthening the checked     *)
(* invariants of the inventory need: without it a repair of a deleted      *)
(* asset could be closed and the synchronisation would resurrect the       *)
(* asset.                                                                  *)
(*                                                                         *)
(* LInv is inductive.  NothingBeforeCreation is the strengthening: a set   *)
(* is put on the shelf by its creation, so it must have no issue by then.  *)
(***************************************************************************)
EXTENDS InventoryService, LibraryLoans, TLAPS

-----------------------------------------------------------------------------
\* The inventory.

\* Every assignment and every repair refers to an asset that exists.
RowsHaveAssets ==
  /\ \A a \in assignments : Existing(a.asset)
  /\ \A r \in repairs : Existing(r.asset)

IInv == TypeOK /\ RowsHaveAssets /\ CustodyInv /\ PeriodInv

\* The empty register of first-run setup satisfies the invariant.
LEMMA InitIInv == Init => IInv
<1> SUFFICES ASSUME Init PROVE IInv
  OBVIOUS
<1>1. TypeOK
  <2>1. grade \in [People -> 0 .. MaxGrade]
    BY InventoryAssumption DEF Init
  <2> QED
    BY <2>1 DEF Init, TypeOK, AssetStatus, PeriodStatus, PersonStatus
<1>2. RowsHaveAssets /\ CustodyInv
  BY DEF Init, RowsHaveAssets, CustodyInv, OneCustodian, StatusTellsTheRows,
         NeverIssuedUnderRepair, Held, UnderRepair, Existing
<1>3. PeriodInv
  BY InventoryAssumption DEF Init, PeriodInv, ClosedPeriodsSettled, OneOpenPeriod
<1> QED
  BY <1>1, <1>2, <1>3 DEF IInv

\* Every handler leaves the tables within their types.
LEMMA StepTypeOK == TypeOK /\ [Next]_vars => TypeOK'
<1> SUFFICES ASSUME TypeOK, [Next]_vars PROVE TypeOK'
  OBVIOUS
<1> USE DEF TypeOK
<1>0. /\ AppendAudit => /\ exporter' \in [Exporters -> {"idle", "covers", "misses"}]
                        /\ gateOpen' \in BOOLEAN
                        /\ archiveCovers' \in BOOLEAN
  BY DEF AppendAudit
<1>1. ASSUME NEW x \in Assets, CreateAsset(x) PROVE TypeOK'
  BY <1>0, <1>1 DEF CreateAsset, AssetStatus, rosterVars
<1>2. ASSUME NEW x \in Assets, NEW s \in {"NONE", "AVAILABLE", "RETIRED", "MISSING"},
             UpdateAsset(x, s)
      PROVE  TypeOK'
  <2>1. status' \in [Assets -> AssetStatus]
    BY <1>2 DEF UpdateAsset, AssetStatus, OutOfService, SyncedStatus
  <2> QED
    BY <1>0, <1>2, <2>1 DEF UpdateAsset, rosterVars
<1>3. ASSUME NEW x \in Assets, DeleteAsset(x) PROVE TypeOK'
  BY <1>0, <1>3 DEF DeleteAsset, AssetStatus, rosterVars
<1>4. ASSUME NEW id \in AssignmentIds, NEW x \in Assets, NEW p \in People,
             NEW q \in Periods, NEW inGroup \in BOOLEAN, Checkout(id, x, p, q, inGroup)
      PROVE  TypeOK'
  <2>1. assignments' \subseteq Assignment
    <3> DEFINE row == [id |-> id, asset |-> x, person |-> p, period |-> q, open |-> TRUE]
    <3>1. row \in Assignment
      BY DEF Assignment
    <3>2. assignments' = assignments \cup {row}
      BY <1>4 DEF Checkout, CheckoutAllowed, MayHold
    <3> HIDE DEF row
    <3> QED
      BY <3>1, <3>2
  <2>2. status' \in [Assets -> AssetStatus]
    BY <1>4 DEF Checkout, CheckoutAllowed, MayHold, SyncAsset, SyncedStatus, AssetStatus, OutOfService
  <2> QED
    BY <1>0, <1>4, <2>1, <2>2 DEF Checkout, CheckoutAllowed, MayHold, rosterVars
<1>5. ASSUME NEW a \in assignments, NEW damaged \in BOOLEAN, NEW rid \in RepairIds,
             Checkin(a, damaged, rid)
      PROVE  TypeOK'
  <2>1. a \in Assignment
    BY <1>5
  <2>2. assignments' \subseteq Assignment
    <3>1. [a EXCEPT !.open = FALSE] \in Assignment
      BY <2>1 DEF Assignment
    <3>2. assignments' = (assignments \ {a}) \cup {[a EXCEPT !.open = FALSE]}
      BY <1>5 DEF Checkin, CloseRow
    <3> QED
      BY <3>1, <3>2
  <2>3. repairs' \subseteq Repair
    <3> DEFINE row == [id |-> rid, asset |-> a.asset, open |-> TRUE]
    <3>1. a.asset \in Assets
      BY <2>1 DEF Assignment
    <3>2. row \in Repair
      BY <3>1 DEF Repair
    <3>3. repairs' = repairs \/ repairs' = repairs \cup {row}
      BY <1>5 DEF Checkin, CloseRow
    <3> HIDE DEF row
    <3> QED
      BY <3>2, <3>3
  <2>4. status' \in [Assets -> AssetStatus]
    BY <1>5, <2>1 DEF Checkin, CloseRow, SyncAsset, SyncedStatus, AssetStatus, OutOfService
  <2> QED
    BY <1>0, <1>5, <2>2, <2>3, <2>4 DEF Checkin, CloseRow, rosterVars
<1>6. ASSUME NEW rid \in RepairIds, NEW x \in Assets, CreateRepair(rid, x) PROVE TypeOK'
  <2>1. repairs' \subseteq Repair
    <3> DEFINE row == [id |-> rid, asset |-> x, open |-> TRUE]
    <3>1. row \in Repair
      BY DEF Repair
    <3>2. repairs' = repairs \cup {row}
      BY <1>6 DEF CreateRepair, RepairAllowed
    <3> HIDE DEF row
    <3> QED
      BY <3>1, <3>2
  <2>2. status' \in [Assets -> AssetStatus]
    BY <1>6 DEF CreateRepair, RepairAllowed, SyncAsset, SyncedStatus, AssetStatus, OutOfService
  <2> QED
    BY <1>0, <1>6, <2>1, <2>2 DEF CreateRepair, RepairAllowed, rosterVars
<1>7. ASSUME NEW r \in repairs, CloseRepair(r) PROVE TypeOK'
  <2>1. repairs' \subseteq Repair
    BY <1>7 DEF CloseRepair, CloseRow, Repair
  <2>2. status' \in [Assets -> AssetStatus]
    BY <1>7 DEF CloseRepair, CloseRow, SyncAsset, SyncedStatus, AssetStatus, OutOfService
  <2> QED
    BY <1>0, <1>7, <2>1, <2>2 DEF CloseRepair, CloseRow, rosterVars
<1>8. ASSUME NEW p \in People, NEW g \in 0 .. MaxGrade, NEW inGroup \in BOOLEAN,
             CreatePerson(p, g, inGroup)
      PROVE  TypeOK'
  BY <1>0, <1>8 DEF CreatePerson, PersonStatus, custodyVars
<1>9. ASSUME NEW p \in People, NEW s \in PersonStatus, NEW g \in 0 .. MaxGrade,
             UpdatePerson(p, s, g)
      PROVE  TypeOK'
  BY <1>0, <1>9 DEF UpdatePerson, custodyVars
<1>10. ASSUME NEW p \in People, NEW g \in 0 .. MaxGrade, ImportStudent(p, g) PROVE TypeOK'
  BY <1>0, <1>10 DEF ImportStudent, PersonStatus, custodyVars
<1>11. ASSUME NEW p \in People, AddGroupMembership(p) \/ EndGroupMembership(p) PROVE TypeOK'
  BY <1>0, <1>11 DEF AddGroupMembership, EndGroupMembership, custodyVars
<1>12. ASSUME NEW e \in Exporters, TakeSnapshot(e) \/ AbandonBackup(e) \/ RecordBackup(e)
       PROVE  TypeOK'
  BY <1>12 DEF TakeSnapshot, AbandonBackup, RecordBackup, custodyVars, rosterVars
<1>13. ASSUME NEW q \in Periods, NEW next \in Periods, Rollover(q, next) PROVE TypeOK'
  <2>1. grade' \in [People -> 0 .. MaxGrade]
    BY <1>13, InventoryAssumption DEF Rollover, RolloverAllowed, Outstanding, ActiveStudent, Graduating
  <2>2. personStatus' \in [People -> PersonStatus]
    BY <1>13 DEF Rollover, RolloverAllowed, Outstanding, PersonStatus
  <2>3. periodStatus' \in [Periods -> PeriodStatus] /\ members' \subseteq People
    BY <1>13 DEF Rollover, RolloverAllowed, Outstanding, PeriodStatus
  <2> QED
    BY <1>0, <1>13, <2>1, <2>2, <2>3 DEF Rollover, RolloverAllowed, Outstanding, custodyVars
<1>14. CASE UNCHANGED vars
  BY <1>14 DEF vars
<1>15. \A p \in People : \A g \in (IF grade[p] = 0 THEN 0 .. MaxGrade ELSE 1 .. MaxGrade) :
         g \in 0 .. MaxGrade
  BY InventoryAssumption
<1>16. \A g \in 1 .. MaxGrade : g \in 0 .. MaxGrade
  BY InventoryAssumption
<1> QED
  BY <1>1, <1>2, <1>3, <1>4, <1>5, <1>6, <1>7, <1>8, <1>9, <1>10, <1>11, <1>12,
     <1>13, <1>14, <1>15, <1>16 DEF Next

\* Type correctness of the tables, whatever forms the staff submit.
THEOREM TypeCorrect == Spec => []TypeOK
<1>1. Init => TypeOK
  BY InitIInv DEF IInv
<1> QED
  BY <1>1, StepTypeOK, PTL DEF Spec

-----------------------------------------------------------------------------
\* The synchronisation at the end of a handler leaves every stored status equal
\* to what the rows say, provided the handler touched one asset's rows only.
LEMMA SyncKeepsStatus ==
  ASSUME TypeOK, StatusTellsTheRows, NEW x \in Assets, Existing(x), SyncAsset(x),
         \A y \in Assets : y # x =>
           /\ Held(y, assignments') <=> Held(y, assignments)
           /\ UnderRepair(y, repairs') <=> UnderRepair(y, repairs),
         status[x] \in OutOfService => ~Held(x, assignments')
  PROVE  StatusTellsTheRows'
<1>1. \A y \in Assets : status'[y] =
        IF y = x THEN SyncedStatus(x, status[x], assignments', repairs') ELSE status[y]
  BY DEF SyncAsset, TypeOK
<1> SUFFICES ASSUME NEW y \in Assets
             PROVE  /\ \/ status'[y] = SyncedStatus(y, status'[y], assignments', repairs')
                       \/ status'[y] = "ABSENT"
                    /\ status'[y] \in OutOfService \cup {"ABSENT"} => ~Held(y, assignments')
  BY DEF StatusTellsTheRows, Existing
<1>2. CASE y # x
  BY <1>1, <1>2 DEF StatusTellsTheRows, SyncedStatus, Existing
<1>3. CASE y = x
  BY <1>1, <1>3 DEF SyncedStatus, Existing, OutOfService
<1> QED
  BY <1>2, <1>3

\* A checkout puts exactly one more asset in somebody's hands.
LEMMA CheckoutRows ==
  ASSUME TypeOK, NEW id \in AssignmentIds, NEW x \in Assets, NEW p \in People,
         NEW q \in Periods, NEW inGroup \in BOOLEAN, Checkout(id, x, p, q, inGroup)
  PROVE  /\ \A y \in Assets : Held(y, assignments') <=> Held(y, assignments) \/ y = x
         /\ \A b \in assignments' : b \in assignments \/ (b.asset = x /\ b.period = q /\ b.open)
         /\ \A b, c \in assignments' : b.asset = c.asset /\ b.open /\ c.open =>
               b = c \/ (b \in assignments /\ c \in assignments)
<1> DEFINE row == [id |-> id, asset |-> x, person |-> p, period |-> q, open |-> TRUE]
<1>1. assignments' = assignments \cup {row}
  BY DEF Checkout, CheckoutAllowed, MayHold
<1>2. row.asset = x /\ row.open /\ row.period = q
  OBVIOUS
<1>3. ~Held(x, assignments)
  BY DEF Checkout, CheckoutAllowed, MayHold
<1> HIDE DEF row
<1> QED
  BY <1>1, <1>2, <1>3 DEF Held

\* A check-in takes exactly one asset out of the hands it was in.
LEMMA CheckinRows ==
  ASSUME TypeOK, OneCustodian, NEW a \in assignments, NEW damaged \in BOOLEAN,
         NEW rid \in RepairIds, Checkin(a, damaged, rid)
  PROVE  /\ a.asset \in Assets
         /\ Held(a.asset, assignments)
         /\ \A y \in Assets : Held(y, assignments') <=> Held(y, assignments) /\ y # a.asset
         /\ \A b \in assignments' : b \in assignments \/ (b.asset = a.asset /\ ~b.open)
         /\ \A y \in Assets : y # a.asset =>
               (UnderRepair(y, repairs') <=> UnderRepair(y, repairs))
         /\ \A r \in repairs' : r \in repairs \/ r.asset = a.asset
<1> DEFINE closed == [a EXCEPT !.open = FALSE]
           row == [id |-> rid, asset |-> a.asset, open |-> TRUE]
<1>1. a \in Assignment /\ a.open
  BY DEF TypeOK, Checkin, CloseRow
<1>2. a.asset \in Assets /\ closed.asset = a.asset /\ ~closed.open
  BY <1>1 DEF Assignment
<1>3. assignments' = (assignments \ {a}) \cup {closed}
  BY DEF Checkin, CloseRow
<1>4. repairs' = repairs \/ repairs' = repairs \cup {row}
  BY DEF Checkin, CloseRow
<1>5. row.asset = a.asset
  OBVIOUS
<1> HIDE DEF closed, row
<1>6. \A b \in assignments : b.open /\ b.asset = a.asset => b = a
  BY <1>1 DEF OneCustodian
<1>7. \A y \in Assets : Held(y, assignments') <=> Held(y, assignments) /\ y # a.asset
  BY <1>1, <1>2, <1>3, <1>6 DEF Held
<1>8. \A y \in Assets : y # a.asset => (UnderRepair(y, repairs') <=> UnderRepair(y, repairs))
  BY <1>4, <1>5 DEF UnderRepair
<1> QED
  BY <1>1, <1>2, <1>3, <1>4, <1>5, <1>7, <1>8 DEF Held

\* A handler that moves no row of the two tables keeps the custody invariant when
\* it rewrites no status other than one it may.
LEMMA StepCustody == IInv /\ [Next]_vars => RowsHaveAssets' /\ CustodyInv'
<1> SUFFICES ASSUME IInv, [Next]_vars PROVE RowsHaveAssets' /\ CustodyInv'
  OBVIOUS
<1> USE DEF IInv, CustodyInv
<1>1. ASSUME NEW x \in Assets, CreateAsset(x) PROVE RowsHaveAssets' /\ CustodyInv'
  <2>1. ~Held(x, assignments) /\ ~UnderRepair(x, repairs)
    BY <1>1 DEF CreateAsset, RowsHaveAssets, Held, UnderRepair
  <2>2. \A y \in Assets : status'[y] = IF y = x THEN "AVAILABLE" ELSE status[y]
    BY <1>1 DEF CreateAsset, TypeOK
  <2>3. assignments' = assignments /\ repairs' = repairs
    BY <1>1 DEF CreateAsset
  <2>4. RowsHaveAssets'
    BY <2>2, <2>3 DEF RowsHaveAssets, Existing, TypeOK, Assignment, Repair
  <2>5. StatusTellsTheRows'
    BY <2>1, <2>2, <2>3 DEF StatusTellsTheRows, SyncedStatus, Existing, OutOfService
  <2> QED
    BY <2>3, <2>4, <2>5 DEF OneCustodian, NeverIssuedUnderRepair
<1>2. ASSUME NEW x \in Assets, NEW s \in {"NONE", "AVAILABLE", "RETIRED", "MISSING"},
             UpdateAsset(x, s)
      PROVE  RowsHaveAssets' /\ CustodyInv'
  <2>1. \A y \in Assets : y # x => status'[y] = status[y]
    BY <1>2 DEF UpdateAsset, TypeOK
  <2>2. assignments' = assignments /\ repairs' = repairs
    BY <1>2 DEF UpdateAsset
  <2>3. \/ s = "NONE" /\ status'[x] = status[x]
        \/ s = "AVAILABLE" /\ status'[x] = SyncedStatus(x, "AVAILABLE", assignments, repairs)
        \/ s \in OutOfService /\ status'[x] = s /\ ~Held(x, assignments)
    BY <1>2 DEF UpdateAsset, TypeOK, OutOfService
  <2>4. status'[x] # "ABSENT"
    BY <1>2, <2>3 DEF UpdateAsset, Existing, SyncedStatus, OutOfService
  <2>5. RowsHaveAssets'
    BY <2>1, <2>2, <2>4 DEF RowsHaveAssets, Existing, TypeOK, Assignment, Repair
  <2>6. StatusTellsTheRows'
    <3>1. /\ status'[x] = SyncedStatus(x, status'[x], assignments, repairs)
          /\ status'[x] \in OutOfService \cup {"ABSENT"} => ~Held(x, assignments)
      BY <1>2, <2>3 DEF StatusTellsTheRows, SyncedStatus, OutOfService, UpdateAsset, Existing
    <3> QED
      BY <3>1, <2>1, <2>2 DEF StatusTellsTheRows, Existing
  <2> QED
    BY <2>2, <2>5, <2>6 DEF OneCustodian, NeverIssuedUnderRepair
<1>3. ASSUME NEW x \in Assets, DeleteAsset(x) PROVE RowsHaveAssets' /\ CustodyInv'
  <2>1. \A y \in Assets : status'[y] = IF y = x THEN "ABSENT" ELSE status[y]
    BY <1>3 DEF DeleteAsset, TypeOK
  <2>2. assignments' = assignments /\ repairs' = repairs
    BY <1>3 DEF DeleteAsset
  <2>3. ~Held(x, assignments)
    BY <1>3 DEF DeleteAsset, Held
  <2>4. RowsHaveAssets'
    BY <1>3, <2>1, <2>2 DEF DeleteAsset, RowsHaveAssets, Existing, TypeOK, Assignment, Repair
  <2>5. StatusTellsTheRows'
    BY <2>1, <2>2, <2>3 DEF StatusTellsTheRows, Existing
  <2> QED
    BY <2>2, <2>4, <2>5 DEF OneCustodian, NeverIssuedUnderRepair
<1>4. ASSUME NEW id \in AssignmentIds, NEW x \in Assets, NEW p \in People,
             NEW q \in Periods, NEW inGroup \in BOOLEAN, Checkout(id, x, p, q, inGroup)
      PROVE  RowsHaveAssets' /\ CustodyInv'
  <2>1. /\ \A y \in Assets : Held(y, assignments') <=> Held(y, assignments) \/ y = x
        /\ \A b \in assignments' : b \in assignments \/ (b.asset = x /\ b.period = q /\ b.open)
        /\ \A b, c \in assignments' : b.asset = c.asset /\ b.open /\ c.open =>
              b = c \/ (b \in assignments /\ c \in assignments)
    BY <1>4, CheckoutRows
  <2>2. Existing(x) /\ status[x] \notin OutOfService /\ ~UnderRepair(x, repairs)
        /\ repairs' = repairs /\ SyncAsset(x)
    BY <1>4 DEF Checkout, CheckoutAllowed, MayHold
  <2>3. StatusTellsTheRows'
    BY <2>1, <2>2, SyncKeepsStatus
  <2>4. \A y \in Assets : Existing(y) => Existing(y)'
    BY <2>2 DEF SyncAsset, SyncedStatus, Existing, TypeOK, OutOfService
  <2>5. RowsHaveAssets'
    BY <2>1, <2>2, <2>4 DEF RowsHaveAssets, TypeOK, Assignment, Repair
  <2>6. OneCustodian'
    BY <2>1 DEF OneCustodian
  <2>7. NeverIssuedUnderRepair'
    BY <2>1, <2>2 DEF NeverIssuedUnderRepair
  <2> QED
    BY <2>3, <2>5, <2>6, <2>7
<1>5. ASSUME NEW a \in assignments, NEW damaged \in BOOLEAN, NEW rid \in RepairIds,
             Checkin(a, damaged, rid)
      PROVE  RowsHaveAssets' /\ CustodyInv'
  <2>1. /\ a.asset \in Assets
        /\ Held(a.asset, assignments)
        /\ \A y \in Assets : Held(y, assignments') <=> Held(y, assignments) /\ y # a.asset
        /\ \A b \in assignments' : b \in assignments \/ (b.asset = a.asset /\ ~b.open)
        /\ \A y \in Assets : y # a.asset =>
              (UnderRepair(y, repairs') <=> UnderRepair(y, repairs))
        /\ \A r \in repairs' : r \in repairs \/ r.asset = a.asset
    BY <1>5, CheckinRows
  <2>2. SyncAsset(a.asset) /\ Existing(a.asset) /\ status[a.asset] \notin OutOfService
    BY <1>5, <2>1 DEF Checkin, CloseRow, RowsHaveAssets, StatusTellsTheRows
  <2>3. StatusTellsTheRows'
    BY <2>1, <2>2, SyncKeepsStatus
  <2>4. \A y \in Assets : Existing(y) => Existing(y)'
    BY <2>1, <2>2 DEF SyncAsset, SyncedStatus, Existing, TypeOK, OutOfService
  <2>5. RowsHaveAssets'
    BY <2>1, <2>2, <2>4 DEF RowsHaveAssets, TypeOK, Assignment, Repair
  <2>6. OneCustodian'
    BY <2>1 DEF OneCustodian
  <2>7. NeverIssuedUnderRepair'
    BY <2>1 DEF NeverIssuedUnderRepair
  <2> QED
    BY <2>3, <2>5, <2>6, <2>7
<1>6. ASSUME NEW rid \in RepairIds, NEW x \in Assets, CreateRepair(rid, x)
      PROVE  RowsHaveAssets' /\ CustodyInv'
  <2> DEFINE row == [id |-> rid, asset |-> x, open |-> TRUE]
  <2>1. repairs' = repairs \cup {row} /\ row.asset = x /\ row.open
    BY <1>6 DEF CreateRepair, RepairAllowed
  <2>2. /\ Existing(x) /\ SyncAsset(x) /\ ~Held(x, assignments)
        /\ assignments' = assignments
    BY <1>6 DEF CreateRepair, RepairAllowed
  <2> HIDE DEF row
  <2>3. \A y \in Assets : y # x => (UnderRepair(y, repairs') <=> UnderRepair(y, repairs))
    BY <2>1 DEF UnderRepair
  <2>4. StatusTellsTheRows'
    BY <2>2, <2>3, SyncKeepsStatus
  <2>5. \A y \in Assets : Existing(y) => Existing(y)'
    BY <2>2 DEF SyncAsset, SyncedStatus, Existing, TypeOK, OutOfService
  <2>6. RowsHaveAssets'
    BY <2>1, <2>2, <2>5 DEF RowsHaveAssets, TypeOK, Assignment, Repair
  <2>7. OneCustodian' /\ NeverIssuedUnderRepair'
    BY <2>2, <2>3 DEF OneCustodian, NeverIssuedUnderRepair
  <2> QED
    BY <2>4, <2>6, <2>7
<1>7. ASSUME NEW r \in repairs, CloseRepair(r) PROVE RowsHaveAssets' /\ CustodyInv'
  <2> DEFINE closed == [r EXCEPT !.open = FALSE]
  <2>1. r.asset \in Assets /\ closed.asset = r.asset /\ ~closed.open
    BY DEF TypeOK, Repair
  <2>2. repairs' = (repairs \ {r}) \cup {closed} /\ assignments' = assignments
    BY <1>7 DEF CloseRepair, CloseRow
  <2> HIDE DEF closed
  <2>3. /\ \A y \in Assets : y # r.asset => (UnderRepair(y, repairs') <=> UnderRepair(y, repairs))
        /\ \A y \in Assets : UnderRepair(y, repairs') => UnderRepair(y, repairs)
    BY <2>1, <2>2 DEF UnderRepair
  <2>4. Existing(r.asset) /\ SyncAsset(r.asset)
        /\ (status[r.asset] \in OutOfService => ~Held(r.asset, assignments'))
    BY <1>7, <2>1, <2>2 DEF CloseRepair, CloseRow, RowsHaveAssets, StatusTellsTheRows
  <2>5. StatusTellsTheRows'
    BY <2>1, <2>2, <2>3, <2>4, SyncKeepsStatus
  <2>6. \A y \in Assets : Existing(y) => Existing(y)'
    BY <2>1, <2>4 DEF SyncAsset, SyncedStatus, Existing, TypeOK, OutOfService
  <2>7. RowsHaveAssets'
    BY <2>1, <2>2, <2>4, <2>6 DEF RowsHaveAssets, TypeOK, Assignment, Repair
  <2>8. OneCustodian' /\ NeverIssuedUnderRepair'
    BY <2>2, <2>3 DEF OneCustodian, NeverIssuedUnderRepair
  <2> QED
    BY <2>5, <2>7, <2>8
<1>8. CASE UNCHANGED custodyVars
  BY <1>8 DEF custodyVars, RowsHaveAssets, OneCustodian, StatusTellsTheRows,
              NeverIssuedUnderRepair, Existing
<1>9. \/ \E p \in People, g \in 0 .. MaxGrade, inGroup \in BOOLEAN : CreatePerson(p, g, inGroup)
      \/ \E p \in People, s \in PersonStatus \ {"ABSENT"} :
           \E g \in IF grade[p] = 0 THEN 0 .. MaxGrade ELSE 1 .. MaxGrade : UpdatePerson(p, s, g)
      \/ \E p \in People, g \in 1 .. MaxGrade : ImportStudent(p, g)
      \/ \E p \in People : AddGroupMembership(p)
      \/ \E p \in People : EndGroupMembership(p)
      \/ \E e \in Exporters : TakeSnapshot(e)
      \/ \E e \in Exporters : AbandonBackup(e)
      \/ \E e \in Exporters : RecordBackup(e)
      \/ \E q, next \in Periods : Rollover(q, next)
      \/ UNCHANGED vars
      => UNCHANGED custodyVars
  BY DEF CreatePerson, UpdatePerson, ImportStudent, AddGroupMembership, EndGroupMembership,
         TakeSnapshot, AbandonBackup, RecordBackup, Rollover, vars, custodyVars
<1> QED
  BY <1>1, <1>2, <1>3, <1>4, <1>5, <1>6, <1>7, <1>8, <1>9 DEF Next

\* A rollover closes the only open period, so no assignment at all is open then.
LEMMA RolloverSettled ==
  ASSUME TypeOK, PeriodInv, NEW q \in Periods, NEW next \in Periods, Rollover(q, next)
  PROVE  \A a \in assignments : ~a.open
BY DEF TypeOK, PeriodInv, ClosedPeriodsSettled, OneOpenPeriod, Rollover, RolloverAllowed, Outstanding, Assignment

\* Only a checkout opens an assignment and only a rollover closes a period.
LEMMA StepPeriods == IInv /\ [Next]_vars => PeriodInv'
<1> SUFFICES ASSUME IInv, [Next]_vars PROVE PeriodInv'
  OBVIOUS
<1> USE DEF IInv, CustodyInv, PeriodInv
<1>1. ASSUME NEW id \in AssignmentIds, NEW x \in Assets, NEW p \in People,
             NEW q \in Periods, NEW inGroup \in BOOLEAN, Checkout(id, x, p, q, inGroup)
      PROVE  PeriodInv'
  <2>1. periodStatus' = periodStatus /\ periodStatus[q] = "OPEN"
    BY <1>1 DEF Checkout, CheckoutAllowed, MayHold
  <2>2. \A b \in assignments' : b \in assignments \/ b.period = q
    BY <1>1, CheckoutRows
  <2> QED
    BY <2>1, <2>2 DEF ClosedPeriodsSettled, OneOpenPeriod
<1>2. ASSUME NEW a \in assignments, NEW damaged \in BOOLEAN, NEW rid \in RepairIds,
             Checkin(a, damaged, rid)
      PROVE  PeriodInv'
  <2>1. periodStatus' = periodStatus
    BY <1>2 DEF Checkin, CloseRow
  <2>2. \A b \in assignments' : b \in assignments \/ ~b.open
    BY <1>2, CheckinRows
  <2> QED
    BY <2>1, <2>2 DEF ClosedPeriodsSettled, OneOpenPeriod
<1>3. ASSUME NEW q \in Periods, NEW next \in Periods, Rollover(q, next) PROVE PeriodInv'
  <2>1. ClosedPeriodsSettled'
    BY <1>3, RolloverSettled DEF Rollover, RolloverAllowed, Outstanding, custodyVars, ClosedPeriodsSettled
  <2>2. \A k \in Periods : periodStatus[k] = "OPEN" <=> k = q
    BY <1>3 DEF OneOpenPeriod, Rollover, RolloverAllowed, Outstanding
  <2>3. \A k \in Periods : periodStatus'[k] =
          IF k = next THEN "OPEN" ELSE IF k = q THEN "CLOSED" ELSE periodStatus[k]
    BY <1>3 DEF Rollover, RolloverAllowed, Outstanding, TypeOK
  <2>4. \A k \in Periods : periodStatus'[k] = "OPEN" <=> k = next
    BY <2>2, <2>3
  <2>5. OneOpenPeriod'
    BY <2>4 DEF OneOpenPeriod
  <2> QED
    BY <2>1, <2>5
<1>4. CASE UNCHANGED <<assignments, periodStatus>>
  BY <1>4 DEF ClosedPeriodsSettled, OneOpenPeriod
<1>5. \/ \E x \in Assets : CreateAsset(x)
      \/ \E x \in Assets, s \in {"NONE", "AVAILABLE", "RETIRED", "MISSING"} : UpdateAsset(x, s)
      \/ \E x \in Assets : DeleteAsset(x)
      \/ \E rid \in RepairIds, x \in Assets : CreateRepair(rid, x)
      \/ \E r \in repairs : CloseRepair(r)
      \/ \E p \in People, g \in 0 .. MaxGrade, inGroup \in BOOLEAN : CreatePerson(p, g, inGroup)
      \/ \E p \in People, s \in PersonStatus \ {"ABSENT"} :
           \E g \in IF grade[p] = 0 THEN 0 .. MaxGrade ELSE 1 .. MaxGrade : UpdatePerson(p, s, g)
      \/ \E p \in People, g \in 1 .. MaxGrade : ImportStudent(p, g)
      \/ \E p \in People : AddGroupMembership(p)
      \/ \E p \in People : EndGroupMembership(p)
      \/ \E e \in Exporters : TakeSnapshot(e)
      \/ \E e \in Exporters : AbandonBackup(e)
      \/ \E e \in Exporters : RecordBackup(e)
      \/ UNCHANGED vars
      => UNCHANGED <<assignments, periodStatus>>
  BY DEF CreateAsset, UpdateAsset, DeleteAsset, CreateRepair, RepairAllowed, CloseRepair, CloseRow, CreatePerson,
         UpdatePerson, ImportStudent, AddGroupMembership, EndGroupMembership,
         TakeSnapshot, AbandonBackup, RecordBackup, vars, custodyVars
<1> QED
  BY <1>1, <1>2, <1>3, <1>4, <1>5 DEF Next

\* IInv holds in every reachable state.
THEOREM InventoryInvariant == Spec => []IInv
<1>1. IInv /\ [Next]_vars => IInv'
  BY StepTypeOK, StepCustody, StepPeriods DEF IInv
<1> QED
  BY InitIInv, <1>1, PTL DEF Spec

\* checkoutAsset, checkinAsset and rollover keep one custodian per asset.
THEOREM CustodianUnique == Spec => []OneCustodian
<1>1. IInv => OneCustodian
  BY DEF IInv, CustodyInv
<1> QED
  BY InventoryInvariant, <1>1, PTL

\* The stored status column agrees with the assignment and repair rows.
THEOREM StatusCorrect == Spec => []StatusTellsTheRows
<1>1. IInv => StatusTellsTheRows
  BY DEF IInv, CustodyInv
<1> QED
  BY InventoryInvariant, <1>1, PTL

\* A damaged return never leaves an asset issued and under repair.
THEOREM IssuedNotUnderRepair == Spec => []NeverIssuedUnderRepair
<1>1. IInv => NeverIssuedUnderRepair
  BY DEF IInv, CustodyInv
<1> QED
  BY InventoryInvariant, <1>1, PTL

\* A closed period has no open assignment, whenever the checkout was prepared.
THEOREM PeriodsSettled == Spec => []ClosedPeriodsSettled
<1>1. IInv => ClosedPeriodsSettled
  BY DEF IInv, PeriodInv
<1> QED
  BY InventoryInvariant, <1>1, PTL

\* getProgramContext always finds one open period, never two.
THEOREM PeriodUnique == Spec => []OneOpenPeriod
<1>1. IInv => OneOpenPeriod
  BY DEF IInv, PeriodInv
<1> QED
  BY InventoryInvariant, <1>1, PTL

\* Nobody shares an asset, and its status tells who has it or that it is in repair.
THEOREM CustodyCorrect == Spec => []CustodyInv
<1>1. IInv => CustodyInv
  BY DEF IInv
<1> QED
  BY InventoryInvariant, <1>1, PTL

\* There is one open period, and nothing is out in a closed one.
THEOREM PeriodsCorrect == Spec => []PeriodInv
<1>1. IInv => PeriodInv
  BY DEF IInv
<1> QED
  BY InventoryInvariant, <1>1, PTL

\* A rollover graduates nobody who still holds an asset.
THEOREM GraduationSafe == Spec => GraduatesHoldNothing
<1> DEFINE Safe == \A p \in People :
              /\ personStatus[p] = "ACTIVE"
              /\ personStatus'[p] = "GRADUATED"
              /\ \E q \in Periods : periodStatus[q] = "OPEN" /\ periodStatus'[q] = "CLOSED"
              => ~\E a \in assignments' : a.open /\ a.person = p
<1>1. ASSUME IInv, [Next]_vars, NEW q \in Periods,
             periodStatus[q] = "OPEN", periodStatus'[q] = "CLOSED"
      PROVE  \E k, next \in Periods : Rollover(k, next)
  <2>1. periodStatus' # periodStatus
    BY <1>1
  <2> QED
    BY <1>1, <2>1 DEF Next, CreateAsset, UpdateAsset, DeleteAsset, Checkout, CheckoutAllowed, MayHold, Checkin, CloseRow,
         CreateRepair, CloseRepair, CreatePerson, UpdatePerson, ImportStudent,
         AddGroupMembership, EndGroupMembership, TakeSnapshot, AbandonBackup,
         RecordBackup, vars
<1>2. ASSUME IInv, NEW k \in Periods, NEW next \in Periods, Rollover(k, next)
      PROVE  \A a \in assignments' : ~a.open
  BY <1>2, RolloverSettled DEF Rollover, RolloverAllowed, Outstanding, custodyVars, IInv
<1>3. IInv /\ [Next]_vars => [Safe]_vars
  BY <1>1, <1>2
<1> QED
  BY InventoryInvariant, <1>3, PTL DEF Spec, GraduatesHoldNothing

\* An assignment row is never lost, reopened or handed to somebody else.
THEOREM HistoryKept == Spec => AssignmentHistoryKept
<1> DEFINE Kept(a, b) == /\ b.id = a.id /\ b.asset = a.asset
                         /\ b.person = a.person /\ b.period = a.period
                         /\ b.open => a.open
           AllKept == \A a \in assignments : \E b \in assignments' : Kept(a, b)
<1>1. ASSUME TypeOK, NEW a \in assignments, NEW damaged \in BOOLEAN, NEW rid \in RepairIds,
             Checkin(a, damaged, rid)
      PROVE  AllKept
  <2> DEFINE closed == [a EXCEPT !.open = FALSE]
  <2>1. a \in Assignment /\ assignments' = (assignments \ {a}) \cup {closed}
    BY <1>1 DEF Checkin, CloseRow, TypeOK
  <2>2. Kept(a, closed)
    BY <2>1 DEF Assignment
  <2> HIDE DEF closed
  <2> QED
    BY <2>1, <2>2
<1>2. ASSUME assignments \subseteq assignments' PROVE AllKept
  BY <1>2
<1>3. TypeOK /\ [Next]_vars => [AllKept]_vars
  <2> HIDE DEF AllKept
  <2> QED
    BY <1>1, <1>2 DEF Next, CreateAsset, UpdateAsset, DeleteAsset, Checkout, CheckoutAllowed, MayHold, CreateRepair, RepairAllowed,
       CloseRepair, CreatePerson, UpdatePerson, ImportStudent, AddGroupMembership,
       EndGroupMembership, TakeSnapshot, AbandonBackup, RecordBackup, Rollover,
       vars, custodyVars
<1> QED
  BY TypeCorrect, <1>3, PTL DEF Spec, AssignmentHistoryKept

-----------------------------------------------------------------------------
\* The music library.

NothingBeforeCreation ==
  \A x \in Items : itemStatus[x] = "ABSENT" => ~HasIssue(x, notes)

StatusInv ==
  /\ LoanMatchesStatus
  /\ ShelfIsComplete
  /\ IncompleteCanClear
  /\ NothingBeforeCreation

LInv == LibraryTypeOK /\ StatusInv

\* An empty catalogue satisfies the invariant.
LEMMA InitLInv == LibraryInit => LInv
BY DEF LibraryInit, LInv, LibraryTypeOK, StatusInv, LoanMatchesStatus, ShelfIsComplete,
       IncompleteCanClear, NothingBeforeCreation, ItemStatus, OnLoan, HasIssue

\* Every handler leaves the three tables within their types.
LEMMA StepLibraryTypeOK == LibraryTypeOK /\ [LibraryNext]_libraryVars => LibraryTypeOK'
<1> SUFFICES ASSUME LibraryTypeOK, [LibraryNext]_libraryVars PROVE LibraryTypeOK'
  OBVIOUS
<1> USE DEF LibraryTypeOK, ItemStatus
<1>1. ASSUME NEW x \in Items, CreateItem(x) PROVE LibraryTypeOK'
  BY <1>1 DEF CreateItem
<1>2. ASSUME NEW x \in Items, ArchiveItem(x) PROVE LibraryTypeOK'
  BY <1>2 DEF ArchiveItem
<1>3. ASSUME NEW id \in NoteIds, NEW x \in Items, AddNote(id, x) PROVE LibraryTypeOK'
  <2>0. [id |-> id, item |-> x, unresolved |-> TRUE] \in Note
    BY DEF Note
  <2>1. notes' \subseteq Note
    BY <1>3, <2>0 DEF AddNote
  <2>2. itemStatus' \in [Items -> ItemStatus]
    BY <1>3 DEF AddNote
  <2> QED
    BY <1>3, <2>1, <2>2 DEF AddNote
<1>4. ASSUME NEW n \in notes, ResolveNote(n) PROVE LibraryTypeOK'
  <2>1. n.item \in Items
    BY DEF Note
  <2>2. notes' \subseteq Note
    BY <1>4 DEF ResolveNote, Note
  <2>3. ResolvedStatus(n.item, notes') \in ItemStatus
    BY <2>1 DEF ResolvedStatus, availableStatus
  <2>4. itemStatus' \in [Items -> ItemStatus]
    BY <1>4, <2>1, <2>3 DEF ResolveNote
  <2> QED
    BY <1>4, <2>2, <2>4 DEF ResolveNote
<1>5. ASSUME NEW id \in LoanIds, NEW x \in Items, CheckoutItem(id, x) PROVE LibraryTypeOK'
  <2>1. loans' \subseteq Loan
    BY <1>5 DEF CheckoutItem, Loan, LoanStatus
  <2> QED
    BY <1>5, <2>1 DEF CheckoutItem
<1>6. ASSUME NEW l \in loans, NEW outcome \in {"RETURNED", "LOST"}, CloseLoan(l, outcome)
      PROVE  LibraryTypeOK'
  <2>1. l.item \in Items
    BY DEF Loan
  <2>2. loans' \subseteq Loan
    BY <1>6 DEF CloseLoan, Loan, LoanStatus
  <2>3. ClosedStatus(l.item, outcome) \in ItemStatus
    BY DEF ClosedStatus, availableStatus
  <2>4. itemStatus' \in [Items -> ItemStatus]
    BY <1>6, <2>1, <2>3 DEF CloseLoan
  <2> QED
    BY <1>6, <2>2, <2>4 DEF CloseLoan
<1>7. CASE UNCHANGED libraryVars
  BY <1>7 DEF libraryVars
<1> QED
  BY <1>1, <1>2, <1>3, <1>4, <1>5, <1>6, <1>7 DEF LibraryNext

-----------------------------------------------------------------------------
\* Lending adds one open loan, of the set that is lent.
LEMMA LendingRows ==
  ASSUME NEW id \in LoanIds, NEW x \in Items, CheckoutItem(id, x)
  PROVE  \A y \in Items : OnLoan(y, loans') <=> (y = x \/ OnLoan(y, loans))
<1> DEFINE added == [id |-> id, item |-> x, status |-> "CHECKED_OUT"]
<1>1. loans' = loans \cup {added}
  BY DEF CheckoutItem
<1>2. added.item = x /\ added.status = "CHECKED_OUT"
  OBVIOUS
<1> HIDE DEF added
<1> QED
  BY <1>1, <1>2 DEF OnLoan

\* Noting an issue gives its set, and no other, an issue.
LEMMA NotingRows ==
  ASSUME NEW id \in NoteIds, NEW x \in Items, AddNote(id, x)
  PROVE  \A y \in Items : HasIssue(y, notes') <=> (y = x \/ HasIssue(y, notes))
<1> DEFINE added == [id |-> id, item |-> x, unresolved |-> TRUE]
<1>1. notes' = notes \cup {added}
  BY DEF AddNote
<1>2. added.item = x /\ added.unresolved
  OBVIOUS
<1> HIDE DEF added
<1> QED
  BY <1>1, <1>2 DEF HasIssue

\* Closing a loan ends the only open loan of its set and no other.
LEMMA ClosingRows ==
  ASSUME LibraryTypeOK, LoanMatchesStatus,
         NEW l \in loans, NEW outcome \in {"RETURNED", "LOST"}, CloseLoan(l, outcome)
  PROVE  \A y \in Items : OnLoan(y, loans') <=> (y # l.item /\ OnLoan(y, loans))
<1> DEFINE closed == [l EXCEPT !.status = outcome]
<1>1. /\ l \in Loan
      /\ loans' = (loans \ {l}) \cup {closed}
      /\ l.status = "CHECKED_OUT"
  BY DEF CloseLoan, OpenLoan, LibraryTypeOK
<1>2. closed.status # "CHECKED_OUT" /\ closed.item = l.item
  BY <1>1 DEF Loan
<1> TAKE y \in Items
<1>3. ASSUME OnLoan(y, loans') PROVE y # l.item /\ OnLoan(y, loans)
  <2>1. PICK m \in loans' : m.item = y /\ m.status = "CHECKED_OUT"
    BY <1>3 DEF OnLoan
  <2>2. m \in loans /\ m # l
    BY <1>1, <1>2, <2>1
  <2>3. m.item # l.item
    BY <1>1, <2>1, <2>2 DEF LoanMatchesStatus
  <2> QED
    BY <2>1, <2>2, <2>3 DEF OnLoan
<1>4. ASSUME y # l.item, OnLoan(y, loans) PROVE OnLoan(y, loans')
  BY <1>1, <1>4 DEF OnLoan
<1> QED
  BY <1>3, <1>4

\* Resolving an issue leaves the issues of every other set as they are.
LEMMA ResolvingRows ==
  ASSUME LibraryTypeOK, NEW n \in notes, ResolveNote(n)
  PROVE  /\ \A y \in Items \ {n.item} : HasIssue(y, notes') <=> HasIssue(y, notes)
         /\ HasIssue(n.item, notes') => HasIssue(n.item, notes)
BY DEF LibraryTypeOK, ResolveNote, HasIssue, Note

\* StatusInv survives every handler.
LEMMA StepStatus == LInv /\ [LibraryNext]_libraryVars => StatusInv'
<1> SUFFICES ASSUME LInv, [LibraryNext]_libraryVars PROVE StatusInv'
  OBVIOUS
<1> USE DEF LInv, StatusInv
<1>1. ASSUME NEW x \in Items, CreateItem(x) PROVE StatusInv'
  BY <1>1 DEF CreateItem, LibraryTypeOK, Catalogued, LoanMatchesStatus, ShelfIsComplete,
              IncompleteCanClear, NothingBeforeCreation
<1>2. ASSUME NEW x \in Items, ArchiveItem(x) PROVE StatusInv'
  BY <1>2 DEF ArchiveItem, MayArchive, LibraryTypeOK, Catalogued, LoanMatchesStatus,
              ShelfIsComplete, IncompleteCanClear, NothingBeforeCreation
<1>3. ASSUME NEW id \in NoteIds, NEW x \in Items, AddNote(id, x) PROVE StatusInv'
  <2>1. \A y \in Items : HasIssue(y, notes') <=> (y = x \/ HasIssue(y, notes))
    BY <1>3, NotingRows
  <2>2. \A y \in Items : itemStatus'[y] = IF y = x /\ itemStatus[y] = "AVAILABLE"
                                      THEN "INCOMPLETE" ELSE itemStatus[y]
    BY <1>3 DEF AddNote, LibraryTypeOK
  <2>3. loans' = loans /\ itemStatus[x] # "ABSENT"
    BY <1>3 DEF AddNote, Catalogued
  <2> QED
    BY <2>1, <2>2, <2>3 DEF LoanMatchesStatus, ShelfIsComplete, IncompleteCanClear,
                            NothingBeforeCreation
<1>4. ASSUME NEW n \in notes, ResolveNote(n) PROVE StatusInv'
  <2>1. n.item \in Items
    BY DEF LibraryTypeOK, Note
  <2>2. /\ loans' = loans
        /\ itemStatus' = [itemStatus EXCEPT ![n.item] = ResolvedStatus(n.item, notes')]
    BY <1>4 DEF ResolveNote
  <2>3. \A y \in Items \ {n.item} : itemStatus'[y] = itemStatus[y]
    BY <2>1, <2>2 DEF LibraryTypeOK
  <2>4. itemStatus'[n.item] = IF itemStatus[n.item] = "INCOMPLETE"
                          THEN IF HasIssue(n.item, notes') THEN "INCOMPLETE" ELSE "AVAILABLE"
                          ELSE itemStatus[n.item]
    BY <2>1, <2>2 DEF LibraryTypeOK, ResolvedStatus, availableStatus
  <2>5. LoanMatchesStatus'
    BY <2>1, <2>2, <2>3, <2>4 DEF LoanMatchesStatus
  <2>6. ShelfIsComplete' /\ IncompleteCanClear' /\ NothingBeforeCreation'
    BY <1>4, <2>1, <2>3, <2>4, ResolvingRows
       DEF ShelfIsComplete, IncompleteCanClear, NothingBeforeCreation
  <2> QED
    BY <2>5, <2>6
<1>5. ASSUME NEW id \in LoanIds, NEW x \in Items, CheckoutItem(id, x) PROVE StatusInv'
  <2>1. /\ notes' = notes
        /\ \A y \in Items : itemStatus'[y] = IF y = x THEN "ON_LOAN" ELSE itemStatus[y]
        /\ ~OnLoan(x, loans)
    BY <1>5 DEF CheckoutItem, LibraryTypeOK
  <2>2. \A l, m \in loans' : /\ l.status = "CHECKED_OUT"
                             /\ m.status = "CHECKED_OUT"
                             /\ l.item = m.item
                             => l = m
    BY <1>5, <2>1 DEF CheckoutItem, LoanMatchesStatus, OnLoan
  <2>3. LoanMatchesStatus'
    BY <1>5, <2>1, <2>2, LendingRows DEF LoanMatchesStatus
  <2> QED
    BY <2>1, <2>3 DEF ShelfIsComplete, IncompleteCanClear, NothingBeforeCreation
<1>6. ASSUME NEW l \in loans, NEW outcome \in {"RETURNED", "LOST"}, CloseLoan(l, outcome)
      PROVE  StatusInv'
  <2>1. l \in Loan /\ l.item \in Items
    BY DEF LibraryTypeOK, Loan
  <2>2. /\ notes' = notes
        /\ itemStatus' = [itemStatus EXCEPT ![l.item] = ClosedStatus(l.item, outcome)]
        /\ loans' = (loans \ {l}) \cup {[l EXCEPT !.status = outcome]}
    BY <1>6 DEF CloseLoan
  <2>3. \A y \in Items \ {l.item} : itemStatus'[y] = itemStatus[y]
    BY <2>1, <2>2 DEF LibraryTypeOK
  <2>4. itemStatus'[l.item] = IF outcome = "LOST" THEN "MISSING"
                          ELSE IF HasIssue(l.item, notes) THEN "INCOMPLETE" ELSE "AVAILABLE"
    BY <2>1, <2>2 DEF LibraryTypeOK, ClosedStatus, availableStatus
  <2>5. \A m \in loans' : m.status = "CHECKED_OUT" => m \in loans
    BY <2>1, <2>2 DEF Loan
  <2>6. LoanMatchesStatus'
    BY <1>6, <2>1, <2>3, <2>4, <2>5, ClosingRows DEF LoanMatchesStatus
  <2> QED
    BY <2>2, <2>3, <2>4, <2>6 DEF ShelfIsComplete, IncompleteCanClear, NothingBeforeCreation
<1>7. CASE UNCHANGED libraryVars
  BY <1>7 DEF libraryVars, LoanMatchesStatus, ShelfIsComplete, IncompleteCanClear,
              NothingBeforeCreation
<1> QED
  BY <1>1, <1>2, <1>3, <1>4, <1>5, <1>6, <1>7 DEF LibraryNext

-----------------------------------------------------------------------------
\* LInv holds in every reachable state.
THEOREM LibraryInvariant == LibrarySpec => []LInv
<1>1. LInv /\ [LibraryNext]_libraryVars => LInv'
  BY StepLibraryTypeOK, StepStatus DEF LInv
<1> QED
  BY InitLInv, <1>1, PTL DEF LibrarySpec

\* The tables keep their types.
THEOREM LibraryTyped == LibrarySpec => []LibraryTypeOK
<1>1. LInv => LibraryTypeOK
  BY DEF LInv
<1> QED
  BY LibraryInvariant, <1>1, PTL

\* The status of every set tells its loans and its issues.
THEOREM ShelfCorrect == LibrarySpec => []ShelfInv
<1>1. LInv => ShelfInv
  BY DEF LInv, StatusInv, ShelfInv
<1> QED
  BY LibraryInvariant, <1>1, PTL

\* A set is ON_LOAN exactly while one loan of it, and only one, is open.
THEOREM LoansTracked == LibrarySpec => []LoanMatchesStatus
<1>1. LInv => LoanMatchesStatus
  BY DEF LInv, StatusInv
<1> QED
  BY LibraryInvariant, <1>1, PTL

\* Whatever is recorded while a set is out, only complete sets can be lent.
THEOREM OnlyCompleteSetsOnShelf == LibrarySpec => []ShelfIsComplete
<1>1. LInv => ShelfIsComplete
  BY DEF LInv, StatusInv
<1> QED
  BY LibraryInvariant, <1>1, PTL

\* An INCOMPLETE set can always be brought back by resolving its issues.
THEOREM NoSetStuck == LibrarySpec => []IncompleteCanClear
<1>1. LInv => IncompleteCanClear
  BY DEF LInv, StatusInv
<1> QED
  BY LibraryInvariant, <1>1, PTL

\* Closing a loan never brings an archived or a lost set back.
THEOREM WithdrawalFinal == LibrarySpec => WithdrawnForGood
<1>1. LInv /\ [LibraryNext]_libraryVars =>
        [\A x \in Items :
           /\ itemStatus[x] = "ARCHIVED" => itemStatus'[x] = "ARCHIVED"
           /\ itemStatus[x] = "MISSING" => itemStatus'[x] \in {"MISSING", "ARCHIVED"}]_libraryVars
  <2> SUFFICES ASSUME LInv, LibraryNext, NEW x \in Items
               PROVE  /\ itemStatus[x] = "ARCHIVED" => itemStatus'[x] = "ARCHIVED"
                      /\ itemStatus[x] = "MISSING" => itemStatus'[x] \in {"MISSING", "ARCHIVED"}
    OBVIOUS
  <2> USE DEF LInv, LibraryTypeOK
  <2>1. CASE \E y \in Items : CreateItem(y) \/ ArchiveItem(y)
    BY <2>1 DEF CreateItem, ArchiveItem, Catalogued
  <2>2. CASE \E id \in NoteIds, y \in Items : AddNote(id, y)
    BY <2>2 DEF AddNote
  <2>3. CASE \E n \in notes : ResolveNote(n)
    BY <2>3 DEF ResolveNote, ResolvedStatus
  <2>4. CASE \E id \in LoanIds, y \in Items : CheckoutItem(id, y)
    BY <2>4 DEF CheckoutItem
  <2>5. CASE \E l \in loans, outcome \in {"RETURNED", "LOST"} : CloseLoan(l, outcome)
    <3>1. PICK l \in loans, outcome \in {"RETURNED", "LOST"} : CloseLoan(l, outcome)
      BY <2>5
    <3>2. l.item \in Items /\ itemStatus[l.item] = "ON_LOAN"
      BY <3>1 DEF CloseLoan, OpenLoan, Loan, StatusInv, LoanMatchesStatus, OnLoan
    <3> QED
      BY <3>1, <3>2 DEF CloseLoan
  <2> QED
    BY <2>1, <2>2, <2>3, <2>4, <2>5 DEF LibraryNext
<1> QED
  BY LibraryInvariant, <1>1, PTL DEF LibrarySpec, WithdrawnForGood

\* A loan that has ended keeps its outcome.
LEMMA LoansEndOnce == LibrarySpec => OutcomesAreFinal
<1>1. [LibraryNext]_libraryVars =>
        [\A l \in loans : l.status # "CHECKED_OUT" => l \in loans']_libraryVars
  BY DEF LibraryNext, CreateItem, ArchiveItem, AddNote, ResolveNote, CheckoutItem, CloseLoan,
         OpenLoan
<1> QED
  BY <1>1, PTL DEF LibrarySpec, OutcomesAreFinal

\* Neither a loan nor a withdrawal is ever taken back.
THEOREM SettlementFinal == LibrarySpec => SettledForGood
BY WithdrawalFinal, LoansEndOnce DEF SettledForGood
=============================================================================
