------------------------ MODULE BackupRestoreProofs ------------------------
(***************************************************************************)
(* That files are complete, that a restore's deletes are never refused,    *)
(* that a restore replaces the whole household, and that only rows naming  *)
(* a budget can be refused: for any rows, writers and restores.            *)
(***************************************************************************)
EXTENDS BackupRestore, TLAPS

-----------------------------------------------------------------------------
(* The two orders against the schema.                                      *)

\* The eleven deletes, one by one.
LEMMA DeletesAre ==
    /\ DOMAIN Deletes = 1..11 /\ Len(Deletes) = 11
    /\ Deletes[1] = "wallet_reconciliations" /\ Deletes[2] = "balance_adjustments"
    /\ Deletes[3] = "goal_reservation_events" /\ Deletes[4] = "transaction_captures"
    /\ Deletes[5] = "financial_goals" /\ Deletes[6] = "budgets"
    /\ Deletes[7] = "transfers" /\ Deletes[8] = "transactions"
    /\ Deletes[9] = "wallets" /\ Deletes[10] = "household_members"
    /\ Deletes[11] = "households"
BY DEF Deletes, DeleteOrder

\* The eleven tables of a file, one by one.
LEMMA TablesAre ==
    /\ DOMAIN TableOrder = 1..11 /\ Len(TableOrder) = 11
    /\ TableOrder[1] = "households" /\ TableOrder[2] = "household_members"
    /\ TableOrder[3] = "wallets" /\ TableOrder[4] = "transactions"
    /\ TableOrder[5] = "transfers" /\ TableOrder[6] = "transaction_captures"
    /\ TableOrder[7] = "budgets" /\ TableOrder[8] = "financial_goals"
    /\ TableOrder[9] = "goal_reservation_events"
    /\ TableOrder[10] = "balance_adjustments"
    /\ TableOrder[11] = "wallet_reconciliations"
BY DEF TableOrder

\* Whatever refers to a table, and is not set to NULL, is deleted before it.
LEMMA DeleteOrderFits ==
    ASSUME NEW a, NEW k \in DOMAIN Deletes,
           <<a, Deletes[k]>> \in References, <<a, Deletes[k]>> \notin Nullable,
           a # Deletes[k]
    PROVE  \E i \in 1..(k - 1) : Deletes[i] = a
BY DeletesAre DEF References, Nullable

\* Whatever a row names, budgets apart, is inserted before it.
LEMMA TableOrderFits ==
    ASSUME NEW n \in DOMAIN TableOrder, NEW b,
           <<TableOrder[n], b>> \in References, b # "budgets"
    PROVE  \E i \in 1..(n - 1) : TableOrder[i] = b
BY TablesAre DEF References

\* Every table is deleted from, invitations by cascade.
LEMMA AllTablesDeleted ==
    ASSUME NEW t \in Tables, t # "household_invites"
    PROVE  \E i \in 1..11 : Deletes[i] = t
BY DeletesAre, TablesAre DEF Tables

\* A table has one place in the order.
LEMMA OnePlace ==
    \A i, j \in DOMAIN TableOrder : TableOrder[i] = TableOrder[j] => i = j
BY TablesAre

\* Foreign keys lead into tables of the file.
LEMMA ReferencesExported ==
    ASSUME NEW a, NEW b, <<a, b>> \in References
    PROVE  \E i \in 1..11 : TableOrder[i] = b
BY TablesAre DEF References

-----------------------------------------------------------------------------
(* The invariant: the initial state, and the requests that write rows.     *)

BackupOK == BackupTypeOK /\ BackupInv

LEMMA BackupInitOK == BackupInit => BackupOK
<1> SUFFICES ASSUME BackupInit PROVE BackupOK
  OBVIOUS
<1> USE HouseIsTheHousehold DEF BackupInit
<1>1. IsDatabase(NoRows)
  BY DEF IsDatabase, NoRows
<1>2. BackupTypeOK
  BY <1>1, TablesAre DEF BackupTypeOK, IsDatabase, NoExport, Ended, Answers
<1>3. Sound(db)
  BY DEF Sound, Closed
<1>4. HeldRowsStand
  BY DEF HeldRowsStand
<1>5. \A r \in Restorers : Progress(r) /\ ~Working(r)
  BY DEF Progress, Working, Ended
<1> QED BY <1>2, <1>3, <1>4, <1>5 DEF BackupOK, BackupInv, NoExport

\* A step that neither begins nor moves a restore, keeps the rows there are and
\* what they are settled by, and holds only what it may, keeps the invariant.
LEMMA RowsGrow ==
    ASSUME BackupOK, UNCHANGED <<files, export, restore>>,
           Sound(db'), IsDatabase(db'), DOMAIN db \subseteq DOMAIN db',
           HouseFree \/ DOMAIN db' = DOMAIN db,
           HeldRowsStand', writer' \in [Writers -> Ids \cup {NoRow}]
    PROVE  BackupOK'
<1>1. BackupTypeOK'
  BY DEF BackupOK, BackupTypeOK
<1>2. ASSUME NEW r \in Restorers
      PROVE  Progress(r)'
  BY DEF BackupOK, BackupInv, Progress, Working, Left, HouseFree
<1> QED BY <1>1, <1>2 DEF BackupOK, BackupInv, Working

LEMMA InsertOK == ASSUME BackupOK, NEW x \in Ids, Insert(x) PROVE BackupOK'
<1> USE HouseIsTheHousehold DEF BackupOK
<1>1. PICK refs \in Named[TableOf[x]] :
         db' = [y \in DOMAIN db \cup {x} |-> IF y = x THEN refs \cup {House} ELSE db[y]]
  BY DEF Insert
<1>2. /\ refs \subseteq DOMAIN db
      /\ \A y \in refs : <<TableOf[x], TableOf[y]>> \in References
  <2>0. TableOf[x] \in {"wallets", "financial_goals", "household_invites", "budgets",
                        "transactions", "transfers", "wallet_reconciliations"}
    BY DEF Insert, Named
  <2>1. CASE TableOf[x] \in {"wallets", "financial_goals", "household_invites"}
    BY <2>1 DEF Named
  <2>2. CASE TableOf[x] = "budgets"
    BY <2>2 DEF Named, RowsOf, References
  <2>3. CASE TableOf[x] = "transactions"
    <3>1. PICK w \in RowsOf(db, "wallets"),
               b \in {{c} : c \in RowsOf(db, "budgets")} \cup {{}} : refs = {w} \cup b
      BY <2>3 DEF Named
    <3> QED BY <2>3, <3>1 DEF RowsOf, References
  <2>4. CASE TableOf[x] = "transfers"
    <3>1. PICK w, v \in RowsOf(db, "wallets") : refs = {w} \cup {v}
      BY <2>4 DEF Named
    <3> QED BY <2>4, <3>1 DEF RowsOf, References
  <2>5. CASE TableOf[x] = "wallet_reconciliations"
    BY <2>5 DEF Named, RowsOf, References
  <2> QED BY <2>0, <2>1, <2>2, <2>3, <2>4, <2>5
<1>3. Sound(db') /\ IsDatabase(db')
  <2>1. x \in Ids \ DOMAIN db /\ Sound(db) /\ IsDatabase(db)
    BY DEF Insert, Fresh, BackupInv, BackupTypeOK
  <2> QED BY <1>1, <1>2, <2>1 DEF Sound, Closed, IsDatabase
<1>4. HeldRowsStand'
  BY <1>1 DEF Insert, Fresh, Held, HeldRowsStand, BackupInv, Settled, BackupTypeOK
<1> QED BY <1>1, <1>3, <1>4, RowsGrow DEF Insert, BackupTypeOK

LEMMA ReviewOK == ASSUME BackupOK, NEW x \in Ids, Review(x) PROVE BackupOK'
<1> USE HouseIsTheHousehold DEF BackupOK
<1>1. PICK w \in RowsOf(db, "wallets"),
           b \in {{}} \cup {{c} : c \in RowsOf(db, "budgets")} :
         db' = [db EXCEPT ![x] = {House, w} \cup b]
  BY DEF Review
<1>2. /\ b \cup {w} \subseteq DOMAIN db /\ x # House /\ x \in DOMAIN db
      /\ \A y \in b \cup {w} : <<TableOf[x], TableOf[y]>> \in References
  BY DEF Review, RowsOf, References
<1>3. Sound(db') /\ IsDatabase(db')
  BY <1>1, <1>2 DEF BackupInv, BackupTypeOK, Sound, Closed, IsDatabase
<1>4. HeldRowsStand'
  BY <1>1, <1>2 DEF Review, Held, HeldRowsStand, BackupInv, Settled, BackupTypeOK, IsDatabase
<1> QED BY <1>1, <1>3, <1>4, RowsGrow DEF Review, BackupTypeOK, IsDatabase

\* A writer's hold on one more row, or on none.
LEMMA HoldOK ==
    ASSUME BackupOK, NEW w \in Writers, UNCHANGED <<db, files, export, restore>>,
           NEW x \in Ids \cup {NoRow}, writer' = [writer EXCEPT ![w] = x], HeldRowsStand'
    PROVE  BackupOK'
BY RowsGrow DEF BackupOK, BackupInv, BackupTypeOK

LEMMA LockRowOK ==
    ASSUME BackupOK, NEW w \in Writers, NEW x \in Ids, LockRow(w, x) PROVE BackupOK'
<1> USE HouseIsTheHousehold DEF BackupOK
<1>1. \A r \in Restorers : x \notin restore[r].gone \cup restore[r].made
  <2> SUFFICES ASSUME NEW r \in Restorers
               PROVE  x \notin restore[r].gone \cup restore[r].made
    OBVIOUS
  <2>1. x \in Left(r)
    BY DEF LockRow, Gone, Left
  <2>2. Progress(r) /\ restore[r].at \in {"idle", "locking", "deleting", "inserting"}
    BY DEF BackupInv, BackupTypeOK
  <2> QED BY <2>1, <2>2 DEF Progress, Working, Left
<1>2. HeldRowsStand'
  BY <1>1 DEF LockRow, Held, HeldRowsStand, BackupInv, BackupTypeOK, Settled
<1> QED BY <1>2, HoldOK DEF LockRow

LEMMA PlaceCaptureOK ==
    ASSUME BackupOK, NEW w \in Writers, NEW x \in Ids, PlaceCapture(w, x) PROVE BackupOK'
<1> USE HouseIsTheHousehold DEF BackupOK
<1>1. \A r \in Restorers : x \notin restore[r].gone \cup restore[r].made
  BY DEF PlaceCapture, BackupInv, Progress
<1>2. HeldRowsStand'
  BY <1>1 DEF PlaceCapture, Held, HeldRowsStand, BackupInv, BackupTypeOK, Settled
<1> QED BY <1>2, HoldOK DEF PlaceCapture

LEMMA LeaveOK == ASSUME BackupOK, NEW w \in Writers, Leave(w) PROVE BackupOK'
<1>1. HeldRowsStand'
  BY DEF Leave, HeldRowsStand, BackupOK, BackupInv, BackupTypeOK, Settled
<1> QED BY <1>1, HoldOK DEF Leave

LEMMA StoreCaptureOK == ASSUME BackupOK, NEW w \in Writers, StoreCapture(w) PROVE BackupOK'
<1> USE HouseIsTheHousehold DEF BackupOK
<1>1. writer[w] \in Ids \ DOMAIN db /\ writer[w] # NoRow
      /\ db' = [z \in DOMAIN db \cup {writer[w]} |->
                   IF z = writer[w] THEN {House} ELSE db[z]]
  BY DEF StoreCapture
<1>2. Sound(db') /\ IsDatabase(db')
  BY <1>1 DEF BackupInv, BackupTypeOK, Sound, Closed, IsDatabase
<1>3. HeldRowsStand'
  <2>1. \A v \in Writers \ {w} : writer'[v] = writer[v] /\ writer[v] # writer[w]
    BY <1>1 DEF StoreCapture, HeldRowsStand, BackupInv, BackupTypeOK
  <2>2. writer'[w] = NoRow
    BY DEF StoreCapture, BackupTypeOK
  <2>3. \A z \in DOMAIN db : z \in DOMAIN db' /\ db'[z] = db[z]
    BY <1>1
  <2>4. \A z \in DOMAIN db' : z # writer[w] => z \in DOMAIN db
    BY <1>1
  <2>5. HeldRowsStand /\ UNCHANGED restore
    BY DEF StoreCapture, BackupInv
  <2> QED BY <2>1, <2>2, <2>3, <2>4, <2>5 DEF HeldRowsStand, Settled
<1> QED BY <1>1, <1>2, <1>3, RowsGrow DEF StoreCapture, BackupTypeOK

LEMMA WriteUnderOK ==
    ASSUME BackupOK, NEW w \in Writers, NEW y \in Ids, WriteUnder(w, y) PROVE BackupOK'
<1> DEFINE x == writer[w]
           link == TableOf[x] \in {"transaction_captures", "wallet_reconciliations"}
<1> USE HouseIsTheHousehold DEF BackupOK
<1>0. /\ x \in DOMAIN db /\ x \in Ids /\ x # NoRow /\ y \notin DOMAIN db
      /\ TableOf[x] \in DOMAIN Under /\ ~Settled(x) /\ x # House
      /\ TableOf[y] = Under[TableOf[x]] /\ y # House
      /\ db[x] \in SUBSET DOMAIN db /\ House \in DOMAIN db
      /\ \A z \in db[x] : z = House \/ <<TableOf[x], TableOf[z]>> \in References
  BY DEF WriteUnder, Fresh, BackupInv, BackupTypeOK, HeldRowsStand, Under, IsDatabase,
         Sound, Closed
<1>1. PICK refs \in NamedUnder(x) :
         db' = [z \in DOMAIN db \cup {y} |->
                   IF z = y THEN refs \cup {House}
                   ELSE IF z = x /\ link THEN db[z] \cup {y} ELSE db[z]]
  BY DEF WriteUnder
<1>2. /\ refs \subseteq DOMAIN db
      /\ \A z \in refs : <<TableOf[y], TableOf[z]>> \in References
  <2>1. CASE TableOf[x] = "financial_goals"
    <3>1. PICK v \in RowsOf(db, "wallets") : refs = {x, v}
      BY <2>1 DEF NamedUnder
    <3> QED BY <1>0, <2>1, <3>1 DEF RowsOf, References, Under
  <2>2. CASE TableOf[x] # "financial_goals"
    <3>1. refs = db[x] \ {House}
      BY <2>2 DEF NamedUnder
    <3>2. \A z \in refs : <<TableOf[x], TableOf[z]>> \in References
      BY <1>0, <3>1
    <3>3. \A z \in refs : TableOf[z] \notin {"transactions", "balance_adjustments"}
      BY <1>0, <3>1 DEF Settled
    <3>4. \/ TableOf[x] = "transaction_captures" /\ TableOf[y] = "transactions"
          \/ TableOf[x] = "wallet_reconciliations" /\ TableOf[y] = "balance_adjustments"
          \/ TableOf[x] = "household_invites"
      BY <1>0, <2>2 DEF Under
    <3>5. \A z \in refs : <<TableOf[y], TableOf[z]>> \in References
      <4> HIDE DEF x
      <4> QED BY <3>2, <3>3, <3>4 DEF References
    <3> QED BY <1>0, <3>1, <3>5
  <2> QED BY <2>1, <2>2
<1>3. link => <<TableOf[x], TableOf[y]>> \in References
  BY <1>0 DEF Under, References
<1>4. Sound(db') /\ IsDatabase(db')
  <2>1. Sound(db) /\ IsDatabase(db)
    BY DEF BackupInv, BackupTypeOK
  <2> HIDE DEF x, link
  <2> QED BY <1>0, <1>1, <1>2, <1>3, <2>1 DEF Sound, Closed, IsDatabase
<1>5. HeldRowsStand'
  <2>1. writer'[w] = NoRow /\ \A v \in Writers \ {w} : writer'[v] = writer[v]
    BY DEF WriteUnder, BackupTypeOK
  <2>2. \A v \in Writers \ {w} : writer[v] # NoRow => writer[v] # x /\ writer[v] # y
    BY <1>0 DEF WriteUnder, Held, HeldRowsStand, BackupInv
  <2>3. \A z \in DOMAIN db : z # x => z \in DOMAIN db' /\ db'[z] = db[z]
    BY <1>0, <1>1
  <2>4. \A z \in DOMAIN db' : z # y => z \in DOMAIN db
    BY <1>1
  <2>5. HeldRowsStand /\ UNCHANGED restore
    BY DEF WriteUnder, BackupInv
  <2> HIDE DEF x, link
  <2> QED BY <2>1, <2>2, <2>3, <2>4, <2>5 DEF HeldRowsStand, Settled
<1> QED BY <1>1, <1>4, <1>5, RowsGrow DEF WriteUnder, BackupTypeOK

-----------------------------------------------------------------------------
(* The invariant: exports.                                                 *)

\* What an export has read after one more table.
LEMMA NextPart ==
    ASSUME NEW d, NEW k \in DOMAIN TableOrder
    PROVE  WithTable(Part(d, k), d, TableOrder[k]) = Part(d, k + 1)
<1>1. ASSUME NEW x \in DOMAIN d
      PROVE  (\E i \in 1..k : TableOf[x] = TableOrder[i])
                <=> (\E i \in 1..(k - 1) : TableOf[x] = TableOrder[i]) \/ TableOf[x] = TableOrder[k]
  BY TablesAre
<1>2. DOMAIN Part(d, k) \cup RowsOf(d, TableOrder[k]) = DOMAIN Part(d, k + 1)
  BY <1>1, TablesAre DEF Part, RowsOf
<1> QED BY <1>2, TablesAre DEF WithTable, Part

\* All eleven tables of a sound database are a sound file.
LEMMA WholePart ==
    ASSUME NEW d, Sound(d), IsDatabase(d)
    PROVE  SoundFile(Part(d, 12)) /\ IsDatabase(Part(d, 12))
<1> DEFINE f == Part(d, 12)
<1> USE HouseIsTheHousehold
<1>1. \A x \in DOMAIN d : x \in DOMAIN f <=> \E i \in 1..11 : TableOf[x] = TableOrder[i]
  BY DEF Part
<1>2. DOMAIN f \subseteq DOMAIN d /\ \A x \in DOMAIN f : f[x] = d[x]
  BY DEF Part
<1>3. House \in DOMAIN f
  <2>1. House \in DOMAIN d /\ TableOf[House] = TableOrder[1]
    BY TablesAre DEF Sound
  <2> QED BY <2>1, <1>1
<1>4. \A x \in DOMAIN f : \A y \in f[x] : y \in DOMAIN f
  <2> SUFFICES ASSUME NEW x \in DOMAIN f, NEW y \in f[x] PROVE y \in DOMAIN f
    OBVIOUS
  <2>1. y \in DOMAIN d /\ (y = House \/ <<TableOf[x], TableOf[y]>> \in References)
    BY <1>2 DEF Sound, Closed
  <2>2. CASE y = House
    BY <2>2, <1>3
  <2>3. CASE <<TableOf[x], TableOf[y]>> \in References
    BY <2>1, <2>3, <1>1, ReferencesExported
  <2> QED BY <2>1, <2>2, <2>3
<1>5. \A x \in DOMAIN f : TableOf[x] # "household_invites"
  BY <1>1, <1>2, TablesAre
<1>6. IsDatabase(f)
  BY <1>2 DEF IsDatabase, Part
<1>7. Sound(f)
  <2> HIDE DEF f
  <2> QED BY <1>2, <1>3, <1>4 DEF Sound, Closed
<1> QED BY <1>5, <1>6, <1>7 DEF SoundFile

LEMMA ExportKeepsRest ==
    ASSUME BackupOK, UNCHANGED <<db, writer, restore>>, files \subseteq files',
           \A f \in files' \ files : SoundFile(f) /\ IsDatabase(f),
           export' \in [step: 0..11, view: {export'.view}, read: {export'.read}],
           IsDatabase(export'.view), IsDatabase(export'.read),
           export'.step # 0 => Sound(export'.view)
                               /\ export'.read = Part(export'.view, export'.step)
    PROVE  BackupOK'
<1> USE TablesAre DEF BackupOK
<1>1. BackupTypeOK'
  <2>1. \A r \in Restorers : restore[r].file \in files' \cup {NoRows}
    BY DEF BackupTypeOK
  <2>2. restore' \in [Restorers ->
          [at: {"idle", "locking", "deleting", "inserting"}, step: 0..12,
           file: files' \cup {NoRows}, gone: SUBSET Ids, made: SUBSET Ids, answer: Answers]]
    BY <2>1 DEF BackupTypeOK
  <2> QED BY <2>2 DEF BackupTypeOK
<1>2. \A r \in Restorers : Progress(r)'
  BY DEF BackupInv, Progress, Working, Left
<1>3. HeldRowsStand'
  BY DEF BackupInv, HeldRowsStand, Settled
<1> QED BY <1>1, <1>2, <1>3 DEF BackupInv, Working

LEMMA NoRowsIsPart == IsDatabase(NoRows) /\ \A d : Part(d, 1) = NoRows
BY DEF IsDatabase, NoRows, Part

LEMMA ExportOK == ASSUME BackupOK, BeginExport \/ ReadTable \/ AbandonExport PROVE BackupOK'
<1> USE TablesAre, NoRowsIsPart DEF BackupOK
<1>1. CASE BeginExport
  <2>1. export' = [step |-> 1, view |-> db, read |-> NoRows] /\ UNCHANGED <<db, writer, files, restore>>
    BY <1>1 DEF BeginExport
  <2>2. Sound(db) /\ IsDatabase(db)
    BY DEF BackupInv, BackupTypeOK
  <2> QED BY <2>1, <2>2, ExportKeepsRest
<1>2. CASE AbandonExport
  <2>1. export' = NoExport /\ UNCHANGED <<db, writer, files, restore>>
    BY <1>2 DEF AbandonExport
  <2> QED BY <2>1, ExportKeepsRest DEF NoExport
<1>3. CASE ReadTable
  <2> DEFINE k == export.step
             next == Part(export.view, k + 1)
  <2>1. /\ k \in 1..11 /\ UNCHANGED <<db, writer, restore>>
        /\ Sound(export.view) /\ IsDatabase(export.view)
        /\ export \in [step: 0..11, view: {export.view}, read: {export.read}]
        /\ next = WithTable(export.read, QueryView, TableOrder[k])
    BY <1>3, NextPart DEF ReadTable, BackupInv, BackupTypeOK, QueryView
  <2>2. CASE k < 11
    <3>1. export' = [export EXCEPT !.step = k + 1, !.read = next] /\ UNCHANGED files
      BY <1>3, <2>1, <2>2 DEF ReadTable
    <3>2. IsDatabase(next)
      BY <2>1 DEF IsDatabase, Part
    <3> HIDE DEF next
    <3>3. export' = [step |-> k + 1, view |-> export.view, read |-> next]
      BY <2>1, <3>1
    <3>4. next = Part(export.view, k + 1)
      BY DEF next
    <3> QED BY <2>1, <2>2, <3>1, <3>2, <3>3, <3>4, ExportKeepsRest
  <2>3. CASE k = 11
    <3>1. export' = NoExport /\ files' = files \cup {next}
      BY <1>3, <2>1, <2>3 DEF ReadTable
    <3>2. SoundFile(next) /\ IsDatabase(next)
      BY <2>1, <2>3, WholePart
    <3> HIDE DEF next
    <3> QED BY <2>1, <3>1, <3>2, ExportKeepsRest DEF NoExport
  <2> QED BY <2>1, <2>2, <2>3
<1> QED BY <1>1, <1>2, <1>3

-----------------------------------------------------------------------------
(* The invariant: restores.                                                *)

RestoreRecords(f) ==
    [at: {"idle", "locking", "deleting", "inserting"}, step: 0..12,
     file: f \cup {NoRows}, gone: SUBSET Ids, made: SUBSET Ids, answer: Answers]

\* One restore moves, takes no row somebody holds, and none works beside it.
LEMMA RestoreKeepsRest ==
    ASSUME BackupOK, UNCHANGED <<db, writer, files, export>>, NEW r \in Restorers,
           NEW moved \in RestoreRecords(files), restore' = [restore EXCEPT ![r] = moved],
           Progress(r)', Working(r)' => \A q \in Restorers \ {r} : ~Working(q),
           \A w \in Writers : writer[w] # NoRow => writer[w] \notin moved.gone \cup moved.made
    PROVE  BackupOK'
<1> USE TablesAre DEF BackupOK
<1>0. /\ restore'[r] = moved
      /\ \A q \in Restorers \ {r} : restore'[q] = restore[q]
  BY DEF BackupTypeOK
<1>1. BackupTypeOK'
  BY DEF BackupTypeOK, RestoreRecords
<1>2. \A q \in Restorers : Progress(q)'
  BY <1>0 DEF BackupInv, Progress, Working, Left
<1>3. HeldRowsStand'
  BY <1>0 DEF BackupInv, HeldRowsStand, Settled
<1>4. \A p, q \in Restorers : Working(p)' /\ Working(q)' => p = q
  BY <1>0 DEF BackupInv, Working
<1> QED BY <1>1, <1>2, <1>3, <1>4 DEF BackupInv

LEMMA EndedIsRecord ==
    \A f, a : a \in Answers => Ended(a) \in RestoreRecords(f)
BY DEF Ended, RestoreRecords

LEMMA EndOK ==
    ASSUME BackupOK, UNCHANGED <<db, writer, files, export>>, NEW r \in Restorers,
           NEW a \in Answers \ {"delete_refused"},
           restore' = [restore EXCEPT ![r] = Ended(a)]
    PROVE  BackupOK'
<1>1. restore'[r] = Ended(a)
  BY DEF BackupOK, BackupTypeOK
<1>2. Progress(r)' /\ ~Working(r)'
  BY <1>1 DEF Progress, Working, Ended
<1>3. Ended(a).gone = {} /\ Ended(a).made = {}
  BY DEF Ended
<1> QED BY <1>2, <1>3, EndedIsRecord, RestoreKeepsRest

LEMMA AtIsRecord ==
    ASSUME NEW kind \in {"locking", "deleting", "inserting"}, NEW n \in 0..12,
           NEW f \in files \cup {NoRows}, NEW gone \in SUBSET Ids, NEW made \in SUBSET Ids
    PROVE  At(kind, n, f, gone, made) \in RestoreRecords(files)
BY DEF At, RestoreRecords, Answers

LEMMA AtFields ==
    \A kind, n, f, gone, made :
        /\ At(kind, n, f, gone, made).gone = gone
        /\ At(kind, n, f, gone, made).made = made
BY DEF At

LEMMA BeginRestoreOK == ASSUME BackupOK, NEW r \in Restorers, BeginRestore(r) PROVE BackupOK'
<1>1. PICK f \in files : restore' = [restore EXCEPT ![r] = At("locking", 0, f, {}, {})]
  BY DEF BeginRestore
<1>2. At("locking", 0, f, {}, {}) \in RestoreRecords(files)
  BY AtIsRecord
<1>3. restore'[r] = At("locking", 0, f, {}, {}) /\ UNCHANGED <<db, writer, files, export>>
  BY <1>1 DEF BackupOK, BackupTypeOK, BeginRestore
<1>4. Progress(r)' /\ ~Working(r)'
  BY <1>3 DEF Progress, Working, At
<1>5. At("locking", 0, f, {}, {}).gone = {} /\ At("locking", 0, f, {}, {}).made = {}
  BY DEF At
<1> QED BY <1>1, <1>2, <1>3, <1>4, <1>5, RestoreKeepsRest

LEMMA LockHouseholdOK == ASSUME BackupOK, NEW r \in Restorers, LockHousehold(r) PROVE BackupOK'
<1> DEFINE moved == At("deleting", 1, restore[r].file, {}, {})
<1>1. restore' = [restore EXCEPT ![r] = moved] /\ UNCHANGED <<db, writer, files, export>>
  BY DEF LockHousehold
<1>2. restore[r].file \in files
  BY DEF BackupOK, BackupInv, Progress, LockHousehold
<1>3. moved \in RestoreRecords(files) /\ moved.gone = {} /\ moved.made = {}
  <2>1. moved \in RestoreRecords(files)
    BY <1>2, AtIsRecord
  <2> QED BY <2>1, AtFields
<1>4. restore'[r] = moved
  BY <1>1 DEF BackupOK, BackupTypeOK
<1>5. Progress(r)'
  BY <1>1, <1>2, <1>4, DeletesAre DEF Progress, Working, Left, At
<1>6. \A q \in Restorers : ~Working(q)
  BY DEF LockHousehold, HouseFree
<1> QED BY <1>1, <1>3, <1>5, <1>6, RestoreKeepsRest

\* No row that is left refers to a row that is deleted next.
LEMMA NeverRefused ==
    ASSUME BackupOK, NEW r \in Restorers, restore[r].at = "deleting",
           NEW x \in Left(r) \ Doomed(r, Deletes[restore[r].step]),
           NEW y \in db[x] \cap Doomed(r, Deletes[restore[r].step])
    PROVE  ~Refuses(x, y)
<1> DEFINE k == restore[r].step
           t == Deletes[k]
<1> USE HouseIsTheHousehold DEF BackupOK
<1>1. /\ k \in DOMAIN Deletes
      /\ \A i \in 1..(k - 1) : TableOf[x] # Deletes[i]
  BY DEF BackupInv, Progress
<1>2. y = House \/ <<TableOf[x], TableOf[y]>> \in References
  BY DEF Left, BackupInv, Sound
<1>3. x \in Ids /\ y \in Ids /\ TableOf[x] \in Tables /\ TableOf[x] # t
      /\ <<TableOf[x], t>> \notin Cascading
  BY DEF Left, Doomed, BackupTypeOK, IsDatabase
<1>4. TableOf[y] = t \/ <<TableOf[y], t>> \in Cascading
  BY DEF Doomed
<1>5. CASE y = House
  <2>1. t = "households" /\ k = 11
    BY <1>1, <1>3, <1>4, <1>5, DeletesAre DEF Cascading
  <2>2. TableOf[x] # "household_invites" /\ TableOf[x] # "households"
    BY <1>3, <2>1 DEF Cascading
  <2>3. PICK i \in 1..11 : Deletes[i] = TableOf[x]
    BY <1>3, <2>2, AllTablesDeleted
  <2> QED BY <1>1, <2>1, <2>2, <2>3, DeletesAre
<1>6. CASE <<TableOf[x], TableOf[y]>> \in References
  <2>1. TableOf[y] = t
    BY <1>4, <1>6 DEF References, Cascading
  <2>2. <<TableOf[x], t>> \in Nullable
    BY <1>1, <1>3, <1>6, <2>1, DeleteOrderFits
  <2> QED BY <2>1, <2>2 DEF Refuses
<1> QED BY <1>2, <1>5, <1>6

LEMMA DeleteTableOK == ASSUME BackupOK, NEW r \in Restorers, DeleteTable(r) PROVE BackupOK'
<1> DEFINE k == restore[r].step
           doomed == Doomed(r, Deletes[k])
           gone == restore[r].gone \cup doomed
           moved == IF k < 11 THEN At("deleting", k + 1, restore[r].file, gone, {})
                    ELSE At("inserting", 1, restore[r].file, gone, {})
<1> USE HouseIsTheHousehold, DeletesAre DEF BackupOK
<1>1. /\ restore[r].at = "deleting" /\ k \in 1..11 /\ restore[r].made = {}
      /\ restore[r].file \in files /\ Working(r) /\ restore[r].gone \subseteq DOMAIN db
      /\ \A x \in Left(r) : \A i \in 1..(k - 1) : TableOf[x] # Deletes[i]
  BY DEF DeleteTable, BackupInv, Progress, Working
<1>2. ~ \E x \in Left(r) \ doomed : \E y \in db[x] \cap doomed : Refuses(x, y)
  BY <1>1, NeverRefused
<1>3. restore' = [restore EXCEPT ![r] = moved] /\ UNCHANGED <<db, writer, files, export>>
  BY <1>2 DEF DeleteTable
<1>4. doomed \subseteq DOMAIN db /\ gone \subseteq DOMAIN db /\ DOMAIN db \subseteq Ids
  BY <1>1 DEF Doomed, BackupTypeOK, IsDatabase
<1>5. moved \in RestoreRecords(files) /\ moved.gone = gone /\ moved.made = {}
  <2> HIDE DEF gone, doomed
  <2>1. CASE k < 11
    <3>1. At("deleting", k + 1, restore[r].file, gone, {}) \in RestoreRecords(files)
      BY <1>1, <1>4, <2>1, AtIsRecord
    <3> QED BY <2>1, <3>1, AtFields
  <2>2. CASE ~(k < 11)
    <3>1. At("inserting", 1, restore[r].file, gone, {}) \in RestoreRecords(files)
      BY <1>1, <1>4, AtIsRecord
    <3> QED BY <2>2, <3>1, AtFields
  <2> QED BY <2>1, <2>2
<1>6. restore'[r] = moved
  BY <1>3 DEF BackupTypeOK
<1>7. \A x \in DOMAIN db \ gone : \A i \in 1..k : TableOf[x] # Deletes[i]
  BY <1>1 DEF Left, Doomed
<1>8. k = 11 => DOMAIN db \subseteq gone
  <2> SUFFICES ASSUME k = 11, NEW x \in DOMAIN db \ gone PROVE FALSE
    OBVIOUS
  <2>0. TableOf[x] \in Tables
    BY <1>4
  <2>1. \A i \in 1..11 : TableOf[x] # Deletes[i]
    BY <1>7
  <2>2. TableOf[x] = "household_invites"
    BY <2>0, <2>1, AllTablesDeleted
  <2> QED BY <2>2 DEF Doomed, Cascading
<1>9. Progress(r)'
  <2> HIDE DEF gone, doomed
  <2>1. CASE k < 11
    BY <1>1, <1>3, <1>4, <1>6, <1>7, <2>1 DEF Progress, Working, Left, At
  <2>2. CASE k = 11
    BY <1>1, <1>3, <1>4, <1>6, <1>8, <2>2, NoRowsIsPart, TablesAre
       DEF Progress, Working, Left, At, NoRows
  <2> QED BY <1>1, <2>1, <2>2
<1>10. \A q \in Restorers \ {r} : ~Working(q)
  BY <1>1 DEF BackupInv
<1>11. \A w \in Writers : writer[w] # NoRow => writer[w] \notin gone
  BY DEF DeleteTable, Held, BackupInv, HeldRowsStand
<1> HIDE DEF moved
<1> QED BY <1>3, <1>5, <1>9, <1>10, <1>11, RestoreKeepsRest

\* A row that is refused names a row of a table that comes later, or of its own.
LEMMA RefusedForBudgets ==
    ASSUME BackupOK, NEW r \in Restorers, restore[r].at = "inserting",
           restore[r].step \in DOMAIN TableOrder,
           NEW x \in RowsOf(restore[r].file, TableOrder[restore[r].step]),
           \/ x \in Left(r) \cup restore[r].made
           \/ ~(restore[r].file[x] \subseteq Left(r) \cup restore[r].made
                   \cup {y \in RowsOf(restore[r].file, TableOrder[restore[r].step]) : y < x})
    PROVE  \E y \in restore[r].file[x] : TableOf[y] = "budgets"
<1> DEFINE f == restore[r].file
           n == restore[r].step
<1> USE TablesAre DEF BackupOK
<1>1. /\ f \in files /\ SoundFile(f) /\ IsDatabase(f)
      /\ restore[r].made = DOMAIN Part(f, n) /\ Left(r) = {}
  BY DEF BackupInv, BackupTypeOK, Progress
<1>2. x \in DOMAIN f /\ TableOf[x] = TableOrder[n] /\ n \in 1..11
  BY DEF RowsOf
<1>3. x \notin DOMAIN Part(f, n)
  BY <1>2, OnePlace DEF Part
<1>4. PICK y \in f[x] : y \notin DOMAIN Part(f, n)
  BY <1>1, <1>3
<1>5. y \in DOMAIN f /\ (y = House \/ <<TableOf[x], TableOf[y]>> \in References)
  BY <1>1, <1>2 DEF SoundFile, Sound, Closed
<1>6. y # House
  <2> SUFFICES ASSUME y = House PROVE FALSE
    OBVIOUS
  <2>1. n # 1
    <3> SUFFICES ASSUME n = 1 PROVE FALSE
      OBVIOUS
    <3>1. x \in Ids /\ TableOf[x] = "households"
      BY <1>1, <1>2 DEF IsDatabase
    <3>2. x = House
      BY <3>1, HouseIsTheHousehold
    <3> QED BY <1>1, <1>4, <3>2 DEF SoundFile, Sound
  <2>2. TableOf[y] = TableOrder[1]
    BY HouseIsTheHousehold
  <2> QED BY <1>2, <1>4, <1>5, <2>1, <2>2 DEF Part
<1>7. SUFFICES ASSUME TableOf[y] # "budgets" PROVE FALSE
  BY <1>4
<1>8. PICK i \in 1..(n - 1) : TableOrder[i] = TableOf[y]
  BY <1>2, <1>5, <1>6, <1>7, TableOrderFits
<1> QED BY <1>4, <1>5, <1>8 DEF Part

LEMMA InsertTableOK == ASSUME BackupOK, NEW r \in Restorers, InsertTable(r) PROVE BackupOK'
<1> DEFINE f == restore[r].file
           n == restore[r].step
           rows == RowsOf(f, TableOrder[n])
           made == restore[r].made \cup rows
           moved == At("inserting", n + 1, f, restore[r].gone, made)
<1> USE TablesAre DEF BackupOK
<1>1. /\ restore[r].at = "inserting" /\ n \in 1..11 /\ Working(r)
      /\ UNCHANGED <<db, writer, files, export>>
      /\ f \in files /\ IsDatabase(f) /\ restore[r].gone \subseteq DOMAIN db
      /\ restore[r].made = DOMAIN Part(f, n) /\ Left(r) = {}
  BY DEF InsertTable, BackupInv, BackupTypeOK, Progress, Working
<1>2. \/ restore' = [restore EXCEPT ![r] = Ended("insert_refused")]
      \/ restore' = [restore EXCEPT ![r] = moved]
  BY DEF InsertTable
<1>3. CASE restore' = [restore EXCEPT ![r] = Ended("insert_refused")]
  BY <1>1, <1>3, EndOK DEF Answers
<1>4. CASE restore' = [restore EXCEPT ![r] = moved]
  <2>1. made = DOMAIN Part(f, n + 1)
    BY <1>1 DEF Part, RowsOf
  <2>2. restore[r].gone \subseteq Ids /\ made \subseteq Ids
    BY <1>1, <2>1 DEF BackupTypeOK, IsDatabase, Part
  <2> HIDE DEF made
  <2>3. moved \in RestoreRecords(files)
    BY <1>1, <2>2, AtIsRecord
  <2>4. moved.gone = restore[r].gone /\ moved.made = made
    BY AtFields
  <2>5. restore'[r] = moved
    BY <1>4 DEF BackupTypeOK
  <2>6. Progress(r)'
    BY <1>1, <2>1, <2>5 DEF Progress, Working, Left, At
  <2>7. \A q \in Restorers \ {r} : ~Working(q)
    BY <1>1 DEF BackupInv
  <2>8. \A w \in Writers : writer[w] # NoRow => writer[w] \notin restore[r].gone \cup made
    BY DEF InsertTable, Held, BackupInv, HeldRowsStand, made
  <2> HIDE DEF moved
  <2> QED BY <1>1, <1>4, <2>3, <2>4, <2>6, <2>7, <2>8, RestoreKeepsRest
<1> QED BY <1>2, <1>3, <1>4

\* What a restore commits is its file.
LEMMA CommitsTheFile ==
    ASSUME BackupOK, NEW r \in Restorers, CommitRestore(r)
    PROVE  db' = restore[r].file /\ restore[r].made = DOMAIN restore[r].file
           /\ SoundFile(restore[r].file) /\ IsDatabase(restore[r].file)
           /\ DOMAIN db \subseteq restore[r].gone
<1> DEFINE f == restore[r].file
<1> USE TablesAre, HouseIsTheHousehold DEF BackupOK
<1>1. /\ f \in files /\ SoundFile(f) /\ IsDatabase(f)
      /\ restore[r].made = DOMAIN Part(f, 12) /\ Left(r) = {}
  BY DEF CommitRestore, BackupInv, BackupTypeOK, Progress
<1>2. ASSUME NEW x \in DOMAIN f
      PROVE  \E i \in 1..11 : TableOf[x] = TableOrder[i]
  <2>1. TableOf[x] \in Tables /\ TableOf[x] # "household_invites"
    BY <1>1 DEF SoundFile, IsDatabase
  <2> QED BY <2>1 DEF Tables
<1>3. DOMAIN Part(f, 12) = DOMAIN f
  BY <1>2 DEF Part
<1>4. db' = [x \in DOMAIN f |-> f[x]]
  BY <1>1, <1>3 DEF CommitRestore
<1> QED BY <1>1, <1>3, <1>4 DEF IsDatabase, Left

LEMMA CommitRestoreOK == ASSUME BackupOK, NEW r \in Restorers, CommitRestore(r) PROVE BackupOK'
<1> USE HouseIsTheHousehold DEF BackupOK
<1>1. PICK late \in SUBSET {q \in Restorers : restore[q].at = "locking"} :
         restore' = [q \in Restorers |-> IF q = r THEN Ended("restored")
                                        ELSE IF q \in late THEN Ended("not_found")
                                        ELSE restore[q]]
  BY DEF CommitRestore
<1>2. UNCHANGED <<writer, files, export>> /\ Working(r)
  BY DEF CommitRestore, Working
<1>3. \A q \in Restorers : /\ ~Working(q)' /\ restore'[q].gone = {} /\ restore'[q].made = {}
                           /\ Progress(q)'
  <2> SUFFICES ASSUME NEW q \in Restorers
               PROVE  ~Working(q)' /\ restore'[q].gone = {} /\ restore'[q].made = {}
                      /\ Progress(q)'
    OBVIOUS
  <2>1. CASE q = r \/ q \in late
    BY <1>1, <2>1 DEF Working, Progress, Ended
  <2>2. CASE q # r /\ q \notin late
    <3>1. restore'[q] = restore[q] /\ ~Working(q) /\ Progress(q)
      BY <1>1, <1>2, <2>2 DEF BackupInv
    <3> QED BY <1>2, <3>1 DEF Working, Progress
  <2> QED BY <2>1, <2>2
<1>4. Sound(db') /\ IsDatabase(db') /\ DOMAIN db' = restore[r].made
  BY CommitsTheFile DEF SoundFile
<1>5. HeldRowsStand'
  <2> SUFFICES ASSUME NEW w \in Writers, writer[w] # NoRow
               PROVE  /\ writer[w] \notin DOMAIN db' /\ TableOf[writer[w]] = "transaction_captures"
                      /\ \A v \in Writers \ {w} : writer[v] # writer[w]
    BY <1>2, <1>3 DEF HeldRowsStand
  <2>1. writer[w] \notin restore[r].gone \cup restore[r].made
    BY DEF BackupInv, HeldRowsStand
  <2>2. writer[w] \notin DOMAIN db
    BY <2>1, CommitsTheFile
  <2> QED BY <1>4, <2>1, <2>2 DEF BackupInv, HeldRowsStand
<1>6. BackupTypeOK'
  <2>0. \A q \in Restorers : restore[q] \in RestoreRecords(files)
    BY TablesAre DEF BackupTypeOK, RestoreRecords
  <2>1. \A q \in Restorers : restore'[q] \in RestoreRecords(files)
    <3>1. Ended("restored") \in RestoreRecords(files) /\ Ended("not_found") \in RestoreRecords(files)
      BY EndedIsRecord DEF Answers
    <3> QED BY <1>1, <2>0, <3>1
  <2>2. restore' \in [Restorers -> RestoreRecords(files)]
    BY <1>1, <2>1
  <2> QED BY <1>2, <1>4, <2>2, TablesAre DEF BackupTypeOK, RestoreRecords
<1> QED BY <1>2, <1>3, <1>4, <1>5, <1>6 DEF BackupInv

\* Every step keeps the invariant.
LEMMA BackupStepOK == BackupOK /\ [BackupNext]_backupVars => BackupOK'
<1> SUFFICES ASSUME BackupOK, [BackupNext]_backupVars PROVE BackupOK'
  OBVIOUS
<1>1. CASE \E x \in Ids : Insert(x) \/ Review(x)
  BY <1>1, InsertOK, ReviewOK
<1>2. CASE \E w \in Writers : \E x \in Ids : LockRow(w, x) \/ PlaceCapture(w, x) \/ WriteUnder(w, x)
  BY <1>2, LockRowOK, PlaceCaptureOK, WriteUnderOK
<1>3. CASE \E w \in Writers : StoreCapture(w) \/ Leave(w)
  BY <1>3, StoreCaptureOK, LeaveOK
<1>4. CASE BeginExport \/ ReadTable \/ AbandonExport
  BY <1>4, ExportOK
<1>5. CASE \E r \in Restorers : BeginRestore(r) \/ LockHousehold(r)
  BY <1>5, BeginRestoreOK, LockHouseholdOK
<1>6. CASE \E r \in Restorers : RestoreStep(r)
  BY <1>6, DeleteTableOK, InsertTableOK, CommitRestoreOK DEF RestoreStep
<1>7. CASE \E r \in Restorers : AbortRestore(r)
  BY <1>7, EndOK DEF AbortRestore, Answers
<1>8. CASE UNCHANGED backupVars
  <2>1. HeldRowsStand'
    BY <1>8 DEF backupVars, HeldRowsStand, Settled, BackupOK, BackupInv
  <2> QED BY <1>8, <2>1, RowsGrow DEF backupVars, BackupOK, BackupInv, BackupTypeOK
<1> QED BY <1>1, <1>2, <1>3, <1>4, <1>5, <1>6, <1>7, <1>8 DEF BackupNext

-----------------------------------------------------------------------------
(* The theorems.                                                           *)

LEMMA BackupAlwaysOK == BackupSpec => []BackupOK
BY BackupInitOK, BackupStepOK, PTL DEF BackupSpec

\* Tables, files and requests under way are always typed.
THEOREM BackupTypes == BackupSpec => []BackupTypeOK
<1>1. BackupOK => BackupTypeOK
  BY DEF BackupOK
<1> QED BY <1>1, BackupAlwaysOK, PTL

\* The committed rows and the files stay sound, and a restore at work has
\* emptied, and then filled, exactly the tables before its step.
THEOREM BackupInvariant == BackupSpec => []BackupInv
<1>1. BackupOK => BackupInv
  BY DEF BackupOK
<1> QED BY <1>1, BackupAlwaysOK, PTL

\* Every row a file refers to is in the file.
THEOREM ExportsAreClosed == BackupSpec => []ExportIsClosed
<1>1. BackupOK => ExportIsClosed
  BY DEF BackupOK, BackupInv, SoundFile, Sound, ExportIsClosed
<1> QED BY <1>1, BackupAlwaysOK, PTL

\* No DELETE of a restore is ever refused.
THEOREM DeletesSucceed == BackupSpec => []DeletesAreNeverRefused
<1>1. BackupOK => DeletesAreNeverRefused
  BY DEF BackupOK, BackupInv, Progress, DeletesAreNeverRefused
<1> QED BY <1>1, BackupAlwaysOK, PTL

\* Only the commit of a restore tells its client that it is restored, and only
\* a refused insert of its own that one was refused.
LEMMA AnswersOwnStep ==
    ASSUME BackupOK, [BackupNext]_backupVars, NEW r \in Restorers,
           restore[r].at = "inserting", restore'[r].answer \in {"restored", "insert_refused"}
    PROVE  CommitRestore(r) \/ InsertTable(r)
<1> USE DEF BackupOK
<1>0. restore[r].answer = "none"
  BY DEF BackupInv, Progress
<1>1. restore'[r] # restore[r]
  BY <1>0
<1>2. \E q \in Restorers : BeginRestore(q) \/ LockHousehold(q) \/ RestoreStep(q) \/ AbortRestore(q)
  BY <1>1 DEF BackupNext, backupVars, Insert, Review, LockRow, PlaceCapture, WriteUnder,
              StoreCapture, Leave, BeginExport, ReadTable, AbandonExport
<1>3. PICK q \in Restorers :
         BeginRestore(q) \/ LockHousehold(q) \/ RestoreStep(q) \/ AbortRestore(q)
  BY <1>2
<1>4. CASE q # r
  <2>1. restore'[r] = restore[r]
    <3>1. CASE CommitRestore(q)
      BY <1>4, <3>1 DEF CommitRestore
    <3>2. CASE ~CommitRestore(q)
      BY <1>3, <1>4, <3>2
         DEF BackupTypeOK, BeginRestore, LockHousehold, RestoreStep, DeleteTable, InsertTable,
             AbortRestore
    <3> QED BY <3>1, <3>2
  <2> QED BY <1>1, <2>1
<1>5. CASE q = r
  <2>1. ~BeginRestore(r) /\ ~LockHousehold(r) /\ ~DeleteTable(r)
    BY DEF BeginRestore, LockHousehold, DeleteTable
  <2>2. ~AbortRestore(r)
    BY DEF AbortRestore, BackupTypeOK, Ended
  <2> QED BY <1>3, <1>5, <2>1, <2>2 DEF RestoreStep
<1> QED BY <1>4, <1>5

\* A restore that succeeds leaves the household as the file has it.
THEOREM RestoresReplaceWhole == BackupSpec => ReplacedWhole
<1>1. ASSUME BackupOK, [BackupNext]_backupVars, NEW r \in Restorers,
             restore[r].at = "inserting", restore'[r].answer = "restored"
      PROVE  db' = restore[r].file
  <2>1. CASE CommitRestore(r)
    BY <1>1, <2>1, CommitsTheFile
  <2>2. ~InsertTable(r)
    <3> SUFFICES ASSUME InsertTable(r) PROVE FALSE
      OBVIOUS
    <3>1. restore'[r].answer # "restored"
      BY <1>1 DEF InsertTable, Ended, At, BackupOK, BackupTypeOK
    <3> QED BY <1>1, <3>1
  <2> QED BY <1>1, <2>1, <2>2, AnswersOwnStep
<1>2. BackupOK /\ [BackupNext]_backupVars =>
        [\A r \in Restorers :
          restore[r].at = "inserting" /\ restore'[r].answer = "restored"
              => db' = restore[r].file]_backupVars
  BY <1>1
<1> QED BY <1>2, BackupAlwaysOK, PTL DEF BackupSpec, ReplacedWhole

\* A file in which no row names a budget is never refused.
THEOREM RefusedOnlyForBudgets == BackupSpec => OnlyBudgetsRefuse
<1>1. ASSUME BackupOK, [BackupNext]_backupVars, NEW r \in Restorers,
             restore[r].at = "inserting", restore'[r].answer = "insert_refused"
      PROVE  \E x \in DOMAIN restore[r].file : \E y \in restore[r].file[x] :
                TableOf[y] = "budgets"
  <2>1. ~CommitRestore(r)
    <3> SUFFICES ASSUME CommitRestore(r) PROVE FALSE
      OBVIOUS
    <3>1. restore'[r].answer = "restored"
      BY DEF CommitRestore, Ended
    <3> QED BY <1>1, <3>1
  <2>2. InsertTable(r)
    BY <1>1, <2>1, AnswersOwnStep
  <2>3. restore[r].step \in DOMAIN TableOrder
    BY <2>2 DEF InsertTable
  <2>4. PICK x \in RowsOf(restore[r].file, TableOrder[restore[r].step]) :
           \/ x \in Left(r) \cup restore[r].made
           \/ ~(restore[r].file[x] \subseteq Left(r) \cup restore[r].made
                   \cup {y \in RowsOf(restore[r].file, TableOrder[restore[r].step]) : y < x})
    BY <1>1, <2>2 DEF InsertTable, At, BackupOK, BackupTypeOK
  <2>5. \E y \in restore[r].file[x] : TableOf[y] = "budgets"
    BY <1>1, <2>3, <2>4, RefusedForBudgets
  <2> QED BY <2>4, <2>5 DEF RowsOf
<1>2. BackupOK /\ [BackupNext]_backupVars =>
        [\A r \in Restorers :
          restore[r].at = "inserting" /\ restore'[r].answer = "insert_refused"
              => \E x \in DOMAIN restore[r].file : \E y \in restore[r].file[x] :
                    TableOf[y] = "budgets"]_backupVars
  BY <1>1
<1> QED BY <1>2, BackupAlwaysOK, PTL DEF BackupSpec, OnlyBudgetsRefuse

=============================================================================
