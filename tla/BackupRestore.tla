--------------------------- MODULE BackupRestore ---------------------------
(***************************************************************************)
(* Export and restore of one household (server/internal/backup/service.go) *)
(* beside the handlers that write its rows.                                *)
(*                                                                         *)
(* A row is an id in a table with the set of rows its foreign keys name;   *)
(* its other columns travel unchanged through to_jsonb and                 *)
(* jsonb_populate_record.  An export reads every table in one REPEATABLE   *)
(* READ snapshot, one query each.  A restore is one transaction: it locks  *)
(* the household's row, runs one DELETE per table, deletes the household,  *)
(* and inserts the rows of the file, table by table.  What it deleted and  *)
(* inserted is invisible before COMMIT.                                    *)
(***************************************************************************)
EXTENDS Integers, Sequences, FiniteSets

CONSTANTS
    Ids,        \* row ids; the numbers are the order of ORDER BY id
    House,      \* the id of the household
    TableOf,    \* the table each id is a row of
    FirstRows,  \* the rows the household starts with
    Writers,    \* requests that lock a row of the household and insert under it
    Restorers,  \* restore requests
    NoRow,      \* a writer that holds nothing
    FileBound   \* bound: how many different files the user keeps

VARIABLES
    db,       \* the committed rows: id -> the ids its foreign keys name
    writer,   \* the row each writer holds, in the table or about to be in it
    files,    \* the backups the user has downloaded
    export,   \* the export under way
    restore   \* the restores: where each is, and what it has done so far

backupVars == <<db, writer, files, export, restore>>

-----------------------------------------------------------------------------
(* The schema and the two orders of service.go.                            *)

\* Mutant: the transactions are inserted before the wallets they name.
TableOrderSwapped == <<"households", "household_members", "transactions", "wallets",
    "transfers", "transaction_captures", "budgets", "financial_goals",
    "goal_reservation_events", "balance_adjustments", "wallet_reconciliations">>

TableOrder == <<"households", "household_members", "wallets", "transactions",
    "transfers", "transaction_captures", "budgets", "financial_goals",
    "goal_reservation_events", "balance_adjustments", "wallet_reconciliations">>

DeleteOrder == <<"wallet_reconciliations", "balance_adjustments",
    "goal_reservation_events", "transaction_captures", "financial_goals",
    "budgets", "transfers", "transactions", "wallets", "household_members">>

Deletes == Append(DeleteOrder, "households")

\* Invitations belong to the household but not to a backup.
Tables == {TableOrder[i] : i \in DOMAIN TableOrder} \cup {"household_invites"}

\* ON DELETE CASCADE and ON DELETE SET NULL; every other key refuses.
Cascading == {"household_members", "transaction_captures", "household_invites"}
                 \X {"households"}
Nullable == {"transactions", "transaction_captures"} \X {"budgets"}
Refuses(x, y) == <<TableOf[x], TableOf[y]>> \notin Cascading \cup Nullable

ASSUME HouseIsTheHousehold ==
    /\ Ids \subseteq Nat
    /\ House \in Ids /\ House \in FirstRows /\ FirstRows \subseteq Ids
    /\ TableOf \in [Ids -> Tables]
    /\ \A x \in Ids : TableOf[x] = "households" <=> x = House
    /\ NoRow \notin Ids

ASSUME FileBoundIsNat == FileBound \in Nat

\* A household starts with rows that name only the household.
ASSUME FirstRowsStandAlone ==
    \A x \in FirstRows : TableOf[x] \in {"households", "household_members",
        "wallets", "transaction_captures", "budgets", "financial_goals",
        "household_invites"}

RowsOf(d, t) == {x \in DOMAIN d : TableOf[x] = t}

\* Every foreign key of d names a row of d.
Closed(d) == \A x \in DOMAIN d : d[x] \subseteq DOMAIN d

IsDatabase(d) == DOMAIN d \subseteq Ids /\ d \in [DOMAIN d -> SUBSET Ids]

Answers == {"none", "restored", "delete_refused", "insert_refused", "not_found", "failed"}

NoRows == [x \in {} |-> {}]

\* A restore that is not under way, with the answer its client got.
Ended(answer) ==
    [at |-> "idle", step |-> 0, file |-> NoRows, gone |-> {}, made |-> {}, answer |-> answer]

\* A restore of file f about to issue the n-th statement of its kind.
At(kind, n, f, gone, made) ==
    [at |-> kind, step |-> n, file |-> f, gone |-> gone, made |-> made, answer |-> "none"]

NoExport == [step |-> 0, view |-> NoRows, read |-> NoRows]

BackupInit ==
    /\ db = [x \in FirstRows |-> {House} \ {x}]
    /\ writer = [w \in Writers |-> NoRow]
    /\ files = {}
    /\ export = NoExport
    /\ restore = [r \in Restorers |-> Ended("none")]

-----------------------------------------------------------------------------
(* Row locks, as far as a restore meets them.  A restore that is past its  *)
(* first statement has the household FOR UPDATE, so no insert, whose       *)
(* foreign key shares that row, can finish beside it.                      *)

Working(r) == restore[r].at \in {"deleting", "inserting"}
\* Mutant: the restore does not lock the household.
HouseFreeAlways == TRUE
HouseFree == \A r \in Restorers : ~Working(r)

\* Rows deleted by a restore that has not committed: to touch one is to wait.
Gone == UNION {restore[r].gone : r \in Restorers}

Held(x) == \E w \in Writers : writer[w] = x

\* An id that gen_random_uuid or uuid.New can return: it names no row anywhere.
Fresh(x) ==
    /\ x \in Ids \ DOMAIN db
    /\ \A f \in files \cup {export.view} \cup {restore[r].file : r \in Restorers} :
          x \notin DOMAIN f

-----------------------------------------------------------------------------
(* The handlers that write the household's rows.                           *)

\* What a row inserted by one statement names besides the household.  A
\* renewal is made once of each budget that is not a renewal itself.
Named ==
    LET wallet == {{w} : w \in RowsOf(db, "wallets")}
        budget == {{b} : b \in RowsOf(db, "budgets")}
        original == {b \in RowsOf(db, "budgets") :
                        /\ db[b] = {House}
                        /\ \A c \in RowsOf(db, "budgets") : b \notin db[c]}
    IN  [wallets |-> {{}}, financial_goals |-> {{}}, household_invites |-> {{}},
         budgets |-> {{}} \cup {{b} : b \in original},
         transactions |-> {w \cup b : w \in wallet, b \in budget \cup {{}}},
         transfers |-> {w \cup v : w, v \in wallet} \ wallet,
         wallet_reconciliations |-> wallet]

Insert(x) ==
    /\ Fresh(x) /\ HouseFree /\ ~Held(x)
    /\ TableOf[x] \in DOMAIN Named
    /\ \E refs \in Named[TableOf[x]] :
          db' = [y \in DOMAIN db \cup {x} |-> IF y = x THEN refs \cup {House} ELSE db[y]]
    /\ UNCHANGED <<writer, files, export, restore>>

\* A capture is confirmed, and a case adjusted, when it names what came of it.
Settled(x) ==
    \E y \in db[x] : TableOf[y] \in {"transactions", "balance_adjustments"}

\* ReviewCapture updates a pending capture; it never needs the household's row.
Review(x) ==
    /\ x \in RowsOf(db, "transaction_captures") /\ ~Settled(x)
    /\ ~Held(x) /\ x \notin Gone
    /\ \E w \in RowsOf(db, "wallets") \ Gone,
          b \in {{}} \cup {{b} : b \in RowsOf(db, "budgets") \ Gone} :
             db' = [db EXCEPT ![x] = {House, w} \cup b]
    /\ UNCHANGED <<writer, files, export, restore>>

\* The rows handlers lock FOR UPDATE, and where they then insert a row.  (A
\* reservation locks its wallet too, after its goal; see GoalFunds.)
Under == [financial_goals |-> "goal_reservation_events",
          transaction_captures |-> "transactions",
          wallet_reconciliations |-> "balance_adjustments",
          household_invites |-> "household_members"]

LockRow(w, x) ==
    /\ writer[w] = NoRow
    /\ x \in DOMAIN db \ Gone /\ ~Held(x)
    /\ TableOf[x] \in DOMAIN Under /\ ~Settled(x)
    /\ writer' = [writer EXCEPT ![w] = x]
    /\ UNCHANGED <<db, files, export, restore>>

\* CreateCapture takes its id from the client, perhaps one the server had
\* before a restore; the new row is in the index before its key is checked.
PlaceCapture(w, x) ==
    /\ writer[w] = NoRow
    /\ x \in Ids \ DOMAIN db /\ ~Held(x)
    /\ \A r \in Restorers : x \notin restore[r].made
    /\ TableOf[x] = "transaction_captures"
    /\ writer' = [writer EXCEPT ![w] = x]
    /\ UNCHANGED <<db, files, export, restore>>

\* What the row inserted under x names besides the household.
NamedUnder(x) ==
    IF TableOf[x] = "financial_goals" THEN {{x, w} : w \in RowsOf(db, "wallets")}
    ELSE {db[x] \ {House}}

\* The handler inserts its row, closes the one it holds, and commits.
WriteUnder(w, y) ==
    LET x == writer[w] IN
    /\ x \in DOMAIN db /\ HouseFree
    /\ Fresh(y) /\ ~Held(y) /\ TableOf[y] = Under[TableOf[x]]
    /\ TableOf[x] = "transaction_captures" =>
          \E v \in db[x] : TableOf[v] = "wallets"
    /\ \E refs \in NamedUnder(x) :
          db' = [z \in DOMAIN db \cup {y} |->
                    IF z = y THEN refs \cup {House}
                    ELSE IF z = x /\ TableOf[x] \in {"transaction_captures",
                                                    "wallet_reconciliations"}
                    THEN db[z] \cup {y} ELSE db[z]]
    /\ writer' = [writer EXCEPT ![w] = NoRow]
    /\ UNCHANGED <<files, export, restore>>

StoreCapture(w) ==
    /\ writer[w] \in Ids \ DOMAIN db /\ HouseFree
    /\ db' = [z \in DOMAIN db \cup {writer[w]} |-> IF z = writer[w] THEN {House} ELSE db[z]]
    /\ writer' = [writer EXCEPT ![w] = NoRow]
    /\ UNCHANGED <<files, export, restore>>

\* The handler refuses, is cancelled, or is chosen by the deadlock detector.
Leave(w) ==
    /\ writer[w] # NoRow
    /\ writer' = [writer EXCEPT ![w] = NoRow]
    /\ UNCHANGED <<db, files, export, restore>>

-----------------------------------------------------------------------------
(* Export.                                                                 *)

BeginExport ==
    /\ export.step = 0 /\ Cardinality(files) < FileBound
    /\ export' = [step |-> 1, view |-> db, read |-> NoRows]
    /\ UNCHANGED <<db, writer, files, restore>>

\* The rows of d in table t, after those read before.
WithTable(read, d, t) ==
    [x \in DOMAIN read \cup RowsOf(d, t) |-> IF x \in DOMAIN read THEN read[x] ELSE d[x]]

\* Mutant: READ COMMITTED, where each query sees the database as it is then.
QueryViewCommitted == db

\* Every query of the transaction sees the snapshot of its first one.
QueryView == export.view

\* Mutant: the loop over the tables runs once too often.
ReadTableTooMany ==
    /\ export.step \in DOMAIN TableOrder
    /\ export' = [export EXCEPT !.step = @ + 1,
                     !.read = WithTable(@, QueryView, TableOrder[export.step])]
    /\ UNCHANGED <<db, writer, files, restore>>

ReadTable ==
    /\ export.step \in DOMAIN TableOrder
    /\ LET read == WithTable(export.read, QueryView, TableOrder[export.step]) IN
       IF export.step < Len(TableOrder)
       THEN /\ export' = [export EXCEPT !.step = @ + 1, !.read = read]
            /\ UNCHANGED files
       ELSE /\ export' = NoExport
            /\ files' = files \cup {read}
    /\ UNCHANGED <<db, writer, restore>>

AbandonExport ==
    /\ export.step # 0
    /\ export' = NoExport
    /\ UNCHANGED <<db, writer, files, restore>>

-----------------------------------------------------------------------------
(* Restore.                                                                *)

\* A confirmed restore of a file of this household (Validate accepts it).
BeginRestore(r) ==
    /\ restore[r].at = "idle"
    /\ \E f \in files :
          restore' = [restore EXCEPT ![r] = At("locking", 0, f, {}, {})]
    /\ UNCHANGED <<db, writer, files, export>>

LockHousehold(r) ==
    /\ restore[r].at = "locking" /\ HouseFree
    /\ restore' = [restore EXCEPT ![r] = At("deleting", 1, @.file, {}, {})]
    /\ UNCHANGED <<db, writer, files, export>>

\* Mutant: only the rows that the file will replace.
DoomedOfFile(r, t) ==
    {x \in DOMAIN db \ restore[r].gone : TableOf[x] = t /\ x \in DOMAIN restore[r].file}

\* The rows DELETE FROM t takes, with those that cascade from them.
Doomed(r, t) ==
    {x \in DOMAIN db \ restore[r].gone :
        TableOf[x] = t \/ <<TableOf[x], t>> \in Cascading}

\* The rows the restore's statements see: what it left and what it made.
Left(r) == DOMAIN db \ restore[r].gone

DeleteTable(r) ==
    /\ restore[r].at = "deleting"
    /\ LET doomed == Doomed(r, Deletes[restore[r].step])
           refused == \E x \in Left(r) \ doomed : \E y \in db[x] \cap doomed : Refuses(x, y)
       IN  /\ \A x \in doomed : ~Held(x)
           /\ restore' = [restore EXCEPT ![r] =
                 IF refused THEN Ended("delete_refused")
                 ELSE IF @.step < Len(Deletes)
                 THEN At("deleting", @.step + 1, @.file, @.gone \cup doomed, {})
                 ELSE At("inserting", 1, @.file, @.gone \cup doomed, {})]
    /\ UNCHANGED <<db, writer, files, export>>

\* Mutant: a row that is refused is skipped.
InsertTableSkips(r) ==
    /\ restore[r].at = "inserting" /\ restore[r].step \in DOMAIN TableOrder
    /\ LET file == restore[r].file
           rows == {x \in RowsOf(file, TableOrder[restore[r].step]) :
                       file[x] \subseteq restore[r].made}
       IN  restore' = [restore EXCEPT ![r] =
                        At("inserting", @.step + 1, file, @.gone, @.made \cup rows)]
    /\ UNCHANGED <<db, writer, files, export>>

\* One INSERT per row of the file, in its order; each key is checked at once.
InsertTable(r) ==
    /\ restore[r].at = "inserting" /\ restore[r].step \in DOMAIN TableOrder
    /\ LET file == restore[r].file
           rows == RowsOf(file, TableOrder[restore[r].step])
           seen == Left(r) \cup restore[r].made
           refused == \E x \in rows :
                         \/ x \in seen
                         \/ ~(file[x] \subseteq seen \cup {y \in rows : y < x})
       IN  /\ \A x \in rows : ~Held(x)
           /\ restore' = [restore EXCEPT ![r] =
                 IF refused THEN Ended("insert_refused")
                 ELSE At("inserting", @.step + 1, file, @.gone, @.made \cup rows)]
    /\ UNCHANGED <<db, writer, files, export>>

\* COMMIT makes it all visible.  Other restores that already waited for the
\* household find the row they waited for deleted.
CommitRestore(r) ==
    /\ restore[r].at = "inserting" /\ restore[r].step = Len(TableOrder) + 1
    /\ db' = [x \in Left(r) \cup restore[r].made |->
                 IF x \in restore[r].made THEN restore[r].file[x] ELSE db[x]]
    /\ \E late \in SUBSET {q \in Restorers : restore[q].at = "locking"} :
          restore' = [q \in Restorers |-> IF q = r THEN Ended("restored")
                                          ELSE IF q \in late THEN Ended("not_found")
                                          ELSE restore[q]]
    /\ UNCHANGED <<writer, files, export>>

\* Mutant: a restore that failed, or lost a circle, starts over.
AbortRestoreRetries(r) ==
    /\ restore[r].at # "idle"
    /\ restore' = [restore EXCEPT ![r] = At("locking", 0, @.file, {}, {})]
    /\ UNCHANGED <<db, writer, files, export>>

\* The client goes away, or the deadlock detector chooses the restore.
AbortRestore(r) ==
    /\ restore[r].at # "idle"
    /\ restore' = [restore EXCEPT ![r] = Ended("failed")]
    /\ UNCHANGED <<db, writer, files, export>>

RestoreStep(r) == DeleteTable(r) \/ InsertTable(r) \/ CommitRestore(r)

\* The rows the next statement of restore r takes.
Wants(r) ==
    IF restore[r].at = "deleting" THEN Doomed(r, Deletes[restore[r].step])
    ELSE IF restore[r].at = "inserting" /\ restore[r].step \in DOMAIN TableOrder
    THEN RowsOf(restore[r].file, TableOrder[restore[r].step])
    ELSE {}

\* Restore r waits for a row that w holds; w has yet to share the household's
\* row, which r holds.  Whoever the detector chooses is rolled back.
BreakCircle(r, w) ==
    /\ Working(r) /\ writer[w] \in Wants(r)
    /\ AbortRestore(r) \/ Leave(w)

-----------------------------------------------------------------------------

BackupNext ==
    \/ \E x \in Ids : Insert(x) \/ Review(x)
    \/ \E w \in Writers :
          \/ \E x \in Ids : LockRow(w, x) \/ PlaceCapture(w, x) \/ WriteUnder(w, x)
          \/ StoreCapture(w) \/ Leave(w)
    \/ BeginExport \/ ReadTable \/ AbandonExport
    \/ \E r \in Restorers :
          BeginRestore(r) \/ LockHousehold(r) \/ RestoreStep(r) \/ AbortRestore(r)

BackupSpec == BackupInit /\ [][BackupNext]_backupVars

\* A restore issues its next statement and is served in its turn among those
\* who wait for a row; PostgreSQL finds and breaks circles.
BackupFairness ==
    \A r \in Restorers :
        /\ SF_backupVars(RestoreStep(r))
        /\ \A w \in Writers : WF_backupVars(BreakCircle(r, w))

FairBackupSpec == BackupSpec /\ BackupFairness

-----------------------------------------------------------------------------
(* The invariant behind the proofs.                                        *)

\* The foreign keys of the schema besides those to households.
References ==
    ({"transactions", "transfers", "transaction_captures", "goal_reservation_events",
      "balance_adjustments", "wallet_reconciliations"} \X {"wallets"})
    \cup ({"transactions", "transaction_captures", "budgets"} \X {"budgets"})
    \cup {<<"transaction_captures", "transactions">>,
          <<"goal_reservation_events", "financial_goals">>,
          <<"wallet_reconciliations", "balance_adjustments">>}

\* d is a household whose foreign keys lead where the schema says.
Sound(d) ==
    /\ House \in DOMAIN d /\ d[House] = {} /\ Closed(d)
    /\ \A x \in DOMAIN d : \A y \in d[x] :
          y = House \/ <<TableOf[x], TableOf[y]>> \in References

\* The rows of d in the tables before the n-th of TableOrder.
Part(d, n) ==
    [x \in {y \in DOMAIN d : \E i \in 1..(n - 1) : TableOf[y] = TableOrder[i]} |-> d[x]]

\* A file is a household without its invitations.
SoundFile(f) ==
    /\ Sound(f)
    /\ \A x \in DOMAIN f : TableOf[x] # "household_invites"

\* A row a writer holds is its own, unsettled, and out of a restore's hands.
HeldRowsStand ==
    \A w \in Writers : writer[w] # NoRow =>
        /\ \A v \in Writers \ {w} : writer[v] # writer[w]
        /\ \A r \in Restorers : writer[w] \notin restore[r].gone \cup restore[r].made
        /\ IF writer[w] \in DOMAIN db
           THEN TableOf[writer[w]] \in DOMAIN Under /\ ~Settled(writer[w])
           ELSE TableOf[writer[w]] = "transaction_captures"

\* What a restore has deleted and inserted when it comes to its next statement.
Progress(r) ==
    /\ restore[r].at # "idle" => restore[r].file \in files /\ restore[r].answer = "none"
    /\ ~Working(r) => restore[r].gone = {} /\ restore[r].made = {}
    /\ restore[r].gone \subseteq DOMAIN db
    /\ restore[r].at = "deleting" =>
          /\ restore[r].step \in DOMAIN Deletes /\ restore[r].made = {}
          /\ \A x \in Left(r) : \A i \in 1..(restore[r].step - 1) : TableOf[x] # Deletes[i]
    /\ restore[r].at = "inserting" =>
          /\ restore[r].step \in 1..(Len(TableOrder) + 1)
          /\ Left(r) = {} /\ restore[r].made = DOMAIN Part(restore[r].file, restore[r].step)
    /\ restore[r].answer # "delete_refused"

\* The inductive invariant: the committed rows and the files are sound, an export
\* has read part of one snapshot, and the one restore at work has emptied the
\* tables before its step (service.go:45-88, 146-166).
BackupInv ==
    /\ Sound(db) /\ \A f \in files : SoundFile(f)
    /\ export.step # 0 => Sound(export.view) /\ export.read = Part(export.view, export.step)
    /\ HeldRowsStand
    /\ \A r \in Restorers : Progress(r) /\ \A q \in Restorers : Working(r) /\ Working(q) => q = r

-----------------------------------------------------------------------------
(* Properties.                                                             *)

\* Types of the tables, the files and the requests under way.
BackupTypeOK ==
    /\ IsDatabase(db)
    /\ writer \in [Writers -> Ids \cup {NoRow}]
    /\ \A f \in files : IsDatabase(f)
    /\ export \in [step: 0..Len(TableOrder), view: {export.view}, read: {export.read}]
    /\ IsDatabase(export.view) /\ IsDatabase(export.read)
    /\ restore \in [Restorers ->
          [at: {"idle", "locking", "deleting", "inserting"}, step: 0..(Len(TableOrder) + 1),
           file: files \cup {NoRows}, gone: SUBSET Ids, made: SUBSET Ids, answer: Answers]]

\* However requests write while an export reads table after table, every row a
\* file refers to is in the file (service.go:45-88).
ExportIsClosed == \A f \in files : Closed(f)

\* No DELETE of a restore meets a row that still refers to what it deletes:
\* the delete order fits the foreign keys, and nobody adds a row to a table
\* that has been emptied (service.go:41, 147-157).
DeletesAreNeverRefused == \A r \in Restorers : restore[r].answer # "delete_refused"

\* A restore replaces: when one succeeds, the household is the file and nothing
\* else, whatever was written while it ran (service.go:146-166).
ReplacedWhole ==
    [][\A r \in Restorers :
          restore[r].at = "inserting" /\ restore'[r].answer = "restored"
              => db' = restore[r].file]_backupVars

\* What a restore cannot insert has to do with budgets: a file in which no row
\* names a budget is never refused (service.go:40, 158-165).
OnlyBudgetsRefuse ==
    [][\A r \in Restorers :
          restore[r].at = "inserting" /\ restore'[r].answer = "insert_refused"
              => \E x \in DOMAIN restore[r].file : \E y \in restore[r].file[x] :
                    TableOf[y] = "budgets"]_backupVars

\* A restore that holds the household ends: nobody it waits for waits for ever
\* for it (service.go:141-166 against the row locks of the other handlers).
EveryRestoreEnds == \A r \in Restorers : Working(r) ~> restore[r].at = "idle"

\* docs/product/backup-restore.md:17 says a restore deletes and reinserts in
\* foreign-key-safe order; then the database never refuses a row of an export.
RestoreGivesBack == \A r \in Restorers : restore[r].answer # "insert_refused"
=============================================================================
