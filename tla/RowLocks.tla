------------------------------ MODULE RowLocks ------------------------------
(***************************************************************************)
(* The row locks of PostgreSQL as the server's SQL statements take them.   *)
(* A lock is a record [row, mode, by]; a set of such records is the lock   *)
(* table.  Only the modes the statements under src/server use appear:      *)
(*                                                                         *)
(*   "KeyShare"     the foreign-key check of an INSERT, on the row it      *)
(*                  references;                                            *)
(*   "NoKeyUpdate"  an UPDATE that leaves the key columns alone;           *)
(*   "Update"       SELECT ... FOR UPDATE, and DELETE.                     *)
(*                                                                         *)
(* An autocommitted statement needs the lock to be grantable but holds it  *)
(* for no longer than its own step, so it appears as a guard only.         *)
(***************************************************************************)

LockModes == {"KeyShare", "NoKeyUpdate", "Update"}

\* The conflict table of PostgreSQL's row-level locks, restricted to LockModes.
Conflicts(m, n) == \/ m = "Update" \/ n = "Update"
                   \/ m = "NoKeyUpdate" /\ n = "NoKeyUpdate"

LockTable(Rows, Holders) == SUBSET [row: Rows, mode: LockModes, by: Holders]

\* Nobody but `by' holds a lock on `row' that conflicts with `mode'.
Grantable(locks, row, mode, by) ==
    \A l \in locks : l.row = row /\ l.by # by => ~Conflicts(l.mode, mode)

Lock(row, mode, by) == [row |-> row, mode |-> mode, by |-> by]

\* COMMIT and ROLLBACK: every lock of the transaction goes at once.
ReleasedBy(locks, by) == {l \in locks : l.by # by}

\* Those whose locks keep `by' from a lock of the given mode on `row'.
Blockers(locks, row, mode, by) ==
    {l.by : l \in {k \in locks : /\ k.row = row
                                 /\ k.by # by
                                 /\ Conflicts(k.mode, mode)}}
=============================================================================
