----------------------------- MODULE FamilyPage -----------------------------
(***************************************************************************)
(* The family page: BackupRestoreMount.tsx.  `choice` is the household of  *)
(* the file that was read and found good for the household of that time.   *)
(***************************************************************************)
EXTENDS PageFrame

\* The three controls are disabled while busy.
ControlsEnabled == Shown("family") /\ ~busy

Download ==
    /\ ControlsEnabled /\ Room
    /\ busy' = TRUE
    /\ Starts(Read("download", prop))
    /\ UNCHANGED <<frameVars, loadedVars, formVars, switching, stale>>

\* A file of any household is picked; its text is read asynchronously.
SelectFile(h) ==
    /\ ControlsEnabled /\ Room
    /\ Starts(Call("file", prop, h, NoHousehold))
    /\ UNCHANGED <<frameVars, loadedVars, formVars, flagVars>>

FileRead(j) ==
    /\ j.live /\ j.call = "file"
    /\ choice' \in IF j.of = j.household THEN {j.of, NoHousehold} ELSE {NoHousehold}
    /\ Done(j)
    /\ UNCHANGED <<frameVars, loadedVars, second, review, flagVars>>

\* The user has confirmed.
Restore ==
    /\ ControlsEnabled /\ Room
    /\ choice # NoHousehold
    /\ busy' = TRUE
    /\ Starts(Call("restoreHouseholdBackup", prop, choice, NoHousehold))
    /\ UNCHANGED <<frameVars, loadedVars, formVars, switching, stale>>

\* The answer to either frees the controls, whatever household is shown now.
FamilyCallEnds(j) ==
    /\ j.live /\ j.call \in {"download", "restoreHouseholdBackup"}
    /\ busy' = FALSE
    /\ Done(j)
    /\ UNCHANGED <<frameVars, loadedVars, formVars, switching, stale>>

FamilyEnds(j) == FileRead(j) \/ FamilyCallEnds(j)
FamilyNext ==
    \/ Download \/ Restore
    \/ \E h \in Households : SelectFile(h)
    \/ \E j \in jobs : FamilyEnds(j)
=============================================================================
