------------------------- MODULE ReconciliationPage -------------------------
(***************************************************************************)
(* The reconciliation page: ReconciliationMount.tsx and                    *)
(* useReconciliation.ts.  While it loads, its form and its list are hidden.*)
(***************************************************************************)
EXTENDS PageFrame

FormAndListShown == Shown("reconciliation") /\ ~busy

\* The form needs a wallet; a reconciliation of the list has an Adjust button.
CheckEnabled == FormAndListShown /\ choice # NoHousehold
AdjustShown == FormAndListShown /\ items # NoHousehold

\* submit and adjust; neither button is disabled while its call is under way.
Reconcile ==
    /\ Room
    /\ \/ CheckEnabled /\ Starts(Call("createReconciliation", prop, choice, NoHousehold))
       \/ AdjustShown /\ Starts(Call("adjustReconciliation", prop, items, NoHousehold))
    /\ UNCHANGED <<frameVars, loadedVars, formVars, flagVars>>

\* load is called again.
ReconciliationServed(j) ==
    /\ j.live /\ j.call \in ReconciliationWrites
    /\ Served(j)
    /\ busy' = TRUE
    /\ GoesOn(j, {Read("both", j.household)})
    /\ UNCHANGED <<frameVars, loadedVars, formVars, switching, stale>>

ReconciliationFails(j) ==
    /\ j.live /\ j.call \in ReconciliationWrites
    /\ Done(j)
    /\ UNCHANGED <<frameVars, loadedVars, formVars, flagVars>>

\* Mutant: a wallet that was chosen is kept in any case.
ReconciliationLoadedKeeping(j) ==
    /\ route = "reconciliation"
    /\ j.live /\ j.call = "both"
    /\ items' = j.household
    /\ wallets' = j.household
    /\ choice' = IF choice = NoHousehold THEN j.household ELSE choice
    /\ busy' = FALSE
    /\ Late(j.household)
    /\ Done(j)
    /\ UNCHANGED <<frameVars, budgets, second, review, switching>>

\* The wallet that is chosen is kept when it is among the active ones.
ReconciliationLoaded(j) ==
    /\ route = "reconciliation"
    /\ j.live /\ j.call = "both"
    /\ items' = j.household
    /\ wallets' = j.household
    /\ choice' \in IF choice = j.household THEN {choice, NoHousehold}
                   ELSE {j.household, NoHousehold}
    /\ busy' = FALSE
    /\ Late(j.household)
    /\ Done(j)
    /\ UNCHANGED <<frameVars, budgets, second, review, switching>>

\* Mutant: the loading state is not left after a failure.
ReconciliationNotLoadedEver(j) ==
    /\ route = "reconciliation"
    /\ j.live /\ j.call = "both"
    /\ stale' = TRUE
    /\ Done(j)
    /\ UNCHANGED <<frameVars, loadedVars, formVars, busy, switching>>

ReconciliationNotLoaded(j) ==
    /\ route = "reconciliation"
    /\ j.live /\ j.call = "both"
    /\ busy' = FALSE
    /\ stale' = TRUE
    /\ Done(j)
    /\ UNCHANGED <<frameVars, loadedVars, formVars, switching>>

ReconciliationEnds(j) ==
    \/ ReconciliationServed(j) \/ ReconciliationFails(j)
    \/ ReconciliationLoaded(j) \/ ReconciliationNotLoaded(j)
ReconciliationNext == Reconcile \/ \E j \in jobs : ReconciliationEnds(j)
=============================================================================
