----------------------------- MODULE BudgetPage -----------------------------
(***************************************************************************)
(* The budgets page: BudgetMount.tsx, BudgetPanel.tsx and useBudgets.ts.   *)
(* A call of it goes on to listBudgets, and saving ends with that one.     *)
(***************************************************************************)
EXTENDS PageFrame

BudgetsShown == Shown("budgets")

\* The submit button and the renewal buttons are disabled while saving.
SubmitEnabled == BudgetsShown /\ ~busy
RenewalEnabled == BudgetsShown /\ ~busy /\ items # NoHousehold

\* The refresh button is not.
RefreshBudgets ==
    /\ BudgetsShown /\ Room
    /\ Starts(Read("items", prop))
    /\ UNCHANGED <<frameVars, loadedVars, formVars, flagVars>>

\* Mutant: a second save may start during the first.
SaveBudgetUnguarded ==
    /\ BudgetsShown /\ Room
    /\ \/ Starts(Call("createBudget", prop, NoHousehold, NoHousehold))
       \/ Starts(Call("updateBudgetRenewal", prop, items, NoHousehold))
    /\ busy' = TRUE
    /\ UNCHANGED <<frameVars, loadedVars, formVars, switching, stale>>

SaveBudget ==
    /\ Room
    /\ \/ SubmitEnabled /\ Starts(Call("createBudget", prop, NoHousehold, NoHousehold))
       \/ RenewalEnabled /\ Starts(Call("updateBudgetRenewal", prop, items, NoHousehold))
    /\ busy' = TRUE
    /\ UNCHANGED <<frameVars, loadedVars, formVars, switching, stale>>

BudgetSaved(j) ==
    /\ j.live /\ j.call \in BudgetWrites
    /\ Served(j)
    /\ GoesOn(j, {Read("saved", j.household)})
    /\ UNCHANGED <<frameVars, loadedVars, formVars, flagVars>>

BudgetNotSaved(j) ==
    /\ j.live /\ j.call \in BudgetWrites
    /\ busy' = FALSE
    /\ Done(j)
    /\ UNCHANGED <<frameVars, loadedVars, formVars, switching, stale>>

\* refresh: the list arrives, or fails and the one that was shown stays.
BudgetsListed(j) ==
    /\ route = "budgets"
    /\ j.live /\ j.call \in {"items", "saved"}
    /\ \/ items' = j.household /\ Late(j.household)
       \/ UNCHANGED items /\ stale' = TRUE
    /\ busy' = (busy /\ j.call # "saved")
    /\ Done(j)
    /\ UNCHANGED <<frameVars, wallets, budgets, formVars, switching>>

BudgetEnds(j) == BudgetSaved(j) \/ BudgetNotSaved(j) \/ BudgetsListed(j)
BudgetNext == RefreshBudgets \/ SaveBudget \/ \E j \in jobs : BudgetEnds(j)
=============================================================================
