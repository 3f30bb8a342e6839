---------------------------- MODULE WorkspacePage ---------------------------
(***************************************************************************)
(* The transactions and wallets pages: the container of the workspace with *)
(* the hooks useFinancialWorkspace*, the header, the wallet section and    *)
(* the forms for transactions and transfers.  The lists and the details of *)
(* one call are awaited in one step (WebClient has them apart).            *)
(***************************************************************************)
EXTENDS PageFrame

HeaderShown == Shown("workspace")
WalletsShown == HeaderShown /\ wallets # NoHousehold

\* useFinancialWorkspace: an empty select of a form takes the first wallet.
Filled(h) == IF choice = NoHousehold THEN h ELSE choice

\* The page is rendered for h, with what the effects of its parts load.
Opens(j, h) ==
    /\ prop' = h
    /\ wallets' = IF route = "workspace" THEN h ELSE NoHousehold
    /\ choice' = IF route = "workspace" THEN Filled(h) ELSE NoHousehold
    /\ GoesOn(j, Effects(route, h))
    /\ UNCHANGED <<route, items, budgets, second, review, busy, switching, stale>>

\* The saved household is opened if there is one, else the first membership.
\* Which one is saved may change while the memberships are listed.
OpenAnswered(j) ==
    /\ j.call = "open"
    /\ \E h \in Households :
         /\ h \in {j.household, selected} \/ NoHousehold \in {j.household, selected}
         /\ selected' = h
         /\ \/ j.live /\ Opens(j, h)
            \/ /\ ~j.live /\ Done(j)
               /\ UNCHANGED <<route, prop, loadedVars, formVars, flagVars>>

\* The snapshot is shown, or nothing; localStorage keeps its household.
OpenFails(j) ==
    /\ j.call = "open"
    /\ UNCHANGED selected
    /\ \/ j.live /\ \E h \in MaybeHousehold : Opens(j, h)
       \/ Done(j) /\ UNCHANGED <<route, prop, loadedVars, formVars, flagVars>>

-----------------------------------------------------------------------------
\* The select of FinancialHeader is disabled while switching.
Switch(h) ==
    /\ HeaderShown /\ ~switching /\ Room
    /\ h # prop
    /\ switching' = TRUE
    /\ Starts(Read("switch", h))
    /\ UNCHANGED <<frameVars, loadedVars, formVars, busy, stale>>

\* activateHousehold sets the household and its wallets; the budgets and what
\* the forms hold stay, and the inbox is loaded for the household.
SwitchAnswered(j) ==
    /\ j.call = "switch"
    /\ selected' = j.household
    /\ IF j.live
       THEN /\ prop' = j.household
            /\ wallets' = j.household
            /\ choice' = Filled(j.household)
            /\ switching' = FALSE
            /\ stale' = FALSE
            /\ GoesOn(j, Effects("workspace", j.household))
            /\ UNCHANGED <<route, items, budgets, second, review, busy>>
       ELSE Done(j) /\ UNCHANGED <<route, prop, loadedVars, formVars, flagVars>>

SwitchFails(j) ==
    /\ j.call = "switch"
    /\ switching' = (switching /\ ~j.live)
    /\ Done(j)
    /\ UNCHANGED <<frameVars, loadedVars, formVars, busy, stale>>

-----------------------------------------------------------------------------
\* TransactionForm offers the budgets in the currency of the wallet that is
\* chosen, and none while that wallet is not among the listed ones.
OfferedBudgets == IF choice = wallets THEN budgets ELSE NoHousehold

\* The selects of the two forms.
Choose ==
    /\ WalletsShown
    /\ \/ choice' = wallets /\ UNCHANGED second
       \/ second' \in {OfferedBudgets, NoHousehold} /\ UNCHANGED choice
    /\ UNCHANGED <<frameVars, loadedVars, review, flagVars, jobs>>

\* The actions of useFinancialWorkspaceActions.  Their buttons are disabled by
\* a flag that nothing sets.
Record ==
    /\ HeaderShown /\ Room
    /\ \/ Starts(Call("createWallet", prop, NoHousehold, NoHousehold))
       \/ /\ WalletsShown
          /\ \/ \E c \in {"updateWallet", "archiveWallet", "createTransfer"} :
                  Starts(Call(c, prop, IF c = "createTransfer" THEN choice ELSE wallets, NoHousehold))
             \/ Starts(Call("createTransaction", prop, choice, second))
    /\ UNCHANGED <<frameVars, loadedVars, formVars, flagVars>>

\* What was written is read again, or an error is shown.
RecordEnds(j) ==
    /\ j.live /\ j.call \in LedgerWrites
    /\ \/ Served(j) /\ GoesOn(j, {Read("refresh", j.household)})
       \/ Done(j)
    /\ UNCHANGED <<frameVars, loadedVars, formVars, flagVars>>

\* refresh: wallets, overview and budgets, for the household of the write.
Refreshed(j) ==
    /\ j.live /\ j.call = "refresh"
    /\ wallets' = j.household
    /\ budgets' = j.household
    /\ choice' = Filled(j.household)
    /\ Late(j.household)
    /\ Done(j)
    /\ UNCHANGED <<frameVars, items, second, review, busy, switching>>

NotRefreshed(j) ==
    /\ j.live /\ j.call = "refresh"
    /\ stale' = TRUE
    /\ Done(j)
    /\ UNCHANGED <<frameVars, loadedVars, formVars, busy, switching>>

OpenEnds(j) == OpenAnswered(j) \/ OpenFails(j)
SwitchEnds(j) == SwitchAnswered(j) \/ SwitchFails(j)
RefreshEnds(j) == Refreshed(j) \/ NotRefreshed(j)
WorkspaceNext ==
    \/ \E h \in Households : Switch(h)
    \/ Choose \/ Record
    \/ \E j \in jobs : OpenEnds(j) \/ SwitchEnds(j) \/ RecordEnds(j) \/ RefreshEnds(j)
=============================================================================
