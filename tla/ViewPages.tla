------------------------------ MODULE ViewPages -----------------------------
(***************************************************************************)
(* The pages that only show: the overview of a household (the dashboard,   *)
(* useHouseholdOverview.ts) and the transactions of one wallet             *)
(* (WalletTransactionsPage.tsx, whose path names the wallet `choice`).     *)
(***************************************************************************)
EXTENDS PageFrame

\* Four calls are awaited; without pending captures and reconciliations their
\* lists are shown as empty.
OverviewLoaded(j) ==
    /\ route = "overview"
    /\ j.live /\ j.call = "both"
    /\ wallets' = j.household
    /\ items' \in {j.household, NoHousehold}
    /\ Done(j)
    /\ UNCHANGED <<frameVars, budgets, formVars, flagVars>>

\* Without the overview or the wallets it shows an error and Retry.
OverviewFails(j) ==
    /\ route = "overview"
    /\ j.live /\ j.call = "both"
    /\ stale' = TRUE
    /\ Done(j)
    /\ UNCHANGED <<frameVars, loadedVars, formVars, busy, switching>>

RetryOverview ==
    /\ Shown("overview") /\ Room
    /\ stale
    /\ stale' = FALSE
    /\ Starts(Read("both", prop))
    /\ UNCHANGED <<frameVars, loadedVars, formVars, busy, switching>>

-----------------------------------------------------------------------------
\* The buttons Retry and Refresh load for the household of the page.  The page
\* is rendered again, for the household then selected, and loads if that is
\* another one.
RefreshWallet ==
    /\ Shown("wallet") /\ ~busy /\ Room
    /\ prop' = selected
    /\ busy' = TRUE
    /\ stale' = FALSE
    /\ jobs' = jobs \cup {Read("both", prop)} \cup Effects("wallet", selected)
    /\ UNCHANGED <<route, selected, loadedVars, formVars, switching>>

\* The wallet is found in its own household only.  The answer renders the page
\* again in the same way, and ends its loading whichever load it is of.
WalletAnswered(j) ==
    /\ route = "wallet"
    /\ j.live /\ j.call = "both"
    /\ IF choice = j.household
       THEN items' \in {items, j.household}
       ELSE UNCHANGED items
    /\ prop' = selected
    /\ busy' = (selected # prop)
    /\ stale' = (selected = prop /\ (stale \/ items' # prop))
    /\ GoesOn(j, IF selected = prop THEN {} ELSE Effects("wallet", selected))
    /\ UNCHANGED <<route, selected, wallets, budgets, formVars, switching>>

ViewEnds(j) == OverviewLoaded(j) \/ OverviewFails(j) \/ WalletAnswered(j)
ViewNext == RetryOverview \/ RefreshWallet \/ \E j \in jobs : ViewEnds(j)
=============================================================================
