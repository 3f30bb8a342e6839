------------------------------ MODULE PageFrame -----------------------------
(***************************************************************************)
(* What the pages of the web client have in common: AppRouter.tsx shows    *)
(* one page, rendered for one household, and the answers of its calls fill *)
(* its state.  WebClient says who is signed in and how a household is      *)
(* opened; here a member of all the households uses the pages.             *)
(*                                                                         *)
(* Data is abstracted to the household it belongs to.  A call is sent in   *)
(* one step and answered, or given up, in a later one; an async function   *)
(* goes on with the household its page was rendered for when it started.   *)
(* Two reads that differ in nothing are one.                               *)
(***************************************************************************)
EXTENDS Naturals, FiniteSets

CONSTANTS
    Households,       \* households of the user
    NoHousehold,      \* none, or nothing loaded
    MaxJobs           \* bound: calls under way when the user starts another

ASSUME NowhereIsNoHousehold == NoHousehold \notin Households
ASSUME MaxJobsIsNat == MaxJobs \in Nat

VARIABLES
    route,            \* AppRouter: route
    selected,         \* localStorage: arta.householdId
    prop,             \* the household the page is rendered for
    items,            \* whose list of the page is in the state
    wallets,          \* whose wallets are in the state
    budgets,          \* whose budgets the forms of the workspace offer
    choice,           \* whose wallet, or backup file, the form of the page holds
    second,           \* whose budget the transaction form holds
    review,           \* whose wallet the open review of the inbox holds
    busy,             \* saving, loading or busy of the page
    switching,        \* useFinancialWorkspaceActions: switching
    stale,            \* history: an answer since prop was set was late or failed
    jobs              \* calls under way

frameVars == <<route, selected, prop>>
loadedVars == <<items, wallets, budgets>>
formVars == <<choice, second, review>>
flagVars == <<busy, switching, stale>>
vars == <<frameVars, loadedVars, formVars, flagVars, jobs>>

MaybeHousehold == Households \cup {NoHousehold}

\* The transactions and wallets pages are one; "wallet" shows one wallet.
Routes == {"overview", "workspace", "wallet", "budgets", "goals", "reconciliation", "family"}

\* The pages that read the household from localStorage twice a second.
Polled == {"budgets", "goals", "reconciliation", "family"}

\* The calls of lib/api.ts: what they load, and what they write.
Reads == {"open", "items", "wallets", "both", "saved", "refresh", "confirmed", "file", "download"}
BudgetWrites == {"createBudget", "updateBudgetRenewal"}
GoalWrites == {"createGoal", "reserveGoal", "releaseGoal", "archiveGoal"}
ReconciliationWrites == {"createReconciliation", "adjustReconciliation"}
LedgerWrites == {"createWallet", "updateWallet", "archiveWallet", "createTransaction", "createTransfer"}
CaptureWrites == {"createCapture", "reviewCapture", "confirmCapture"}
Writes == BudgetWrites \cup GoalWrites \cup ReconciliationWrites \cup LedgerWrites
          \cup CaptureWrites \cup {"restoreHouseholdBackup"}

\* A call for a household, that names a record of household `of` and a wallet
\* or budget of household `with`.  Only the workspace may be opened without one.
Jobs == [call: (Reads \ {"open"}) \cup Writes \cup {"switch"}, household: Households,
         of: MaybeHousehold, with: MaybeHousehold, live: BOOLEAN]
OpenJobs == [call: {"open"}, household: MaybeHousehold,
             of: {NoHousehold}, with: {NoHousehold}, live: BOOLEAN]
Call(name, h, of, with) ==
    [call |-> name, household |-> h, of |-> of, with |-> with, live |-> TRUE]
Read(name, h) == Call(name, h, NoHousehold, NoHousehold)

PagesTypeOK ==
    /\ route \in Routes
    /\ selected \in MaybeHousehold
    /\ prop \in MaybeHousehold
    /\ items \in MaybeHousehold
    /\ wallets \in MaybeHousehold
    /\ budgets \in MaybeHousehold
    /\ choice \in MaybeHousehold
    /\ second \in MaybeHousehold
    /\ review \in MaybeHousehold
    /\ busy \in BOOLEAN
    /\ switching \in BOOLEAN
    /\ stale \in BOOLEAN
    /\ jobs \subseteq Jobs \cup OpenJobs

-----------------------------------------------------------------------------
Room == Cardinality(jobs) < MaxJobs
Shown(r) == route = r /\ prop # NoHousehold
Starts(j) == jobs' = jobs \cup {j}
Done(j) == jobs' = jobs \ {j}
GoesOn(j, next) == jobs' = (jobs \ {j}) \cup next
Pending(names) == {j \in jobs : j.live /\ j.call \in names}

\* Something of household h is shown although the page may be for another.
Late(h) == stale' = (stale \/ h # prop)

\* Mutant: the effects load without a household as well.
EffectsUnguarded(r, h) ==
    {Read(c, h) : c \in
        CASE r \in {"budgets", "goals"} -> {"items", "wallets"}
          [] r \in {"reconciliation", "wallet", "overview"} -> {"both"}
          [] r = "workspace" -> {"items"}
          [] OTHER -> {}}

\* What the effects of page r load when it is rendered for household h.
Effects(r, h) ==
    {Read(c, h) : c \in
        IF h = NoHousehold THEN {}
        ELSE CASE r \in {"budgets", "goals"} -> {"items", "wallets"}
               [] r \in {"reconciliation", "wallet", "overview"} -> {"both"}
               [] r = "workspace" -> {"items"}
               [] OTHER -> {}}

\* Mutant: the effects miss the household among their dependencies.
FollowSelectionWithoutEffects ==
    /\ route \in Polled
    /\ prop # selected
    /\ prop' = selected
    /\ stale' = FALSE
    /\ choice' = IF route = "family" THEN NoHousehold ELSE choice
    /\ busy' = (route = "reconciliation" \/ (route # "family" /\ busy))
    /\ jobs' = jobs \cup (IF prop = NoHousehold THEN Effects(route, selected) ELSE {})
    /\ UNCHANGED <<route, selected, loadedVars, second, review, switching>>

\* The timer of a page: it is rendered for the household then selected.
FollowSelection ==
    /\ route \in Polled
    /\ prop # selected
    /\ prop' = selected
    /\ stale' = FALSE
    /\ choice' = IF route = "family" THEN NoHousehold ELSE choice
    /\ busy' = (route = "reconciliation" \/ (route # "family" /\ busy))
    /\ jobs' = jobs \cup Effects(route, selected)
    /\ UNCHANGED <<route, selected, loadedVars, second, review, switching>>

\* A call outlives its page when it writes at the server or in localStorage.
Gone == {[j EXCEPT !.live = FALSE] : j \in {k \in jobs : k.call \in Writes \cup {"open", "switch"}}}

\* A link of AppShell or of a page: another component is mounted, which reads
\* the selected household; the workspace asks the server what it may open.
Visit(r) ==
    /\ r # route /\ Room
    /\ route' = r
    /\ prop' = IF r \in {"overview", "workspace"} THEN NoHousehold ELSE selected
    /\ items' = NoHousehold /\ wallets' = NoHousehold /\ budgets' = NoHousehold
    /\ choice' \in IF r = "wallet" THEN Households ELSE {NoHousehold}
    /\ second' = NoHousehold /\ review' = NoHousehold
    /\ busy' = (r \in {"reconciliation", "wallet"} /\ prop' # NoHousehold)
    /\ switching' = FALSE
    /\ stale' = FALSE
    /\ jobs' = Gone \cup Effects(r, prop') \cup
               (IF r \in {"overview", "workspace"} THEN {Read("open", selected)} ELSE {})
    /\ UNCHANGED selected

-----------------------------------------------------------------------------
Own(j) == {j.of, j.with} \subseteq {NoHousehold, j.household}

\* The server looks up what a write names within the household of its address,
\* and refuses to write otherwise.
Served(j) == Own(j)

\* A write of a page that is gone: nobody sees whether it was served.
GoneEnds(j) ==
    /\ ~j.live /\ j.call \in Writes
    /\ Done(j)
    /\ UNCHANGED <<frameVars, loadedVars, formVars, flagVars>>

\* listWallets of a mount: a failure leaves the page without wallets.
WalletsEnd(j) ==
    /\ j.live /\ j.call = "wallets"
    /\ wallets' \in {j.household, NoHousehold}
    /\ Late(j.household)
    /\ Done(j)
    /\ UNCHANGED <<frameVars, items, budgets, formVars, busy, switching>>
=============================================================================
