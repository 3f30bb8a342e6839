------------------------------ MODULE WebPages ------------------------------
(***************************************************************************)
(* The pages of the web client together: one is shown at a time, and the   *)
(* calls, the selected household and the records at the server go on       *)
(* beyond the page that touched them.                                      *)
(***************************************************************************)
EXTENDS BudgetPage, GoalPage, ReconciliationPage, FamilyPage, WorkspacePage,
        InboxPage, ViewPages

\* The browser opens the dashboard for the first time.
Init ==
    /\ route = "overview"
    /\ selected = NoHousehold
    /\ prop = NoHousehold
    /\ items = NoHousehold
    /\ wallets = NoHousehold
    /\ budgets = NoHousehold
    /\ choice = NoHousehold
    /\ second = NoHousehold
    /\ review = NoHousehold
    /\ busy = FALSE
    /\ switching = FALSE
    /\ stale = FALSE
    /\ jobs = {Read("open", NoHousehold)}

Next ==
    \/ \E r \in Routes : Visit(r)
    \/ FollowSelection
    \/ BudgetNext
    \/ GoalNext
    \/ ReconciliationNext
    \/ FamilyNext
    \/ WorkspaceNext
    \/ InboxNext
    \/ ViewNext
    \/ \E j \in jobs : WalletsEnd(j) \/ GoneEnds(j)

\* The calls that a page waits for with its controls disabled.  request() aborts
\* what has no answer after eight seconds; requestBlob() does not.
Awaited(j) ==
    \/ BudgetEnds(j) \/ CaptureEnds(j)
    \/ ReconciliationEnds(j) \/ ViewEnds(j) \/ Reread(j)
    \/ j.call = "restoreHouseholdBackup" /\ FamilyCallEnds(j)
AwaitedWrites == BudgetWrites \cup CaptureWrites \cup {"restoreHouseholdBackup"}

Fairness ==
    /\ WF_vars(FollowSelection)
    /\ WF_vars(\E j \in Pending(AwaitedWrites) : Awaited(j))
    /\ WF_vars(\E j \in Pending({"both", "saved", "confirmed"}) : Awaited(j))

Spec == Init /\ [][Next]_vars /\ Fairness

-----------------------------------------------------------------------------
\* When every call has been answered, the lists and the wallets of the page are
\* those of the household it is rendered for, unless an answer came late or
\* failed (the effects, and the order of answers that nothing controls).
PinnedOnlyByLateAnswers ==
    Pending(Reads) = {} /\ ~stale => {items, wallets} \subseteq {prop, NoHousehold}

\* On the pages whose buttons are disabled while saving, one save is under way
\* at a time, also when the household changes in the middle of it.
OneSaveAtATime ==
    /\ route = "budgets" => Cardinality(Pending(BudgetWrites \cup {"saved"})) <= 1
    /\ route = "workspace" => Cardinality(Pending(CaptureWrites \cup {"confirmed"})) <= 1

\* A budget or a reconciliation is saved, or a capture confirmed, under the
\* household its page is for and with a record of that household, unless an
\* answer came late or failed or is still awaited.  (The forms of the workspace,
\* the goal cards and a review may hold a wallet of the household before; the
\* server refuses it.)
SavesNameOwnRecords ==
    [][\A j \in jobs' \ jobs :
          /\ j.live /\ j.call \in BudgetWrites \cup ReconciliationWrites \cup {"confirmCapture"}
          /\ ~stale /\ Pending(Reads) = {}
          => j.household = prop /\ Own(j)]_vars

\* No page stays disabled or loading unless the user keeps leaving pages or a
\* download does not end, and a page that polls follows the selected household.
PagesSettle ==
    /\ []<>(~busy \/ Pending({"download"}) # {}) \/ []<><<TRUE>>_route
    /\ []<>(route \in Polled => prop = selected)

\* Claimed by docs/context/current-state.md: when a switch has settled, nothing
\* that the workspace shows is of the household before.
SurfacesFollowSwitch ==
    route = "workspace" /\ Pending(Reads \cup {"switch"}) = {} /\ ~stale =>
        {items, wallets, OfferedBudgets} \subseteq {prop, NoHousehold}
=============================================================================
