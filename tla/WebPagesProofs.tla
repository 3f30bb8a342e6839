--------------------------- MODULE WebPagesProofs ---------------------------
(***************************************************************************)
(* Theorems about WebPages, for any households and any number of calls     *)
(* under way.                                                              *)
(***************************************************************************)
EXTENDS WebPages, FiniteSetTheorems, TLAPS

\* The calls that may be under way for the page that is shown.
CallsOf(r) ==
    CASE r = "budgets" -> BudgetWrites \cup {"items", "wallets", "saved"}
      [] r = "goals" -> GoalWrites \cup {"items", "wallets"}
      [] r = "reconciliation" -> ReconciliationWrites \cup {"both"}
      [] r = "family" -> {"file", "download", "restoreHouseholdBackup"}
      [] r = "workspace" -> LedgerWrites \cup CaptureWrites
                            \cup {"open", "items", "refresh", "confirmed", "switch"}
      [] r = "overview" -> {"open", "both"}
      [] OTHER -> {"both"}
ListCall(r) == IF r \in {"budgets", "goals", "workspace"} THEN "items" ELSE "both"
WalletsCall(r) == IF r \in {"budgets", "goals"} THEN "wallets" ELSE "both"

\* What is shown of household x is right, or the call c will tell.
Told(x, c) == x \in {prop, NoHousehold} \/ Read(c, prop) \in jobs

\* The inductive invariant: what is shown of another household than prop will
\* be replaced by a call under way, or stale says why not.
LiveCalls == \A j \in jobs : j.live => j.call \in CallsOf(route)
OpensAlone ==
    \A j \in jobs : j.live /\ j.call = "open" =>
        prop = NoHousehold /\ \A k \in jobs : k.live => k = j
BlankWhileOpening ==
    prop = NoHousehold =>
        /\ items = NoHousehold /\ wallets = NoHousehold
        /\ \A j \in jobs : j.live => j.call = "open"
StaysSelected == route \in Polled \cup {"wallet"} /\ prop # NoHousehold => selected # NoHousehold
ViewsAreOwn ==
    route = "overview" =>
        \A j \in jobs : j.live /\ j.call = "both" => j = Read("both", prop)
ListsNothing ==
    /\ route = "family" => items = NoHousehold
    /\ route \in {"family", "wallet"} => wallets = NoHousehold
Explained ==
    ~stale => /\ Told(items, ListCall(route))
              /\ IF route = "workspace" THEN wallets \in {prop, NoHousehold}
                 ELSE Told(wallets, WalletsCall(route))
              /\ route = "reconciliation" => Told(choice, "both")
PageInv ==
    /\ LiveCalls
    /\ OpensAlone
    /\ BlankWhileOpening
    /\ StaysSelected
    /\ ViewsAreOwn
    /\ ListsNothing
    /\ Explained

-----------------------------------------------------------------------------
\* A call for a household that names records of households is typed.
LEMMA CallTypes ==
  ASSUME NEW name \in (Reads \ {"open"}) \cup Writes \cup {"switch"}, NEW h \in Households,
         NEW x \in MaybeHousehold, NEW y \in MaybeHousehold
  PROVE  Call(name, h, x, y) \in Jobs
  BY DEF Call, Jobs

\* The effects of a page only read, for the household of the page.
LEMMA EffectTypes ==
  ASSUME NEW r, NEW h \in MaybeHousehold
  PROVE  Effects(r, h) \subseteq Jobs
<1>1. CASE h = NoHousehold
  BY <1>1 DEF Effects
<1>2. CASE h # NoHousehold
  <2>1. h \in Households /\ NoHousehold \in MaybeHousehold
    BY <1>2 DEF MaybeHousehold
  <2>2. \A c \in {"items", "wallets", "both"} : Read(c, h) \in Jobs
    BY <2>1, CallTypes DEF Read, Reads
  <2>3. QED
    BY <1>2, <2>2 DEF Effects
<1>3. QED
  BY <1>1, <1>2

\* A page that is left keeps its calls, typed as they were.
LEMMA GoneTypes == PagesTypeOK => Gone \subseteq Jobs \cup OpenJobs
<1> SUFFICES ASSUME PagesTypeOK, NEW j \in jobs
             PROVE  [j EXCEPT !.live = FALSE] \in Jobs \cup OpenJobs
  BY DEF Gone
<1>1. CASE j \in Jobs
  BY <1>1 DEF Jobs
<1>2. CASE j \in OpenJobs
  BY <1>2 DEF OpenJobs
<1>3. QED
  BY <1>1, <1>2 DEF PagesTypeOK

LEMMA JobTypes ==
  ASSUME PagesTypeOK, NEW j \in jobs
  PROVE  /\ j.household \in MaybeHousehold
         /\ j.of \in MaybeHousehold
         /\ j.call # "open" => j \in Jobs /\ j.household \in Households
  BY DEF PagesTypeOK, Jobs, OpenJobs, MaybeHousehold

\* The pages that only write under their household keep the types.
LEMMA BudgetTypeStep == PagesTypeOK /\ BudgetNext => PagesTypeOK'
<1> SUFFICES ASSUME PagesTypeOK, BudgetNext PROVE PagesTypeOK'
  OBVIOUS
<1> USE DEF PagesTypeOK, frameVars, loadedVars, formVars, flagVars
<1>0. NoHousehold \in MaybeHousehold /\ (prop # NoHousehold => prop \in Households)
  BY DEF MaybeHousehold
<1>1. CASE RefreshBudgets
  <2>1. Read("items", prop) \in Jobs
    BY <1>0, <1>1, CallTypes DEF RefreshBudgets, BudgetsShown, Shown, Read, Reads
  <2>2. QED
    BY <1>1, <2>1 DEF RefreshBudgets, Starts
<1>2. CASE SaveBudget
  <2>1. /\ Call("createBudget", prop, NoHousehold, NoHousehold) \in Jobs
        /\ Call("updateBudgetRenewal", prop, items, NoHousehold) \in Jobs
    BY <1>0, <1>2, CallTypes
       DEF SaveBudget, SubmitEnabled, RenewalEnabled, BudgetsShown, Shown, Writes, BudgetWrites
  <2>2. QED
    BY <1>2, <2>1 DEF SaveBudget, Starts
<1>3. ASSUME NEW j \in jobs, BudgetEnds(j) PROVE PagesTypeOK'
  <2>1. CASE BudgetSaved(j)
    <3>1. j.household \in Households
      BY <2>1, JobTypes DEF BudgetSaved, BudgetWrites
    <3>2. Read("saved", j.household) \in Jobs
      BY <1>0, <3>1, CallTypes DEF Read, Reads
    <3>3. QED
      BY <2>1, <3>2 DEF BudgetSaved, GoesOn
  <2>2. CASE BudgetNotSaved(j)
    BY <2>2 DEF BudgetNotSaved, Done
  <2>3. CASE BudgetsListed(j)
    BY <2>3, JobTypes DEF BudgetsListed, Done, Late
  <2>4. QED
    BY <1>3, <2>1, <2>2, <2>3 DEF BudgetEnds
<1>4. QED
  BY <1>1, <1>2, <1>3 DEF BudgetNext

LEMMA GoalTypeStep == PagesTypeOK /\ GoalNext => PagesTypeOK'
<1> SUFFICES ASSUME PagesTypeOK, GoalNext PROVE PagesTypeOK'
  OBVIOUS
<1> USE DEF PagesTypeOK, frameVars, loadedVars, formVars, flagVars
<1>0. NoHousehold \in MaybeHousehold /\ (prop # NoHousehold => prop \in Households)
  BY DEF MaybeHousehold
<1>1. CASE AddGoal
  <2>1. Call("createGoal", prop, NoHousehold, NoHousehold) \in Jobs
    BY <1>0, <1>1, CallTypes DEF AddGoal, GoalsShown, Shown, Writes, GoalWrites
  <2>2. QED
    BY <1>1, <2>1 DEF AddGoal, Starts
<1>2. CASE ActOnGoal
  <2>1. /\ \A c \in {"reserveGoal", "releaseGoal"} : Call(c, prop, items, choice) \in Jobs
        /\ Call("archiveGoal", prop, items, NoHousehold) \in Jobs
    BY <1>0, <1>2, CallTypes
       DEF ActOnGoal, CanReserve, CardShown, GoalsShown, Shown, Writes, GoalWrites
  <2>2. QED
    BY <1>2, <2>1 DEF ActOnGoal, Starts
<1>3. CASE ChooseWallet
  BY <1>3 DEF ChooseWallet
<1>4. ASSUME NEW j \in jobs, GoalEnds(j) PROVE PagesTypeOK'
  <2>1. CASE GoalCallEnds(j)
    <3>1. j.household \in Households
      BY <2>1, JobTypes DEF GoalCallEnds, GoalWrites
    <3>2. Read("items", j.household) \in Jobs
      BY <1>0, <3>1, CallTypes DEF Read, Reads
    <3>3. QED
      BY <2>1, <3>2 DEF GoalCallEnds, GoesOn, Done
  <2>2. CASE GoalsListed(j)
    BY <2>2, JobTypes DEF GoalsListed, Done, Late
  <2>3. CASE GoalsNotListed(j)
    BY <2>3 DEF GoalsNotListed, Done
  <2>4. QED
    BY <1>4, <2>1, <2>2, <2>3 DEF GoalEnds
<1>5. QED
  BY <1>1, <1>2, <1>3, <1>4 DEF GoalNext

LEMMA ReconciliationTypeStep == PagesTypeOK /\ ReconciliationNext => PagesTypeOK'
<1> SUFFICES ASSUME PagesTypeOK, ReconciliationNext PROVE PagesTypeOK'
  OBVIOUS
<1> USE DEF PagesTypeOK, frameVars, loadedVars, formVars, flagVars
<1>0. NoHousehold \in MaybeHousehold /\ (prop # NoHousehold => prop \in Households)
  BY DEF MaybeHousehold
<1>1. CASE Reconcile
  <2>1. /\ Call("createReconciliation", prop, choice, NoHousehold) \in Jobs
        /\ Call("adjustReconciliation", prop, items, NoHousehold) \in Jobs
    BY <1>0, <1>1, CallTypes
       DEF Reconcile, CheckEnabled, AdjustShown, FormAndListShown, Shown, Writes, ReconciliationWrites
  <2>2. QED
    BY <1>1, <2>1 DEF Reconcile, Starts
<1>2. ASSUME NEW j \in jobs, ReconciliationEnds(j) PROVE PagesTypeOK'
  <2>1. CASE ReconciliationServed(j)
    <3>1. j.household \in Households
      BY <2>1, JobTypes DEF ReconciliationServed, ReconciliationWrites
    <3>2. Read("both", j.household) \in Jobs
      BY <1>0, <3>1, CallTypes DEF Read, Reads
    <3>3. QED
      BY <2>1, <3>2 DEF ReconciliationServed, GoesOn
  <2>2. CASE ReconciliationFails(j)
    BY <2>2 DEF ReconciliationFails, Done
  <2>3. CASE ReconciliationLoaded(j)
    BY <1>0, <2>3, JobTypes DEF ReconciliationLoaded, Done, Late
  <2>4. CASE ReconciliationNotLoaded(j)
    BY <2>4 DEF ReconciliationNotLoaded, Done
  <2>5. QED
    BY <1>2, <2>1, <2>2, <2>3, <2>4 DEF ReconciliationEnds
<1>3. QED
  BY <1>1, <1>2 DEF ReconciliationNext

LEMMA FamilyTypeStep == PagesTypeOK /\ FamilyNext => PagesTypeOK'
<1> SUFFICES ASSUME PagesTypeOK, FamilyNext PROVE PagesTypeOK'
  OBVIOUS
<1> USE DEF PagesTypeOK, frameVars, loadedVars, formVars, flagVars
<1>0. NoHousehold \in MaybeHousehold /\ (prop # NoHousehold => prop \in Households)
  BY DEF MaybeHousehold
<1>1. CASE Download
  <2>1. Read("download", prop) \in Jobs
    BY <1>0, <1>1, CallTypes DEF Download, ControlsEnabled, Shown, Read, Reads
  <2>2. QED
    BY <1>1, <2>1 DEF Download, Starts
<1>2. CASE Restore
  <2>1. Call("restoreHouseholdBackup", prop, choice, NoHousehold) \in Jobs
    BY <1>0, <1>2, CallTypes DEF Restore, ControlsEnabled, Shown, Writes
  <2>2. QED
    BY <1>2, <2>1 DEF Restore, Starts
<1>3. ASSUME NEW h \in Households, SelectFile(h) PROVE PagesTypeOK'
  <2>1. Call("file", prop, h, NoHousehold) \in Jobs
    BY <1>0, <1>3, CallTypes DEF SelectFile, ControlsEnabled, Shown, Reads, MaybeHousehold
  <2>2. QED
    BY <1>3, <2>1 DEF SelectFile, Starts
<1>4. ASSUME NEW j \in jobs, FileRead(j) PROVE PagesTypeOK'
  BY <1>0, <1>4, JobTypes DEF FileRead, Done
<1>5. ASSUME NEW j \in jobs, FamilyCallEnds(j) PROVE PagesTypeOK'
  BY <1>5 DEF FamilyCallEnds, Done
<1>6. QED
  BY <1>1, <1>2, <1>3, <1>4, <1>5 DEF FamilyNext, FamilyEnds

LEMMA WorkspaceTypeStep == PagesTypeOK /\ WorkspaceNext => PagesTypeOK'
<1> SUFFICES ASSUME PagesTypeOK, WorkspaceNext PROVE PagesTypeOK'
  OBVIOUS
<1> USE DEF PagesTypeOK, frameVars, loadedVars, formVars, flagVars
<1>0. /\ NoHousehold \in MaybeHousehold /\ Households \subseteq MaybeHousehold
      /\ prop # NoHousehold => prop \in Households
  BY DEF MaybeHousehold
<1>1. ASSUME NEW h \in MaybeHousehold PROVE Filled(h) \in MaybeHousehold
  BY DEF Filled
<1>2. ASSUME NEW h \in Households, Switch(h) PROVE PagesTypeOK'
  <2>1. Read("switch", h) \in Jobs
    BY <1>0, CallTypes DEF Read
  <2>2. QED
    BY <1>2, <2>1 DEF Switch, Starts
<1>3. CASE Choose
  BY <1>0, <1>3 DEF Choose, OfferedBudgets
<1>4. CASE Record
  <2>1. /\ Call("createWallet", prop, NoHousehold, NoHousehold) \in Jobs
        /\ Call("createTransaction", prop, choice, second) \in Jobs
        /\ \A c \in {"updateWallet", "archiveWallet", "createTransfer"} :
             Call(c, prop, IF c = "createTransfer" THEN choice ELSE wallets, NoHousehold) \in Jobs
    BY <1>0, <1>4, CallTypes DEF Record, HeaderShown, Shown, Writes, LedgerWrites
  <2>2. QED
    BY <1>4, <2>1 DEF Record, Starts
<1>5. ASSUME NEW j \in jobs, NEW h \in MaybeHousehold, Opens(j, h), selected' \in MaybeHousehold
      PROVE  PagesTypeOK'
  BY <1>0, <1>1, <1>5, EffectTypes DEF Opens, GoesOn
<1>6. ASSUME NEW j \in jobs, OpenEnds(j) PROVE PagesTypeOK'
  <2>1. CASE OpenAnswered(j)
    <3>1. PICK h \in Households :
            /\ selected' = h
            /\ \/ j.live /\ Opens(j, h)
               \/ /\ ~j.live /\ Done(j)
                  /\ UNCHANGED <<route, prop, loadedVars, formVars, flagVars>>
      BY <2>1 DEF OpenAnswered
    <3>2. selected' \in MaybeHousehold
      BY <1>0, <3>1
    <3>3. CASE Opens(j, h)
      BY <1>0, <1>5, <3>2, <3>3
    <3>4. CASE Done(j) /\ UNCHANGED <<route, prop, loadedVars, formVars, flagVars>>
      BY <3>2, <3>4 DEF Done
    <3>5. QED
      BY <3>1, <3>3, <3>4
  <2>2. CASE OpenFails(j)
    <3>1. selected' \in MaybeHousehold
      BY <2>2 DEF OpenFails
    <3>2. ASSUME NEW h \in MaybeHousehold, Opens(j, h) PROVE PagesTypeOK'
      BY <1>5, <3>1, <3>2
    <3>3. CASE Done(j) /\ UNCHANGED <<route, prop, loadedVars, formVars, flagVars>>
      BY <3>1, <3>3 DEF Done
    <3>4. QED
      BY <2>2, <3>2, <3>3 DEF OpenFails
  <2>3. QED
    BY <1>6, <2>1, <2>2 DEF OpenEnds
<1>7. ASSUME NEW j \in jobs, SwitchEnds(j) PROVE PagesTypeOK'
  <2>1. CASE SwitchAnswered(j)
    <3>1. j.household \in Households
      BY <2>1, JobTypes DEF SwitchAnswered
    <3>2. Effects("workspace", j.household) \subseteq Jobs
      BY <1>0, <3>1, EffectTypes
    <3>3. CASE j.live
      BY <1>0, <1>1, <2>1, <3>1, <3>2, <3>3 DEF SwitchAnswered, GoesOn
    <3>4. CASE ~j.live
      BY <1>0, <2>1, <3>1, <3>4 DEF SwitchAnswered, Done
    <3>5. QED
      BY <3>3, <3>4
  <2>2. CASE SwitchFails(j)
    BY <2>2 DEF SwitchFails, Done
  <2>3. QED
    BY <1>7, <2>1, <2>2 DEF SwitchEnds
<1>8. ASSUME NEW j \in jobs, RecordEnds(j) PROVE PagesTypeOK'
  <2>1. j.household \in Households
    BY <1>8, JobTypes DEF RecordEnds, LedgerWrites
  <2>2. Read("refresh", j.household) \in Jobs
    BY <1>0, <2>1, CallTypes DEF Read, Reads
  <2>3. QED
    BY <1>8, <2>2 DEF RecordEnds, GoesOn, Done
<1>9. ASSUME NEW j \in jobs, RefreshEnds(j) PROVE PagesTypeOK'
  <2>1. CASE Refreshed(j)
    BY <1>1, <2>1, JobTypes DEF Refreshed, Done, Late
  <2>2. CASE NotRefreshed(j)
    BY <2>2 DEF NotRefreshed, Done
  <2>3. QED
    BY <1>9, <2>1, <2>2 DEF RefreshEnds
<1>10. QED
  BY <1>2, <1>3, <1>4, <1>6, <1>7, <1>8, <1>9 DEF WorkspaceNext

LEMMA InboxTypeStep == PagesTypeOK /\ InboxNext => PagesTypeOK'
<1> SUFFICES ASSUME PagesTypeOK, InboxNext PROVE PagesTypeOK'
  OBVIOUS
<1> USE DEF PagesTypeOK, frameVars, loadedVars, formVars, flagVars
<1>0. NoHousehold \in MaybeHousehold /\ (prop # NoHousehold => prop \in Households)
  BY DEF MaybeHousehold
<1>1. CASE Capture
  <2>1. Call("createCapture", prop, NoHousehold, NoHousehold) \in Jobs
    BY <1>0, <1>1, CallTypes DEF Capture, FormsEnabled, InboxShown, Shown, Writes, CaptureWrites
  <2>2. QED
    BY <1>1, <2>1 DEF Capture, Starts
<1>2. CASE BeginReview \/ CancelReview
  BY <1>0, <1>2 DEF BeginReview, CancelReview
<1>3. CASE SaveReview
  <2>1. Call("reviewCapture", prop, items, review) \in Jobs
    BY <1>0, <1>3, CallTypes DEF SaveReview, FormsEnabled, InboxShown, Shown, Writes, CaptureWrites
  <2>2. QED
    BY <1>3, <2>1 DEF SaveReview, Starts
<1>4. CASE Confirm
  <2>1. Call("confirmCapture", prop, items, NoHousehold) \in Jobs
    BY <1>0, <1>4, CallTypes DEF Confirm, FormsEnabled, InboxShown, Shown, Writes, CaptureWrites
  <2>2. QED
    BY <1>4, <2>1 DEF Confirm, Starts
<1>5. ASSUME NEW j \in jobs, CaptureEnds(j) PROVE PagesTypeOK'
  <2>1. CASE CaptureServed(j)
    <3>1. j.household \in Households
      BY <2>1, JobTypes DEF CaptureServed, CaptureWrites
    <3>2. Read("confirmed", j.household) \in Jobs /\ Read("items", j.household) \in Jobs
      BY <1>0, <3>1, CallTypes DEF Read, Reads
    <3>3. QED
      BY <1>0, <2>1, <3>2 DEF CaptureServed, GoesOn
  <2>2. CASE CaptureFails(j)
    BY <2>2 DEF CaptureFails, Done
  <2>3. QED
    BY <1>5, <2>1, <2>2 DEF CaptureEnds
<1>6. ASSUME NEW j \in jobs, InboxEnds(j) PROVE PagesTypeOK'
  BY <1>0, <1>6, JobTypes DEF InboxEnds, InboxListed, InboxNotListed, Done, Late
<1>7. ASSUME NEW j \in jobs, Reread(j) PROVE PagesTypeOK'
  <2>1. j.household \in MaybeHousehold
    BY JobTypes
  <2>2. PICK inbox \in BOOLEAN, ledger \in BOOLEAN :
          /\ items' = IF inbox THEN j.household ELSE items
          /\ wallets' = IF ledger THEN j.household ELSE wallets
          /\ budgets' = IF ledger THEN j.household ELSE budgets
          /\ review' = IF (inbox /\ ledger) \/ items' # items THEN NoHousehold ELSE review
          /\ stale' = (stale \/ ~inbox \/ ~ledger \/ j.household # prop)
    BY <1>7 DEF Reread
  <2>3. QED
    BY <1>0, <1>7, <2>1, <2>2 DEF Reread, Done
<1>8. QED
  BY <1>1, <1>2, <1>3, <1>4, <1>5, <1>6, <1>7 DEF InboxNext

LEMMA ViewTypeStep == PagesTypeOK /\ ViewNext => PagesTypeOK'
<1> SUFFICES ASSUME PagesTypeOK, ViewNext PROVE PagesTypeOK'
  OBVIOUS
<1> USE DEF PagesTypeOK, frameVars, loadedVars, formVars, flagVars
<1>0. NoHousehold \in MaybeHousehold /\ (prop # NoHousehold => prop \in Households)
  BY DEF MaybeHousehold
<1>1. prop # NoHousehold => Read("both", prop) \in Jobs
  BY <1>0, CallTypes DEF Read, Reads
<1>2. CASE RetryOverview
  BY <1>1, <1>2 DEF RetryOverview, Shown, Starts
<1>3. CASE RefreshWallet
  BY <1>1, <1>3, EffectTypes DEF RefreshWallet, Shown
<1>4. ASSUME NEW j \in jobs, OverviewLoaded(j) PROVE PagesTypeOK'
  BY <1>0, <1>4, JobTypes DEF OverviewLoaded, Done
<1>5. ASSUME NEW j \in jobs, OverviewFails(j) PROVE PagesTypeOK'
  BY <1>5 DEF OverviewFails, Done
<1>6. ASSUME NEW j \in jobs, WalletAnswered(j) PROVE PagesTypeOK'
  <2>1. Effects("wallet", selected) \subseteq Jobs
    BY EffectTypes
  <2>2. items' \in MaybeHousehold /\ prop' \in MaybeHousehold
    BY <1>6, JobTypes DEF WalletAnswered
  <2>3. QED
    BY <1>6, <2>1, <2>2 DEF WalletAnswered, GoesOn
<1>7. QED
  BY <1>2, <1>3, <1>4, <1>5, <1>6 DEF ViewNext, ViewEnds

\* Leaving a page, following the selected household, and the ends of calls
\* that belong to several pages or to none.
LEMMA FrameTypeStep ==
  ASSUME PagesTypeOK,
         \/ \E r \in Routes : Visit(r)
         \/ FollowSelection
         \/ \E j \in jobs : WalletsEnd(j) \/ GoneEnds(j)
  PROVE  PagesTypeOK'
<1> USE DEF PagesTypeOK, frameVars, loadedVars, formVars, flagVars
<1>0. NoHousehold \in MaybeHousehold /\ Households \subseteq MaybeHousehold
  BY DEF MaybeHousehold
<1>1. ASSUME NEW r \in Routes, Visit(r) PROVE PagesTypeOK'
  <2>1. prop' \in MaybeHousehold /\ choice' \in MaybeHousehold
    BY <1>0, <1>1 DEF Visit
  <2>2. Read("open", selected) \in OpenJobs
    BY DEF Read, Call, OpenJobs
  <2>3. Effects(r, prop') \subseteq Jobs
    BY <2>1, EffectTypes
  <2>4. Gone \subseteq Jobs \cup OpenJobs
    BY GoneTypes
  <2>5. jobs' \subseteq Jobs \cup OpenJobs
    BY <1>1, <2>2, <2>3, <2>4 DEF Visit
  <2>6. QED
    BY <1>0, <1>1, <2>1, <2>5 DEF Visit
<1>2. CASE FollowSelection
  <2>1. Effects(route, selected) \subseteq Jobs
    BY EffectTypes
  <2>2. QED
    BY <1>0, <1>2, <2>1 DEF FollowSelection
<1>3. ASSUME NEW j \in jobs, WalletsEnd(j) PROVE PagesTypeOK'
  BY <1>0, <1>3, JobTypes DEF WalletsEnd, Done, Late
<1>4. ASSUME NEW j \in jobs, GoneEnds(j) PROVE PagesTypeOK'
  BY <1>4 DEF GoneEnds, Done
<1>5. QED
  BY <1>1, <1>2, <1>3, <1>4

LEMMA TypeStep == PagesTypeOK /\ [Next]_vars => PagesTypeOK'
<1>1. CASE UNCHANGED vars
  BY <1>1 DEF PagesTypeOK, vars, frameVars, loadedVars, formVars, flagVars
<1>2. QED
  BY <1>1, BudgetTypeStep, GoalTypeStep, ReconciliationTypeStep, FamilyTypeStep,
     WorkspaceTypeStep, InboxTypeStep, ViewTypeStep, FrameTypeStep DEF Next

\* Pages, forms and calls are always typed: in particular no call is ever sent
\* for a household the page does not have (the `if (!householdId) return` of
\* the effects), for any number of households and calls.
THEOREM PagesTypes == Spec => []PagesTypeOK
<1>1. Init => PagesTypeOK
  <2>1. Read("open", NoHousehold) \in OpenJobs
    BY DEF Read, Call, OpenJobs, MaybeHousehold
  <2>2. QED
    BY <2>1 DEF Init, PagesTypeOK, MaybeHousehold, Routes
<1>2. QED
  BY <1>1, TypeStep, PTL DEF Spec

-----------------------------------------------------------------------------
\* What a page that is gone still waits for is not shown.
LEMMA GoneIsNotLive == PagesTypeOK => \A j \in Gone : ~j.live
<1> SUFFICES ASSUME PagesTypeOK, NEW k \in jobs PROVE ~[k EXCEPT !.live = FALSE].live
  BY DEF Gone
<1>1. CASE k \in Jobs
  BY <1>1 DEF Jobs
<1>2. CASE k \in OpenJobs
  BY <1>2 DEF OpenJobs
<1>3. QED
  BY <1>1, <1>2 DEF PagesTypeOK

\* The effects of a page read what the page may wait for, its list among them.
LEMMA EffectCalls ==
  ASSUME NEW r \in Routes, NEW h
  PROVE  /\ \A j \in Effects(r, h) :
               /\ j.live /\ j.call \in CallsOf(r) \ {"open"} /\ h # NoHousehold
               /\ j.call = "both" => j = Read("both", h)
         /\ h # NoHousehold /\ r \notin {"family", "workspace"} =>
               {Read(ListCall(r), h), Read(WalletsCall(r), h)} \subseteq Effects(r, h)
<1>1. \A c : Read(c, h).live /\ Read(c, h).call = c
  BY DEF Read, Call
<1>2. QED
  BY <1>1 DEF Effects, CallsOf, ListCall, WalletsCall, Routes

\* A step that starts a write of the page, or only lets one end, leaves what is
\* shown and explained as it was.
LEMMA StartKeeps ==
  ASSUME PageInv, NEW j, j.live, j.call \in CallsOf(route), j.call # "open",
         prop # NoHousehold, route \notin {"overview", "wallet"},
         Starts(j), UNCHANGED <<frameVars, loadedVars, choice, stale>>
  PROVE  PageInv'
<1> USE DEF PageInv, frameVars, loadedVars, Starts
<1>1. LiveCalls'
  BY DEF LiveCalls
<1>2. OpensAlone' /\ BlankWhileOpening'
  BY DEF OpensAlone, BlankWhileOpening
<1>3. StaysSelected' /\ ListsNothing'
  BY DEF StaysSelected, ListsNothing
<1>4. ViewsAreOwn'
  BY DEF ViewsAreOwn
<1>5. Explained'
  BY DEF Explained, Told
<1>6. QED
  BY <1>1, <1>2, <1>3, <1>4, <1>5

\* So does one that ends a call which is not a read of the page and goes on
\* with one that may be.
LEMMA EndKeeps ==
  ASSUME PageInv, NEW j \in jobs, NEW next, GoesOn(j, next),
         j.call \notin {"open", "items", "wallets", "both"} \/ ~j.live,
         next # {} => j.live,
         \A k \in next : /\ k.live /\ k.call \in CallsOf(route) \ {"open"}
                         /\ route \notin {"overview", "wallet"},
         UNCHANGED <<frameVars, loadedVars, choice, stale>>
  PROVE  PageInv'
<1> USE DEF PageInv, frameVars, loadedVars, GoesOn
<1>1. LiveCalls'
  BY DEF LiveCalls
<1>2. OpensAlone' /\ BlankWhileOpening'
  BY DEF OpensAlone, BlankWhileOpening
<1>3. StaysSelected' /\ ListsNothing'
  BY DEF StaysSelected, ListsNothing
<1>4. ViewsAreOwn'
  BY DEF ViewsAreOwn
<1>5. ASSUME NEW c \in {"items", "wallets", "both"}, Read(c, prop) \in jobs
      PROVE  Read(c, prop) \in jobs'
  BY <1>5 DEF Read, Call
<1>6. Explained'
  BY <1>5 DEF Explained, Told, ListCall, WalletsCall
<1>7. QED
  BY <1>1, <1>2, <1>3, <1>4, <1>6

LEMMA DoneKeeps ==
  ASSUME PageInv, NEW j \in jobs, Done(j),
         j.call \notin {"open", "items", "wallets", "both"} \/ ~j.live,
         UNCHANGED <<frameVars, loadedVars, choice, stale>>
  PROVE  PageInv'
<1>1. GoesOn(j, {})
  BY DEF GoesOn, Done
<1>2. QED
  BY <1>1, EndKeeps

LEMMA BudgetInvStep == PageInv /\ BudgetNext => PageInv'
<1> SUFFICES ASSUME PageInv, BudgetNext PROVE PageInv'
  OBVIOUS
<1>1. CASE RefreshBudgets
  <2> DEFINE j == Read("items", prop)
  <2>1. j.live /\ j.call = "items" /\ j.household = prop
    BY DEF Read, Call
  <2>2. QED
    BY <1>1, <2>1, StartKeeps
       DEF RefreshBudgets, BudgetsShown, Shown, CallsOf, formVars, flagVars
<1>2. CASE SaveBudget
  <2>1. ASSUME NEW c \in BudgetWrites, NEW x, Starts(Call(c, prop, x, NoHousehold)) PROVE PageInv'
    <3>1. Call(c, prop, x, NoHousehold).live /\ Call(c, prop, x, NoHousehold).call = c
      BY DEF Call
    <3>2. route = "budgets" /\ prop # NoHousehold /\ c \in CallsOf(route) /\ c # "open"
      BY <1>2 DEF SaveBudget, SubmitEnabled, RenewalEnabled, BudgetsShown, Shown, CallsOf, BudgetWrites
    <3>3. QED
      BY <1>2, <2>1, <3>1, <3>2, StartKeeps DEF SaveBudget, formVars
  <2>2. QED
    BY <1>2, <2>1 DEF SaveBudget, BudgetWrites
<1>3. ASSUME NEW j \in jobs, BudgetEnds(j) PROVE PageInv'
  <2>1. CASE BudgetSaved(j)
    <3>1. route = "budgets"
      BY <2>1 DEF BudgetSaved, BudgetWrites, PageInv, LiveCalls, CallsOf, GoalWrites,
            ReconciliationWrites, LedgerWrites, CaptureWrites
    <3>2. QED
      BY <2>1, <3>1, EndKeeps DEF BudgetSaved, BudgetWrites, CallsOf, Read, Call, formVars, flagVars
  <2>2. CASE BudgetNotSaved(j)
    BY <2>2, DoneKeeps DEF BudgetNotSaved, BudgetWrites, formVars
  <2>3. CASE BudgetsListed(j)
    <3> USE DEF PageInv, BudgetsListed, Done, Late, frameVars, formVars
    <3>1. LiveCalls' /\ OpensAlone' /\ BlankWhileOpening'
      BY <2>3 DEF LiveCalls, OpensAlone, BlankWhileOpening
    <3>2. StaysSelected' /\ ViewsAreOwn' /\ ListsNothing'
      BY <2>3 DEF StaysSelected, ViewsAreOwn, ListsNothing, Polled
    <3>3. Read("wallets", prop) \in jobs => Read("wallets", prop) \in jobs'
      BY <2>3 DEF Read, Call
    <3>4. Explained'
      BY <2>3, <3>3 DEF Explained, Told, ListCall, WalletsCall
    <3>5. QED
      BY <3>1, <3>2, <3>4
  <2>4. QED
    BY <1>3, <2>1, <2>2, <2>3 DEF BudgetEnds
<1>4. QED
  BY <1>1, <1>2, <1>3 DEF BudgetNext

LEMMA GoalInvStep == PageInv /\ GoalNext => PageInv'
<1> SUFFICES ASSUME PageInv, GoalNext PROVE PageInv'
  OBVIOUS
<1>1. ASSUME NEW c \in GoalWrites, NEW x, NEW y, Starts(Call(c, prop, x, y)), GoalsShown,
             UNCHANGED <<frameVars, loadedVars, formVars, flagVars>>
      PROVE  PageInv'
  <2>1. Call(c, prop, x, y).live /\ Call(c, prop, x, y).call = c
    BY DEF Call
  <2>2. route = "goals" /\ prop # NoHousehold /\ c \in CallsOf(route) /\ c # "open"
    BY <1>1 DEF GoalsShown, Shown, CallsOf, GoalWrites
  <2>3. QED
    BY <1>1, <2>1, <2>2, StartKeeps DEF formVars, flagVars
<1>2. CASE AddGoal
  BY <1>1, <1>2 DEF AddGoal, GoalWrites
<1>3. CASE ActOnGoal
  BY <1>1, <1>3 DEF ActOnGoal, CanReserve, CardShown, GoalWrites
<1>4. CASE ChooseWallet
  BY <1>4 DEF ChooseWallet, CardShown, GoalsShown, Shown, frameVars, loadedVars, flagVars, PageInv,
     LiveCalls, OpensAlone, BlankWhileOpening, StaysSelected, ViewsAreOwn, ListsNothing,
     Explained, Told
<1>5. ASSUME NEW j \in jobs, GoalCallEnds(j) PROVE PageInv'
  <2>1. route = "goals"
    BY <1>5 DEF GoalCallEnds, GoalWrites, PageInv, LiveCalls, CallsOf, BudgetWrites,
          ReconciliationWrites, LedgerWrites, CaptureWrites
  <2>2. CASE GoesOn(j, {Read("items", j.household)})
    BY <1>5, <2>1, <2>2, EndKeeps DEF GoalCallEnds, GoalWrites, CallsOf, Read, Call, formVars, flagVars
  <2>3. CASE Done(j)
    BY <1>5, <2>3, DoneKeeps DEF GoalCallEnds, GoalWrites, formVars, flagVars
  <2>4. QED
    BY <1>5, <2>2, <2>3 DEF GoalCallEnds
<1>6. ASSUME NEW j \in jobs, GoalsListed(j) \/ GoalsNotListed(j) PROVE PageInv'
  <2> USE DEF PageInv, GoalsListed, GoalsNotListed, Done, Late, frameVars, loadedVars
  <2>1. LiveCalls' /\ OpensAlone' /\ BlankWhileOpening'
    BY <1>6 DEF LiveCalls, OpensAlone, BlankWhileOpening
  <2>2. StaysSelected' /\ ViewsAreOwn' /\ ListsNothing'
    BY <1>6 DEF StaysSelected, ViewsAreOwn, ListsNothing, Polled
  <2>3. Read("wallets", prop) \in jobs => Read("wallets", prop) \in jobs'
    BY <1>6 DEF Read, Call
  <2>4. Explained'
    BY <1>6, <2>3 DEF Explained, Told, ListCall, WalletsCall
  <2>5. QED
    BY <2>1, <2>2, <2>4
<1>7. QED
  BY <1>2, <1>3, <1>4, <1>5, <1>6 DEF GoalNext, GoalEnds

LEMMA ReconciliationInvStep == PageInv /\ ReconciliationNext => PageInv'
<1> SUFFICES ASSUME PageInv, ReconciliationNext PROVE PageInv'
  OBVIOUS
<1>1. CASE Reconcile
  <2>1. ASSUME NEW c \in ReconciliationWrites, NEW x, Starts(Call(c, prop, x, NoHousehold))
        PROVE  PageInv'
    <3>1. Call(c, prop, x, NoHousehold).live /\ Call(c, prop, x, NoHousehold).call = c
      BY DEF Call
    <3>2. route = "reconciliation" /\ prop # NoHousehold /\ c \in CallsOf(route) /\ c # "open"
      BY <1>1 DEF Reconcile, CheckEnabled, AdjustShown, FormAndListShown, Shown, CallsOf, ReconciliationWrites
    <3>3. QED
      BY <1>1, <2>1, <3>1, <3>2, StartKeeps DEF Reconcile, formVars, flagVars
  <2>2. QED
    BY <1>1, <2>1 DEF Reconcile, ReconciliationWrites
<1>2. ASSUME NEW j \in jobs, ReconciliationServed(j) PROVE PageInv'
  <2>1. route = "reconciliation"
    BY <1>2 DEF ReconciliationServed, ReconciliationWrites, PageInv, LiveCalls, CallsOf, GoalWrites,
          BudgetWrites, LedgerWrites, CaptureWrites
  <2>2. QED
    BY <1>2, <2>1, EndKeeps
       DEF ReconciliationServed, ReconciliationWrites, CallsOf, Read, Call, formVars
<1>3. ASSUME NEW j \in jobs, ReconciliationFails(j) PROVE PageInv'
  BY <1>3, DoneKeeps DEF ReconciliationFails, ReconciliationWrites, formVars, flagVars
<1>4. ASSUME NEW j \in jobs, ReconciliationLoaded(j) \/ ReconciliationNotLoaded(j) PROVE PageInv'
  <2> USE DEF PageInv, ReconciliationLoaded, ReconciliationNotLoaded, Done, Late, frameVars
  <2>1. LiveCalls' /\ OpensAlone' /\ BlankWhileOpening'
    BY <1>4 DEF LiveCalls, OpensAlone, BlankWhileOpening, loadedVars
  <2>2. StaysSelected' /\ ViewsAreOwn' /\ ListsNothing'
    BY <1>4 DEF StaysSelected, ViewsAreOwn, ListsNothing, Polled
  <2>3. Explained'
    BY <1>4 DEF Explained, Told
  <2>4. QED
    BY <2>1, <2>2, <2>3
<1>5. QED
  BY <1>1, <1>2, <1>3, <1>4 DEF ReconciliationNext, ReconciliationEnds

LEMMA FamilyInvStep == PageInv /\ FamilyNext => PageInv'
<1> SUFFICES ASSUME PageInv, FamilyNext PROVE PageInv'
  OBVIOUS
<1>1. ASSUME NEW c \in {"file", "download", "restoreHouseholdBackup"}, NEW x,
             Starts(Call(c, prop, x, NoHousehold)), ControlsEnabled,
             UNCHANGED <<frameVars, loadedVars, formVars, stale>>
      PROVE  PageInv'
  <2>1. Call(c, prop, x, NoHousehold).live /\ Call(c, prop, x, NoHousehold).call = c
    BY DEF Call
  <2>2. route = "family" /\ prop # NoHousehold /\ c \in CallsOf(route) /\ c # "open"
    BY <1>1 DEF ControlsEnabled, Shown, CallsOf
  <2>3. QED
    BY <1>1, <2>1, <2>2, StartKeeps DEF formVars
<1>2. CASE Download
  BY <1>1, <1>2 DEF Download, Read
<1>3. CASE Restore
  BY <1>1, <1>3 DEF Restore
<1>4. ASSUME NEW h \in Households, SelectFile(h) PROVE PageInv'
  BY <1>1, <1>4 DEF SelectFile, flagVars
<1>5. ASSUME NEW j \in jobs, FileRead(j) PROVE PageInv'
  <2>1. route = "family"
    BY <1>5 DEF FileRead, PageInv, LiveCalls, CallsOf, GoalWrites, BudgetWrites,
          ReconciliationWrites, LedgerWrites, CaptureWrites
  <2> USE DEF PageInv, FileRead, Done, frameVars, loadedVars, flagVars
  <2>2. LiveCalls' /\ OpensAlone' /\ BlankWhileOpening'
    BY <1>5 DEF LiveCalls, OpensAlone, BlankWhileOpening
  <2>3. StaysSelected' /\ ViewsAreOwn' /\ ListsNothing'
    BY <1>5 DEF StaysSelected, ViewsAreOwn, ListsNothing
  <2>4. Explained'
    BY <1>5, <2>1 DEF Explained, Told, ListsNothing
  <2>5. QED
    BY <2>2, <2>3, <2>4
<1>6. ASSUME NEW j \in jobs, FamilyCallEnds(j) PROVE PageInv'
  BY <1>6, DoneKeeps DEF FamilyCallEnds, formVars
<1>7. QED
  BY <1>2, <1>3, <1>4, <1>5, <1>6 DEF FamilyNext, FamilyEnds

LEMMA WorkspaceInvStep == PagesTypeOK /\ PageInv /\ WorkspaceNext => PageInv'
<1> SUFFICES ASSUME PagesTypeOK, PageInv, WorkspaceNext PROVE PageInv'
  OBVIOUS
<1>1. ASSUME NEW h \in Households, Switch(h) PROVE PageInv'
  <2>1. Read("switch", h).live /\ Read("switch", h).call = "switch"
    BY DEF Read, Call
  <2>2. route = "workspace" /\ prop # NoHousehold /\ "switch" \in CallsOf(route)
    BY <1>1 DEF Switch, HeaderShown, Shown, CallsOf
  <2>3. QED
    BY <1>1, <2>1, <2>2, StartKeeps DEF Switch, formVars
<1>2. CASE Choose
  BY <1>2 DEF Choose, WalletsShown, HeaderShown, Shown, frameVars, loadedVars, flagVars, PageInv,
     LiveCalls, OpensAlone, BlankWhileOpening, StaysSelected, ViewsAreOwn, ListsNothing,
     Explained, Told
<1>3. CASE Record
  <2>1. ASSUME NEW c \in LedgerWrites, NEW x, NEW y, Starts(Call(c, prop, x, y)) PROVE PageInv'
    <3>1. Call(c, prop, x, y).live /\ Call(c, prop, x, y).call = c
      BY DEF Call
    <3>2. route = "workspace" /\ prop # NoHousehold /\ c \in CallsOf(route) /\ c # "open"
      BY <1>3 DEF Record, HeaderShown, Shown, CallsOf, LedgerWrites
    <3>3. QED
      BY <1>3, <2>1, <3>1, <3>2, StartKeeps DEF Record, formVars, flagVars
  <2>2. QED
    BY <1>3, <2>1 DEF Record, LedgerWrites
<1>4. ASSUME NEW j \in jobs, NEW h \in MaybeHousehold, j.live, j.call = "open", Opens(j, h)
      PROVE  PageInv'
  <2>1. prop = NoHousehold /\ items = NoHousehold /\ \A k \in jobs : k.live => k = j
    BY <1>4 DEF PageInv, OpensAlone, BlankWhileOpening
  <2>2. route \in {"overview", "workspace"}
    BY <1>4 DEF PageInv, LiveCalls, CallsOf, GoalWrites, BudgetWrites, ReconciliationWrites,
          LedgerWrites, CaptureWrites
  <2>3. \A k \in Effects(route, h) :
          /\ k.live /\ k.call \in CallsOf(route) \ {"open"}
          /\ k.household = h /\ h # NoHousehold
    BY <2>2 DEF Effects, Read, Call, CallsOf
  <2>4. h # NoHousehold => Read(ListCall(route), h) \in Effects(route, h)
    BY <2>2 DEF Effects, ListCall
  <2> USE DEF Opens, GoesOn
  <2>5. LiveCalls' /\ OpensAlone'
    BY <1>4, <2>1, <2>3 DEF LiveCalls, OpensAlone
  <2>6. BlankWhileOpening' /\ StaysSelected' /\ ListsNothing'
    BY <1>4, <2>1, <2>2, <2>3 DEF BlankWhileOpening, StaysSelected, ListsNothing, Polled
  <2>7. ViewsAreOwn'
    BY <1>4, <2>1, <2>2, EffectCalls DEF ViewsAreOwn, Routes
  <2>8. Explained'
    BY <1>4, <2>1, <2>2 DEF Explained, Told
  <2>9. QED
    BY <2>5, <2>6, <2>7, <2>8 DEF PageInv
<1>5. ASSUME NEW j \in jobs, ~j.live, Done(j), UNCHANGED <<route, prop, loadedVars, choice, stale>>,
             selected' \in Households \/ selected' = selected
      PROVE  PageInv'
  <2> USE DEF PageInv, Done, loadedVars
  <2>1. LiveCalls' /\ OpensAlone' /\ BlankWhileOpening'
    BY <1>5 DEF LiveCalls, OpensAlone, BlankWhileOpening
  <2>2. StaysSelected' /\ ViewsAreOwn' /\ ListsNothing'
    BY <1>5, NowhereIsNoHousehold DEF StaysSelected, ViewsAreOwn, ListsNothing
  <2>3. \A c : Read(c, prop) \in jobs => Read(c, prop) \in jobs'
    BY <1>5 DEF Read, Call
  <2>4. Explained'
    BY <1>5, <2>3 DEF Explained, Told
  <2>5. QED
    BY <2>1, <2>2, <2>4
<1>6. ASSUME NEW j \in jobs, OpenAnswered(j) PROVE PageInv'
  BY <1>4, <1>5, <1>6 DEF OpenAnswered, formVars, flagVars, MaybeHousehold
<1>7. ASSUME NEW j \in jobs, OpenFails(j) PROVE PageInv'
  <2>1. ASSUME Done(j), UNCHANGED <<route, prop, loadedVars, formVars, flagVars>> PROVE PageInv'
    <3> USE DEF PageInv, Done, loadedVars, formVars, flagVars
    <3>1. selected' = selected /\ j.call = "open"
      BY <1>7 DEF OpenFails
    <3>2. LiveCalls' /\ OpensAlone' /\ BlankWhileOpening'
      BY <2>1 DEF LiveCalls, OpensAlone, BlankWhileOpening
    <3>3. StaysSelected' /\ ViewsAreOwn' /\ ListsNothing'
      BY <2>1, <3>1 DEF StaysSelected, ViewsAreOwn, ListsNothing
    <3>4. \A c \in {"items", "wallets", "both"} : Read(c, prop) \in jobs => Read(c, prop) \in jobs'
      BY <2>1, <3>1 DEF Read, Call
    <3>5. Explained'
      BY <2>1, <3>4 DEF Explained, Told, ListCall, WalletsCall
    <3>6. QED
      BY <3>2, <3>3, <3>5
  <2>2. QED
    BY <1>4, <1>7, <2>1 DEF OpenFails
<1>8. ASSUME NEW j \in jobs, SwitchAnswered(j) PROVE PageInv'
  <2>1. j.household \in Households /\ j.household # NoHousehold
    BY <1>8, JobTypes, NowhereIsNoHousehold DEF SwitchAnswered
  <2>2. CASE ~j.live
    BY <1>5, <1>8, <2>1, <2>2 DEF SwitchAnswered, formVars, flagVars
  <2>3. CASE j.live
    <3>1. route = "workspace"
      BY <1>8, <2>3 DEF SwitchAnswered, PageInv, LiveCalls, CallsOf, GoalWrites, BudgetWrites,
            ReconciliationWrites
    <3>2. \A k \in jobs : k.live => k.call # "open"
      BY <1>8, <2>3 DEF SwitchAnswered, PageInv, OpensAlone
    <3>3. Effects("workspace", j.household) = {Read("items", j.household)}
      BY <2>1 DEF Effects
    <3>4. Read("items", j.household).live /\ Read("items", j.household).call = "items"
      BY DEF Read, Call
    <3> USE DEF PageInv, SwitchAnswered, GoesOn
    <3>5. LiveCalls' /\ OpensAlone' /\ BlankWhileOpening'
      BY <1>8, <2>1, <2>3, <3>1, <3>2, <3>3, <3>4 DEF LiveCalls, OpensAlone, BlankWhileOpening, CallsOf
    <3>6. StaysSelected' /\ ViewsAreOwn' /\ ListsNothing'
      BY <1>8, <2>3, <3>1 DEF StaysSelected, ViewsAreOwn, ListsNothing, Polled
    <3>7. Explained'
      BY <1>8, <2>3, <3>1, <3>3 DEF Explained, Told, ListCall
    <3>8. QED
      BY <3>5, <3>6, <3>7
  <2>4. QED
    BY <2>2, <2>3
<1>9. ASSUME NEW j \in jobs, SwitchFails(j) PROVE PageInv'
  BY <1>9, DoneKeeps DEF SwitchFails, formVars
<1>10. ASSUME NEW j \in jobs, RecordEnds(j) PROVE PageInv'
  <2>1. route = "workspace"
    BY <1>10 DEF RecordEnds, LedgerWrites, PageInv, LiveCalls, CallsOf, GoalWrites, BudgetWrites,
          ReconciliationWrites
  <2>2. CASE GoesOn(j, {Read("refresh", j.household)})
    BY <1>10, <2>1, <2>2, EndKeeps DEF RecordEnds, LedgerWrites, CallsOf, Read, Call, formVars, flagVars
  <2>3. CASE Done(j)
    BY <1>10, <2>3, DoneKeeps DEF RecordEnds, LedgerWrites, formVars, flagVars
  <2>4. QED
    BY <1>10, <2>2, <2>3 DEF RecordEnds
<1>11. ASSUME NEW j \in jobs, RefreshEnds(j) PROVE PageInv'
  <2>1. route = "workspace"
    BY <1>11 DEF RefreshEnds, Refreshed, NotRefreshed, PageInv, LiveCalls, CallsOf, GoalWrites,
          BudgetWrites, ReconciliationWrites
  <2> USE DEF PageInv, RefreshEnds, Refreshed, NotRefreshed, Done, Late, frameVars
  <2>2. LiveCalls' /\ OpensAlone' /\ BlankWhileOpening'
    BY <1>11 DEF LiveCalls, OpensAlone, BlankWhileOpening, loadedVars
  <2>3. StaysSelected' /\ ViewsAreOwn' /\ ListsNothing'
    BY <1>11, <2>1 DEF StaysSelected, ViewsAreOwn, ListsNothing, Polled
  <2>4. Read("items", prop) \in jobs => Read("items", prop) \in jobs'
    BY <1>11 DEF Read, Call
  <2>5. Explained'
    BY <1>11, <2>1, <2>4 DEF Explained, Told, ListCall
  <2>6. QED
    BY <2>2, <2>3, <2>5
<1>12. QED
  BY <1>1, <1>2, <1>3, <1>6, <1>7, <1>8, <1>9, <1>10, <1>11
     DEF WorkspaceNext, OpenEnds, SwitchEnds

LEMMA InboxInvStep == PagesTypeOK /\ PageInv /\ InboxNext => PageInv'
<1> SUFFICES ASSUME PagesTypeOK, PageInv, InboxNext PROVE PageInv'
  OBVIOUS
<1>1. ASSUME NEW c \in CaptureWrites, NEW x, NEW y, Starts(Call(c, prop, x, y)), InboxShown,
             UNCHANGED <<frameVars, loadedVars, formVars, stale>>
      PROVE  PageInv'
  <2>1. Call(c, prop, x, y).live /\ Call(c, prop, x, y).call = c
    BY DEF Call
  <2>2. route = "workspace" /\ prop # NoHousehold /\ c \in CallsOf(route) /\ c # "open"
    BY <1>1 DEF InboxShown, Shown, CallsOf, CaptureWrites
  <2>3. QED
    BY <1>1, <2>1, <2>2, StartKeeps DEF formVars
<1>2. CASE Capture \/ SaveReview \/ Confirm
  BY <1>1, <1>2 DEF Capture, SaveReview, Confirm, FormsEnabled, CaptureWrites
<1>3. CASE BeginReview \/ CancelReview
  BY <1>3 DEF BeginReview, CancelReview, frameVars, loadedVars, flagVars, PageInv,
     LiveCalls, OpensAlone, BlankWhileOpening, StaysSelected, ViewsAreOwn, ListsNothing,
     Explained, Told
<1>4. ASSUME NEW j \in jobs, CaptureServed(j) PROVE PageInv'
  <2>1. route = "workspace"
    BY <1>4 DEF CaptureServed, CaptureWrites, PageInv, LiveCalls, CallsOf, GoalWrites, BudgetWrites,
          ReconciliationWrites
  <2>2. QED
    BY <1>4, <2>1, EndKeeps DEF CaptureServed, CaptureWrites, CallsOf, Read, Call
<1>5. ASSUME NEW j \in jobs, CaptureFails(j) PROVE PageInv'
  BY <1>5, DoneKeeps DEF CaptureFails, CaptureWrites, formVars
<1>6. ASSUME NEW j \in jobs, InboxEnds(j) PROVE PageInv'
  <2> USE DEF PageInv, InboxEnds, InboxListed, InboxNotListed, Done, Late, frameVars, loadedVars
  <2>1. LiveCalls' /\ OpensAlone' /\ BlankWhileOpening'
    BY <1>6 DEF LiveCalls, OpensAlone, BlankWhileOpening
  <2>2. StaysSelected' /\ ViewsAreOwn' /\ ListsNothing'
    BY <1>6 DEF StaysSelected, ViewsAreOwn, ListsNothing, Polled
  <2>3. Explained'
    BY <1>6 DEF Explained, Told
  <2>4. QED
    BY <2>1, <2>2, <2>3
<1>7. ASSUME NEW j \in jobs, Reread(j) PROVE PageInv'
  <2>1. route = "workspace"
    BY <1>7 DEF Reread, PageInv, LiveCalls, CallsOf, GoalWrites, BudgetWrites,
          ReconciliationWrites
  <2>2. PICK inbox \in BOOLEAN, ledger \in BOOLEAN :
          /\ items' = IF inbox THEN j.household ELSE items
          /\ wallets' = IF ledger THEN j.household ELSE wallets
          /\ stale' = (stale \/ ~inbox \/ ~ledger \/ j.household # prop)
    BY <1>7 DEF Reread
  <2> USE DEF PageInv, Reread, Done, frameVars
  <2>3. LiveCalls' /\ OpensAlone' /\ BlankWhileOpening'
    BY <1>7 DEF LiveCalls, OpensAlone, BlankWhileOpening
  <2>4. StaysSelected' /\ ViewsAreOwn' /\ ListsNothing'
    BY <1>7, <2>1 DEF StaysSelected, ViewsAreOwn, ListsNothing, Polled
  <2>5. Explained'
    BY <1>7, <2>1, <2>2 DEF Explained, Told
  <2>6. QED
    BY <2>3, <2>4, <2>5
<1>8. QED
  BY <1>2, <1>3, <1>4, <1>5, <1>6, <1>7 DEF InboxNext, CaptureEnds

LEMMA ViewInvStep == PagesTypeOK /\ PageInv /\ ViewNext => PageInv'
<1> SUFFICES ASSUME PagesTypeOK, PageInv, ViewNext PROVE PageInv'
  OBVIOUS
<1>1. Read("both", prop).live /\ Read("both", prop).call = "both" /\ Read("both", prop).household = prop
  BY DEF Read, Call
<1> USE DEF PageInv, frameVars, loadedVars, formVars, flagVars
<1>2. CASE RetryOverview
  <2> USE DEF RetryOverview, Shown, Starts
  <2>1. LiveCalls' /\ OpensAlone' /\ BlankWhileOpening'
    BY <1>1, <1>2 DEF LiveCalls, OpensAlone, BlankWhileOpening, CallsOf
  <2>2. StaysSelected' /\ ViewsAreOwn' /\ ListsNothing'
    BY <1>1, <1>2 DEF StaysSelected, ViewsAreOwn, ListsNothing
  <2>3. Explained'
    BY <1>2 DEF Explained, Told, ListCall, WalletsCall
  <2>4. QED
    BY <2>1, <2>2, <2>3
<1>3. CASE RefreshWallet
  <2> USE DEF RefreshWallet, Shown
  <2>1. route = "wallet" /\ prop # NoHousehold /\ selected # NoHousehold
    BY <1>3 DEF StaysSelected
  <2>2. Effects("wallet", selected) = {Read("both", selected)}
    BY <2>1 DEF Effects
  <2>3. Read("both", selected).live /\ Read("both", selected).call = "both"
    BY DEF Read, Call
  <2>4. LiveCalls' /\ OpensAlone' /\ BlankWhileOpening'
    BY <1>1, <1>3, <2>1, <2>2, <2>3 DEF LiveCalls, OpensAlone, BlankWhileOpening, CallsOf
  <2>5. StaysSelected' /\ ViewsAreOwn' /\ ListsNothing'
    BY <1>3, <2>1 DEF StaysSelected, ViewsAreOwn, ListsNothing
  <2>6. Explained'
    BY <1>3, <2>1, <2>2 DEF Explained, Told, ListCall, WalletsCall, ListsNothing
  <2>7. QED
    BY <2>4, <2>5, <2>6
<1>4. ASSUME NEW j \in jobs, OverviewLoaded(j) \/ OverviewFails(j) PROVE PageInv'
  <2> USE DEF OverviewLoaded, OverviewFails, Done
  <2>1. LiveCalls' /\ OpensAlone' /\ BlankWhileOpening'
    BY <1>4 DEF LiveCalls, OpensAlone, BlankWhileOpening
  <2>2. StaysSelected' /\ ViewsAreOwn' /\ ListsNothing'
    BY <1>4 DEF StaysSelected, ViewsAreOwn, ListsNothing
  <2>3. Explained'
    BY <1>1, <1>4 DEF Explained, Told, ViewsAreOwn
  <2>4. QED
    BY <2>1, <2>2, <2>3
<1>5. ASSUME NEW j \in jobs, WalletAnswered(j) PROVE PageInv'
  <2>1. route = "wallet" /\ j.live /\ j.call = "both" /\ prop # NoHousehold /\ wallets = NoHousehold
    BY <1>5 DEF WalletAnswered, BlankWhileOpening, ListsNothing
  <2>2. selected # NoHousehold
    BY <2>1 DEF StaysSelected
  <2>3. Effects("wallet", selected) = {Read("both", selected)}
    BY <2>2 DEF Effects
  <2>4. Read("both", selected).live /\ Read("both", selected).call = "both"
        /\ Read("both", selected).household = selected
    BY DEF Read, Call
  <2>5. \A k \in jobs : k.live => k.call = "both"
    BY <2>1 DEF LiveCalls, CallsOf
  <2> USE DEF WalletAnswered, GoesOn
  <2>6. LiveCalls' /\ OpensAlone' /\ BlankWhileOpening'
    BY <1>5, <2>1, <2>2, <2>3, <2>4, <2>5 DEF LiveCalls, OpensAlone, BlankWhileOpening, CallsOf
  <2>7. StaysSelected' /\ ViewsAreOwn' /\ ListsNothing'
    BY <1>5, <2>1, <2>2, <2>3, <2>4 DEF StaysSelected, ViewsAreOwn, ListsNothing
  <2>8. Explained'
    BY <1>5, <2>1, <2>3 DEF Explained, Told, ListCall, WalletsCall
  <2>9. QED
    BY <2>6, <2>7, <2>8
<1>6. QED
  BY <1>2, <1>3, <1>4, <1>5 DEF ViewNext, ViewEnds

LEMMA FrameInvStep ==
  PagesTypeOK /\ PageInv
  /\ (FollowSelection \/ (\E r \in Routes : Visit(r)) \/ \E j \in jobs : WalletsEnd(j) \/ GoneEnds(j))
  => PageInv'
<1>1. ASSUME PageInv, FollowSelection PROVE PageInv'
  <2> USE DEF PageInv, FollowSelection, loadedVars
  <2>1. route \in Polled /\ route \in Routes /\ selected # NoHousehold
    BY <1>1 DEF StaysSelected, Polled, Routes
  <2>2. \A k \in jobs : k.live => k.call # "open"
    BY <1>1 DEF LiveCalls, CallsOf, Polled, BudgetWrites, GoalWrites, ReconciliationWrites
  <2>3. LiveCalls' /\ OpensAlone' /\ BlankWhileOpening'
    BY <1>1, <2>1, <2>2, EffectCalls DEF LiveCalls, OpensAlone, BlankWhileOpening
  <2>4. StaysSelected' /\ ViewsAreOwn' /\ ListsNothing'
    BY <1>1, <2>1 DEF StaysSelected, ViewsAreOwn, ListsNothing, Polled
  <2>5. Explained'
    <3>1. CASE route = "family"
      BY <1>1, <3>1 DEF Explained, Told, ListsNothing
    <3>2. CASE route # "family"
      <4>1. {Read(ListCall(route), selected), Read(WalletsCall(route), selected)} \subseteq jobs'
        BY <1>1, <2>1, <3>2, EffectCalls DEF Polled
      <4>2. QED
        BY <1>1, <2>1, <3>2, <4>1 DEF Explained, Told, Polled, ListCall, WalletsCall
    <3>3. QED
      BY <3>1, <3>2
  <2>6. QED
    BY <2>3, <2>4, <2>5
<1>2. ASSUME PagesTypeOK, NEW r \in Routes, Visit(r) PROVE PageInv'
  <2> USE DEF PageInv, Visit
  <2>1. Read("open", selected).live /\ Read("open", selected).call = "open"
    BY DEF Read, Call
  <2>2. \A k \in jobs' : k.live => k \in Effects(r, prop') \/ k = Read("open", selected)
    BY <1>2, GoneIsNotLive
  <2>3. Read("open", selected) \in jobs' /\ Read("open", selected).live
        => r \in {"overview", "workspace"} \/ Read("open", selected) \in Gone \cup Effects(r, prop')
    BY <1>2
  <2>4. LiveCalls'
    BY <1>2, <2>1, <2>2, <2>3, EffectCalls, GoneIsNotLive DEF LiveCalls, CallsOf
  <2>5. OpensAlone' /\ BlankWhileOpening'
    BY <1>2, <2>1, <2>2, <2>3, EffectCalls, GoneIsNotLive DEF OpensAlone, BlankWhileOpening
  <2>6. StaysSelected' /\ ViewsAreOwn' /\ ListsNothing'
    BY <1>2, <2>1, <2>2, EffectCalls DEF StaysSelected, ViewsAreOwn, ListsNothing, Polled
  <2>7. Explained'
    BY <1>2 DEF Explained, Told
  <2>8. QED
    BY <2>4, <2>5, <2>6, <2>7
<1>3. ASSUME PageInv, NEW j \in jobs, WalletsEnd(j) PROVE PageInv'
  <2> USE DEF PageInv, WalletsEnd, Done, Late, frameVars
  <2>1. LiveCalls' /\ OpensAlone' /\ BlankWhileOpening'
    BY <1>3 DEF LiveCalls, OpensAlone, BlankWhileOpening
  <2>2. route \in {"budgets", "goals"}
    BY <1>3 DEF LiveCalls, CallsOf, BudgetWrites, GoalWrites, ReconciliationWrites, LedgerWrites,
          CaptureWrites
  <2>3. StaysSelected' /\ ViewsAreOwn' /\ ListsNothing'
    BY <1>3, <2>2 DEF StaysSelected, ViewsAreOwn, ListsNothing, Polled
  <2>4. Read("items", prop) \in jobs => Read("items", prop) \in jobs'
    BY <1>3 DEF Read, Call
  <2>5. Explained'
    BY <1>3, <2>2, <2>4 DEF Explained, Told, ListCall
  <2>6. QED
    BY <2>1, <2>3, <2>5
<1>4. ASSUME PageInv, NEW j \in jobs, GoneEnds(j) PROVE PageInv'
  BY <1>4, DoneKeeps DEF GoneEnds, formVars, flagVars
<1>5. QED
  BY <1>1, <1>2, <1>3, <1>4

LEMMA InvStep == PagesTypeOK /\ PageInv /\ [Next]_vars => PageInv'
<1>1. CASE UNCHANGED vars
  BY <1>1 DEF vars, frameVars, loadedVars, formVars, flagVars, PageInv, LiveCalls, OpensAlone,
     BlankWhileOpening, StaysSelected, ViewsAreOwn, ListsNothing, Explained, Told
<1>2. QED
  BY <1>1, BudgetInvStep, GoalInvStep, ReconciliationInvStep, FamilyInvStep, WorkspaceInvStep,
     InboxInvStep, ViewInvStep, FrameInvStep DEF Next

LEMMA PagesKeepInv == Spec => []PageInv
<1>1. Init => PageInv
  <2>1. Read("open", NoHousehold).live /\ Read("open", NoHousehold).call = "open"
    BY DEF Read, Call
  <2>2. QED
    BY <2>1 DEF Init, PageInv, LiveCalls, OpensAlone, BlankWhileOpening, StaysSelected, ViewsAreOwn,
       ListsNothing, Explained, Told, CallsOf, Polled
<1>2. QED
  BY <1>1, InvStep, PagesTypes, PTL DEF Spec

\* When nothing is awaited or late, what the page shows is its household's.
LEMMA QuietPage ==
  ASSUME PageInv, Pending(Reads) = {}, ~stale
  PROVE  /\ {items, wallets} \subseteq {prop, NoHousehold}
         /\ route = "reconciliation" => choice \in {prop, NoHousehold}
<1>1. \A c \in {"items", "wallets", "both"} : Read(c, prop) \notin jobs
  <2>1. \A c \in {"items", "wallets", "both"} : Read(c, prop).live /\ Read(c, prop).call \in Reads
    BY DEF Read, Call, Reads
  <2>2. QED
    BY <2>1 DEF Pending
<1>2. QED
  BY <1>1 DEF PageInv, Explained, Told, ListCall, WalletsCall

\* When a page has its answers, its list and its wallets are those of the
\* household it is rendered for, unless an answer came late or failed.
THEOREM ListsFollowThePage == Spec => []PinnedOnlyByLateAnswers
<1>1. PageInv => PinnedOnlyByLateAnswers
  BY QuietPage DEF PinnedOnlyByLateAnswers
<1>2. QED
  BY <1>1, PagesKeepInv, PTL

-----------------------------------------------------------------------------
RecordSaves == BudgetWrites \cup ReconciliationWrites \cup {"confirmCapture"}

\* Only the three handlers start a save of a budget, of a reconciliation or the
\* confirmation of a capture.
LEMMA OnlyHandlersSave ==
  ASSUME PagesTypeOK, Next, ~SaveBudget, ~Reconcile, ~Confirm, NEW j \in jobs' \ jobs, j.live
  PROVE  j.call \notin RecordSaves
<1>1. \A c, h, x, y : Call(c, h, x, y).call = c /\ Read(c, h).call = c
  BY DEF Read, Call
<1>2. \A r, h : \A k \in Effects(r, h) : k.call \in {"items", "wallets", "both"}
  BY <1>1 DEF Effects
<1>3. SUFFICES j.call \in (Reads \cup Writes \cup {"switch"}) \ RecordSaves
  OBVIOUS
<1> USE <1>1, <1>2 DEF RecordSaves, BudgetWrites, ReconciliationWrites, Reads, Writes, Starts, Done, GoesOn
<1>4. CASE BudgetNext
  BY <1>4 DEF BudgetNext, RefreshBudgets, BudgetEnds, BudgetSaved, BudgetNotSaved, BudgetsListed
<1>5. CASE GoalNext
  BY <1>5 DEF GoalNext, GoalWrites, AddGoal, ActOnGoal, ChooseWallet, GoalEnds, GoalCallEnds,
     GoalsListed, GoalsNotListed
<1>6. CASE ReconciliationNext
  BY <1>6 DEF ReconciliationNext, ReconciliationEnds, ReconciliationServed, ReconciliationFails,
     ReconciliationLoaded, ReconciliationNotLoaded
<1>7. CASE FamilyNext
  BY <1>7 DEF FamilyNext, Download, Restore, SelectFile, FamilyEnds, FileRead, FamilyCallEnds
<1>8. CASE InboxNext
  BY <1>8 DEF InboxNext, CaptureWrites, Capture, BeginReview, CancelReview, SaveReview, CaptureEnds,
     CaptureServed, CaptureFails, InboxEnds, InboxListed, InboxNotListed, Reread
<1>9. CASE ViewNext
  BY <1>9 DEF ViewNext, RetryOverview, RefreshWallet, ViewEnds, OverviewLoaded, OverviewFails,
     WalletAnswered
<1>10. CASE WorkspaceNext
  <2>1. ASSUME NEW h \in Households, Switch(h) PROVE j.call = "switch"
    BY <2>1 DEF Switch
  <2>2. CASE Choose \/ Record
    BY <2>2 DEF Choose, Record, LedgerWrites
  <2>3. ASSUME NEW k \in jobs, OpenEnds(k) \/ SwitchEnds(k)
        PROVE  j.call \in {"items", "wallets", "both"}
    BY <2>3 DEF OpenEnds, OpenAnswered, OpenFails, Opens, SwitchEnds, SwitchAnswered, SwitchFails
  <2>4. ASSUME NEW k \in jobs, RecordEnds(k) \/ RefreshEnds(k) PROVE j.call = "refresh"
    BY <2>4 DEF RecordEnds, RefreshEnds, Refreshed, NotRefreshed
  <2>5. QED
    BY <1>10, <2>1, <2>2, <2>3, <2>4 DEF WorkspaceNext
<1>11. ASSUME NEW r \in Routes, Visit(r) PROVE j.call \in {"items", "wallets", "both", "open"}
  BY <1>11, GoneIsNotLive DEF Visit
<1>12. CASE FollowSelection
  BY <1>12 DEF FollowSelection
<1>13. CASE \E k \in jobs : WalletsEnd(k) \/ GoneEnds(k)
  BY <1>13 DEF WalletsEnd, GoneEnds
<1>14. QED
  BY <1>4, <1>5, <1>6, <1>7, <1>8, <1>9, <1>10, <1>11, <1>12, <1>13 DEF Next

\* A budget or a reconciliation is saved, or a capture confirmed, under the
\* household of the page and with a record of that household.
THEOREM SavesAreOwn == Spec => SavesNameOwnRecords
<1>1. ASSUME PagesTypeOK, PageInv, [Next]_vars, NEW j \in jobs' \ jobs, j.live,
             j.call \in RecordSaves, ~stale, Pending(Reads) = {}
      PROVE  j.household = prop /\ Own(j)
  <2>1. Next
    BY <1>1 DEF vars
  <2>2. \A c, x : LET k == Call(c, prop, x, NoHousehold)
                  IN  k.household = prop /\ k.of = x /\ k.with = NoHousehold
    BY DEF Call
  <2>3. CASE SaveBudget
    BY <1>1, <2>2, <2>3, QuietPage DEF SaveBudget, Starts, Own
  <2>4. CASE Reconcile
    BY <1>1, <2>2, <2>4, QuietPage DEF Reconcile, CheckEnabled, AdjustShown, FormAndListShown, Shown, Starts, Own
  <2>5. CASE Confirm
    BY <1>1, <2>2, <2>5, QuietPage DEF Confirm, Starts, Own
  <2>6. QED
    BY <1>1, <2>1, <2>3, <2>4, <2>5, OnlyHandlersSave
<1>2. PagesTypeOK /\ PageInv /\ [Next]_vars =>
        [\A j \in jobs' \ jobs :
            /\ j.live /\ j.call \in BudgetWrites \cup ReconciliationWrites \cup {"confirmCapture"}
            /\ ~stale /\ Pending(Reads) = {}
            => j.household = prop /\ Own(j)]_vars
  BY <1>1 DEF RecordSaves
<1>3. QED
  BY <1>2, PagesTypes, PagesKeepInv, PTL DEF Spec, SavesNameOwnRecords

-----------------------------------------------------------------------------
\* The saves of the pages that disable their buttons, and what they wait for.
SavesOf(r) ==
    CASE r = "budgets" -> BudgetWrites \cup {"saved"}
      [] r = "workspace" -> CaptureWrites \cup {"confirmed"}
      [] OTHER -> {}
IsSave(j) == j.live /\ j.call \in SavesOf(route)

\* While a save is under way the page is busy, and it is the only one.
SaveAlone == \A j \in jobs : IsSave(j) => busy /\ \A k \in jobs : IsSave(k) => k = j

\* A step that starts no save and leaves the flag keeps that.
LEMMA NoSaveStarts ==
  ASSUME SaveAlone, route' = route, busy' = busy \/ route \notin {"budgets", "workspace"},
         \A k \in jobs' \ jobs : ~IsSave(k)
  PROVE  SaveAlone'
  BY DEF SaveAlone, IsSave, SavesOf

LEMMA SaveStarts ==
  ASSUME SaveAlone, route' = route, ~busy, busy' = TRUE, NEW j, Starts(j)
  PROVE  SaveAlone'
  BY DEF SaveAlone, IsSave, Starts

\* A save that ends, or goes on with the one call that it waits for.
LEMMA SaveEnds ==
  ASSUME SaveAlone, route' = route, NEW j \in jobs, IsSave(j), NEW k, GoesOn(j, {k}),
         busy' = busy \/ ~IsSave(k)
  PROVE  SaveAlone'
  BY DEF SaveAlone, IsSave, GoesOn
LEMMA LastSaveEnds ==
  ASSUME SaveAlone, route' = route, NEW j \in jobs, IsSave(j), Done(j)
  PROVE  SaveAlone'
  BY DEF SaveAlone, IsSave, Done

LEMMA BudgetSaveStep == PageInv /\ SaveAlone /\ BudgetNext => SaveAlone'
<1> SUFFICES ASSUME PageInv, SaveAlone, BudgetNext PROVE SaveAlone'
  OBVIOUS
<1> USE DEF frameVars, flagVars
<1>1. \A c, h : Read(c, h).call = c
  BY DEF Read, Call
<1>2. CASE RefreshBudgets
  BY <1>1, <1>2, NoSaveStarts DEF RefreshBudgets, BudgetsShown, Shown, Starts, IsSave, SavesOf, BudgetWrites
<1>3. CASE SaveBudget
  BY <1>3, SaveStarts DEF SaveBudget, SubmitEnabled, RenewalEnabled
<1>4. ASSUME NEW j \in jobs, BudgetEnds(j) PROVE SaveAlone'
  <2>1. CASE j.call \in BudgetWrites /\ j.live
    <3>1. route = "budgets"
      BY <2>1 DEF BudgetWrites, PageInv, LiveCalls, CallsOf, GoalWrites, ReconciliationWrites,
            LedgerWrites, CaptureWrites
    <3>2. IsSave(j)
      BY <2>1, <3>1 DEF IsSave, SavesOf
    <3>3. QED
      BY <1>4, <2>1, <3>2, SaveEnds, LastSaveEnds
         DEF BudgetEnds, BudgetSaved, BudgetNotSaved, BudgetsListed, BudgetWrites
  <2>2. CASE BudgetsListed(j) /\ j.call = "saved"
    BY <2>2, LastSaveEnds DEF BudgetsListed, IsSave, SavesOf
  <2>3. CASE BudgetsListed(j) /\ j.call = "items"
    <3>1. busy' = (busy /\ TRUE)
      BY <2>3 DEF BudgetsListed
    <3>2. busy' = busy \/ ~busy
      BY <3>1
    <3>3. QED
      BY <2>3, <3>1, NoSaveStarts DEF BudgetsListed, Done, SaveAlone, IsSave
  <2>4. QED
    BY <1>4, <2>1, <2>2, <2>3 DEF BudgetEnds, BudgetSaved, BudgetNotSaved, BudgetsListed
<1>5. QED
  BY <1>2, <1>3, <1>4 DEF BudgetNext

LEMMA InboxSaveStep == PageInv /\ SaveAlone /\ InboxNext => SaveAlone'
<1> SUFFICES ASSUME PageInv, SaveAlone, InboxNext PROVE SaveAlone'
  OBVIOUS
<1> USE DEF frameVars, flagVars
<1>1. \A c, h : Read(c, h).call = c
  BY DEF Read, Call
<1>2. CASE Capture \/ SaveReview \/ Confirm
  BY <1>2, SaveStarts DEF Capture, SaveReview, Confirm, FormsEnabled
<1>3. CASE BeginReview \/ CancelReview
  BY <1>3, NoSaveStarts DEF BeginReview, CancelReview
<1>4. ASSUME NEW j \in jobs, CaptureEnds(j) PROVE SaveAlone'
  <2>1. j.call \in CaptureWrites /\ j.live
    BY <1>4 DEF CaptureEnds, CaptureServed, CaptureFails
  <2>2. route = "workspace"
    BY <2>1 DEF CaptureWrites, PageInv, LiveCalls, CallsOf, GoalWrites, ReconciliationWrites,
          BudgetWrites
  <2>3. IsSave(j) /\ busy
    BY <2>1, <2>2 DEF IsSave, SavesOf, SaveAlone
  <2>4. CASE CaptureServed(j) /\ j.call = "confirmCapture"
    <3>1. GoesOn(j, {Read("confirmed", j.household)}) /\ busy' = (busy /\ TRUE)
      BY <2>4 DEF CaptureServed
    <3>2. busy' = busy \/ ~IsSave(Read("confirmed", j.household))
      BY <2>3, <3>1
    <3>3. QED
      BY <2>3, <2>4, <3>1, <3>2, SaveEnds DEF CaptureServed
  <2>5. CASE CaptureServed(j) /\ j.call # "confirmCapture"
    <3>1. GoesOn(j, {Read("items", j.household)})
      BY <2>5 DEF CaptureServed
    <3>2. ~IsSave(Read("items", j.household))
      BY <1>1, <2>2 DEF IsSave, SavesOf, CaptureWrites
    <3>3. QED
      BY <2>3, <2>5, <3>1, <3>2, SaveEnds DEF CaptureServed
  <2>6. CASE CaptureFails(j)
    BY <2>3, <2>6, LastSaveEnds DEF CaptureFails
  <2>7. QED
    BY <1>4, <2>4, <2>5, <2>6 DEF CaptureEnds
<1>5. ASSUME NEW j \in jobs, InboxEnds(j) PROVE SaveAlone'
  BY <1>5, NoSaveStarts DEF InboxEnds, InboxListed, InboxNotListed, Done
<1>6. ASSUME NEW j \in jobs, Reread(j) PROVE SaveAlone'
  <2>1. route = "workspace"
    BY <1>6 DEF Reread, PageInv, LiveCalls, CallsOf, GoalWrites, BudgetWrites, ReconciliationWrites
  <2>2. QED
    BY <1>6, <2>1, LastSaveEnds DEF Reread, IsSave, SavesOf
<1>7. QED
  BY <1>2, <1>3, <1>4, <1>5, <1>6 DEF InboxNext

\* The other pages start no save, and touch the flag on their own routes only.
LEMMA OtherSaveStep ==
  PagesTypeOK /\ PageInv /\ SaveAlone
  /\ (GoalNext \/ ReconciliationNext \/ FamilyNext \/ WorkspaceNext \/ ViewNext)
  => SaveAlone'
<1> SUFFICES ASSUME PagesTypeOK, PageInv, SaveAlone,
                    GoalNext \/ ReconciliationNext \/ FamilyNext \/ WorkspaceNext \/ ViewNext
             PROVE  SaveAlone'
  OBVIOUS
<1> USE DEF frameVars, flagVars
<1>1. \A c, h, x, y : Call(c, h, x, y).call = c /\ Read(c, h).call = c
  BY DEF Read, Call
<1>2. \A j : j.call \in GoalWrites \cup LedgerWrites \cup {"items", "wallets", "both", "refresh", "switch"}
             => ~IsSave(j)
  BY DEF IsSave, SavesOf, BudgetWrites, CaptureWrites, GoalWrites, LedgerWrites
<1>3. \A r, h : \A k \in Effects(r, h) : ~IsSave(k)
  BY <1>1, <1>2 DEF Effects
<1>4. CASE GoalNext
  BY <1>1, <1>2, <1>4, NoSaveStarts DEF GoalNext, AddGoal, ActOnGoal, ChooseWallet, GoalEnds,
     GoalCallEnds, GoalsListed, GoalsNotListed, GoalWrites, Starts, Done, GoesOn
<1>5. CASE ReconciliationNext
  <2>1. route = "reconciliation" /\ route' = route
    BY <1>5 DEF ReconciliationNext, Reconcile, CheckEnabled, AdjustShown, FormAndListShown, Shown,
       ReconciliationEnds, ReconciliationServed, ReconciliationFails, ReconciliationLoaded,
       ReconciliationNotLoaded, ReconciliationWrites, PageInv, LiveCalls, CallsOf, GoalWrites,
       BudgetWrites, LedgerWrites, CaptureWrites
  <2>2. QED
    BY <2>1 DEF SaveAlone, IsSave, SavesOf
<1>6. CASE FamilyNext
  <2>1. route = "family" /\ route' = route
    BY <1>6 DEF FamilyNext, Download, Restore, SelectFile, ControlsEnabled, Shown, FamilyEnds,
       FileRead, FamilyCallEnds, PageInv, LiveCalls, CallsOf, GoalWrites, BudgetWrites,
       LedgerWrites, CaptureWrites, ReconciliationWrites
  <2>2. QED
    BY <2>1 DEF SaveAlone, IsSave, SavesOf
<1>7. CASE WorkspaceNext
  <2>1. ASSUME NEW h \in Households, Switch(h) PROVE SaveAlone'
    BY <1>1, <1>2, <2>1, NoSaveStarts DEF Switch, Starts
  <2>2. CASE Choose \/ Record
    BY <1>1, <1>2, <2>2, NoSaveStarts DEF Choose, Record, LedgerWrites, Starts
  <2>3. ASSUME NEW j \in jobs, OpenEnds(j) PROVE SaveAlone'
    BY <1>3, <2>3, NoSaveStarts DEF OpenEnds, OpenAnswered, OpenFails, Opens, Done, GoesOn
  <2>4. ASSUME NEW j \in jobs, SwitchEnds(j) PROVE SaveAlone'
    BY <1>3, <2>4, NoSaveStarts DEF SwitchEnds, SwitchAnswered, SwitchFails, Done, GoesOn
  <2>5. ASSUME NEW j \in jobs, RecordEnds(j) \/ RefreshEnds(j) PROVE SaveAlone'
    BY <1>1, <1>2, <2>5, NoSaveStarts DEF RecordEnds, RefreshEnds, Refreshed, NotRefreshed, Done, GoesOn
  <2>6. QED
    BY <1>7, <2>1, <2>2, <2>3, <2>4, <2>5 DEF WorkspaceNext
<1>8. CASE ViewNext
  BY <1>1, <1>2, <1>3, <1>8, NoSaveStarts DEF ViewNext, RetryOverview, RefreshWallet, Shown, ViewEnds,
     OverviewLoaded, OverviewFails, WalletAnswered, Starts, Done, GoesOn
<1>9. QED
  BY <1>4, <1>5, <1>6, <1>7, <1>8

LEMMA FrameSaveStep ==
  PagesTypeOK /\ SaveAlone
  /\ (FollowSelection \/ (\E r \in Routes : Visit(r)) \/ \E j \in jobs : WalletsEnd(j) \/ GoneEnds(j))
  => SaveAlone'
<1> SUFFICES ASSUME PagesTypeOK, SaveAlone PROVE
      (FollowSelection \/ (\E r \in Routes : Visit(r)) \/ \E j \in jobs : WalletsEnd(j) \/ GoneEnds(j))
      => SaveAlone'
  OBVIOUS
<1> USE DEF frameVars, flagVars
<1>1. \A c, h : Read(c, h).call = c
  BY DEF Read, Call
<1>2. \A r, h : \A k \in Effects(r, h) : k.call \in {"items", "wallets", "both"}
  BY <1>1 DEF Effects
<1>3. ASSUME FollowSelection PROVE SaveAlone'
  <2>1. \A k \in jobs' \ jobs : ~IsSave(k)
    BY <1>2, <1>3 DEF FollowSelection, IsSave, SavesOf, BudgetWrites, CaptureWrites
  <2>2. route = "budgets" => busy' = (FALSE \/ (TRUE /\ busy))
    BY <1>3 DEF FollowSelection
  <2>3. busy \in BOOLEAN
    BY DEF PagesTypeOK
  <2>4. busy' = busy \/ route \notin {"budgets", "workspace"}
    BY <1>3, <2>2, <2>3 DEF FollowSelection, Polled
  <2>5. QED
    BY <1>3, <2>1, <2>4, NoSaveStarts DEF FollowSelection
<1>4. ASSUME NEW r \in Routes, Visit(r) PROVE SaveAlone'
  <2>1. \A k \in jobs' : k.live => k.call \in {"items", "wallets", "both", "open"}
    BY <1>1, <1>2, <1>4, GoneIsNotLive DEF Visit
  <2>2. \A x : SavesOf(x) \cap {"items", "wallets", "both", "open"} = {}
    BY DEF SavesOf, BudgetWrites, CaptureWrites
  <2>3. \A k \in jobs' : ~IsSave(k)'
    BY <2>1, <2>2 DEF IsSave
  <2>4. QED
    BY <2>3 DEF SaveAlone
<1>5. ASSUME NEW j \in jobs, WalletsEnd(j) \/ GoneEnds(j) PROVE SaveAlone'
  BY <1>5, NoSaveStarts DEF WalletsEnd, GoneEnds, Done
<1>6. QED
  BY <1>3, <1>4, <1>5

\* One save is under way at a time on the pages whose buttons are disabled while
\* saving, for any number of other calls beside it.
THEOREM SavesAreAlone == Spec => []OneSaveAtATime
<1>1. Init => SaveAlone
  <2>1. Read("open", NoHousehold).call = "open"
    BY DEF Read, Call
  <2>2. QED
    BY <2>1 DEF Init, SaveAlone, IsSave, SavesOf
<1>2. PagesTypeOK /\ PageInv /\ SaveAlone /\ [Next]_vars => SaveAlone'
  <2>1. CASE UNCHANGED vars
    BY <2>1 DEF vars, frameVars, flagVars, SaveAlone, IsSave
  <2>2. QED
    BY <2>1, BudgetSaveStep, InboxSaveStep, OtherSaveStep, FrameSaveStep DEF Next
<1>3. SaveAlone => OneSaveAtATime
  <2>1. ASSUME SaveAlone, NEW names, SavesOf(route) = names PROVE Cardinality(Pending(names)) <= 1
    <3>1. \A j, k \in Pending(names) : j = k
      BY <2>1 DEF Pending, SaveAlone, IsSave
    <3>2. CASE Pending(names) = {}
      BY <3>2, FS_EmptySet
    <3>3. ASSUME NEW j \in Pending(names) PROVE Cardinality(Pending(names)) <= 1
      <4>1. Pending(names) = {j}
        BY <3>1, <3>3
      <4>2. QED
        BY <4>1, FS_Singleton
    <3>4. QED
      BY <3>2, <3>3
  <2>2. QED
    BY <2>1 DEF OneSaveAtATime, SavesOf
<1>4. QED
  BY <1>1, <1>2, <1>3, PagesTypes, PagesKeepInv, PTL DEF Spec
=============================================================================
