------------------------------ MODULE WebClient -----------------------------
(***************************************************************************)
(* Which household is open for whom: the loading and switching of          *)
(* useFinancialWorkspace*, HouseholdEntry.tsx, and the snapshot of         *)
(* financialWorkspaceCache.ts, on top of WebSession.  WebPages has what    *)
(* the pages do with the household.                                        *)
(*                                                                         *)
(* Every record is abstracted to the household it belongs to.  An async    *)
(* function is a job: it goes on after its component has been unmounted,   *)
(* when its setters do nothing and its writes to localStorage still count. *)
(***************************************************************************)
EXTENDS WebSession

CONSTANTS
    InitialMembers,   \* households of each user at the start
    MaxJobs           \* bound: jobs under way when the user starts another

ASSUME InitialMembersType == InitialMembers \in [Users -> SUBSET Households]
ASSUME MaxJobsIsNat == MaxJobs \in Nat

VARIABLES
    members,          \* server: households of each user
    view,             \* the address of the page
    opening,          \* useFinancialWorkspaceData: loading
    household,        \* useFinancialWorkspaceData: household
    switching,        \* useFinancialWorkspaceActions: switching
    restored,         \* history: what is shown is a snapshot that came late
    jobs              \* async functions under way

screenVars == <<opening, household, switching, restored>>
vars == <<sessionVars, members, view, screenVars, jobs>>

\* The dashboard and the pages of the workspace, which all load it anew when
\* they are mounted (the dashboard has no header), and the other pages.
Views == {"workspace", "elsewhere"}

\* A job waits for the answer of a call sent with the cookie of user `as`.
Jobs == [job: {"load", "switch", "enter"}, at: {"post", "list", "fetch"},
         as: MaybeUser, household: MaybeHousehold, live: BOOLEAN]
Job(name, step, u, h) ==
    [job |-> name, at |-> step, as |-> u, household |-> h, live |-> TRUE]

ClientTypeOK ==
    /\ SessionTypeOK
    /\ members \in [Users -> SUBSET Households]
    /\ view \in Views
    /\ opening \in BOOLEAN
    /\ household \in MaybeHousehold
    /\ switching \in BOOLEAN
    /\ restored \in BOOLEAN
    /\ jobs \subseteq Jobs

Init ==
    /\ SessionInit
    /\ members = InitialMembers
    /\ view \in Views
    /\ opening = FALSE
    /\ household = NoHousehold
    /\ switching = FALSE
    /\ restored = FALSE
    /\ jobs = {}

-----------------------------------------------------------------------------
\* What is on the screen.
WorkspaceShown == AppShown /\ view # "elsewhere"
EntryShown == WorkspaceShown /\ ~opening
HeaderShown == WorkspaceShown /\ ~opening /\ household # NoHousehold
SwitcherEnabled == HeaderShown /\ ~switching
Online(j) == j.as # NoUser
Serves(j) == Online(j) /\ j.household \in members[j.as]
LiveJobs(names) == {j \in jobs : j.live /\ j.job \in names}
Activations == {"switch", "enter"}
Room == Cardinality(jobs) < MaxJobs

\* A component that has been mounted anew holds its initial state.
Blank ==
    /\ household' = NoHousehold
    /\ switching' = FALSE
    /\ restored' = FALSE

\* Mutant: the state outlives the page, and late answers still reach it.
UnmountedHeard == jobs

Unmounted == {[j EXCEPT !.live = FALSE] : j \in jobs}

\* The workspace is mounted, and its effect lists the households, or unmounted.
Remount ==
    /\ Blank
    /\ opening' = WorkspaceShown'
    /\ jobs' = Unmounted \cup
               (IF WorkspaceShown' THEN {Job("load", "list", cookie', NoHousehold)} ELSE {})
Render ==
    /\ UNCHANGED <<members, view>>
    /\ IF WorkspaceShown' = WorkspaceShown THEN UNCHANGED <<screenVars, jobs>> ELSE Remount

\* A setter of the workspace, called by job j.
Setter(j, old, new) == IF j.live THEN new ELSE old
Done(j) == jobs' = jobs \ {j}
\* Job j goes on with the household h, and sends again.
Advance(j, step, h) ==
    jobs' = (jobs \ {j}) \cup
            {[job |-> j.job, at |-> step, as |-> cookie, household |-> h,
              live |-> j.live]}
Starts(j) == jobs' = jobs \cup {j}

-----------------------------------------------------------------------------
\* The households are listed; without one there is nothing to open.
LoadListed(j) ==
    /\ j.job = "load" /\ j.at = "list"
    /\ Online(j)
    /\ \/ /\ members[j.as] = {}
          /\ saved' = NoHousehold
          /\ opening' = Setter(j, opening, FALSE)
          /\ Done(j)
       \/ /\ \E h \in members[j.as] :
               /\ saved \in members[j.as] => h = saved
               /\ Advance(j, "fetch", h)
          /\ UNCHANGED <<saved, opening>>
    /\ UNCHANGED <<identityVars, snapshot, late, members, view, household, switching, restored>>

\* Mutant: the household of the state is saved, which is not set yet.
SaveSnapshotOfState(h) == snapshot' = [user |-> activeUser, household |-> household]

\* saveSnapshot, under the user id that is then in localStorage.
SaveSnapshot(h) == snapshot' = [user |-> activeUser, household |-> h]

\* Household, wallets and overview are fetched, shown and saved.
LoadFetched(j) ==
    /\ j.job = "load" /\ j.at = "fetch"
    /\ Serves(j)
    /\ saved' = j.household
    /\ SaveSnapshot(j.household)
    /\ late' = ~j.live
    /\ household' = Setter(j, household, j.household)
    /\ opening' = Setter(j, opening, FALSE)
    /\ Done(j)
    /\ UNCHANGED <<identityVars, members, view, switching, restored>>

\* readSnapshot: only the snapshot of the user who is signed in.
SnapshotReadable == snapshot.user # NoUser /\ snapshot.user = activeUser

\* A call fails for any reason but a refusal, and the snapshot is shown.
LoadRestores(j) ==
    /\ j.job = "load"
    /\ SnapshotReadable
    /\ household' = Setter(j, household, snapshot.household)
    /\ restored' = Setter(j, restored, late)
    /\ opening' = Setter(j, opening, FALSE)
    /\ Done(j)
    /\ UNCHANGED <<sessionVars, members, view, switching>>

\* It fails and there is none, or it is refused as unauthenticated.
LoadFails(j) ==
    /\ j.job = "load"
    /\ ~SnapshotReadable \/ j.as # cookie \/ cookie = NoUser
    /\ opening' = Setter(j, opening, FALSE)
    /\ Done(j)
    /\ UNCHANGED <<sessionVars, members, view, household, switching, restored>>

-----------------------------------------------------------------------------
\* The select of FinancialHeader, and activateHousehold.
Switch(h) ==
    /\ SwitcherEnabled /\ Room
    /\ h # household
    /\ switching' = TRUE
    /\ Starts(Job("switch", "list", cookie, h))
    /\ UNCHANGED <<sessionVars, members, view, opening, household, restored>>

\* HouseholdEntry: create a household, or join one with an invite code.  The
\* entry of a workspace that has a household is reopened by its toggle.
Enter(h) ==
    /\ EntryShown /\ Room
    /\ household = NoHousehold => LiveJobs({"enter"}) = {}
    /\ Starts(Job("enter", "post", cookie, h))
    /\ UNCHANGED <<sessionVars, members, view, opening, household, switching, restored>>

\* The user is a member now, and the household is activated.
EnterServed(j) ==
    /\ j.job = "enter" /\ j.at = "post"
    /\ Online(j)
    /\ members' = [members EXCEPT ![j.as] = members[j.as] \cup {j.household}]
    /\ switching' = Setter(j, switching, TRUE)
    /\ Advance(j, "list", j.household)
    /\ UNCHANGED <<sessionVars, view, opening, household, restored>>

\* It is refused, or its answer is lost after it was served.
EnterFails(j) ==
    /\ j.job = "enter" /\ j.at = "post"
    /\ \/ UNCHANGED members
       \/ /\ Online(j)
          /\ members' = [members EXCEPT ![j.as] = members[j.as] \cup {j.household}]
    /\ Done(j)
    /\ UNCHANGED <<sessionVars, view, screenVars>>

\* The target must still be among the memberships.
ActivateListed(j) ==
    /\ j.job \in Activations /\ j.at = "list"
    /\ Online(j)
    /\ IF j.household \in members[j.as]
       THEN Advance(j, "fetch", j.household) /\ UNCHANGED switching
       ELSE Done(j) /\ switching' = Setter(j, switching, FALSE)
    /\ UNCHANGED <<sessionVars, members, view, opening, household, restored>>

\* Neither the budgets, nor the snapshot, nor what the forms hold changes.
ActivateFetched(j) ==
    /\ j.job \in Activations /\ j.at = "fetch"
    /\ Serves(j)
    /\ saved' = j.household
    /\ late' = (late \/ ~j.live)
    /\ household' = Setter(j, household, j.household)
    /\ switching' = Setter(j, switching, FALSE)
    /\ restored' = Setter(j, restored, FALSE)
    /\ Done(j)
    /\ UNCHANGED <<identityVars, snapshot, members, view, opening>>

\* Mutant: the select stays disabled after a failure.
ActivateFailsDisabled(j) ==
    /\ j.job \in Activations /\ j.at \in {"list", "fetch"}
    /\ Done(j)
    /\ UNCHANGED <<sessionVars, members, view, screenVars>>

ActivateFails(j) ==
    /\ j.job \in Activations /\ j.at \in {"list", "fetch"}
    /\ switching' = Setter(j, switching, FALSE)
    /\ Done(j)
    /\ UNCHANGED <<sessionVars, members, view, opening, household, restored>>

-----------------------------------------------------------------------------
SessionStep ==
    /\ \/ StartEnds \/ SubmitEnds \/ Logout \/ LogoutEnds \/ SessionEnds
       \/ Room /\ \E u \in Users : Submit(u)
    /\ Render

ReloadPage ==
    /\ Reload
    /\ Blank
    /\ opening' = FALSE
    /\ jobs' = {}
    /\ UNCHANGED <<members, view>>

\* The links of AppShell, and the history of the browser: another component.
Navigate(v) ==
    /\ ShellEnabled
    /\ v # view /\ Room
    /\ view' = v
    /\ UNCHANGED <<sessionVars, members>>
    /\ Remount

LoadEnds(j) == LoadListed(j) \/ LoadFetched(j) \/ LoadRestores(j) \/ LoadFails(j)
ActivateEnds(j) == ActivateListed(j) \/ ActivateFetched(j) \/ ActivateFails(j)

Next ==
    \/ SessionStep
    \/ ReloadPage
    \/ \E v \in Views : Navigate(v)
    \/ \E h \in Households : Switch(h) \/ Enter(h)
    \/ \E j \in jobs :
         \/ LoadEnds(j)
         \/ EnterServed(j) \/ EnterFails(j)
         \/ ActivateEnds(j)

\* request() aborts what has no answer after eight seconds; that the body of an
\* answer arrives after its headers is assumed.
Fairness ==
    /\ WF_vars(StartEnds /\ Render)
    /\ WF_vars(SubmitEnds /\ Render)
    /\ WF_vars(LogoutEnds /\ Render)
    /\ \A step \in {"list", "fetch"} :
         /\ WF_vars(\E j \in LiveJobs({"load"}) : j.at = step /\ LoadEnds(j))
         /\ WF_vars(\E j \in LiveJobs(Activations) : j.at = step /\ ActivateEnds(j))

Spec == Init /\ [][Next]_vars /\ Fairness

-----------------------------------------------------------------------------
\* What localStorage keeps for the next start belongs to the user it names,
\* unless a page that was gone wrote it, or two sign-ins raced.
StorageIsOwn ==
    authUser # NoUser /\ ~late /\ ~raced =>
        /\ saved \in members[authUser] \cup {NoHousehold}
        /\ snapshot = NoSnapshot \/ (snapshot.user = authUser /\ snapshot.household \in members[authUser])

\* The workspace shows a household of the user whose name is beside it, whether
\* it came from the server or from the snapshot, unless it was restored from a
\* snapshot that came late, or two sign-ins raced.
ShownHouseholdIsOwn ==
    AppShown /\ household # NoHousehold /\ ~restored /\ ~raced => household \in members[user]

\* Whoever waits for the workspace, or for a switch, or to be signed in, gets
\* an answer or leaves; no button stays disabled.
WaitsEnd ==
    /\ \A v \in Views : opening /\ view = v ~> ~opening \/ view # v
    /\ loading ~> ~loading
    /\ saving ~> ~saving
    /\ switching ~> ~switching
=============================================================================
