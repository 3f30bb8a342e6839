--------------------------- MODULE WebClientProofs --------------------------
(***************************************************************************)
(* Theorems about WebClient, for any users, households and memberships and *)
(* any number of functions under way.                                      *)
(***************************************************************************)
EXTENDS WebClient, TLAPS

\* The target of a switch or of an entry is a household; only a load has none
\* until the memberships are listed.
TargetsKnown == \A j \in jobs : j.job # "load" => j.household \in Households
Typed == ClientTypeOK /\ TargetsKnown

\* A job that is sent, or goes on, is typed.
LEMMA JobTypes ==
  ASSUME NEW name \in {"load", "switch", "enter"}, NEW step \in {"post", "list", "fetch"},
         NEW u \in MaybeUser, NEW h \in MaybeHousehold, NEW live \in BOOLEAN
  PROVE  [job |-> name, at |-> step, as |-> u, household |-> h, live |-> live] \in Jobs
  BY DEF Jobs

\* What an unmounted component waits for stays typed, and is heard no more.
LEMMA UnmountedJobs ==
  ASSUME jobs \subseteq Jobs
  PROVE  Unmounted \subseteq Jobs /\ \A j \in Unmounted : ~j.live
<1> SUFFICES ASSUME NEW j \in jobs
             PROVE  [j EXCEPT !.live = FALSE] \in Jobs /\ ~[j EXCEPT !.live = FALSE].live
  BY DEF Unmounted
<1>1. QED
  BY DEF Jobs

LEMMA RemountTypes ==
  ASSUME ClientTypeOK, SessionTypeOK', Remount
  PROVE  /\ opening' \in BOOLEAN /\ household' \in MaybeHousehold /\ switching' \in BOOLEAN
         /\ restored' \in BOOLEAN /\ jobs' \subseteq Jobs
<1>1. Job("load", "list", cookie', NoHousehold) \in Jobs
  BY JobTypes DEF Job, SessionTypeOK, MaybeHousehold
<1>2. jobs' \subseteq Jobs
  BY <1>1, UnmountedJobs DEF Remount, ClientTypeOK
<1>3. opening' \in BOOLEAN
  BY DEF Remount, WorkspaceShown, AppShown
<1>4. QED
  BY <1>2, <1>3 DEF Remount, Blank, MaybeHousehold

LEMMA SessionTypeStep ==
  ASSUME ClientTypeOK, StartEnds \/ SubmitEnds \/ Logout \/ LogoutEnds \/ SessionEnds
                       \/ (\E u \in Users : Submit(u)) \/ Reload
  PROVE  SessionTypeOK'
<1> USE DEF ClientTypeOK, SessionTypeOK, storageVars, MaybeUser, MaybeHousehold
<1>1. CASE StartEnds
  BY <1>1 DEF StartEnds, StartKnown, StartOffline, StartUnknown, Welcome, Farewell, Remember
<1>2. CASE SubmitEnds \/ (\E u \in Users : Submit(u))
  BY <1>2 DEF SubmitEnds, SubmitAnswered, SubmitFails, Submit, Welcome, Remember
<1>3. CASE Logout
  <2>1. logouts' \in 0..MaxLogouts
    BY <1>3, MaxLogoutsIsNat DEF Logout
  <2>2. QED
    BY <1>3, <2>1 DEF Logout
<1>4. CASE LogoutEnds
  <2>1. logouts' \in 0..MaxLogouts
    BY <1>4, MaxLogoutsIsNat DEF LogoutEnds, LogoutAnswered, LogoutFails
  <2>2. QED
    BY <1>4, <2>1 DEF LogoutEnds, LogoutAnswered, LogoutFails, Farewell, Remember
<1>5. CASE SessionEnds
  BY <1>5 DEF SessionEnds
<1>6. CASE Reload
  <2>1. logouts' \in 0..MaxLogouts
    BY <1>6, MaxLogoutsIsNat DEF Reload
  <2>2. QED
    BY <1>6, <2>1 DEF Reload
<1>7. QED
  BY <1>1, <1>2, <1>3, <1>4, <1>5, <1>6

\* Where a job goes on, it sends with the cookie that the browser then has.
LEMMA AdvanceTypes ==
  ASSUME ClientTypeOK, NEW j \in jobs, NEW step \in {"post", "list", "fetch"},
         NEW h \in MaybeHousehold, Advance(j, step, h)
  PROVE  jobs' \subseteq Jobs
<1>1. [job |-> j.job, at |-> step, as |-> cookie, household |-> h, live |-> j.live] \in Jobs
  BY DEF ClientTypeOK, SessionTypeOK, Jobs
<1>2. QED
  BY <1>1 DEF Advance, ClientTypeOK

LEMMA JobFields ==
  ASSUME Typed, NEW j \in jobs
  PROVE  /\ j \in Jobs
         /\ j.household \in MaybeHousehold /\ j.live \in BOOLEAN /\ j.as \in MaybeUser
         /\ j.job \in {"load", "switch", "enter"}
         /\ Online(j) => j.as \in Users
         /\ Serves(j) => j.as \in Users /\ j.household \in members[j.as] /\ j.household \in Households
  BY DEF Typed, ClientTypeOK, Jobs, Online, Serves, MaybeUser, MaybeHousehold

\* What goes on keeps its target, and what has none yet is a load.
LEMMA AdvanceTargets ==
  ASSUME Typed, NEW j \in jobs, NEW step, NEW h \in MaybeHousehold, Advance(j, step, h),
         h \in Households \/ j.job = "load"
  PROVE  TargetsKnown'
  BY DEF Advance, Typed, TargetsKnown

LEMMA DoneTargets ==
  ASSUME Typed, NEW j \in jobs, Done(j)
  PROVE  jobs' \subseteq Jobs /\ TargetsKnown'
  BY DEF Done, Typed, ClientTypeOK, TargetsKnown

LEMMA RemountTargets ==
  ASSUME Typed, Remount
  PROVE  TargetsKnown'
<1> SUFFICES ASSUME NEW k \in jobs', k.job # "load" PROVE k.household \in Households
  BY DEF TargetsKnown
<1>1. k \in Unmounted
  BY DEF Remount, Job
<1>2. PICK j \in jobs : k = [j EXCEPT !.live = FALSE]
  BY <1>1 DEF Unmounted
<1>3. j \in Jobs
  BY DEF Typed, ClientTypeOK
<1>4. k.job = j.job /\ k.household = j.household
  BY <1>2, <1>3 DEF Jobs
<1>5. QED
  BY <1>4 DEF Typed, TargetsKnown

LEMMA JobTypeStep ==
  ASSUME Typed, NEW j \in jobs,
         LoadEnds(j) \/ EnterServed(j) \/ EnterFails(j) \/ ActivateEnds(j)
  PROVE  Typed'
<1> USE DEF sessionVars, identityVars, storageVars, screenVars, Setter
<1>1. ClientTypeOK /\ SessionTypeOK /\ jobs \subseteq Jobs /\ j.live \in BOOLEAN
  BY JobFields DEF Typed, ClientTypeOK
<1>2. CASE LoadListed(j)
  <2>1. jobs' \subseteq Jobs /\ TargetsKnown'
    <3>1. CASE Done(j)
      BY <3>1, DoneTargets
    <3>2. ASSUME NEW h \in members[j.as], Advance(j, "fetch", h)
          PROVE  jobs' \subseteq Jobs /\ TargetsKnown'
      <4>1. h \in Households /\ h \in MaybeHousehold
        BY <1>1, <1>2, JobFields DEF LoadListed, ClientTypeOK, MaybeHousehold
      <4>2. QED
        BY <1>1, <3>2, <4>1, AdvanceTypes, AdvanceTargets
    <3>3. QED
      BY <1>2, <3>1, <3>2 DEF LoadListed
  <2>2. saved' \in MaybeHousehold /\ opening' \in BOOLEAN
    BY <1>1, <1>2 DEF LoadListed, ClientTypeOK, SessionTypeOK, MaybeHousehold
  <2>3. QED
    BY <1>1, <1>2, <2>1, <2>2 DEF LoadListed, Typed, ClientTypeOK, SessionTypeOK
<1>3. CASE LoadFetched(j)
  <2>1. j.household \in Households
    BY <1>3, JobFields DEF LoadFetched
  <2>2. snapshot' \in Snapshots
    BY <1>1, <1>3, <2>1 DEF LoadFetched, SaveSnapshot, Snapshots, SessionTypeOK
  <2>3. saved' \in MaybeHousehold /\ household' \in MaybeHousehold /\ opening' \in BOOLEAN
        /\ late' \in BOOLEAN
    BY <1>1, <1>3, <2>1 DEF LoadFetched, MaybeHousehold, ClientTypeOK
  <2>4. jobs' \subseteq Jobs /\ TargetsKnown'
    BY <1>3, DoneTargets DEF LoadFetched
  <2>5. QED
    BY <1>1, <1>3, <2>2, <2>3, <2>4 DEF LoadFetched, Typed, ClientTypeOK, SessionTypeOK
<1>4. CASE LoadRestores(j) \/ LoadFails(j)
  <2>1. snapshot.household \in MaybeHousehold
    BY <1>1 DEF SessionTypeOK, Snapshots, NoSnapshot, MaybeHousehold
  <2>2. jobs' \subseteq Jobs /\ TargetsKnown'
    BY <1>4, DoneTargets DEF LoadRestores, LoadFails
  <2>3. QED
    BY <1>1, <1>4, <2>1, <2>2 DEF LoadRestores, LoadFails, Typed, ClientTypeOK, SessionTypeOK
<1>5. CASE EnterServed(j) \/ EnterFails(j)
  <2>1. j.household \in Households
    BY <1>5 DEF Typed, TargetsKnown, EnterServed, EnterFails
  <2>2. members' \in [Users -> SUBSET Households]
    <3>1. CASE UNCHANGED members
      BY <1>1, <3>1 DEF ClientTypeOK
    <3>2. CASE Online(j) /\ members' = [members EXCEPT ![j.as] = members[j.as] \cup {j.household}]
      <4>1. members \in [Users -> SUBSET Households] /\ j.as \in Users
        BY <1>1, <3>2, JobFields DEF ClientTypeOK
      <4>2. members[j.as] \cup {j.household} \in SUBSET Households
        BY <2>1, <4>1
      <4>3. QED
        BY <3>2, <4>1, <4>2
    <3>3. QED
      BY <1>5, <3>1, <3>2 DEF EnterServed, EnterFails
  <2>3. jobs' \subseteq Jobs /\ TargetsKnown'
    <3>1. CASE EnterServed(j)
      BY <1>1, <2>1, <3>1, AdvanceTypes, AdvanceTargets DEF EnterServed, MaybeHousehold
    <3>2. CASE EnterFails(j)
      BY <3>2, DoneTargets DEF EnterFails
    <3>3. QED
      BY <1>5, <3>1, <3>2
  <2>4. QED
    BY <1>1, <1>5, <2>2, <2>3 DEF EnterServed, EnterFails, Typed, ClientTypeOK, SessionTypeOK
<1>6. CASE ActivateEnds(j)
  <2>1. j.household \in Households
    BY <1>6 DEF Typed, TargetsKnown, Activations, ActivateEnds, ActivateListed, ActivateFetched,
                ActivateFails, Serves
  <2>2. jobs' \subseteq Jobs /\ TargetsKnown'
    <3>1. CASE Done(j)
      BY <3>1, DoneTargets
    <3>2. CASE Advance(j, "fetch", j.household)
      BY <1>1, <2>1, <3>2, AdvanceTypes, AdvanceTargets DEF MaybeHousehold
    <3>3. QED
      BY <1>6, <3>1, <3>2 DEF ActivateEnds, ActivateListed, ActivateFetched, ActivateFails
  <2>3. CASE ActivateListed(j)
    BY <1>1, <2>2, <2>3 DEF ActivateListed, Typed, ClientTypeOK, SessionTypeOK
  <2>4. CASE ActivateFetched(j)
    BY <1>1, <2>1, <2>2, <2>4 DEF ActivateFetched, Typed, ClientTypeOK, SessionTypeOK, MaybeHousehold
  <2>5. CASE ActivateFails(j)
    BY <1>1, <2>2, <2>5 DEF ActivateFails, Typed, ClientTypeOK, SessionTypeOK
  <2>6. QED
    BY <1>6, <2>3, <2>4, <2>5 DEF ActivateEnds
<1>7. QED
  BY <1>2, <1>3, <1>4, <1>5, <1>6 DEF LoadEnds

\* A function that the user starts waits with the cookie of the browser.
LEMMA StartsTypes ==
  ASSUME Typed, NEW name \in {"switch", "enter"}, NEW step \in {"post", "list"},
         NEW h \in Households, Starts(Job(name, step, cookie, h))
  PROVE  jobs' \subseteq Jobs /\ TargetsKnown'
<1>1. Job(name, step, cookie, h) \in Jobs
  BY JobTypes DEF Typed, ClientTypeOK, SessionTypeOK, MaybeHousehold, Job
<1>2. Job(name, step, cookie, h).household \in Households
  BY DEF Job
<1>3. QED
  BY <1>1, <1>2 DEF Starts, Typed, ClientTypeOK, TargetsKnown

LEMMA RenderTypes ==
  ASSUME Typed, SessionTypeOK', Render
  PROVE  Typed'
<1>1. CASE WorkspaceShown' = WorkspaceShown
  BY <1>1 DEF Render, screenVars, Typed, ClientTypeOK, TargetsKnown
<1>2. CASE WorkspaceShown' # WorkspaceShown
  <2>1. Remount /\ UNCHANGED <<members, view>>
    BY <1>2 DEF Render
  <2>2. QED
    BY <2>1, RemountTypes, RemountTargets DEF Typed, ClientTypeOK
<1>3. QED
  BY <1>1, <1>2

LEMMA TypedInit == Init => Typed
<1> SUFFICES ASSUME Init PROVE Typed
  OBVIOUS
<1>1. logouts \in 0..MaxLogouts
  BY MaxLogoutsIsNat DEF Init, SessionInit
<1>2. SessionTypeOK
  BY <1>1 DEF Init, SessionInit, SessionTypeOK, MaybeUser, MaybeHousehold
<1>3. QED
  BY <1>2, InitialMembersType DEF Init, Typed, ClientTypeOK, TargetsKnown, MaybeHousehold

LEMMA TypedStep ==
  ASSUME Typed, [Next]_vars
  PROVE  Typed'
<1> USE DEF sessionVars, identityVars, storageVars, screenVars
<1>1. ClientTypeOK /\ SessionTypeOK
  BY DEF Typed, ClientTypeOK
<1>2. CASE SessionStep
  <2>1. SessionTypeOK'
    BY <1>1, <1>2, SessionTypeStep DEF SessionStep
  <2>2. QED
    BY <1>2, <2>1, RenderTypes DEF SessionStep
<1>3. CASE ReloadPage
  <2>1. SessionTypeOK'
    BY <1>1, <1>3, SessionTypeStep DEF ReloadPage
  <2>2. QED
    BY <1>1, <1>3, <2>1 DEF ReloadPage, Blank, Typed, ClientTypeOK, TargetsKnown, MaybeHousehold
<1>4. ASSUME NEW v \in Views, Navigate(v) PROVE Typed'
  <2>1. SessionTypeOK' /\ Remount
    BY <1>1, <1>4 DEF Navigate, SessionTypeOK
  <2>2. QED
    BY <1>1, <1>4, <2>1, RemountTypes, RemountTargets DEF Navigate, Typed, ClientTypeOK
<1>5. ASSUME NEW h \in Households, Switch(h) \/ Enter(h) PROVE Typed'
  <2>1. jobs' \subseteq Jobs /\ TargetsKnown'
    BY <1>5, StartsTypes DEF Switch, Enter
  <2>2. QED
    BY <1>1, <1>5, <2>1 DEF Switch, Enter, Typed, ClientTypeOK, SessionTypeOK
<1>6. CASE UNCHANGED vars
  BY <1>1, <1>6 DEF vars, Typed, ClientTypeOK, SessionTypeOK, TargetsKnown
<1>7. QED
  BY <1>2, <1>3, <1>4, <1>5, <1>6, JobTypeStep DEF Next

\* Every variable of the session and of the workspace keeps its type.
THEOREM ClientTypes == Spec => []ClientTypeOK
<1>1. Spec => []Typed
  BY TypedInit, TypedStep, PTL DEF Spec
<1>2. Typed => ClientTypeOK
  BY DEF Typed
<1>3. QED
  BY <1>1, <1>2, PTL

-----------------------------------------------------------------------------
\* Whom the browser remembers is who is signed in, and while two sign-ins have
\* not raced, the cookie is theirs or has ended.
IdentityInv ==
    /\ activeUser = authUser
    /\ ~loading => user = authUser
    /\ loading => user = NoUser /\ signing = {}
    /\ ~raced => /\ \A a, b \in signing : a = b
                 /\ user # NoUser => signing = {}
                 /\ authUser # NoUser => cookie \in {NoUser, authUser}

\* A function that is still heard belongs to the workspace that is shown, and
\* was sent for its user, or for nobody.
HeardInv ==
    /\ household # NoHousehold => WorkspaceShown
    /\ \A j \in jobs : j.live => WorkspaceShown /\ (~raced => j.as \in {NoUser, user})

\* Nothing is kept for nobody.
KeptInv ==
    /\ StorageIsOwn
    /\ ~late /\ ~raced /\ authUser = NoUser => saved = NoHousehold /\ snapshot = NoSnapshot

ClientInv == Typed /\ IdentityInv /\ HeardInv /\ KeptInv /\ ShownHouseholdIsOwn

\* A sign-in that is answered finds nobody signed in, and no other beside it.
LEMMA IdentityStep ==
  ASSUME IdentityInv, Typed, [Next]_vars
  PROVE  IdentityInv'
<1> USE DEF IdentityInv, sessionVars, identityVars, storageVars
<1>1. ASSUME StartEnds PROVE IdentityInv'
  BY <1>1 DEF StartEnds, StartKnown, StartOffline, StartUnknown, Welcome, Farewell, Remember
<1>2. ASSUME NEW u \in Users, SubmitAnswered(u) PROVE IdentityInv'
  BY <1>2 DEF SubmitAnswered, Welcome, Remember
<1>3. ASSUME NEW u \in Users, SubmitFails(u) PROVE IdentityInv'
  BY <1>3 DEF SubmitFails
<1>4. ASSUME NEW u \in Users, Submit(u) PROVE IdentityInv'
  BY <1>4 DEF Submit, SubmitEnabled, FormShown
<1>5. ASSUME Logout \/ LogoutEnds \/ SessionEnds PROVE IdentityInv'
  BY <1>5 DEF Logout, LogoutEnds, LogoutAnswered, LogoutFails, SessionEnds, Farewell, Remember
<1>6. ASSUME Reload PROVE IdentityInv'
  BY <1>6 DEF Reload
<1>7. ASSUME UNCHANGED identityVars PROVE IdentityInv'
  BY <1>7
<1>8. CASE SessionStep
  BY <1>1, <1>2, <1>3, <1>4, <1>5, <1>8 DEF SessionStep, SubmitEnds
<1>9. CASE ReloadPage
  BY <1>6, <1>9 DEF ReloadPage
<1>10. ASSUME ~SessionStep, ~ReloadPage PROVE UNCHANGED identityVars
  <2>1. ASSUME NEW v \in Views, Navigate(v) PROVE UNCHANGED identityVars
    BY <2>1 DEF Navigate
  <2>2. ASSUME NEW h \in Households, Switch(h) \/ Enter(h) PROVE UNCHANGED identityVars
    BY <2>2 DEF Switch, Enter
  <2>3. ASSUME NEW j \in jobs, LoadEnds(j) \/ EnterServed(j) \/ EnterFails(j) \/ ActivateEnds(j)
        PROVE  UNCHANGED identityVars
    BY <2>3 DEF LoadEnds, LoadListed, LoadFetched, LoadRestores, LoadFails, EnterServed,
                EnterFails, ActivateEnds, ActivateListed, ActivateFetched, ActivateFails
  <2>4. QED
    BY <1>10, <2>1, <2>2, <2>3 DEF Next, vars
<1>11. QED
  BY <1>7, <1>8, <1>9, <1>10

-----------------------------------------------------------------------------
\* The steps that leave the session and the address alone.
LEMMA SameScreen ==
  ASSUME UNCHANGED <<user, loading, view>>
  PROVE  WorkspaceShown' = WorkspaceShown
  BY DEF WorkspaceShown, AppShown

\* While it is shown, nobody else signs in, unless two sign-ins raced.
LEMMA SameUser ==
  ASSUME IdentityInv, SessionStep, WorkspaceShown, WorkspaceShown', ~raced'
  PROVE  user' = user /\ ~raced
<1>1. ~loading /\ user # NoUser /\ ~loading' /\ user' # NoUser
  BY DEF WorkspaceShown, AppShown
<1>2. ~StartEnds /\ ~LogoutAnswered
  BY <1>1 DEF StartEnds, StartKnown, StartOffline, StartUnknown, LogoutAnswered, Farewell
<1>3. ASSUME NEW u \in Users, SubmitAnswered(u) PROVE FALSE
  BY <1>1, <1>3 DEF SubmitAnswered, IdentityInv
<1>4. ASSUME NEW u \in Users, SubmitFails(u) \/ Submit(u) PROVE user' = user /\ ~raced
  BY <1>4, <1>1 DEF SubmitFails, Submit, SubmitEnabled, FormShown
<1>5. ASSUME Logout \/ LogoutFails \/ SessionEnds PROVE user' = user /\ ~raced
  BY <1>5 DEF Logout, LogoutFails, SessionEnds
<1>6. QED
  BY <1>2, <1>3, <1>4, <1>5 DEF SessionStep, SubmitEnds, LogoutEnds

\* Mounting anew forgets the household, and whatever is heard was sent just now.
LEMMA RemountHeard ==
  ASSUME Typed, Remount, IdentityInv'
  PROVE  HeardInv'
<1>1. household' = NoHousehold
  BY DEF Remount, Blank
<1>2. ASSUME NEW j \in jobs', j.live
      PROVE  WorkspaceShown' /\ (~raced' => j.as \in {NoUser, user'})
  <2>1. j \notin Unmounted
    BY <1>2, UnmountedJobs DEF Typed, ClientTypeOK
  <2>2. WorkspaceShown' /\ j = Job("load", "list", cookie', NoHousehold)
    BY <1>2, <2>1 DEF Remount
  <2>3. j.as = cookie' /\ user' # NoUser /\ user' = authUser'
    BY <2>2 DEF Job, WorkspaceShown, AppShown, IdentityInv
  <2>4. QED
    BY <2>2, <2>3 DEF IdentityInv
<1>3. QED
  BY <1>1, <1>2 DEF HeardInv

\* A function that is heard and was sent for somebody was sent for the user.
LEMMA HeardSender ==
  ASSUME IdentityInv, HeardInv, NEW j \in jobs, j.live
  PROVE  /\ WorkspaceShown /\ user # NoUser /\ user = authUser /\ activeUser = user
         /\ ~raced => cookie \in {NoUser, user}
         /\ ~raced /\ Online(j) => j.as = user
  BY DEF HeardInv, IdentityInv, WorkspaceShown, AppShown, Online

LEMMA HeardStep ==
  ASSUME Typed, IdentityInv, IdentityInv', HeardInv, [Next]_vars
  PROVE  HeardInv'
<1> USE DEF sessionVars, identityVars, storageVars, screenVars
<1>1. CASE SessionStep
  <2>1. CASE WorkspaceShown' # WorkspaceShown
    BY <1>1, <2>1, RemountHeard DEF SessionStep, Render
  <2>2. CASE WorkspaceShown' = WorkspaceShown
    <3>1. jobs' = jobs /\ household' = household
      BY <1>1, <2>2 DEF SessionStep, Render
    <3>2. QED
      BY <1>1, <2>2, <3>1, SameUser DEF HeardInv
  <2>3. QED
    BY <2>1, <2>2
<1>2. CASE ReloadPage
  BY <1>2 DEF ReloadPage, Blank, HeardInv
<1>3. ASSUME NEW v \in Views, Navigate(v) PROVE HeardInv'
  BY <1>3, RemountHeard DEF Navigate
<1>4. ASSUME NEW h \in Households, Switch(h) \/ Enter(h) PROVE HeardInv'
  <2>1. UNCHANGED <<user, loading, view, raced, household>> /\ WorkspaceShown
    BY <1>4 DEF Switch, Enter, SwitcherEnabled, HeaderShown, EntryShown
  <2>2. PICK name, step : jobs' = jobs \cup {Job(name, step, cookie, h)}
    BY <1>4 DEF Switch, Enter, Starts
  <2>3. ~raced => cookie \in {NoUser, user}
    BY <2>1 DEF IdentityInv, WorkspaceShown, AppShown
  <2>4. Job(name, step, cookie, h).as = cookie
    BY DEF Job
  <2>5. QED
    BY <2>1, <2>2, <2>3, <2>4, SameScreen DEF HeardInv
<1>5. ASSUME NEW j \in jobs, LoadEnds(j) \/ EnterServed(j) \/ EnterFails(j) \/ ActivateEnds(j)
      PROVE  HeardInv'
  <2>1. UNCHANGED <<user, loading, view, raced>>
    BY <1>5 DEF LoadEnds, LoadListed, LoadFetched, LoadRestores, LoadFails, EnterServed,
                EnterFails, ActivateEnds, ActivateListed, ActivateFetched, ActivateFails
  <2>2. household' = household \/ j.live
    BY <1>5 DEF LoadEnds, LoadListed, LoadFetched, LoadRestores, LoadFails, EnterServed,
                EnterFails, ActivateEnds, ActivateListed, ActivateFetched, ActivateFails, Setter
  <2>3. Done(j) \/ \E step, h : Advance(j, step, h)
    BY <1>5 DEF LoadEnds, LoadListed, LoadFetched, LoadRestores, LoadFails, EnterServed,
                EnterFails, ActivateEnds, ActivateListed, ActivateFetched, ActivateFails
  <2>4. ASSUME NEW k \in jobs', k.live
        PROVE  WorkspaceShown /\ (~raced => k.as \in {NoUser, user})
    <3>1. CASE k \in jobs
      BY <2>4, <3>1 DEF HeardInv
    <3>2. CASE k \notin jobs
      <4>1. k.live = j.live /\ k.as = cookie
        BY <2>3, <3>2 DEF Done, Advance
      <4>2. QED
        BY <2>4, <4>1, HeardSender
    <3>3. QED
      BY <3>1, <3>2
  <2>5. QED
    BY <2>1, <2>2, <2>4, SameScreen, HeardSender DEF HeardInv
<1>6. CASE UNCHANGED vars
  BY <1>6, SameScreen DEF vars, HeardInv
<1>7. QED
  BY <1>1, <1>2, <1>3, <1>4, <1>5, <1>6 DEF Next

-----------------------------------------------------------------------------
\* What is in localStorage is as it was, or gone, and memberships only grow.
LEMMA KeptAlone ==
  ASSUME Typed, KeptInv, authUser' = authUser, ~late' => ~late, ~raced' => ~raced,
         saved' \in {saved, NoHousehold}, snapshot' = snapshot,
         \A u \in Users : members[u] \subseteq members'[u]
  PROVE  KeptInv'
<1>1. authUser \in Users \/ authUser = NoUser
  BY DEF Typed, ClientTypeOK, SessionTypeOK, MaybeUser
<1>2. QED
  BY <1>1 DEF KeptInv, StorageIsOwn

LEMMA KeptForgotten ==
  ASSUME Farewell
  PROVE  KeptInv'
  BY DEF Farewell, Remember, KeptInv, StorageIsOwn

\* Who is welcomed is the one remembered, or finds nothing kept.
LEMMA KeptWelcome ==
  ASSUME KeptInv, NEW u, u # NoUser, Welcome(u), ~raced' => ~raced, UNCHANGED members,
         ~raced => authUser \in {NoUser, u}
  PROVE  KeptInv'
<1>1. authUser' = u /\ saved' = saved /\ late' = late
  BY DEF Welcome, Remember
<1>2. CASE raced'
  BY <1>2 DEF KeptInv, StorageIsOwn
<1>3. CASE ~raced'
  <2>1. snapshot' = snapshot
    BY <1>3 DEF Welcome
  <2>2. QED
    BY <1>1, <1>3, <2>1 DEF KeptInv, StorageIsOwn
<1>4. QED
  BY <1>2, <1>3

LEMMA MembersGrow ==
  ASSUME Typed, [Next]_vars
  PROVE  \A u \in Users : members[u] \subseteq members'[u]
<1> USE DEF sessionVars, identityVars, storageVars, screenVars
<1>1. CASE UNCHANGED members
  BY <1>1
<1>2. ASSUME NEW j \in jobs, Online(j),
             members' = [members EXCEPT ![j.as] = members[j.as] \cup {j.household}]
      PROVE  \A u \in Users : members[u] \subseteq members'[u]
  BY <1>2 DEF Typed, ClientTypeOK
<1>3. ASSUME NEW j \in jobs, LoadEnds(j) \/ ActivateEnds(j) PROVE UNCHANGED members
  BY <1>3 DEF LoadEnds, LoadListed, LoadFetched, LoadRestores, LoadFails, ActivateEnds,
              ActivateListed, ActivateFetched, ActivateFails
<1>4. ASSUME NEW h \in Households, Switch(h) \/ Enter(h) PROVE UNCHANGED members
  BY <1>4 DEF Switch, Enter
<1>5. ASSUME NEW v \in Views, Navigate(v) PROVE UNCHANGED members
  BY <1>5 DEF Navigate
<1>6. ASSUME SessionStep \/ ReloadPage \/ UNCHANGED vars PROVE UNCHANGED members
  BY <1>6 DEF SessionStep, ReloadPage, Render, vars
<1>7. ASSUME NEW j \in jobs, EnterServed(j) \/ EnterFails(j)
      PROVE  \A u \in Users : members[u] \subseteq members'[u]
  BY <1>1, <1>2, <1>7 DEF EnterServed, EnterFails
<1>8. QED
  BY <1>1, <1>3, <1>4, <1>5, <1>6, <1>7 DEF Next

LEMMA KeptSession ==
  ASSUME Typed, IdentityInv, KeptInv, SessionStep
  PROVE  KeptInv'
<1> USE DEF sessionVars, identityVars, storageVars
<1>1. UNCHANGED members
  BY DEF SessionStep, Render
<1>2. cookie \in MaybeUser /\ signing \subseteq Users /\ NoUser \notin Users
  BY NobodyIsNoUser DEF Typed, ClientTypeOK, SessionTypeOK
<1>3. CASE StartKnown
  BY <1>1, <1>3, KeptWelcome DEF StartKnown, IdentityInv
<1>4. ASSUME NEW u \in Users, SubmitAnswered(u) PROVE KeptInv'
  <2>1. ~raced => authUser = NoUser
    BY <1>4 DEF SubmitAnswered, IdentityInv
  <2>2. QED
    BY <1>1, <1>2, <1>4, <2>1, KeptWelcome DEF SubmitAnswered
<1>5. CASE StartUnknown \/ LogoutAnswered
  BY <1>5, KeptForgotten DEF StartUnknown, LogoutAnswered
<1>6. ASSUME NEW u \in Users, SubmitFails(u) \/ Submit(u) PROVE KeptInv'
  <2>1. UNCHANGED <<authUser, saved, snapshot, late>>
    BY <1>6 DEF SubmitFails, Submit
  <2>2. ~raced' => ~raced
    BY <1>6 DEF SubmitFails, Submit
  <2>3. QED
    BY <1>1, <2>1, <2>2, KeptAlone
<1>7. CASE StartOffline \/ Logout \/ LogoutFails \/ SessionEnds
  BY <1>1, <1>7, KeptAlone DEF StartOffline, Logout, LogoutFails, SessionEnds
<1>8. QED
  BY <1>3, <1>4, <1>5, <1>6, <1>7 DEF SessionStep, StartEnds, SubmitEnds, LogoutEnds

LEMMA KeptStep ==
  ASSUME Typed, IdentityInv, HeardInv, KeptInv, [Next]_vars
  PROVE  KeptInv'
<1> USE DEF sessionVars, identityVars, storageVars, screenVars
<1>1. \A u \in Users : members[u] \subseteq members'[u]
  BY MembersGrow
<1>2. CASE SessionStep
  BY <1>2, KeptSession
<1>3. CASE ReloadPage \/ UNCHANGED vars
  BY <1>1, <1>3, KeptAlone DEF ReloadPage, Reload, vars
<1>4. ASSUME NEW v \in Views, Navigate(v) PROVE KeptInv'
  BY <1>1, <1>4, KeptAlone DEF Navigate
<1>5. ASSUME NEW h \in Households, Switch(h) \/ Enter(h) PROVE KeptInv'
  BY <1>1, <1>5, KeptAlone DEF Switch, Enter
<1>6. ASSUME NEW j \in jobs, LoadFetched(j) PROVE KeptInv'
  <2>1. CASE ~j.live
    BY <1>6, <2>1 DEF LoadFetched, KeptInv, StorageIsOwn
  <2>2. CASE j.live
    <3>1. ~raced => j.as = user /\ user = authUser /\ activeUser = user /\ user # NoUser
      BY <1>6, <2>2, HeardSender DEF LoadFetched, Serves
    <3>2. j.household \in members[j.as]
      BY <1>6 DEF LoadFetched, Serves
    <3>3. QED
      BY <1>6, <3>1, <3>2 DEF LoadFetched, SaveSnapshot, KeptInv, StorageIsOwn
  <2>3. QED
    BY <2>1, <2>2
<1>7. ASSUME NEW j \in jobs, ActivateFetched(j) PROVE KeptInv'
  <2>1. CASE ~j.live
    BY <1>7, <2>1 DEF ActivateFetched, KeptInv, StorageIsOwn
  <2>2. CASE j.live
    <3>1. ~raced => j.as = user /\ user = authUser /\ user # NoUser
      BY <1>7, <2>2, HeardSender DEF ActivateFetched, Serves
    <3>2. j.household \in members[j.as]
      BY <1>7 DEF ActivateFetched, Serves
    <3>3. QED
      BY <1>7, <3>1, <3>2 DEF ActivateFetched, KeptInv, StorageIsOwn
  <2>3. QED
    BY <2>1, <2>2
<1>8. ASSUME NEW j \in jobs, LoadListed(j) \/ LoadRestores(j) \/ LoadFails(j) PROVE KeptInv'
  <2>1. UNCHANGED <<authUser, snapshot, late, raced>> /\ saved' \in {saved, NoHousehold}
    BY <1>8 DEF LoadListed, LoadRestores, LoadFails
  <2>2. QED
    BY <1>1, <2>1, KeptAlone
<1>9. ASSUME NEW j \in jobs,
             EnterServed(j) \/ EnterFails(j) \/ ActivateListed(j) \/ ActivateFails(j)
      PROVE  KeptInv'
  <2>1. UNCHANGED <<authUser, snapshot, late, raced>> /\ saved' \in {saved, NoHousehold}
    BY <1>9 DEF EnterServed, EnterFails, ActivateListed, ActivateFails
  <2>2. QED
    BY <1>1, <2>1, KeptAlone
<1>10. QED
  BY <1>2, <1>3, <1>4, <1>5, <1>6, <1>7, <1>8, <1>9 DEF Next, LoadEnds, ActivateEnds

-----------------------------------------------------------------------------
\* What is read back for the user was kept for that user.
LEMMA RestoredOwn ==
  ASSUME Typed, IdentityInv, HeardInv, KeptInv, NEW j \in jobs, j.live, SnapshotReadable,
         ~late, ~raced
  PROVE  snapshot.household \in members[user]
<1>1. user # NoUser /\ user = authUser
  BY HeardSender
<1>2. snapshot # NoSnapshot
  BY DEF SnapshotReadable, NoSnapshot
<1>3. QED
  BY <1>1, <1>2 DEF KeptInv, StorageIsOwn

\* What is shown stays, while the user does and memberships only grow.
LEMMA ShownAlone ==
  ASSUME Typed, ShownHouseholdIsOwn, HeardInv, WorkspaceShown' = WorkspaceShown,
         household' = household, restored' = restored, ~raced' => ~raced,
         WorkspaceShown /\ WorkspaceShown' /\ ~raced' => user' = user,
         \A u \in Users : members[u] \subseteq members'[u]
  PROVE  ShownHouseholdIsOwn'
<1>1. SUFFICES ASSUME household # NoHousehold, ~restored, ~raced'
               PROVE  household \in members'[user']
  BY DEF ShownHouseholdIsOwn
<1>2. WorkspaceShown /\ AppShown /\ user' = user
  BY <1>1 DEF HeardInv, WorkspaceShown
<1>3. user \in Users
  BY <1>2 DEF Typed, ClientTypeOK, SessionTypeOK, MaybeUser, AppShown
<1>4. household \in members[user]
  BY <1>1, <1>2 DEF ShownHouseholdIsOwn
<1>5. QED
  BY <1>2, <1>3, <1>4

LEMMA ShownStep ==
  ASSUME ClientInv, HeardInv', [Next]_vars
  PROVE  ShownHouseholdIsOwn'
<1> USE DEF sessionVars, identityVars, storageVars, screenVars
<1>0. Typed /\ IdentityInv /\ HeardInv /\ KeptInv /\ ShownHouseholdIsOwn
  BY DEF ClientInv
<1>1. \A u \in Users : members[u] \subseteq members'[u]
  BY <1>0, MembersGrow
<1>2. CASE SessionStep
  <2>1. CASE WorkspaceShown' # WorkspaceShown
    BY <1>2, <2>1 DEF SessionStep, Render, Remount, Blank, ShownHouseholdIsOwn
  <2>2. CASE WorkspaceShown' = WorkspaceShown
    <3>1. household' = household /\ restored' = restored
      BY <1>2, <2>2 DEF SessionStep, Render
    <3>2. CASE ~WorkspaceShown'
      BY <3>2 DEF HeardInv, ShownHouseholdIsOwn
    <3>3. CASE raced'
      BY <3>3 DEF ShownHouseholdIsOwn
    <3>4. CASE WorkspaceShown' /\ ~raced'
      BY <1>0, <1>1, <1>2, <2>2, <3>1, <3>4, SameUser, ShownAlone
    <3>5. QED
      BY <3>2, <3>3, <3>4
  <2>3. QED
    BY <2>1, <2>2
<1>3. CASE ReloadPage
  BY <1>3 DEF ReloadPage, Blank, ShownHouseholdIsOwn
<1>4. ASSUME NEW v \in Views, Navigate(v) PROVE ShownHouseholdIsOwn'
  BY <1>4 DEF Navigate, Remount, Blank, ShownHouseholdIsOwn
<1>5. ASSUME UNCHANGED <<user, loading, view, raced, household, restored>>
      PROVE  ShownHouseholdIsOwn'
  BY <1>0, <1>1, <1>5, SameScreen, ShownAlone
<1>6. ASSUME NEW h \in Households, Switch(h) \/ Enter(h) PROVE ShownHouseholdIsOwn'
  BY <1>5, <1>6 DEF Switch, Enter
<1>7. ASSUME NEW j \in jobs, LoadFetched(j) \/ ActivateFetched(j) PROVE ShownHouseholdIsOwn'
  <2>1. CASE ~j.live
    BY <1>5, <1>7, <2>1 DEF LoadFetched, ActivateFetched, Setter
  <2>2. CASE j.live
    <3>1. j.household \in members[j.as] /\ (~raced => j.as = user)
      BY <1>0, <1>7, <2>2, HeardSender DEF LoadFetched, ActivateFetched, Serves
    <3>2. UNCHANGED <<user, raced, members>> /\ household' = j.household
      BY <1>7, <2>2 DEF LoadFetched, ActivateFetched, Setter
    <3>3. QED
      BY <3>1, <3>2 DEF ShownHouseholdIsOwn
  <2>3. QED
    BY <2>1, <2>2
<1>8. ASSUME NEW j \in jobs, LoadRestores(j) PROVE ShownHouseholdIsOwn'
  <2>1. CASE ~j.live
    BY <1>5, <1>8, <2>1 DEF LoadRestores, Setter
  <2>2. CASE j.live
    <3>1. SnapshotReadable /\ UNCHANGED <<user, raced, members>>
          /\ household' = snapshot.household /\ restored' = late
      BY <1>8, <2>2 DEF LoadRestores, Setter
    <3>2. QED
      BY <1>0, <2>2, <3>1, RestoredOwn DEF ShownHouseholdIsOwn
  <2>3. QED
    BY <2>1, <2>2
<1>9. ASSUME NEW j \in jobs, LoadListed(j) \/ LoadFails(j) PROVE ShownHouseholdIsOwn'
  BY <1>5, <1>9 DEF LoadListed, LoadFails
<1>10. ASSUME NEW j \in jobs,
              EnterServed(j) \/ EnterFails(j) \/ ActivateListed(j) \/ ActivateFails(j)
       PROVE  ShownHouseholdIsOwn'
  BY <1>5, <1>10 DEF EnterServed, EnterFails, ActivateListed, ActivateFails
<1>11. CASE UNCHANGED vars
  BY <1>5, <1>11 DEF vars
<1>12. QED
  BY <1>2, <1>3, <1>4, <1>6, <1>7, <1>8, <1>9, <1>10, <1>11 DEF Next, LoadEnds, ActivateEnds

-----------------------------------------------------------------------------
LEMMA ClientStarts == Init => ClientInv
<1>1. Init => Typed
  BY TypedInit
<1>2. Init => IdentityInv /\ HeardInv /\ KeptInv /\ ShownHouseholdIsOwn
  BY DEF Init, SessionInit, IdentityInv, HeardInv, KeptInv, StorageIsOwn, ShownHouseholdIsOwn
<1>3. QED
  BY <1>1, <1>2 DEF ClientInv

LEMMA ClientSteps == ClientInv /\ [Next]_vars => ClientInv'
<1> SUFFICES ASSUME ClientInv, [Next]_vars PROVE ClientInv'
  OBVIOUS
<1>1. Typed /\ IdentityInv /\ HeardInv /\ KeptInv
  BY DEF ClientInv
<1>2. Typed' /\ IdentityInv' /\ KeptInv'
  BY <1>1, TypedStep, IdentityStep, KeptStep
<1>3. HeardInv'
  BY <1>1, <1>2, HeardStep
<1>4. ShownHouseholdIsOwn'
  BY <1>3, ShownStep
<1>5. QED
  BY <1>2, <1>3, <1>4 DEF ClientInv

\* What the browser keeps for its next start belongs to the user it names: the
\* order of clearAuthCache, cacheUser and saveSnapshot suffices, but for a page
\* that was gone and for two sign-ins at a time.
THEOREM StorageStaysOwn == Spec => []StorageIsOwn
<1>1. ClientInv => StorageIsOwn
  BY DEF ClientInv, KeptInv
<1>2. QED
  BY <1>1, ClientStarts, ClientSteps, PTL DEF Spec

\* The household on the screen is one of the user beside it, however loads,
\* switches, entries, sign-ins and sign-outs interleave.
THEOREM ShownStaysOwn == Spec => []ShownHouseholdIsOwn
<1>1. ClientInv => ShownHouseholdIsOwn
  BY DEF ClientInv
<1>2. QED
  BY <1>1, ClientStarts, ClientSteps, PTL DEF Spec
=============================================================================
