----------------------------- MODULE WebSession -----------------------------
(***************************************************************************)
(* Who is signed in, in one tab: useAuthSession.ts with AuthGate.tsx and   *)
(* AuthForm.tsx, the account calls of lib/api.ts, and what the browser     *)
(* keeps in localStorage.  A call is sent in one step and answered, or     *)
(* given up after eight seconds, in a later one; the server may have done  *)
(* what a call asked although its answer was lost.                         *)
(***************************************************************************)
EXTENDS Naturals, FiniteSets

CONSTANTS
    Users,            \* accounts that can sign in from this browser
    NoUser,           \* nobody
    Households,       \* households of the server
    NoHousehold,      \* no household
    MaxLogouts        \* bound: calls of logout under way at a time

ASSUME NobodyIsNoUser == NoUser \notin Users
ASSUME NowhereIsNoHousehold == NoHousehold \notin Households
ASSUME MaxLogoutsIsNat == MaxLogouts \in Nat

VARIABLES
    cookie,           \* whom the server takes the browser for
    user,             \* useAuthSession: user
    loading,          \* useAuthSession: loading, getCurrentUser is under way
    saving,           \* useAuthSession: saving
    signing,          \* users for whom a login or register is under way
    logouts,          \* how many calls of logout are under way
    raced,            \* history: a sign-in was sent beside another one
    authUser,         \* localStorage: arta.authUser
    activeUser,       \* localStorage: arta.activeUserId
    saved,            \* localStorage: arta.householdId
    snapshot,         \* localStorage: arta.appSnapshot
    late              \* history: a page that was gone wrote saved or snapshot

identityVars == <<cookie, user, loading, saving, signing, logouts, raced,
                  authUser, activeUser>>
storageVars == <<saved, snapshot, late>>
sessionVars == <<identityVars, storageVars>>

MaybeUser == Users \cup {NoUser}
MaybeHousehold == Households \cup {NoHousehold}

\* A snapshot is abstracted to whose it is and the household it shows.
Snapshots == [user: MaybeUser, household: Households]
NoSnapshot == [user |-> NoUser, household |-> NoHousehold]

SessionTypeOK ==
    /\ cookie \in MaybeUser
    /\ user \in MaybeUser
    /\ loading \in BOOLEAN
    /\ saving \in BOOLEAN
    /\ signing \subseteq Users
    /\ logouts \in 0..MaxLogouts
    /\ raced \in BOOLEAN
    /\ authUser \in MaybeUser
    /\ activeUser \in MaybeUser
    /\ saved \in MaybeHousehold
    /\ snapshot \in Snapshots \cup {NoSnapshot}
    /\ late \in BOOLEAN

\* The page has just been opened in a browser that knows nobody.
SessionInit ==
    /\ cookie = NoUser
    /\ user = NoUser
    /\ loading = TRUE
    /\ saving = FALSE
    /\ signing = {}
    /\ logouts = 0
    /\ raced = FALSE
    /\ authUser = NoUser
    /\ activeUser = NoUser
    /\ saved = NoHousehold
    /\ snapshot = NoSnapshot
    /\ late = FALSE

\* AuthGate: the loading state, the sign-in form, or the application.
FormShown == ~loading /\ user = NoUser
AppShown == ~loading /\ user # NoUser

\* AuthForm disables its button while saving; the links of AppShell and its Log
\* out button are never disabled, not even while saving.
SubmitEnabled == FormShown /\ ~saving
ShellEnabled == AppShown

-----------------------------------------------------------------------------
Remember(u) ==
    /\ authUser' = u
    /\ activeUser' = u

\* clearStaleUserSnapshot, setUser, cacheUser.
Welcome(u) ==
    /\ snapshot' = IF authUser \in {NoUser, u} THEN snapshot ELSE NoSnapshot
    /\ user' = u
    /\ Remember(u)
    /\ UNCHANGED <<saved, late>>

\* Mutant: signing out leaves the household that was open.
FarewellKeepingHousehold ==
    /\ user' = NoUser
    /\ Remember(NoUser)
    /\ snapshot' = NoSnapshot
    /\ late' = FALSE
    /\ UNCHANGED saved

\* clearAuthCache, removal of the household, setUser(null).
Farewell ==
    /\ user' = NoUser
    /\ Remember(NoUser)
    /\ snapshot' = NoSnapshot
    /\ saved' = NoHousehold
    /\ late' = FALSE

-----------------------------------------------------------------------------
\* getCurrentUser answers: the session is good.
StartKnown ==
    /\ loading
    /\ cookie # NoUser
    /\ Welcome(cookie)
    /\ loading' = FALSE
    /\ UNCHANGED <<cookie, saving, signing, logouts, raced>>

\* It fails with anything but 401, and the browser remembers a user.
StartOffline ==
    /\ loading
    /\ authUser # NoUser
    /\ user' = authUser
    /\ activeUser' = authUser
    /\ loading' = FALSE
    /\ UNCHANGED <<cookie, saving, signing, logouts, raced, authUser, storageVars>>

\* It answers 401, or fails and nobody is remembered.
StartUnknown ==
    /\ loading
    /\ cookie = NoUser \/ authUser = NoUser
    /\ Farewell
    /\ loading' = FALSE
    /\ UNCHANGED <<cookie, saving, signing, logouts, raced>>

Submit(u) ==
    /\ SubmitEnabled
    /\ saving' = TRUE
    /\ signing' = signing \cup {u}
    /\ raced' = (raced \/ signing # {})
    /\ UNCHANGED <<cookie, user, loading, logouts, authUser, activeUser, storageVars>>

\* The server signs u in, and the answer sets the cookie.
SubmitAnswered(u) ==
    /\ u \in signing
    /\ signing' = signing \ {u}
    /\ cookie' = u
    /\ Welcome(u)
    /\ saving' = FALSE
    /\ UNCHANGED <<loading, logouts, raced>>

\* Refused, or given up before or after the headers of the answer arrived.
SubmitFails(u) ==
    /\ u \in signing
    /\ signing' = signing \ {u}
    /\ cookie' \in {cookie, u}
    /\ saving' = FALSE
    /\ UNCHANGED <<user, loading, logouts, raced, authUser, activeUser, storageVars>>

Logout ==
    /\ ShellEnabled
    /\ logouts < MaxLogouts
    /\ logouts' = logouts + 1
    /\ saving' = TRUE
    /\ UNCHANGED <<cookie, user, loading, signing, raced, authUser, activeUser, storageVars>>

\* The answer expires the cookie, whoever's it has become.
LogoutAnswered ==
    /\ logouts > 0
    /\ logouts' = logouts - 1
    /\ cookie' = NoUser
    /\ Farewell
    /\ saving' = FALSE
    /\ UNCHANGED <<loading, signing, raced>>

\* Nothing is forgotten, though the session may have ended.
LogoutFails ==
    /\ logouts > 0
    /\ logouts' = logouts - 1
    /\ cookie' \in {cookie, NoUser}
    /\ saving' = FALSE
    /\ UNCHANGED <<user, loading, signing, raced, authUser, activeUser, storageVars>>

\* The session expires or is revoked at the server.
SessionEnds ==
    /\ cookie # NoUser
    /\ cookie' = NoUser
    /\ UNCHANGED <<user, loading, saving, signing, logouts, raced, authUser, activeUser,
                   storageVars>>

\* The page is loaded anew: only the cookie and localStorage are left.
Reload ==
    /\ loading' = TRUE
    /\ user' = NoUser
    /\ saving' = FALSE
    /\ signing' = {}
    /\ logouts' = 0
    /\ UNCHANGED <<cookie, raced, authUser, activeUser, storageVars>>

StartEnds == StartKnown \/ StartOffline \/ StartUnknown
SubmitEnds == \E u \in Users : SubmitAnswered(u) \/ SubmitFails(u)
LogoutEnds == LogoutAnswered \/ LogoutFails
=============================================================================
