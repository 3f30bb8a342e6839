--------------------------- MODULE CaptureOutbox ----------------------------
(***************************************************************************)
(* Quick capture in the browser: the form of QuickCaptureInbox.tsx, the    *)
(* IndexedDB outbox and its retries of useCaptureOutbox.ts, and the one    *)
(* server statement they call, an INSERT that ignores an id it knows.      *)
(*                                                                         *)
(* Tabs share the outbox, and one tab runs several retries at a time: its  *)
(* effect starts one whenever it renders, comes online or becomes visible. *)
(* An await is where the others run, so an action ends at one.  A request  *)
(* whose caller has given up may still reach the server.                   *)
(***************************************************************************)
EXTENDS Naturals, FiniteSets

CONSTANTS
    Captures,         \* captures the user submits; each has an id of its own
    Syncs             \* runs of syncLocalCaptures that can be under way

ASSUME NobodyIsTwo == Captures \cap Syncs = {}

VARIABLES
    outbox,           \* the captures in IndexedDB
    stored,           \* the captures in transaction_captures
    form,             \* form[c]: where handleQuickCapture is with capture c
    sync,             \* sync[s]: where run s is
    flying,           \* requests the server has not processed
    processed,        \* requests it has, whose answer is still awaited
    session           \* whether the session cookie is valid

vars == <<outbox, stored, form, sync, flying, processed, session>>

\* A request for capture c, sent by the form (c itself) or by a run.
Requests == [capture: Captures, by: Captures \cup Syncs]
Request(c, p) == [capture |-> c, by |-> p]

\* "told": a message said that c is captured, or saved on this device.
FormSteps == {"new", "posting", "putting", "told", "failed", "closed"}
NoSync == [at |-> "idle"]
Runs == {NoSync}
    \cup [at: {"next"}, todo: SUBSET Captures]
    \cup [at: {"waiting", "deleting"}, todo: SUBSET Captures, current: Captures]

OutboxTypeOK ==
    /\ outbox \subseteq Captures
    /\ stored \subseteq Captures
    /\ form \in [Captures -> FormSteps]
    /\ sync \in [Syncs -> Runs]
    /\ flying \subseteq Requests
    /\ processed \subseteq Requests
    /\ session \in BOOLEAN

Init ==
    /\ outbox = {}
    /\ stored = {}
    /\ form = [c \in Captures |-> "new"]
    /\ sync = [s \in Syncs |-> NoSync]
    /\ flying = {}
    /\ processed = {}
    /\ session = TRUE

-----------------------------------------------------------------------------
\* Mutant: a request that forgets who waits for its answer.
SendAnonymous(m) == flying' = flying \cup {m.capture}

Send(m) == flying' = flying \cup {m}
At(c, step) == form' = [form EXCEPT ![c] = step]

\* Submitting while navigator.onLine is false goes straight to the outbox.
SubmitOffline(c) ==
    /\ form[c] = "new"
    /\ At(c, "putting")
    /\ UNCHANGED <<outbox, stored, sync, flying, processed, session>>

\* Otherwise the capture is sent first, and kept nowhere else meanwhile.
SubmitOnline(c) ==
    /\ form[c] = "new"
    /\ At(c, "posting")
    /\ Send(Request(c, c))
    /\ UNCHANGED <<outbox, stored, sync, processed, session>>

\* The server answers 201.
FormAccepted(c) ==
    /\ form[c] = "posting"
    /\ Request(c, c) \in processed
    /\ At(c, "told")
    /\ processed' = processed \ {Request(c, c)}
    /\ UNCHANGED <<outbox, stored, sync, flying, session>>

\* Any other answer, none at all, or five seconds: withCaptureTimeout leaves
\* the request under way.
FormRefused(c) ==
    /\ form[c] = "posting"
    /\ At(c, "putting")
    /\ processed' = processed \ {Request(c, c)}
    /\ UNCHANGED <<outbox, stored, sync, flying, session>>

FormPut(c) ==
    /\ form[c] = "putting"
    /\ At(c, "told")
    /\ outbox' = outbox \cup {c}
    /\ UNCHANGED <<stored, sync, flying, processed, session>>

\* IndexedDB refuses or is slow, and the user is shown an error; what is only
\* slow is written all the same.
FormPutFails(c) ==
    /\ form[c] = "putting"
    /\ At(c, "failed")
    /\ outbox' \in {outbox, outbox \cup {c}}
    /\ UNCHANGED <<stored, sync, flying, processed, session>>

\* Mutant: a run leaves out what the inbox already shows.
StartSyncUnstored(s) ==
    /\ sync[s] = NoSync
    /\ outbox # {}
    /\ sync' = [sync EXCEPT ![s] = [at |-> "next", todo |-> outbox \ stored]]
    /\ UNCHANGED <<outbox, stored, form, flying, processed, session>>

\* A run begins with the captures the outbox holds then.
StartSync(s) ==
    /\ sync[s] = NoSync
    /\ outbox # {}
    /\ sync' = [sync EXCEPT ![s] = [at |-> "next", todo |-> outbox]]
    /\ UNCHANGED <<outbox, stored, form, flying, processed, session>>

\* The order is that of random ids.
SyncPost(s) ==
    /\ sync[s].at = "next"
    /\ \E c \in sync[s].todo :
         /\ sync' = [sync EXCEPT ![s] = [at |-> "waiting", todo |-> @.todo \ {c},
                                         current |-> c]]
         /\ Send(Request(c, s))
    /\ UNCHANGED <<outbox, stored, form, processed, session>>

SyncAccepted(s) ==
    /\ sync[s].at = "waiting"
    /\ Request(sync[s].current, s) \in processed
    /\ sync' = [sync EXCEPT ![s].at = "deleting"]
    /\ processed' = processed \ {Request(sync[s].current, s)}
    /\ UNCHANGED <<outbox, stored, form, flying, session>>

\* A run turns to the captures it has left; an IndexedDB that refuses to mark
\* the last one as failed ends it instead.
GoesOn(s) == sync' = [sync EXCEPT ![s] = [at |-> "next", todo |-> @.todo]]
GoesOnOrEnds(s) == GoesOn(s) \/ sync' = [sync EXCEPT ![s] = NoSync]

\* Mutant: the capture leaves the outbox whatever the answer is.
SyncRefusedDeletes(s) ==
    /\ sync[s].at = "waiting"
    /\ sync' = [sync EXCEPT ![s].at = "deleting"]
    /\ processed' = processed \ {Request(sync[s].current, s)}
    /\ UNCHANGED <<outbox, stored, form, flying, session>>

\* An error other than 401, or eight seconds: the capture is marked as failed,
\* if it is still there, and the run goes on.
SyncRefused(s) ==
    /\ sync[s].at = "waiting"
    /\ GoesOnOrEnds(s)
    /\ processed' = processed \ {Request(sync[s].current, s)}
    /\ UNCHANGED <<outbox, stored, form, flying, session>>

\* 401: the run ends where it is and the outbox keeps the rest.
SyncUnauthenticated(s) ==
    /\ sync[s].at = "waiting"
    /\ ~session
    /\ Request(sync[s].current, s) \in flying
    /\ sync' = [sync EXCEPT ![s] = NoSync]
    /\ flying' = flying \ {Request(sync[s].current, s)}
    /\ UNCHANGED <<outbox, stored, form, processed, session>>

\* The stored capture leaves the outbox.
SyncDelete(s) ==
    /\ sync[s].at = "deleting"
    /\ outbox' = outbox \ {sync[s].current}
    /\ GoesOn(s)
    /\ UNCHANGED <<stored, form, flying, processed, session>>

\* IndexedDB refuses to delete it, which the run treats like a refusal.
SyncDeleteFails(s) ==
    /\ sync[s].at = "deleting"
    /\ GoesOnOrEnds(s)
    /\ UNCHANGED <<outbox, stored, form, flying, processed, session>>

SyncEnds(s) ==
    /\ sync[s].at = "next"
    /\ sync[s].todo = {}
    /\ sync' = [sync EXCEPT ![s] = NoSync]
    /\ UNCHANGED <<outbox, stored, form, flying, processed, session>>

\* POST /captures with a valid session: INSERT ... ON CONFLICT (id) keeps the
\* row it finds.
Waiting(m) ==
    IF m.by \in Captures THEN form[m.by] = "posting"
    ELSE sync[m.by].at = "waiting" /\ sync[m.by].current = m.capture

Arrive(m) ==
    /\ m \in flying
    /\ session
    /\ flying' = flying \ {m}
    /\ stored' = stored \cup {m.capture}
    /\ processed' = IF Waiting(m) THEN processed \cup {m} ELSE processed
    /\ UNCHANGED <<outbox, form, sync, session>>

\* The request never gets there, or the session is over when it does.
Drop(m) ==
    /\ m \in flying
    /\ flying' = flying \ {m}
    /\ UNCHANGED <<outbox, stored, form, sync, processed, session>>

\* The page is closed or reloaded: what runs in it stops, IndexedDB stays.
ClosePage ==
    /\ form' = [c \in Captures |->
                  IF form[c] \in {"posting", "putting"} THEN "closed" ELSE form[c]]
    /\ sync' = [s \in Syncs |-> NoSync]
    /\ processed' = {}
    /\ UNCHANGED <<outbox, stored, flying, session>>

SessionEnds ==
    /\ session
    /\ session' = FALSE
    /\ UNCHANGED <<outbox, stored, form, sync, flying, processed>>

SignIn ==
    /\ ~session
    /\ session' = TRUE
    /\ UNCHANGED <<outbox, stored, form, sync, flying, processed>>

SyncGoesOn(s) == SyncPost(s) \/ SyncDelete(s) \/ SyncDeleteFails(s) \/ SyncEnds(s)
                 \/ SyncAccepted(s) \/ SyncRefused(s) \/ SyncUnauthenticated(s)

Next ==
    \/ \E c \in Captures : \/ SubmitOffline(c) \/ SubmitOnline(c)
                           \/ FormAccepted(c) \/ FormRefused(c)
                           \/ FormPut(c) \/ FormPutFails(c)
    \/ \E s \in Syncs : StartSync(s) \/ SyncGoesOn(s)
    \/ \E m \in Requests : Arrive(m) \/ Drop(m)
    \/ ClosePage \/ SessionEnds \/ SignIn

Spec == Init /\ [][Next]_vars

\* From some time on nobody closes the page or ends the session, requests get
\* through and are answered in time, and IndexedDB works.  A run whose request
\* was lost before that still has to give it up.
Answerable(s) == Request(sync[s].current, s) \in flying \cup processed
Weather == ClosePage \/ SessionEnds \/ (\E m \in Requests : Drop(m))
           \/ \E s \in Syncs : \/ SyncRefused(s) /\ Answerable(s)
                             \/ SyncDeleteFails(s)

\* The user comes back to the page and signs in, a run under way takes its next
\* step, and a request does not fly for ever.
Fairness ==
    /\ \A s \in Syncs : WF_vars(StartSync(s)) /\ WF_vars(SyncGoesOn(s))
    /\ \A m \in Requests : WF_vars(Arrive(m))
    /\ WF_vars(SignIn)
    /\ <>[][~Weather]_vars
-----------------------------------------------------------------------------
\* What the user was told is captured, or saved on the device, is in the outbox
\* or on the server: whatever answers are lost or late, whichever retries run
\* at the same time and whenever the page is closed or the session ends
\* (QuickCaptureInbox.tsx:97-138, useCaptureOutbox.ts:31-40).
ToldIsKept == \A c \in Captures : form[c] = "told" => c \in outbox \cup stored

\* Why it is so: only an answer 201 tells the user, or lets a run delete.
KeptInv ==
    /\ ToldIsKept
    /\ \A m \in processed : m.capture \in stored
    /\ \A s \in Syncs : sync[s].at = "deleting" => sync[s].current \in stored

\* Every capture of the outbox gets to the server and leaves the outbox, once
\* the server can be reached and the session is valid (user-flows.md:14).
OutboxDrains ==
    \A c \in Captures : c \in outbox ~> c \in stored /\ c \notin outbox
=============================================================================
