------------------------ MODULE CaptureOutboxProofs -------------------------
(***************************************************************************)
(* That what the user was told is kept, for any number of captures and of  *)
(* retries at a time.                                                      *)
(***************************************************************************)
EXTENDS CaptureOutbox, TLAPS

\* What every action of the form, of a run and of the surroundings does to the
\* variables' types.
LEMMA OutboxTypesStep == OutboxTypeOK /\ [Next]_vars => OutboxTypeOK'
<1> SUFFICES ASSUME OutboxTypeOK, [Next]_vars PROVE OutboxTypeOK'
  OBVIOUS
<1> USE DEF OutboxTypeOK, Requests, Request, FormSteps, Send, At
<1>1. ASSUME NEW c \in Captures,
             \/ SubmitOffline(c) \/ SubmitOnline(c) \/ FormAccepted(c)
             \/ FormRefused(c) \/ FormPut(c) \/ FormPutFails(c)
      PROVE  OutboxTypeOK'
  BY <1>1 DEF SubmitOffline, SubmitOnline, FormAccepted, FormRefused, FormPut, FormPutFails
<1>2. ASSUME NEW s \in Syncs, StartSync(s) \/ SyncGoesOn(s)
      PROVE  OutboxTypeOK'
  <2> sync \in [Syncs -> Runs]
    OBVIOUS
  <2>1. CASE StartSync(s)
    BY <2>1 DEF StartSync, Runs
  <2>2. CASE SyncPost(s)
    <3>1. PICK c \in sync[s].todo :
             /\ sync' = [sync EXCEPT ![s] = [at |-> "waiting", todo |-> @.todo \ {c},
                                            current |-> c]]
             /\ flying' = flying \cup {Request(c, s)}
      BY <2>2 DEF SyncPost
    <3>2. sync[s] \in Runs \ {NoSync} /\ sync[s].todo \subseteq Captures
      BY <2>2 DEF SyncPost, Runs, NoSync
    <3> QED BY <2>2, <3>1, <3>2 DEF SyncPost, Runs
  <2>3. CASE SyncDelete(s)
    BY <2>3 DEF SyncDelete, GoesOn, Runs, NoSync
  <2>4. CASE SyncEnds(s)
    BY <2>4 DEF SyncEnds, Runs
  <2>5. CASE SyncAccepted(s)
    BY <2>5 DEF SyncAccepted, Runs, NoSync
  <2>6. CASE SyncRefused(s)
    BY <2>6 DEF SyncRefused, GoesOnOrEnds, GoesOn, Runs, NoSync
  <2>7. CASE SyncUnauthenticated(s)
    BY <2>7 DEF SyncUnauthenticated, Runs
  <2>8. CASE SyncDeleteFails(s)
    BY <2>8 DEF SyncDeleteFails, GoesOnOrEnds, GoesOn, Runs, NoSync
  <2> QED BY <1>2, <2>1, <2>2, <2>3, <2>4, <2>5, <2>6, <2>7, <2>8 DEF SyncGoesOn
<1>3. ASSUME NEW m \in Requests, Arrive(m) \/ Drop(m)
      PROVE  OutboxTypeOK'
  BY <1>3 DEF Arrive, Drop
<1>4. CASE ClosePage \/ SessionEnds \/ SignIn
  BY <1>4 DEF ClosePage, SessionEnds, SignIn, Runs
<1>5. CASE UNCHANGED vars
  BY <1>5 DEF vars
<1> QED BY <1>1, <1>2, <1>3, <1>4, <1>5 DEF Next

\* Every variable keeps to its type.
THEOREM OutboxTypes == Spec => []OutboxTypeOK
<1>1. Init => OutboxTypeOK
  BY DEF Init, OutboxTypeOK, FormSteps, Runs, Requests
<1> QED BY <1>1, OutboxTypesStep, PTL DEF Spec

-----------------------------------------------------------------------------
\* No step tells the user of a capture, answers a request or lets a run delete
\* a capture that the server or the outbox does not have.
LEMMA KeptStep == OutboxTypeOK /\ KeptInv /\ [Next]_vars => KeptInv'
<1> SUFFICES ASSUME OutboxTypeOK, KeptInv, [Next]_vars PROVE KeptInv'
  OBVIOUS
<1> USE DEF KeptInv, ToldIsKept, OutboxTypeOK
<1>1. ASSUME NEW c \in Captures,
             \/ SubmitOffline(c) \/ SubmitOnline(c) \/ FormAccepted(c)
             \/ FormRefused(c) \/ FormPut(c) \/ FormPutFails(c)
      PROVE  KeptInv'
  BY <1>1 DEF SubmitOffline, SubmitOnline, FormAccepted, FormRefused, FormPut,
              FormPutFails, At, Request
<1>2. ASSUME NEW s \in Syncs, StartSync(s) \/ SyncGoesOn(s)
      PROVE  KeptInv'
  <2>1. CASE StartSync(s)
    BY <2>1 DEF StartSync
  <2>2. CASE SyncPost(s)
    BY <2>2 DEF SyncPost
  <2>3. CASE SyncDelete(s)
    BY <2>3 DEF SyncDelete, GoesOn
  <2>4. CASE SyncEnds(s)
    BY <2>4 DEF SyncEnds, NoSync
  <2>5. CASE SyncAccepted(s)
    BY <2>5 DEF SyncAccepted, Request, Runs, NoSync
  <2>6. CASE SyncRefused(s)
    BY <2>6 DEF SyncRefused, GoesOnOrEnds, GoesOn, NoSync
  <2>7. CASE SyncUnauthenticated(s)
    BY <2>7 DEF SyncUnauthenticated, NoSync
  <2>8. CASE SyncDeleteFails(s)
    BY <2>8 DEF SyncDeleteFails, GoesOnOrEnds, GoesOn, NoSync
  <2> QED BY <1>2, <2>1, <2>2, <2>3, <2>4, <2>5, <2>6, <2>7, <2>8 DEF SyncGoesOn
<1>3. ASSUME NEW m \in Requests, Arrive(m) \/ Drop(m)
      PROVE  KeptInv'
  BY <1>3 DEF Arrive, Drop
<1>4. CASE ClosePage \/ SessionEnds \/ SignIn
  BY <1>4 DEF ClosePage, SessionEnds, SignIn, NoSync
<1>5. CASE UNCHANGED vars
  BY <1>5 DEF vars
<1> QED BY <1>1, <1>2, <1>3, <1>4, <1>5 DEF Next

\* What the user was told is captured or saved stays in the outbox or on the
\* server, for every number of captures and of overlapping retries.
THEOREM ToldIsAlwaysKept == Spec => []ToldIsKept
<1>1. Init => KeptInv
  BY DEF Init, KeptInv, ToldIsKept, NoSync
<1>2. KeptInv => ToldIsKept
  BY DEF KeptInv
<1> QED BY <1>1, <1>2, OutboxTypes, KeptStep, PTL DEF Spec

-----------------------------------------------------------------------------
\* A capture leaves the outbox only when the server has it, told or not: also
\* one whose slow write was reported as failed, and whichever of several runs
\* deletes it, and however late (useCaptureOutbox.ts:31-40).
LeavesOnlyStored == [][\A c \in outbox \ outbox' : c \in stored]_outbox

\* Only a run deletes, and only what it was answered is stored.
LEMMA LeavingStep ==
    OutboxTypeOK /\ KeptInv /\ [Next]_vars => \A c \in outbox \ outbox' : c \in stored
<1> SUFFICES ASSUME OutboxTypeOK, KeptInv, [Next]_vars, NEW c \in outbox \ outbox'
             PROVE  c \in stored
  OBVIOUS
<1>1. PICK s \in Syncs : SyncDelete(s)
  BY DEF Next, vars, SubmitOffline, SubmitOnline, FormAccepted, FormRefused, FormPut,
     FormPutFails, StartSync, SyncGoesOn, SyncPost, SyncDeleteFails, SyncEnds,
     SyncAccepted, SyncRefused, SyncUnauthenticated, Arrive, Drop, ClosePage,
     SessionEnds, SignIn
<1>2. c = sync[s].current
  BY <1>1 DEF SyncDelete
<1> QED BY <1>1, <1>2 DEF SyncDelete, KeptInv

\* The device never gives up a capture that the server does not have.
THEOREM DeviceKeepsUnsent == Spec => LeavesOnlyStored
<1>1. Init => KeptInv
  BY DEF Init, KeptInv, ToldIsKept, NoSync
<1>2. OutboxTypeOK /\ KeptInv /\ [Next]_vars => [\A c \in outbox \ outbox' : c \in stored]_outbox
  BY LeavingStep
<1> QED BY <1>1, <1>2, OutboxTypes, KeptStep, PTL DEF Spec, LeavesOnlyStored
=============================================================================
