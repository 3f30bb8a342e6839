--------------------------- MODULE CapturesProofs ---------------------------
(***************************************************************************)
(* That a capture is entered into the ledger exactly once, for any number  *)
(* of captures and of concurrent requests.                                 *)
(***************************************************************************)
EXTENDS Captures, TLAPS

InboxAllVars == <<ledgerVars, inboxVars, locks>>
InboxStep == InboxNext \/ (LedgerNext /\ UNCHANGED inboxVars)

\* The conjunct of LedgerSpec's steps that matters here: they hold no locks.
LEMMA LedgerKeepsInbox ==
    LedgerNext /\ UNCHANGED inboxVars => UNCHANGED <<inbox, entered, visit, locks>>
BY DEF LedgerNext, inboxVars

LEMMA StutterKeepsInbox ==
    UNCHANGED InboxAllVars => UNCHANGED <<inbox, entered, visit, locks>>
BY DEF InboxAllVars, inboxVars

-----------------------------------------------------------------------------
\* Every step keeps the rows, the transactions made and the visits typed.
LEMMA InboxTypesStep ==
    InboxTypeOK /\ HeldCapturesStand /\ [InboxStep]_InboxAllVars => InboxTypeOK'
<1> SUFFICES ASSUME InboxTypeOK, HeldCapturesStand, [InboxStep]_InboxAllVars
             PROVE  InboxTypeOK'
  OBVIOUS
<1> USE DEF InboxTypeOK
<1>1. ASSUME NEW c \in CaptureIds, NEW a \in Amounts, CreateCapture(c, a)
      PROVE  InboxTypeOK'
  <2>1. [status |-> "pending", entry |-> Facts(a)] \in Rows
    BY DEF Facts, Rows, Captured
  <2> QED BY <1>1, <2>1 DEF CreateCapture
<1>2. ASSUME NEW r \in InboxRequests, NEW c \in CaptureIds, NEW e \in Entries,
             ReviewCapture(r, c, e)
      PROVE  InboxTypeOK'
  <2>1. [at |-> "checkWallet", capture |-> c, entry |-> e] \in Visits
    BY DEF Visits
  <2> QED BY <1>2, <2>1 DEF ReviewCapture, Visit
<1>3. ASSUME NEW r \in InboxRequests, NEW c \in CaptureIds, ConfirmCapture(r, c)
      PROVE  InboxTypeOK'
  <2>1. [at |-> "lockCapture", capture |-> c] \in Visits
    BY DEF Visits
  <2> QED BY <1>3, <2>1 DEF ConfirmCapture, Visit
<1>4. ASSUME NEW r \in InboxRequests, VisitStep(r) \/ AbortVisit(r)
      PROVE  InboxTypeOK'
  <2> NoVisit \in Visits
    BY DEF Visits
  <2>0. Leave(r) => visit' \in [InboxRequests -> Visits]
    BY DEF Leave
  <2>1. CASE Reply(r)
    BY <2>0, <2>1 DEF Reply
  <2>2. CASE CheckWallet(r) /\ ~Reply(r)
    <3>0. visit[r].at = "checkWallet" /\ GoTo(r, "writeReview")
          /\ UNCHANGED <<inbox, entered>>
      BY <2>2 DEF CheckWallet
    <3>1. visit[r].at = "checkWallet" /\ visit' = [visit EXCEPT ![r].at = "writeReview"]
          /\ UNCHANGED <<inbox, entered>>
      BY <3>0 DEF GoTo
    <3>2. visit[r] \in [at: {"checkWallet", "writeReview"}, capture: CaptureIds,
                        entry: Entries]
      <4>1. visit[r] \in Visits
        OBVIOUS
      <4> QED BY <3>0, <4>1 DEF Visits, NoVisit
    <3>3. [visit[r] EXCEPT !.at = "writeReview"]
             \in [at: {"checkWallet", "writeReview"}, capture: CaptureIds, entry: Entries]
      BY <3>2
    <3>4. [visit[r] EXCEPT !.at = "writeReview"] \in Visits
      BY <3>3 DEF Visits
    <3> QED BY <3>1, <3>4
  <2>3. CASE WriteReview(r)
    <3>1. visit[r].at = "writeReview" /\ visit[r] \in Visits
      BY <2>3 DEF WriteReview
    <3>2. visit[r].capture \in CaptureIds /\ visit[r].entry \in Entries
      BY <3>1 DEF Visits, NoVisit
    <3>3. ASSUME inbox[visit[r].capture].status = "pending"
          PROVE  [inbox[visit[r].capture] EXCEPT !.entry = visit[r].entry] \in Rows
      BY <3>2, <3>3 DEF Rows, NoCapture
    <3> QED BY <2>0, <2>3, <3>2, <3>3 DEF WriteReview
  <2>4. CASE LockCapture(r) /\ ~Reply(r)
    <3>1. visit[r].at = "lockCapture" /\ visit' = [visit EXCEPT ![r].at = "checkEntry"]
          /\ UNCHANGED <<inbox, entered>>
      BY <2>4 DEF LockCapture, GoTo
    <3>2. [visit[r] EXCEPT !.at = "checkEntry"] \in Visits
      BY <3>1 DEF Visits, NoVisit
    <3> QED BY <3>1, <3>2
  <2>5. CASE CheckEntry(r) /\ ~Reply(r)
    <3>1. visit[r].at = "checkEntry" /\ visit' = [visit EXCEPT ![r].at = "insertEntry"]
          /\ UNCHANGED <<inbox, entered>>
      BY <2>5 DEF CheckEntry, GoTo
    <3>2. [visit[r] EXCEPT !.at = "insertEntry"] \in Visits
      BY <3>1 DEF Visits, NoVisit
    <3> QED BY <3>1, <3>2
  <2>6. CASE InsertEntry(r)
    <3>1. visit[r].at = "insertEntry" /\ visit' = [visit EXCEPT ![r].at = "closeCapture"]
          /\ UNCHANGED <<inbox, entered>>
      BY <2>6 DEF InsertEntry, GoTo
    <3>2. [visit[r] EXCEPT !.at = "closeCapture"] \in Visits
      BY <3>1 DEF Visits, NoVisit
    <3> QED BY <3>1, <3>2
  <2>7. CASE CloseCapture(r)
    <3>1. visit[r].at = "closeCapture" /\ visit[r] \in Visits
      BY <2>7 DEF CloseCapture
    <3>2. visit[r].capture \in CaptureIds
      BY <3>1 DEF Visits, NoVisit
    <3> DEFINE c == visit[r].capture
               e == inbox[c].entry
    <3>3. inbox[c].status = "pending" /\ e.wallet # NoWallet
      BY <3>1 DEF HeldCapturesStand, HasCapture
    <3>4. inbox[c] \in [status: {"pending"}, entry: Entries \cup Captured]
      BY <3>2, <3>3 DEF Rows, NoCapture
    <3>5. e \in Entries
      BY <3>3, <3>4 DEF Captured
    <3>6. [inbox[c] EXCEPT !.status = "confirmed"] \in [status: {"confirmed"}, entry: Entries]
      BY <3>4, <3>5
    <3>7. inbox' \in [CaptureIds -> Rows]
      BY <2>7, <3>2, <3>6 DEF CloseCapture, Rows
    <3>8. Append(entered[c], e) \in Seq(Entries)
      BY <3>2, <3>5
    <3>9. entered' \in [CaptureIds -> Seq(Entries)]
      BY <2>7, <3>2, <3>8 DEF CloseCapture
    <3> QED BY <2>0, <2>7, <3>7, <3>9 DEF CloseCapture
  <2> QED BY <1>4, <2>1, <2>2, <2>3, <2>4, <2>5, <2>6, <2>7
          DEF VisitStep, AbortVisit
<1>5. CASE UNCHANGED <<inbox, entered, visit, locks>>
  BY <1>5
<1> QED BY <1>1, <1>2, <1>3, <1>4, <1>5, LedgerKeepsInbox, StutterKeepsInbox
        DEF InboxStep, InboxNext

-----------------------------------------------------------------------------
\* A request that only moves on, or leaves, disturbs no other's lock and no row.
LEMMA MovingKeepsInv ==
  ASSUME InboxTypeOK, InboxInv, NEW r \in InboxRequests,
         UNCHANGED <<inbox, entered>>,
         \A q \in InboxRequests : q # r => visit'[q] = visit[q],
         HasCapture(r)' => HasCapture(r) /\ visit'[r].capture = visit[r].capture
                           /\ Lock(visit[r].capture, "Update", r) \in locks',
         visit'[r].at = "writeReview" => Fits(visit'[r].entry),
         \A l \in locks' : l \in locks,
         \A l \in locks : l.by # r => l \in locks'
  PROVE  InboxInv'
<1> USE DEF InboxInv
<1>1. UpdatesAreAlone'
  BY DEF UpdatesAreAlone
<1>2. HeldCapturesStand'
  <2> SUFFICES ASSUME NEW q \in InboxRequests, HasCapture(q)'
               PROVE  /\ Lock(visit'[q].capture, "Update", q) \in locks'
                      /\ inbox'[visit'[q].capture].status = "pending"
                      /\ inbox'[visit'[q].capture].entry.wallet # NoWallet
    BY DEF HeldCapturesStand
  <2>1. CASE q = r
    BY <2>1 DEF HeldCapturesStand
  <2>2. CASE q # r
    <3>1. HasCapture(q) /\ visit'[q] = visit[q]
      BY <2>2 DEF HasCapture
    <3>2. Lock(visit[q].capture, "Update", q).by = q
      BY DEF Lock
    <3> QED BY <2>2, <3>1, <3>2 DEF HeldCapturesStand
  <2> QED BY <2>1, <2>2
<1>3. EnteredOnce'
  BY DEF EnteredOnce
<1>4. ReviewsFit'
  <2>1. ASSUME NEW q \in InboxRequests, visit'[q].at = "writeReview"
        PROVE  Fits(visit'[q].entry)
    <3>1. CASE q = r
      BY <2>1, <3>1
    <3>2. CASE q # r
      BY <2>1, <3>2 DEF ReviewsFit
    <3> QED BY <3>1, <3>2
  <2> QED BY <2>1 DEF ReviewsFit, Fits
<1> QED BY <1>1, <1>2, <1>3, <1>4

\* Whoever has a capture is alone in having it.
LEMMA HoldersDiffer ==
  ASSUME InboxInv, NEW q \in InboxRequests, NEW r \in InboxRequests,
         HasCapture(q), HasCapture(r), visit[q].capture = visit[r].capture
  PROVE  q = r
<1>1. /\ Lock(visit[q].capture, "Update", q) \in locks
      /\ Lock(visit[r].capture, "Update", r) \in locks
  BY DEF InboxInv, HeldCapturesStand
<1> QED BY <1>1 DEF InboxInv, UpdatesAreAlone, Lock

\* Nobody has a capture whose row can be locked.
LEMMA GrantableIsFree ==
  ASSUME InboxInv, NEW q \in InboxRequests, NEW c, NEW r, NEW m \in {"NoKeyUpdate", "Update"},
         Grantable(locks, c, m, r), HasCapture(q), visit[q].capture = c
  PROVE  q = r
<1>1. Lock(c, "Update", q) \in locks
  BY DEF InboxInv, HeldCapturesStand
<1> QED BY <1>1 DEF Grantable, Conflicts, Lock

\* No step of a handler breaks the invariant.
LEMMA InboxInvStep ==
    InboxTypeOK /\ InboxInv /\ [InboxStep]_InboxAllVars => InboxInv'
<1> SUFFICES ASSUME InboxTypeOK, InboxInv, [InboxStep]_InboxAllVars PROVE InboxInv'
  OBVIOUS
<1>1. ASSUME NEW c \in CaptureIds, NEW a \in Amounts, CreateCapture(c, a)
      PROVE  InboxInv'
  <2>1. CASE inbox[c] = NoCapture
    <3>1. /\ inbox' = [inbox EXCEPT ![c] = [status |-> "pending", entry |-> Facts(a)]]
          /\ UNCHANGED <<entered, visit, locks>>
      BY <1>1, <2>1 DEF CreateCapture
    <3>2. inbox \in [CaptureIds -> Rows] /\ inbox'[c].status = "pending"
          /\ inbox'[c].entry.wallet = NoWallet
      BY <3>1 DEF InboxTypeOK, Facts
    <3>3. entered[c] = <<>>
      <4>1. inbox[c].status # "confirmed"
        BY <2>1 DEF NoCapture
      <4>2. entered[c] = IF inbox[c].status = "confirmed" THEN <<inbox[c].entry>> ELSE <<>>
        BY DEF InboxInv, EnteredOnce
      <4> QED BY <4>1, <4>2
    <3>4. EnteredOnce'
      BY <3>1, <3>2, <3>3 DEF InboxInv, EnteredOnce
    <3>5. HeldCapturesStand'
      BY <2>1, <3>1, <3>2 DEF InboxInv, HeldCapturesStand, HasCapture, NoCapture
    <3>6. ReviewsFit'
      BY <3>1, <3>2 DEF InboxInv, ReviewsFit, Fits
    <3>7. UpdatesAreAlone'
      BY <3>1 DEF InboxInv, UpdatesAreAlone
    <3> QED BY <3>4, <3>5, <3>6, <3>7 DEF InboxInv
  <2>2. CASE inbox[c] # NoCapture
    <3>1. UNCHANGED <<inbox, entered, visit, locks>>
      BY <1>1, <2>2 DEF CreateCapture
    <3> QED BY <3>1 DEF InboxInv, UpdatesAreAlone, HeldCapturesStand, HasCapture,
                        EnteredOnce, ReviewsFit, Fits
  <2> QED BY <2>1, <2>2
<1>2. ASSUME NEW r \in InboxRequests, NEW v, Visit(r, v),
             v.at \in {"checkWallet", "lockCapture"}
      PROVE  InboxInv'
  <2>1. /\ visit \in [InboxRequests -> Visits] /\ visit' = [visit EXCEPT ![r] = v]
        /\ UNCHANGED <<inbox, entered, locks>>
    BY <1>2 DEF Visit, InboxTypeOK
  <2>2. visit'[r] = v /\ \A q \in InboxRequests : q # r => visit'[q] = visit[q]
    BY <2>1
  <2>3. ~HasCapture(r)' /\ visit'[r].at # "writeReview"
    BY <1>2, <2>2 DEF HasCapture
  <2> QED BY <2>1, <2>2, <2>3, MovingKeepsInv
<1>3. ASSUME NEW r \in InboxRequests, Reply(r)
      PROVE  InboxInv'
  <2>1. /\ visit \in [InboxRequests -> Visits] /\ visit' = [visit EXCEPT ![r] = NoVisit]
        /\ locks' = {l \in locks : l.by # r} /\ UNCHANGED <<inbox, entered>>
    BY <1>3 DEF Reply, Leave, ReleasedBy, InboxTypeOK
  <2>2. visit'[r] = NoVisit /\ \A q \in InboxRequests : q # r => visit'[q] = visit[q]
    BY <2>1
  <2>3. ~HasCapture(r)' /\ visit'[r].at # "writeReview"
    BY <2>2 DEF HasCapture, NoVisit
  <2> QED BY <2>1, <2>2, <2>3, MovingKeepsInv
<1>4. ASSUME NEW r \in InboxRequests, CheckWallet(r), ~Reply(r)
      PROVE  InboxInv'
  <2>1. /\ visit[r].at = "checkWallet" /\ Fits(visit[r].entry)
        /\ visit' = [visit EXCEPT ![r].at = "writeReview"]
        /\ UNCHANGED <<inbox, entered, locks>>
    BY <1>4 DEF CheckWallet, GoTo, Fits
  <2>2. visit \in [InboxRequests -> Visits]
    BY DEF InboxTypeOK
  <2>3. visit[r] \in [at: {"checkWallet", "writeReview"}, capture: CaptureIds, entry: Entries]
    BY <2>1, <2>2 DEF Visits, NoVisit
  <2>4. /\ visit'[r] = [visit[r] EXCEPT !.at = "writeReview"]
        /\ \A q \in InboxRequests : q # r => visit'[q] = visit[q]
    BY <2>1, <2>2
  <2>5. visit'[r].entry = visit[r].entry /\ visit'[r].at = "writeReview"
    BY <2>3, <2>4
  <2>6. ~HasCapture(r)'
    BY <2>5 DEF HasCapture
  <2> QED BY <2>1, <2>4, <2>5, <2>6, MovingKeepsInv
<1>5. ASSUME NEW r \in InboxRequests, WriteReview(r)
      PROVE  InboxInv'
  <2> DEFINE c == visit[r].capture
             e == visit[r].entry
  <2>1. /\ visit[r].at = "writeReview" /\ Grantable(locks, c, "NoKeyUpdate", r)
        /\ visit' = [visit EXCEPT ![r] = NoVisit]
        /\ locks' = {l \in locks : l.by # r} /\ UNCHANGED entered
    BY <1>5 DEF WriteReview, Leave, ReleasedBy
  <2>2. visit \in [InboxRequests -> Visits] /\ inbox \in [CaptureIds -> Rows]
    BY DEF InboxTypeOK
  <2>3. c \in CaptureIds /\ e \in Entries /\ Fits(e)
    BY <2>1, <2>2 DEF Visits, NoVisit, InboxInv, ReviewsFit
  <2>4. visit'[r] = NoVisit /\ \A q \in InboxRequests : q # r => visit'[q] = visit[q]
    BY <2>1, <2>2
  <2>5. ~HasCapture(r)' /\ visit'[r].at # "writeReview" /\ ~HasCapture(r)
    BY <2>1, <2>4 DEF HasCapture, NoVisit
  <2>6. CASE inbox[c].status # "pending"
    <3>1. inbox' = inbox
      BY <1>5, <2>6 DEF WriteReview
    <3> QED BY <2>1, <2>4, <2>5, <3>1, MovingKeepsInv
  <2>7. CASE inbox[c].status = "pending"
    <3>1. inbox' = [inbox EXCEPT ![c].entry = e]
      BY <1>5, <2>7 DEF WriteReview
    <3>2. inbox[c] \in [status: {"pending"}, entry: Entries \cup Captured]
      BY <2>2, <2>3, <2>7 DEF Rows, NoCapture
    <3>3. /\ inbox'[c].status = "pending" /\ inbox'[c].entry = e
          /\ \A d \in CaptureIds : d # c => inbox'[d] = inbox[d]
      BY <2>2, <2>3, <3>1, <3>2
    <3>4. \A q \in InboxRequests : HasCapture(q)' =>
             HasCapture(q) /\ visit'[q] = visit[q] /\ visit[q].capture # c /\ q # r
      BY <2>1, <2>4, <2>5, GrantableIsFree DEF HasCapture
    <3>5. HeldCapturesStand'
      <4> SUFFICES ASSUME NEW q \in InboxRequests, HasCapture(q)'
                   PROVE  /\ Lock(visit'[q].capture, "Update", q) \in locks'
                          /\ inbox'[visit'[q].capture].status = "pending"
                          /\ inbox'[visit'[q].capture].entry.wallet # NoWallet
        BY DEF HeldCapturesStand
      <4>1. HasCapture(q) /\ visit'[q] = visit[q] /\ visit[q].capture # c /\ q # r
        BY <3>4
      <4>2. visit[q].capture \in CaptureIds
        BY <2>2, <4>1 DEF HasCapture, Visits, NoVisit
      <4>3. Lock(visit[q].capture, "Update", q).by = q
        BY DEF Lock
      <4> QED BY <2>1, <3>3, <4>1, <4>2, <4>3 DEF InboxInv, HeldCapturesStand
    <3>6. EnteredOnce'
      BY <2>1, <2>7, <3>3 DEF InboxInv, EnteredOnce
    <3>7. ReviewsFit'
      BY <2>3, <2>4, <2>5, <3>3 DEF InboxInv, ReviewsFit, Fits
    <3>8. UpdatesAreAlone'
      BY <2>1 DEF InboxInv, UpdatesAreAlone
    <3> QED BY <3>5, <3>6, <3>7, <3>8 DEF InboxInv
  <2> QED BY <2>6, <2>7
<1>6. ASSUME NEW r \in InboxRequests, LockCapture(r), ~Reply(r)
      PROVE  InboxInv'
  <2> DEFINE c == visit[r].capture
  <2>1. /\ visit[r].at = "lockCapture" /\ Grantable(locks, c, "Update", r)
        /\ inbox[c].status = "pending" /\ inbox[c].entry.wallet # NoWallet
        /\ locks' = locks \cup {Lock(c, "Update", r)}
        /\ visit' = [visit EXCEPT ![r].at = "checkEntry"]
        /\ UNCHANGED <<inbox, entered>>
    BY <1>6 DEF LockCapture, GoTo
  <2>2. visit \in [InboxRequests -> Visits]
    BY DEF InboxTypeOK
  <2>3. /\ visit'[r].capture = c /\ visit'[r].at = "checkEntry"
        /\ \A q \in InboxRequests : q # r => visit'[q] = visit[q]
    BY <2>1, <2>2 DEF Visits, NoVisit
  <2>4. UpdatesAreAlone'
    <3> SUFFICES ASSUME NEW k \in locks', NEW l \in locks', k.row = l.row, k.mode = "Update"
                 PROVE  k.by = l.by
      BY DEF UpdatesAreAlone
    <3>1. \A j \in locks : j.row = c => j.by = r
      BY <2>1 DEF Grantable, Conflicts
    <3>2. Lock(c, "Update", r).row = c /\ Lock(c, "Update", r).by = r
      BY DEF Lock
    <3> QED BY <2>1, <3>1, <3>2 DEF InboxInv, UpdatesAreAlone
  <2>5. HeldCapturesStand'
    BY <2>1, <2>3 DEF InboxInv, HeldCapturesStand, HasCapture
  <2>6. EnteredOnce' /\ ReviewsFit'
    BY <2>1, <2>3 DEF InboxInv, EnteredOnce, ReviewsFit, Fits
  <2> QED BY <2>4, <2>5, <2>6 DEF InboxInv
<1>7. ASSUME NEW r \in InboxRequests, CheckEntry(r), ~Reply(r)
      PROVE  InboxInv'
  <2>1. /\ visit[r].at = "checkEntry"
        /\ visit' = [visit EXCEPT ![r].at = "insertEntry"]
        /\ UNCHANGED <<inbox, entered, locks>>
    BY <1>7 DEF CheckEntry, GoTo
  <2>2. visit \in [InboxRequests -> Visits]
    BY DEF InboxTypeOK
  <2>3. /\ visit'[r].capture = visit[r].capture /\ visit'[r].at = "insertEntry"
        /\ \A q \in InboxRequests : q # r => visit'[q] = visit[q]
    BY <2>1, <2>2 DEF Visits, NoVisit
  <2>4. HasCapture(r) /\ Lock(visit[r].capture, "Update", r) \in locks'
    BY <2>1 DEF HasCapture, InboxInv, HeldCapturesStand
  <2> QED BY <2>1, <2>3, <2>4, MovingKeepsInv
<1>8. ASSUME NEW r \in InboxRequests, InsertEntry(r)
      PROVE  InboxInv'
  <2> DEFINE w == inbox[visit[r].capture].entry.wallet
  <2>1. /\ visit[r].at = "insertEntry" /\ Grantable(locks, w, "KeyShare", r)
        /\ locks' = locks \cup {Lock(w, "KeyShare", r)}
        /\ visit' = [visit EXCEPT ![r].at = "closeCapture"]
        /\ UNCHANGED <<inbox, entered>>
    BY <1>8 DEF InsertEntry, GoTo
  <2>2. visit \in [InboxRequests -> Visits]
    BY DEF InboxTypeOK
  <2>3. /\ visit'[r].capture = visit[r].capture /\ visit'[r].at = "closeCapture"
        /\ \A q \in InboxRequests : q # r => visit'[q] = visit[q]
    BY <2>1, <2>2 DEF Visits, NoVisit
  <2>4. UpdatesAreAlone'
    <3> SUFFICES ASSUME NEW k \in locks', NEW l \in locks', k.row = l.row, k.mode = "Update"
                 PROVE  k.by = l.by
      BY DEF UpdatesAreAlone
    <3>1. \A j \in locks : j.row = w /\ j.mode = "Update" => j.by = r
      BY <2>1 DEF Grantable, Conflicts
    <3>2. /\ Lock(w, "KeyShare", r).row = w /\ Lock(w, "KeyShare", r).by = r
          /\ Lock(w, "KeyShare", r).mode = "KeyShare"
      BY DEF Lock
    <3> QED BY <2>1, <3>1, <3>2 DEF InboxInv, UpdatesAreAlone
  <2>5. HeldCapturesStand'
    BY <2>1, <2>3 DEF InboxInv, HeldCapturesStand, HasCapture
  <2>6. EnteredOnce' /\ ReviewsFit'
    BY <2>1, <2>3 DEF InboxInv, EnteredOnce, ReviewsFit, Fits
  <2> QED BY <2>4, <2>5, <2>6 DEF InboxInv
<1>9. ASSUME NEW r \in InboxRequests, CloseCapture(r)
      PROVE  InboxInv'
  <2> DEFINE c == visit[r].capture
             e == inbox[c].entry
  <2>1. /\ visit[r].at = "closeCapture"
        /\ entered' = [entered EXCEPT ![c] = Append(entered[c], e)]
        /\ inbox' = [inbox EXCEPT ![c].status = "confirmed"]
        /\ visit' = [visit EXCEPT ![r] = NoVisit]
        /\ locks' = {l \in locks : l.by # r}
    BY <1>9 DEF CloseCapture, Leave, ReleasedBy
  <2>2. /\ visit \in [InboxRequests -> Visits] /\ inbox \in [CaptureIds -> Rows]
        /\ entered \in [CaptureIds -> Seq(Entries)]
    BY DEF InboxTypeOK
  <2>3. c \in CaptureIds /\ HasCapture(r)
    BY <2>1, <2>2 DEF Visits, NoVisit, HasCapture
  <2>4. inbox[c].status = "pending" /\ e.wallet # NoWallet
    BY <2>3 DEF InboxInv, HeldCapturesStand
  <2>5. inbox[c] \in [status: {"pending"}, entry: Entries \cup Captured]
    BY <2>2, <2>3, <2>4 DEF Rows, NoCapture
  <2>6. visit'[r] = NoVisit /\ \A q \in InboxRequests : q # r => visit'[q] = visit[q]
    BY <2>1, <2>2
  <2>7. /\ inbox'[c].status = "confirmed" /\ inbox'[c].entry = e
        /\ \A d \in CaptureIds : d # c => inbox'[d] = inbox[d]
    BY <2>1, <2>2, <2>3, <2>5
  <2>8. entered[c] = <<>>
    BY <2>3, <2>4 DEF InboxInv, EnteredOnce
  <2>9. entered'[c] = <<e>> /\ \A d \in CaptureIds : d # c => entered'[d] = entered[d]
    BY <2>1, <2>2, <2>3, <2>8
  <2>10. EnteredOnce'
    BY <2>7, <2>9 DEF InboxInv, EnteredOnce
  <2>11. HeldCapturesStand'
    <3> SUFFICES ASSUME NEW q \in InboxRequests, HasCapture(q)'
                 PROVE  /\ Lock(visit'[q].capture, "Update", q) \in locks'
                        /\ inbox'[visit'[q].capture].status = "pending"
                        /\ inbox'[visit'[q].capture].entry.wallet # NoWallet
      BY DEF HeldCapturesStand
    <3>1. q # r
      BY <2>6 DEF HasCapture, NoVisit
    <3>2. HasCapture(q) /\ visit'[q] = visit[q]
      BY <2>6, <3>1 DEF HasCapture
    <3>3. visit[q].capture # c
      BY <2>3, <3>1, <3>2, HoldersDiffer
    <3>4. visit[q].capture \in CaptureIds
      BY <2>2, <3>2 DEF HasCapture, Visits, NoVisit
    <3>5. Lock(visit[q].capture, "Update", q).by = q
      BY DEF Lock
    <3> QED BY <2>1, <2>7, <3>1, <3>2, <3>3, <3>4, <3>5 DEF InboxInv, HeldCapturesStand
  <2>12. ReviewsFit'
    <3>1. \A q \in InboxRequests : visit'[q].at = "writeReview" => q # r
      BY <2>6 DEF NoVisit
    <3>2. inbox[c] # NoCapture
      BY <2>4 DEF NoCapture
    <3> QED BY <2>4, <2>6, <2>7, <3>1, <3>2 DEF InboxInv, ReviewsFit, Fits
  <2>13. UpdatesAreAlone'
    BY <2>1 DEF InboxInv, UpdatesAreAlone
  <2> QED BY <2>10, <2>11, <2>12, <2>13 DEF InboxInv
<1>10. CASE UNCHANGED <<inbox, entered, visit, locks>>
  BY <1>10 DEF InboxInv, UpdatesAreAlone, HeldCapturesStand, HasCapture, EnteredOnce,
               ReviewsFit, Fits
<1>11. ASSUME NEW r \in InboxRequests, NEW c \in CaptureIds,
              \/ \E e \in Entries : ReviewCapture(r, c, e)
              \/ ConfirmCapture(r, c)
       PROVE  InboxInv'
  BY <1>2, <1>11 DEF ReviewCapture, ConfirmCapture
<1> QED BY <1>1, <1>3, <1>4, <1>5, <1>6, <1>7, <1>8, <1>9, <1>10, <1>11,
           LedgerKeepsInbox, StutterKeepsInbox
        DEF InboxStep, InboxNext, VisitStep, AbortVisit

-----------------------------------------------------------------------------
LEMMA InboxInitially ==
    InboxAndLedger => InboxTypeOK /\ InboxInv
<1> SUFFICES ASSUME InboxInit, locks = {} PROVE InboxTypeOK /\ InboxInv
  BY DEF InboxAndLedger
<1>1. /\ \A c \in CaptureIds : inbox[c] = NoCapture /\ entered[c] = <<>>
      /\ \A r \in InboxRequests : visit[r] = NoVisit
  BY DEF InboxInit
<1>2. InboxTypeOK
  BY DEF InboxInit, InboxTypeOK, Rows, Visits
<1>3. NoCapture.status # "confirmed" /\ NoVisit.at = "idle"
  BY DEF NoCapture, NoVisit
<1>4. UpdatesAreAlone /\ HeldCapturesStand /\ ReviewsFit
  BY <1>1, <1>3 DEF UpdatesAreAlone, HeldCapturesStand, HasCapture, ReviewsFit
<1>5. EnteredOnce
  BY <1>1, <1>3 DEF EnteredOnce
<1> QED BY <1>2, <1>4, <1>5 DEF InboxInv

\* The rows, the transactions made of captures and the visits are always typed,
\* and the invariant behind the theorems below always holds.
THEOREM InboxIsInvariant == InboxSpec => [](InboxTypeOK /\ InboxInv)
<1>1. InboxTypeOK /\ InboxInv /\ [InboxStep]_InboxAllVars => (InboxTypeOK /\ InboxInv)'
  BY InboxTypesStep, InboxInvStep DEF InboxInv
<1> QED BY <1>1, InboxInitially, PTL DEF InboxSpec, InboxStep, InboxAllVars

THEOREM InboxTypes == InboxSpec => []InboxTypeOK
BY InboxIsInvariant, PTL

\* A confirmed capture has made exactly one transaction, of the facts it was
\* confirmed with, for any number of captures and of concurrent requests.
THEOREM CapturesEnterOnce == InboxSpec => []EnteredOnce
<1>1. InboxInv => EnteredOnce
  BY DEF InboxInv
<1> QED BY <1>1, InboxIsInvariant, PTL

\* A transaction made of a capture has the currency of its budget.
THEOREM BudgetsAlwaysFit == InboxSpec => []BudgetsFit
<1>1. InboxTypeOK /\ InboxInv => BudgetsFit
  <2> SUFFICES ASSUME InboxTypeOK, InboxInv, NEW c \in CaptureIds, NEW i \in DOMAIN entered[c]
               PROVE  Fits(entered[c][i])
    BY DEF BudgetsFit, Fits
  <2>1. entered[c] = IF inbox[c].status = "confirmed" THEN <<inbox[c].entry>> ELSE <<>>
    BY DEF InboxInv, EnteredOnce
  <2>2. inbox[c].status = "confirmed"
    BY <2>1
  <2>3. entered[c][i] = inbox[c].entry
    BY <2>1, <2>2
  <2>4. inbox[c] \in Rows /\ inbox[c] # NoCapture
    BY <2>2 DEF InboxTypeOK, NoCapture
  <2>5. inbox[c] \in [status: {"confirmed"}, entry: Entries]
    BY <2>2, <2>4 DEF Rows
  <2>6. inbox[c].entry.wallet # NoWallet
    BY <2>5, NullsAreNoRows DEF Entries
  <2> QED BY <2>3, <2>4, <2>6 DEF InboxInv, ReviewsFit
<1> QED BY <1>1, InboxIsInvariant, PTL

Advances ==
    \A c \in CaptureIds :
        /\ inbox[c].status = "confirmed" => inbox'[c] = inbox[c]
        /\ inbox[c] # NoCapture /\ inbox[c].entry.wallet # NoWallet
              => inbox'[c].entry.wallet # NoWallet

\* Every write of a capture either leaves its row as it is, or finds it absent,
\* or finds it pending and keeps or replaces its entry by a reviewed one.
LEMMA AdvancesStep ==
    InboxTypeOK /\ InboxInv /\ [InboxStep]_InboxAllVars => [Advances]_inbox
<1> SUFFICES ASSUME InboxTypeOK, InboxInv, [InboxStep]_InboxAllVars, inbox' # inbox
             PROVE  Advances
  OBVIOUS
<1>t. inbox \in [CaptureIds -> Rows] /\ visit \in [InboxRequests -> Visits]
  BY DEF InboxTypeOK
<1>1. ASSUME NEW c \in CaptureIds, NEW a \in Amounts, CreateCapture(c, a)
      PROVE  Advances
  <2>1. /\ inbox[c] = NoCapture
        /\ inbox' = [inbox EXCEPT ![c] = [status |-> "pending", entry |-> Facts(a)]]
    BY <1>1 DEF CreateCapture
  <2>2. inbox[c].status # "confirmed" /\ \A d \in CaptureIds : d # c => inbox'[d] = inbox[d]
    BY <1>t, <2>1 DEF NoCapture
  <2> QED BY <2>1, <2>2 DEF Advances
<1>2. ASSUME NEW r \in InboxRequests, WriteReview(r)
      PROVE  Advances
  <2> DEFINE c == visit[r].capture
             e == visit[r].entry
  <2>1. /\ visit[r].at = "writeReview" /\ inbox[c].status = "pending"
        /\ inbox' = [inbox EXCEPT ![c].entry = e]
    BY <1>2 DEF WriteReview
  <2>2. c \in CaptureIds /\ e \in Entries
    BY <1>t, <2>1 DEF Visits, NoVisit
  <2>3. e.wallet # NoWallet
    BY <2>2, NullsAreNoRows DEF Entries
  <2>4. inbox[c] \in [status: {"pending"}, entry: Entries \cup Captured]
    BY <1>t, <2>1, <2>2 DEF Rows, NoCapture
  <2>5. inbox'[c].entry = e /\ \A d \in CaptureIds : d # c => inbox'[d] = inbox[d]
    BY <1>t, <2>1, <2>2, <2>4
  <2> QED BY <2>1, <2>3, <2>5 DEF Advances
<1>3. ASSUME NEW r \in InboxRequests, CloseCapture(r)
      PROVE  Advances
  <2> DEFINE c == visit[r].capture
  <2>1. visit[r].at = "closeCapture" /\ inbox' = [inbox EXCEPT ![c].status = "confirmed"]
    BY <1>3 DEF CloseCapture
  <2>2. c \in CaptureIds /\ HasCapture(r)
    BY <1>t, <2>1 DEF Visits, NoVisit, HasCapture
  <2>3. inbox[c].status = "pending"
    BY <2>2 DEF InboxInv, HeldCapturesStand
  <2>4. inbox[c] \in [status: {"pending"}, entry: Entries \cup Captured]
    BY <1>t, <2>2, <2>3 DEF Rows, NoCapture
  <2>5. /\ inbox'[c].entry = inbox[c].entry
        /\ \A d \in CaptureIds : d # c => inbox'[d] = inbox[d]
    BY <1>t, <2>1, <2>2, <2>4
  <2> QED BY <2>3, <2>5 DEF Advances
<1>4. ASSUME NEW r \in InboxRequests,
             \/ \E c \in CaptureIds, e \in Entries : ReviewCapture(r, c, e)
             \/ \E c \in CaptureIds : ConfirmCapture(r, c)
             \/ CheckWallet(r) \/ LockCapture(r) \/ CheckEntry(r) \/ InsertEntry(r)
             \/ AbortVisit(r)
      PROVE  Advances
  BY <1>4 DEF ReviewCapture, ConfirmCapture, Visit, CheckWallet, LockCapture, CheckEntry,
              InsertEntry, AbortVisit, Reply
<1> QED BY <1>1, <1>2, <1>3, <1>4, LedgerKeepsInbox, StutterKeepsInbox
        DEF InboxStep, InboxNext, VisitStep

\* Nothing takes a confirmation or a review back: no late review or retried
\* creation, in any number.
THEOREM CapturesAlwaysAdvance == InboxSpec => CapturesOnlyAdvance
<1> QED BY AdvancesStep, InboxIsInvariant, PTL
        DEF InboxSpec, InboxStep, InboxAllVars, CapturesOnlyAdvance, Advances

-----------------------------------------------------------------------------
(***************************************************************************)
(* Who waits for whom.                                                     *)
(***************************************************************************)
\* Those request r waits for: the holders of the rows its next statement needs.
VisitWaitsFor(r) ==
    LET v == visit[r] IN
    CASE v.at = "lockCapture" -> Blockers(locks, v.capture, "Update", r)
      [] v.at = "writeReview" -> Blockers(locks, v.capture, "NoKeyUpdate", r)
                                   \cup Blockers(locks, v.entry.wallet, "KeyShare", r)
      [] v.at = "insertEntry" ->
           Blockers(locks, inbox[v.capture].entry.wallet, "KeyShare", r)
      [] OTHER -> {}

\* No requests of the inbox wait for one another in a circle, although a
\* confirmation takes the capture first and the wallet last and a review needs
\* both (capture_service.go:87, 107 and 142).
NoInboxDeadlock ==
    \A S \in (SUBSET InboxRequests) \ {{}} : \E r \in S : VisitWaitsFor(r) \cap S = {}

\* Only confirmations hold locks: their capture, and the wallet they share.
LocksAreOfConfirmations ==
    \A l \in locks :
        /\ l.by \in InboxRequests /\ HasCapture(l.by)
        /\ \/ l = Lock(visit[l.by].capture, "Update", l.by)
           \/ l.mode = "KeyShare" /\ l.row \in Wallets

\* A request that has no capture yet holds nothing; what it does next disturbs
\* no other's locks.
LEMMA MovingKeepsConfirmations ==
  ASSUME LocksAreOfConfirmations, NEW r \in InboxRequests,
         \A q \in InboxRequests : q # r => visit'[q] = visit[q],
         ~HasCapture(r) \/ ReleasedBy(locks, r) = locks'
            \/ (HasCapture(r)' /\ visit'[r].capture = visit[r].capture),
         \A l \in locks' : l \in locks
  PROVE  LocksAreOfConfirmations'
<1> SUFFICES ASSUME NEW l \in locks'
             PROVE  /\ l.by \in InboxRequests /\ HasCapture(l.by)'
                    /\ \/ l = Lock(visit'[l.by].capture, "Update", l.by)
                       \/ l.mode = "KeyShare" /\ l.row \in Wallets
  BY DEF LocksAreOfConfirmations
<1>1. /\ l \in locks /\ l.by \in InboxRequests /\ HasCapture(l.by)
      /\ \/ l = Lock(visit[l.by].capture, "Update", l.by)
         \/ l.mode = "KeyShare" /\ l.row \in Wallets
  BY DEF LocksAreOfConfirmations
<1>2. CASE l.by # r
  BY <1>1, <1>2 DEF HasCapture
<1>3. CASE l.by = r
  BY <1>1, <1>3 DEF ReleasedBy
<1> QED BY <1>2, <1>3

LEMMA ConfirmationsStep ==
    /\ InboxTypeOK /\ InboxInv /\ LocksAreOfConfirmations /\ [InboxStep]_InboxAllVars
    => LocksAreOfConfirmations'
<1> SUFFICES ASSUME InboxTypeOK, InboxInv, LocksAreOfConfirmations,
                    [InboxStep]_InboxAllVars
             PROVE  LocksAreOfConfirmations'
  OBVIOUS
<1>t. inbox \in [CaptureIds -> Rows] /\ visit \in [InboxRequests -> Visits]
  BY DEF InboxTypeOK
<1>1. ASSUME UNCHANGED <<visit, locks>> PROVE LocksAreOfConfirmations'
  BY <1>1 DEF LocksAreOfConfirmations, HasCapture
<1>2. ASSUME NEW r \in InboxRequests, NEW v, Visit(r, v) PROVE LocksAreOfConfirmations'
  <2>1. /\ visit[r] = NoVisit /\ UNCHANGED locks
        /\ \A q \in InboxRequests : q # r => visit'[q] = visit[q]
    BY <1>t, <1>2 DEF Visit
  <2> QED BY <2>1, MovingKeepsConfirmations DEF HasCapture, NoVisit
<1>3. ASSUME NEW r \in InboxRequests, Leave(r) PROVE LocksAreOfConfirmations'
  <2>1. /\ locks' = ReleasedBy(locks, r) /\ \A l \in locks' : l \in locks
        /\ \A q \in InboxRequests : q # r => visit'[q] = visit[q]
    BY <1>t, <1>3 DEF Leave, ReleasedBy
  <2> QED BY <2>1, MovingKeepsConfirmations
<1>4. ASSUME NEW r \in InboxRequests, CheckWallet(r), ~Leave(r)
      PROVE  LocksAreOfConfirmations'
  <2>1. /\ ~HasCapture(r) /\ UNCHANGED locks
        /\ \A q \in InboxRequests : q # r => visit'[q] = visit[q]
    BY <1>t, <1>4 DEF CheckWallet, GoTo, Reply, HasCapture
  <2> QED BY <2>1, MovingKeepsConfirmations
<1>5. ASSUME NEW r \in InboxRequests, CheckEntry(r), ~Leave(r)
      PROVE  LocksAreOfConfirmations'
  <2>1. /\ visit[r].at = "checkEntry" /\ visit' = [visit EXCEPT ![r].at = "insertEntry"]
        /\ UNCHANGED locks
    BY <1>5 DEF CheckEntry, GoTo, Reply
  <2>2. /\ visit'[r].capture = visit[r].capture /\ visit'[r].at = "insertEntry"
        /\ \A q \in InboxRequests : q # r => visit'[q] = visit[q]
    BY <1>t, <2>1 DEF Visits, NoVisit
  <2> QED BY <2>1, <2>2, MovingKeepsConfirmations DEF HasCapture
<1>6. ASSUME NEW r \in InboxRequests, LockCapture(r), ~Leave(r)
      PROVE  LocksAreOfConfirmations'
  <2> DEFINE k == Lock(visit[r].capture, "Update", r)
  <2>1. /\ visit[r].at = "lockCapture" /\ locks' = locks \cup {k}
        /\ visit' = [visit EXCEPT ![r].at = "checkEntry"]
    BY <1>6 DEF LockCapture, GoTo, Reply
  <2>2. /\ visit'[r].capture = visit[r].capture /\ visit'[r].at = "checkEntry"
        /\ \A q \in InboxRequests : q # r => visit'[q] = visit[q]
    BY <1>t, <2>1 DEF Visits, NoVisit
  <2>3. ~HasCapture(r) /\ HasCapture(r)' /\ k.by = r
    BY <2>1, <2>2 DEF HasCapture, Lock
  <2>4. \A l \in locks : l.by # r
    BY <2>3 DEF LocksAreOfConfirmations
  <2> QED BY <2>1, <2>2, <2>3, <2>4 DEF LocksAreOfConfirmations, HasCapture
<1>7. ASSUME NEW r \in InboxRequests, InsertEntry(r)
      PROVE  LocksAreOfConfirmations'
  <2> DEFINE w == inbox[visit[r].capture].entry.wallet
             k == Lock(w, "KeyShare", r)
  <2>1. /\ visit[r].at = "insertEntry" /\ locks' = locks \cup {k}
        /\ visit' = [visit EXCEPT ![r].at = "closeCapture"]
    BY <1>7 DEF InsertEntry, GoTo
  <2>2. /\ visit'[r].capture = visit[r].capture /\ visit'[r].at = "closeCapture"
        /\ visit[r].capture \in CaptureIds
        /\ \A q \in InboxRequests : q # r => visit'[q] = visit[q]
    BY <1>t, <2>1 DEF Visits, NoVisit
  <2>3. w \in Wallets
    <3>1. inbox[visit[r].capture].status = "pending" /\ w # NoWallet
      BY <2>1 DEF HasCapture, InboxInv, HeldCapturesStand
    <3>2. inbox[visit[r].capture] \in [status: {"pending"}, entry: Entries \cup Captured]
      BY <1>t, <2>2, <3>1 DEF Rows, NoCapture
    <3> QED BY <3>1, <3>2 DEF Entries, Captured
  <2>4. /\ HasCapture(r)' /\ k.by = r /\ k.mode = "KeyShare" /\ k.row = w
    BY <2>2 DEF HasCapture, Lock
  <2>5. ASSUME NEW l \in locks
        PROVE  /\ l.by \in InboxRequests /\ HasCapture(l.by)'
               /\ \/ l = Lock(visit'[l.by].capture, "Update", l.by)
                  \/ l.mode = "KeyShare" /\ l.row \in Wallets
    BY <2>2, <2>4 DEF LocksAreOfConfirmations, HasCapture
  <2> HIDE DEF k, w
  <2> QED BY <2>1, <2>3, <2>4, <2>5 DEF LocksAreOfConfirmations
<1>8. CASE UNCHANGED <<inbox, entered, visit, locks>>
  BY <1>1, <1>8
<1>9. ASSUME NEW c \in CaptureIds, NEW a \in Amounts, CreateCapture(c, a)
      PROVE  LocksAreOfConfirmations'
  BY <1>1, <1>9 DEF CreateCapture
<1> QED BY <1>2, <1>3, <1>4, <1>5, <1>6, <1>7, <1>8, <1>9, LedgerKeepsInbox,
           StutterKeepsInbox
        DEF InboxStep, InboxNext, VisitStep, ReviewCapture, ConfirmCapture, WriteReview,
            CloseCapture, AbortVisit, Reply

\* A confirmation that has its capture waits for nobody: wallets are only shared.
LEMMA ConfirmationsGoOn ==
  ASSUME InboxTypeOK, InboxInv, LocksAreOfConfirmations,
         NEW r \in InboxRequests, HasCapture(r)
  PROVE  VisitWaitsFor(r) = {}
<1>1. visit[r].capture \in CaptureIds
  BY DEF InboxTypeOK, HasCapture, Visits, NoVisit
<1>2. inbox[visit[r].capture].entry.wallet \in Wallets
  <2>1. /\ inbox[visit[r].capture].status = "pending"
        /\ inbox[visit[r].capture].entry.wallet # NoWallet
    BY DEF InboxInv, HeldCapturesStand
  <2>2. inbox[visit[r].capture] \in [status: {"pending"}, entry: Entries \cup Captured]
    BY <1>1, <2>1 DEF InboxTypeOK, Rows, NoCapture
  <2> QED BY <2>1, <2>2 DEF Entries, Captured
<1>3. ASSUME NEW l \in locks, l.row \in Wallets PROVE l.mode = "KeyShare"
  <2>1. l.by \in InboxRequests /\ HasCapture(l.by)
    BY DEF LocksAreOfConfirmations
  <2>2. visit[l.by].capture \in CaptureIds
    BY <2>1 DEF InboxTypeOK, HasCapture, Visits, NoVisit
  <2>3. l # Lock(visit[l.by].capture, "Update", l.by)
    BY <1>3, <2>2, CapturesAreRows DEF Lock
  <2> QED BY <2>3 DEF LocksAreOfConfirmations
<1>4. Blockers(locks, inbox[visit[r].capture].entry.wallet, "KeyShare", r) = {}
  BY <1>2, <1>3 DEF Blockers, Conflicts
<1> QED BY <1>4 DEF VisitWaitsFor, HasCapture

\* Confirmations and reviews, in any number, never all wait for one another.
THEOREM InboxDeadlockFree == InboxSpec => []NoInboxDeadlock
<1>1. InboxAndLedger => LocksAreOfConfirmations
  BY DEF InboxAndLedger, LocksAreOfConfirmations
<1>2. InboxTypeOK /\ InboxInv /\ LocksAreOfConfirmations => NoInboxDeadlock
  <2> SUFFICES ASSUME InboxTypeOK, InboxInv, LocksAreOfConfirmations,
                      NEW S \in (SUBSET InboxRequests) \ {{}},
                      \A r \in S : VisitWaitsFor(r) \cap S # {}
               PROVE  FALSE
    BY DEF NoInboxDeadlock
  <2>1. PICK r \in S, b \in S : b \in VisitWaitsFor(r)
    OBVIOUS
  <2>2. PICK l \in locks : l.by = b
    BY <2>1 DEF VisitWaitsFor, Blockers
  <2>3. b \in InboxRequests /\ HasCapture(b)
    BY <2>2 DEF LocksAreOfConfirmations
  <2> QED BY <2>1, <2>3, ConfirmationsGoOn
<1> QED BY <1>1, <1>2, InboxIsInvariant, ConfirmationsStep, PTL
        DEF InboxSpec, InboxStep, InboxAllVars
=============================================================================
