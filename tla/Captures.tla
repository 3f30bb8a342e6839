------------------------------ MODULE Captures ------------------------------
(***************************************************************************)
(* The transaction inbox: finance/capture_service.go beside the ledger of  *)
(* module Ledger.                                                          *)
(*                                                                         *)
(* A capture is created with an id of the client's, reviewed (wallet, kind,*)
(* amount, budget) and confirmed into one transaction.  Creating is one    *)
(* statement; ReviewCapture is four, each on its own; ConfirmCapture is a  *)
(* transaction that locks the capture and only reads the wallet.           *)
(* visit[r].at names the next statement of request r.                      *)
(***************************************************************************)
EXTENDS Ledger, Sequences

CONSTANTS
    CaptureIds,       \* ids the clients give to captures
    InboxRequests,    \* requests served concurrently by these handlers
    Budgets,          \* budget ids of the household
    BudgetCurrency,   \* BudgetCurrency[b], fixed when the budget is created
    NoWallet,         \* wallet_id IS NULL
    NoBudget          \* budget_id IS NULL

ASSUME NullsAreNoRows == NoWallet \notin Wallets /\ NoBudget \notin Budgets
ASSUME CapturesAreRows == CaptureIds \cap (Wallets \cup InboxRequests) = {}

VARIABLES
    inbox,            \* inbox[c]: the row of capture c
    entered,          \* entered[c]: the transactions made of capture c, in order
    visit             \* visit[r]: what request r does next

inboxVars == <<inbox, entered, visit>>

\* What a capture says of its transaction.  Before a review it has an amount
\* only; kind is the sign of delta, and null as long as wallet is.
Entries == [wallet: Wallets, delta: Deltas, budget: Budgets \cup {NoBudget}]
Captured == [wallet: {NoWallet}, delta: Amounts, budget: {NoBudget}]
NoCapture == [status |-> "absent"]
Rows == {NoCapture}
    \cup [status: {"pending"}, entry: Entries \cup Captured]
    \cup [status: {"confirmed"}, entry: Entries]

NoVisit == [at |-> "idle"]
Visits == {NoVisit}
    \cup [at: {"checkWallet", "writeReview"}, capture: CaptureIds, entry: Entries]
    \cup [at: {"lockCapture", "checkEntry", "insertEntry", "closeCapture"},
          capture: CaptureIds]

InboxTypeOK ==
    /\ inbox \in [CaptureIds -> Rows]
    /\ entered \in [CaptureIds -> Seq(Entries)]
    /\ visit \in [InboxRequests -> Visits]

InboxInit ==
    /\ inbox = [c \in CaptureIds |-> NoCapture]
    /\ entered = [c \in CaptureIds |-> <<>>]
    /\ visit = [r \in InboxRequests |-> NoVisit]

-----------------------------------------------------------------------------
Visit(r, v) ==
    /\ visit[r] = NoVisit
    /\ visit' = [visit EXCEPT ![r] = v]
    /\ UNCHANGED <<ledgerVars, inbox, entered, locks>>

GoTo(r, step) == visit' = [visit EXCEPT ![r].at = step]

\* Mutant: a visitor that is done keeps what it came with.
LeaveKeepsArguments(r) ==
    /\ visit' = [visit EXCEPT ![r].at = "idle"]
    /\ locks' = ReleasedBy(locks, r)

Leave(r) ==
    /\ visit' = [visit EXCEPT ![r] = NoVisit]
    /\ locks' = ReleasedBy(locks, r)

Reply(r) == Leave(r) /\ UNCHANGED <<ledgerVars, inbox, entered>>

\* What is known of a capture before its review.
Facts(a) == [wallet |-> NoWallet, delta |-> a, budget |-> NoBudget]

\* Mutant: ON CONFLICT DO UPDATE writes the captured facts again.
CreateCaptureAgain(c, a) ==
    /\ Grantable(locks, c, "Update", c)
    /\ inbox' = [inbox EXCEPT ![c] = [status |-> "pending", entry |-> Facts(a)]]
    /\ UNCHANGED <<ledgerVars, entered, visit, locks>>

\* POST /captures: one INSERT.  ON CONFLICT (id) sets the id to itself, so a
\* retry waits for the row and answers with it as it stands.
CreateCapture(c, a) ==
    /\ Grantable(locks, c, "Update", c)
    /\ inbox' = IF inbox[c] = NoCapture
                THEN [inbox EXCEPT ![c] = [status |-> "pending", entry |-> Facts(a)]]
                ELSE inbox
    /\ UNCHANGED <<ledgerVars, entered, visit, locks>>

\* PUT /captures/{id}/review: the capture is read and is to be pending.
ReviewCapture(r, c, e) ==
    /\ inbox[c].status = "pending"
    /\ Visit(r, [at |-> "checkWallet", capture |-> c, entry |-> e])

\* Mutant: lines 79-82 without the comparison of the currencies.
CheckWalletOnly(r) ==
    /\ visit[r].at = "checkWallet"
    /\ IF status[visit[r].entry.wallet] = "active"
       THEN GoTo(r, "writeReview") /\ UNCHANGED <<ledgerVars, inbox, entered, locks>>
       ELSE Reply(r)

\* The wallet is read and then the budget, whose currency never changes.
CheckWallet(r) ==
    /\ visit[r].at = "checkWallet"
    /\ LET e == visit[r].entry
           ok == /\ status[e.wallet] = "active"
                 /\ e.budget # NoBudget => BudgetCurrency[e.budget] = Currency[e.wallet]
       IN  IF ok THEN GoTo(r, "writeReview") /\ UNCHANGED <<ledgerVars, inbox, entered, locks>>
                 ELSE Reply(r)

\* Mutant: the UPDATE of capture_service.go:87 without its status = 'pending'.
WriteReviewAnyStatus(r) ==
    /\ visit[r].at = "writeReview"
    /\ LET v == visit[r] IN
       /\ Grantable(locks, v.capture, "NoKeyUpdate", r)
       /\ Grantable(locks, v.entry.wallet, "KeyShare", r)
       /\ inbox' = [inbox EXCEPT ![v.capture].entry = v.entry]
    /\ Leave(r)
    /\ UNCHANGED <<ledgerVars, entered>>

\* The UPDATE touches the row only while it is pending; no row, no answer.
WriteReview(r) ==
    /\ visit[r].at = "writeReview"
    /\ LET v == visit[r] IN
       /\ Grantable(locks, v.capture, "NoKeyUpdate", r)
       /\ inbox[v.capture].status = "pending" => Grantable(locks, v.entry.wallet, "KeyShare", r)
       /\ inbox' = IF inbox[v.capture].status = "pending"
                   THEN [inbox EXCEPT ![v.capture].entry = v.entry] ELSE inbox
    /\ Leave(r)
    /\ UNCHANGED <<ledgerVars, entered>>

\* POST /captures/{id}/confirm: BEGIN.
ConfirmCapture(r, c) ==
    /\ inbox[c] # NoCapture
    /\ Visit(r, [at |-> "lockCapture", capture |-> c])

\* Mutant: the capture is read without FOR UPDATE.
ReadCapture(r) ==
    /\ visit[r].at = "lockCapture"
    /\ LET row == inbox[visit[r].capture] IN
       IF row.status = "pending" /\ row.entry.wallet # NoWallet
       THEN GoTo(r, "checkEntry") /\ UNCHANGED <<ledgerVars, inbox, entered, locks>>
       ELSE Reply(r)

\* SELECT ... FOR UPDATE.  A confirmed capture is answered with its transaction,
\* one without a wallet is refused.
LockCapture(r) ==
    /\ visit[r].at = "lockCapture"
    /\ LET c == visit[r].capture
           row == inbox[c]
       IN  /\ Grantable(locks, c, "Update", r)
           /\ IF row.status = "pending" /\ row.entry.wallet # NoWallet
              THEN /\ locks' = locks \cup {Lock(c, "Update", r)}
                   /\ GoTo(r, "checkEntry")
                   /\ UNCHANGED <<ledgerVars, inbox, entered>>
              ELSE Reply(r)

\* The status of the wallet the capture names.
CheckEntry(r) ==
    /\ visit[r].at = "checkEntry"
    /\ IF status[inbox[visit[r].capture].entry.wallet] = "active"
       THEN GoTo(r, "insertEntry") /\ UNCHANGED <<ledgerVars, inbox, entered, locks>>
       ELSE Reply(r)

\* INSERT INTO transactions: its foreign key shares the wallet until COMMIT.
InsertEntry(r) ==
    /\ visit[r].at = "insertEntry"
    /\ LET w == inbox[visit[r].capture].entry.wallet IN
       /\ Grantable(locks, w, "KeyShare", r)
       /\ locks' = locks \cup {Lock(w, "KeyShare", r)}
    /\ GoTo(r, "closeCapture")
    /\ UNCHANGED <<ledgerVars, inbox, entered>>

\* UPDATE transaction_captures and COMMIT, which shows the transaction.
CloseCapture(r) ==
    /\ visit[r].at = "closeCapture"
    /\ LET c == visit[r].capture
           e == inbox[c].entry
       IN  /\ posted[e.wallet] + e.delta \in Sums
           /\ posted' = [posted EXCEPT ![e.wallet] = @ + e.delta]
           /\ entered' = [entered EXCEPT ![c] = Append(@, e)]
           /\ inbox' = [inbox EXCEPT ![c].status = "confirmed"]
    /\ Leave(r)
    /\ UNCHANGED <<walletVars, moved, call>>

\* The client hangs up or a statement fails: the deferred Rollback.
AbortVisit(r) ==
    /\ visit[r] # NoVisit
    /\ Reply(r)

VisitStep(r) ==
    \/ CheckWallet(r) \/ WriteReview(r)
    \/ LockCapture(r) \/ CheckEntry(r) \/ InsertEntry(r) \/ CloseCapture(r)

InboxNext ==
    \/ \E c \in CaptureIds, a \in Amounts : CreateCapture(c, a)
    \/ \E r \in InboxRequests :
       \/ \E c \in CaptureIds, e \in Entries : ReviewCapture(r, c, e)
       \/ \E c \in CaptureIds : ConfirmCapture(r, c)
       \/ VisitStep(r)
       \/ AbortVisit(r)

InboxAndLedger == LedgerInit /\ InboxInit /\ locks = {}

InboxSpec ==
    /\ InboxAndLedger
    /\ [][InboxNext \/ (LedgerNext /\ UNCHANGED inboxVars)]_<<ledgerVars, inboxVars, locks>>
-----------------------------------------------------------------------------
\* A confirmed capture has made one transaction, of the facts it was confirmed
\* with, and no other capture any: whatever confirms and reviews of it run at
\* the same time, are repeated, or fail half way (data-model.md:147;
\* capture_service.go:102-157).
EnteredOnce ==
    \A c \in CaptureIds :
        entered[c] = IF inbox[c].status = "confirmed" THEN <<inbox[c].entry>> ELSE <<>>

\* A confirmed capture stays as it is and a reviewed one is never put back to
\* its captured facts, although a retry of its creation or a review that read
\* it earlier arrives late (capture_service.go:27, 87).
CapturesOnlyAdvance ==
    [][\A c \in CaptureIds :
          /\ inbox[c].status = "confirmed" => inbox'[c] = inbox[c]
          /\ inbox[c] # NoCapture /\ inbox[c].entry.wallet # NoWallet
                => inbox'[c].entry.wallet # NoWallet]_inbox

\* A transaction made of a capture counts towards a budget of its own currency
\* only, although wallet and budget are compared two requests earlier
\* (capture_service.go:75-83, 142).
BudgetsFit ==
    \A c \in CaptureIds : \A i \in DOMAIN entered[c] :
        LET e == entered[c][i] IN
        e.budget # NoBudget => BudgetCurrency[e.budget] = Currency[e.wallet]

-----------------------------------------------------------------------------
(***************************************************************************)
(* The inductive invariant behind the theorems of CapturesProofs.          *)
(***************************************************************************)
HasCapture(r) == visit[r].at \in {"checkEntry", "insertEntry", "closeCapture"}

\* A row locked FOR UPDATE is locked by nobody else.
UpdatesAreAlone ==
    \A k, l \in locks : k.row = l.row /\ k.mode = "Update" => k.by = l.by

\* The capture a transaction works on is locked, pending and reviewed.
HeldCapturesStand ==
    \A r \in InboxRequests : HasCapture(r) =>
        LET c == visit[r].capture IN
        /\ Lock(c, "Update", r) \in locks
        /\ inbox[c].status = "pending" /\ inbox[c].entry.wallet # NoWallet

Fits(e) == e.budget # NoBudget => BudgetCurrency[e.budget] = Currency[e.wallet]

\* What is written by a review has passed its checks.
ReviewsFit ==
    /\ \A r \in InboxRequests : visit[r].at = "writeReview" => Fits(visit[r].entry)
    /\ \A c \in CaptureIds :
         inbox[c] # NoCapture /\ inbox[c].entry.wallet # NoWallet => Fits(inbox[c].entry)

InboxInv == UpdatesAreAlone /\ HeldCapturesStand /\ EnteredOnce /\ ReviewsFit
=============================================================================
