------------------------------- MODULE Ledger -------------------------------
(***************************************************************************)
(* Wallets and the ledger of one household: finance/service.go on          *)
(* PostgreSQL at READ COMMITTED.                                           *)
(*                                                                         *)
(* A handler runs several SQL statements and the pool runs each of them in *)
(* a transaction of its own, so other requests run between any two.  An    *)
(* action here is one statement together with the Go code up to the next   *)
(* one; call[r].op names the statement request r is about to issue.  A     *)
(* request that is refused leaves nothing behind and is left out.          *)
(*                                                                         *)
(* The tables are kept as the sums the balance query takes of them: the    *)
(* rows are only ever inserted, and no other query of this component tells *)
(* two tables with equal sums apart.                                       *)
(***************************************************************************)
EXTENDS Integers, Functions, RowLocks

CONSTANTS
    Wallets,          \* wallet ids of the household
    Currency,         \* Currency[w], fixed when the wallet is created
    LedgerRequests,   \* requests served concurrently by these handlers
    Amounts,          \* positive amounts in minor units
    Details,          \* names and types a wallet can be given
    LedgerBound,      \* bound of the model on the size of a sum
    NoTime            \* archived_at IS NULL

ASSUME AmountsArePositive == Amounts \subseteq Nat \ {0}
ASSUME LedgerBoundIsNat == LedgerBound \in Nat
ASSUME NoTimeIsNoRequest == NoTime \notin LedgerRequests

VARIABLES
    status,           \* status[w]: wallets.status, "absent" before the INSERT
    details,          \* details[w]: wallets.name and wallets.type
    archivedAt,       \* archivedAt[w]: the request whose clock archived_at shows
    posted,           \* posted[w]: SUM over transactions, income less expense
    moved,            \* moved[w]: SUM over transfers, in less out
    call,             \* call[r]: what request r does next
    locks             \* the lock table of the open transactions

walletVars == <<status, details, archivedAt>>
ledgerVars == <<walletVars, posted, moved, call>>

Statuses == {"absent", "active", "archived"}
Deltas == Amounts \cup {-a : a \in Amounts}
Sums == -LedgerBound .. LedgerBound

Idle == [op |-> "idle"]
Calls == {Idle}
    \cup [op: {"insertTransaction"}, wallet: Wallets, delta: Deltas]
    \cup [op: {"readDestination", "insertTransfer"},
          source: Wallets, dest: Wallets, amount: Amounts]
    \cup [op: {"updateWallet"}, wallet: Wallets, details: Details]
    \cup [op: {"archiveWallet"}, wallet: Wallets]

LedgerTypeOK ==
    /\ status \in [Wallets -> Statuses]
    /\ details \in [Wallets -> Details]
    /\ archivedAt \in [Wallets -> LedgerRequests \cup {NoTime}]
    /\ posted \in [Wallets -> Int]
    /\ moved \in [Wallets -> Int]
    /\ call \in [LedgerRequests -> Calls]

LedgerInit ==
    /\ status = [w \in Wallets |-> "absent"]
    /\ details \in [Wallets -> Details]
    /\ archivedAt = [w \in Wallets |-> NoTime]
    /\ posted = [w \in Wallets |-> 0]
    /\ moved = [w \in Wallets |-> 0]
    /\ call = [r \in LedgerRequests |-> Idle]

-----------------------------------------------------------------------------
\* The balance ReserveGoalFunds reads: transactions and transfers.
LedgerBalance(w) == posted[w] + moved[w]

Begin(r, c) ==
    /\ call[r] = Idle
    /\ call' = [call EXCEPT ![r] = c]

\* Mutant: an answered request keeps the arguments it came with.
AnswerKeepsArguments(r) == call' = [call EXCEPT ![r].op = "idle"]

Answer(r) == call' = [call EXCEPT ![r] = Idle]

\* POST /wallets: one INSERT.  The wallet's details were fixed by Init.
CreateWallet(w) ==
    /\ status[w] = "absent"
    /\ status' = [status EXCEPT ![w] = "active"]
    /\ UNCHANGED <<details, archivedAt, posted, moved, call>>

\* PUT /wallets/{id}: the wallet is read, Update refuses an archived one.
UpdateWallet(r, w, d) ==
    /\ status[w] = "active"
    /\ Begin(r, [op |-> "updateWallet", wallet |-> w, details |-> d])
    /\ UNCHANGED <<walletVars, posted, moved>>

\* The UPDATE touches the row only while it is still active; no row, no answer.
WriteWallet(r) ==
    /\ call[r].op = "updateWallet"
    /\ LET w == call[r].wallet IN
       /\ Grantable(locks, w, "NoKeyUpdate", r)
       /\ details' = IF status[w] = "active"
                     THEN [details EXCEPT ![w] = call[r].details] ELSE details
    /\ Answer(r)
    /\ UNCHANGED <<status, archivedAt, posted, moved>>

\* POST /wallets/{id}/archive: an archived wallet is answered as it stands.
ArchiveWallet(r, w) ==
    /\ status[w] = "active"
    /\ Begin(r, [op |-> "archiveWallet", wallet |-> w])
    /\ UNCHANGED <<walletVars, posted, moved>>

\* Mutant: the UPDATE of service.go:154 without its status = 'active'.
WriteArchiveAgain(r) ==
    /\ call[r].op = "archiveWallet"
    /\ LET w == call[r].wallet IN
       /\ status' = [status EXCEPT ![w] = "archived"]
       /\ archivedAt' = [archivedAt EXCEPT ![w] = r]
    /\ Answer(r)
    /\ UNCHANGED <<details, posted, moved>>

\* The UPDATE archives an active row only, at the time this request read.
WriteArchive(r) ==
    /\ call[r].op = "archiveWallet"
    /\ LET w == call[r].wallet IN
       /\ Grantable(locks, w, "NoKeyUpdate", r)
       /\ IF status[w] = "active"
          THEN /\ status' = [status EXCEPT ![w] = "archived"]
               /\ archivedAt' = [archivedAt EXCEPT ![w] = r]
          ELSE UNCHANGED <<status, archivedAt>>
    /\ Answer(r)
    /\ UNCHANGED <<details, posted, moved>>

\* POST /transactions: the wallet is read and must be active.  A positive
\* delta is an income, a negative one an expense; no balance is checked.
CreateTransaction(r, w, d) ==
    /\ status[w] = "active"
    /\ Begin(r, [op |-> "insertTransaction", wallet |-> w, delta |-> d])
    /\ UNCHANGED <<walletVars, posted, moved>>

InsertTransaction(r) ==
    /\ call[r].op = "insertTransaction"
    /\ LET w == call[r].wallet IN
       /\ Grantable(locks, w, "KeyShare", r)
       /\ posted[w] + call[r].delta \in Sums
       /\ posted' = [posted EXCEPT ![w] = @ + call[r].delta]
    /\ Answer(r)
    /\ UNCHANGED <<walletVars, moved>>

\* POST /transfers: the source is read, then the destination, and only then
\* are the two statuses, the currencies and the ids compared.  A source that
\* is archived is refused whatever the destination is.
CreateTransfer(r, s, d, a) ==
    /\ status[s] = "active"
    /\ Begin(r, [op |-> "readDestination", source |-> s, dest |-> d, amount |-> a])
    /\ UNCHANGED <<walletVars, posted, moved>>

\* Mutants: the comparisons of service.go:197-206 without the destination's
\* status, and without the two currencies.
ReadDestinationIfAny(r, compared) ==
    /\ call[r].op = "readDestination"
    /\ LET c == call[r]
           ok == /\ c.source # c.dest
                 /\ compared = "status" => status[c.dest] = "active"
                 /\ compared = "currency" => Currency[c.source] = Currency[c.dest]
       IN  IF ok THEN call' = [call EXCEPT ![r].op = "insertTransfer"] ELSE Answer(r)
    /\ UNCHANGED <<walletVars, posted, moved>>
ReadDestinationAnyStatus(r) == ReadDestinationIfAny(r, "currency")
ReadDestinationAnyCurrency(r) == ReadDestinationIfAny(r, "status")

ReadDestination(r) ==
    /\ call[r].op = "readDestination"
    /\ LET c == call[r]
           ok == /\ status[c.dest] = "active"
                 /\ Currency[c.source] = Currency[c.dest]
                 /\ c.source # c.dest
       IN  IF ok THEN call' = [call EXCEPT ![r].op = "insertTransfer"] ELSE Answer(r)
    /\ UNCHANGED <<walletVars, posted, moved>>

InsertTransfer(r) ==
    /\ call[r].op = "insertTransfer"
    /\ LET s == call[r].source
           d == call[r].dest
           a == call[r].amount
       IN  /\ Grantable(locks, s, "KeyShare", r)
           /\ Grantable(locks, d, "KeyShare", r)
           /\ {moved[s] - a, moved[d] + a} \subseteq Sums
           /\ moved' = [moved EXCEPT ![s] = @ - a, ![d] = @ + a]
    /\ Answer(r)
    /\ UNCHANGED <<walletVars, posted>>

\* The client hangs up or the statement fails: the context handed to every
\* statement is the request's, and what was read is forgotten.
Abandon(r) ==
    /\ call[r] # Idle
    /\ Answer(r)
    /\ UNCHANGED <<walletVars, posted, moved>>

LedgerNext ==
    /\ UNCHANGED locks
    /\ \/ \E w \in Wallets : CreateWallet(w)
       \/ \E r \in LedgerRequests :
          \/ \E w \in Wallets, d \in Details : UpdateWallet(r, w, d)
          \/ WriteWallet(r)
          \/ \E w \in Wallets : ArchiveWallet(r, w)
          \/ WriteArchive(r)
          \/ \E w \in Wallets, d \in Deltas : CreateTransaction(r, w, d)
          \/ InsertTransaction(r)
          \/ \E s, d \in Wallets, a \in Amounts : CreateTransfer(r, s, d, a)
          \/ ReadDestination(r)
          \/ InsertTransfer(r)
          \/ Abandon(r)
-----------------------------------------------------------------------------
LedgerAlone == LedgerInit /\ locks = {}

LedgerSpec == LedgerAlone /\ [][LedgerNext]_<<ledgerVars, locks>>

\* Some request has read wallet w as active and has yet to write to it.
InFlight(w) ==
    \E r \in LedgerRequests :
        \/ call[r].op = "insertTransaction" /\ call[r].wallet = w
        \/ call[r].op = "readDestination" /\ call[r].source = w
        \/ call[r].op = "insertTransfer" /\ w \in {call[r].source, call[r].dest}

\* The archive closes a wallet for every request that has not read it yet:
\* once it is archived and the requests that saw it active are answered, no
\* other gets past its checks and its balance stands for good
\* (service.go:167, 197).
ArchivedWalletSettles ==
    [][\A w \in Wallets : status[w] = "archived" /\ ~InFlight(w)
          => ~InFlight(w)' /\ posted'[w] = posted[w] /\ moved'[w] = moved[w]
      ]_<<posted, moved, call>>

\* An archived wallet keeps its name, its type and the instant it was archived
\* at, whatever updates and second archives were already on their way to it
\* (the status = 'active' of the UPDATEs at service.go:136 and 154).
ArchivedWalletIsFrozen ==
    [][\A w \in Wallets : status[w] = "archived"
          => /\ status'[w] = "archived"
             /\ details'[w] = details[w]
             /\ archivedAt'[w] = archivedAt[w]]_walletVars

\* In every currency the transfers among the wallets there are add up to
\* nothing: what one wallet gives another gets, so the wallet balances of a
\* currency add up to its income less its expenses (one INSERT, service.go:207,
\* carries both sides, behind the currency check of 200).
TransfersConserve ==
    \A c \in {Currency[w] : w \in Wallets} :
        SumFunctionOnSet(moved, {w \in Wallets : status[w] # "absent"
                                                  /\ Currency[w] = c}) = 0
=============================================================================
