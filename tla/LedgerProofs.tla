---------------------------- MODULE LedgerProofs ----------------------------
(***************************************************************************)
(* Theorems about Ledger, for any wallets, requests and amounts.           *)
(***************************************************************************)
EXTENDS Ledger, FiniteSetTheorems, TLAPS

\* Negating an amount gives an integer again.
LEMMA DeltasAreInt == Deltas \subseteq Int /\ Amounts \subseteq Int
<1>1. Amounts \subseteq Int
  BY AmountsArePositive
<1>2. ASSUME NEW a \in Amounts PROVE a \in Int /\ -a \in Int
  BY <1>1
<1>3. {-a : a \in Amounts} \subseteq Int
  BY <1>2
<1>4. QED
  BY <1>1, <1>3 DEF Deltas

\* Handlers that only answer, or only remember what to write, keep the types.
LEMMA CallTypes ==
  ASSUME LedgerTypeOK, NEW r \in LedgerRequests, NEW c \in Calls
  PROVE  [call EXCEPT ![r] = c] \in [LedgerRequests -> Calls]
  BY DEF LedgerTypeOK

LEMMA IdleIsCall == Idle \in Calls
  BY DEF Calls

\* One step of a ledger handler keeps every variable in its type.
LEMMA LedgerTypeStep == LedgerTypeOK /\ LedgerNext => LedgerTypeOK'
<1> SUFFICES ASSUME LedgerTypeOK, LedgerNext PROVE LedgerTypeOK'
  OBVIOUS
<1> USE DeltasAreInt, IdleIsCall, CallTypes
<1>1. ASSUME NEW w \in Wallets, CreateWallet(w) PROVE LedgerTypeOK'
  BY <1>1 DEF CreateWallet, LedgerTypeOK, Statuses
<1>2. ASSUME NEW r \in LedgerRequests, NEW w \in Wallets, NEW d \in Details,
             UpdateWallet(r, w, d)
      PROVE  LedgerTypeOK'
  <2>1. [op |-> "updateWallet", wallet |-> w, details |-> d] \in Calls
    BY DEF Calls
  <2>2. QED BY <1>2, <2>1 DEF UpdateWallet, Begin, LedgerTypeOK, walletVars
<1>3. ASSUME NEW r \in LedgerRequests, WriteWallet(r) PROVE LedgerTypeOK'
  <2>1. call[r] \in Calls /\ call[r].op = "updateWallet"
    BY <1>3 DEF WriteWallet, LedgerTypeOK
  <2>2. call[r].wallet \in Wallets /\ call[r].details \in Details
    BY <2>1 DEF Calls, Idle
  <2>3. QED BY <1>3, <2>2 DEF WriteWallet, Answer, LedgerTypeOK
<1>4. ASSUME NEW r \in LedgerRequests, NEW w \in Wallets, ArchiveWallet(r, w)
      PROVE  LedgerTypeOK'
  <2>1. [op |-> "archiveWallet", wallet |-> w] \in Calls
    BY DEF Calls
  <2>2. QED BY <1>4, <2>1 DEF ArchiveWallet, Begin, LedgerTypeOK, walletVars
<1>5. ASSUME NEW r \in LedgerRequests, WriteArchive(r) PROVE LedgerTypeOK'
  BY <1>5 DEF WriteArchive, Answer, LedgerTypeOK, Statuses
<1>6. ASSUME NEW r \in LedgerRequests, NEW w \in Wallets, NEW d \in Deltas,
             CreateTransaction(r, w, d)
      PROVE  LedgerTypeOK'
  <2>1. [op |-> "insertTransaction", wallet |-> w, delta |-> d] \in Calls
    BY DEF Calls
  <2>2. QED BY <1>6, <2>1 DEF CreateTransaction, Begin, LedgerTypeOK, walletVars
<1>7. ASSUME NEW r \in LedgerRequests, InsertTransaction(r) PROVE LedgerTypeOK'
  <2>1. call[r] \in Calls /\ call[r].op = "insertTransaction"
    BY <1>7 DEF InsertTransaction, LedgerTypeOK
  <2>2. call[r].wallet \in Wallets /\ call[r].delta \in Deltas
    BY <2>1 DEF Calls, Idle
  <2>3. call[r].delta \in Int
    BY <2>2
  <2>4. posted' \in [Wallets -> Int]
    BY <1>7, <2>2, <2>3 DEF InsertTransaction, LedgerTypeOK
  <2>5. QED BY <1>7, <2>4 DEF InsertTransaction, Answer, LedgerTypeOK, walletVars
<1>8. ASSUME NEW r \in LedgerRequests, NEW s \in Wallets, NEW d \in Wallets,
             NEW a \in Amounts, CreateTransfer(r, s, d, a)
      PROVE  LedgerTypeOK'
  <2>1. [op |-> "readDestination", source |-> s, dest |-> d, amount |-> a] \in Calls
    BY DEF Calls
  <2>2. QED BY <1>8, <2>1 DEF CreateTransfer, Begin, LedgerTypeOK, walletVars
<1>9. ASSUME NEW r \in LedgerRequests, ReadDestination(r) PROVE LedgerTypeOK'
  <2>1. call[r] \in Calls /\ call[r].op = "readDestination"
    BY <1>9 DEF ReadDestination, LedgerTypeOK
  <2>2. [call[r] EXCEPT !.op = "insertTransfer"] \in Calls
    BY <2>1 DEF Calls, Idle
  <2>3. QED BY <1>9, <2>2 DEF ReadDestination, Answer, LedgerTypeOK, walletVars
<1>10. ASSUME NEW r \in LedgerRequests, InsertTransfer(r) PROVE LedgerTypeOK'
  <2>1. call[r] \in Calls /\ call[r].op = "insertTransfer"
    BY <1>10 DEF InsertTransfer, LedgerTypeOK
  <2>2. /\ call[r].source \in Wallets /\ call[r].dest \in Wallets
        /\ call[r].amount \in Amounts
    BY <2>1 DEF Calls, Idle
  <2>3. call[r].amount \in Int
    BY <2>2
  <2>4. moved' \in [Wallets -> Int]
    BY <1>10, <2>2, <2>3 DEF InsertTransfer, LedgerTypeOK
  <2>5. QED BY <1>10, <2>4 DEF InsertTransfer, Answer, LedgerTypeOK, walletVars
<1>11. ASSUME NEW r \in LedgerRequests, Abandon(r) PROVE LedgerTypeOK'
  BY <1>11 DEF Abandon, Answer, LedgerTypeOK, walletVars
<1>12. QED
  BY <1>1, <1>2, <1>3, <1>4, <1>5, <1>6, <1>7, <1>8, <1>9, <1>10, <1>11 DEF LedgerNext

LEMMA LedgerTypeInit == LedgerInit => LedgerTypeOK
  BY IdleIsCall DEF LedgerInit, LedgerTypeOK, Statuses

LEMMA LedgerTypeStutter ==
  LedgerTypeOK /\ UNCHANGED ledgerVars => LedgerTypeOK'
  BY DEF LedgerTypeOK, ledgerVars, walletVars

\* Every table and every request in progress keeps its type.
THEOREM LedgerTypes == LedgerSpec => []LedgerTypeOK
<1>1. LedgerTypeOK /\ [LedgerNext]_<<ledgerVars, locks>> => LedgerTypeOK'
  BY LedgerTypeStep, LedgerTypeStutter
<1>2. QED
  BY LedgerTypeInit, <1>1, PTL DEF LedgerSpec, LedgerAlone

-----------------------------------------------------------------------------
\* What ArchivedWalletIsFrozen says of one step.
Frozen == \A w \in Wallets : status[w] = "archived"
             => /\ status'[w] = "archived"
                /\ details'[w] = details[w]
                /\ archivedAt'[w] = archivedAt[w]

LEMMA FrozenStep == LedgerTypeOK /\ LedgerNext => Frozen
<1> SUFFICES ASSUME LedgerTypeOK, LedgerNext, NEW v \in Wallets, status[v] = "archived"
             PROVE  /\ status'[v] = "archived"
                    /\ details'[v] = details[v]
                    /\ archivedAt'[v] = archivedAt[v]
  BY DEF Frozen
<1>1. ASSUME NEW w \in Wallets, CreateWallet(w)
      PROVE  status'[v] = "archived" /\ UNCHANGED <<details, archivedAt>>
  BY <1>1 DEF CreateWallet, LedgerTypeOK
<1>2. ASSUME NEW r \in LedgerRequests, WriteWallet(r)
      PROVE  details'[v] = details[v] /\ UNCHANGED <<status, archivedAt>>
  BY <1>2 DEF WriteWallet, LedgerTypeOK
<1>3. ASSUME NEW r \in LedgerRequests, WriteArchive(r)
      PROVE  /\ status'[v] = "archived"
             /\ archivedAt'[v] = archivedAt[v]
             /\ UNCHANGED details
  BY <1>3 DEF WriteArchive, LedgerTypeOK
<1>4. CASE UNCHANGED walletVars
  BY <1>4 DEF walletVars
<1>5. QED
  BY <1>1, <1>2, <1>3, <1>4 DEF LedgerNext, UpdateWallet, ArchiveWallet,
     CreateTransaction, InsertTransaction, CreateTransfer, ReadDestination,
     InsertTransfer, Abandon

\* An archived wallet never changes again, whatever was on its way to it.
THEOREM ArchiveFreezes == LedgerSpec => ArchivedWalletIsFrozen
<1>1. LedgerTypeOK /\ [LedgerNext]_<<ledgerVars, locks>> => [Frozen]_walletVars
  BY FrozenStep DEF ledgerVars
<1>2. QED
  BY LedgerTypes, <1>1, PTL DEF LedgerSpec, LedgerAlone, ArchivedWalletIsFrozen, Frozen

\* What ArchivedWalletSettles says of one step.
Settled == \A w \in Wallets : status[w] = "archived" /\ ~InFlight(w)
              => ~InFlight(w)' /\ posted'[w] = posted[w] /\ moved'[w] = moved[w]

LEMMA SettledStep == LedgerTypeOK /\ LedgerNext => Settled
<1> SUFFICES ASSUME LedgerTypeOK, LedgerNext,
                    NEW v \in Wallets, status[v] = "archived", ~InFlight(v)
             PROVE  ~InFlight(v)' /\ posted'[v] = posted[v] /\ moved'[v] = moved[v]
  BY DEF Settled
<1> DEFINE Out == ~InFlight(v)' /\ posted'[v] = posted[v] /\ moved'[v] = moved[v]
<1>a. ASSUME NEW r \in LedgerRequests, Answer(r) PROVE ~InFlight(v)'
  BY <1>a DEF Answer, InFlight, Idle, LedgerTypeOK
<1>1. ASSUME NEW w \in Wallets, CreateWallet(w) PROVE Out
  BY <1>1 DEF CreateWallet, InFlight
<1>2. ASSUME NEW r \in LedgerRequests, NEW w \in Wallets, NEW d \in Details,
             UpdateWallet(r, w, d)
      PROVE  Out
  BY <1>2 DEF UpdateWallet, Begin, InFlight, LedgerTypeOK
<1>3. ASSUME NEW r \in LedgerRequests, NEW w \in Wallets, ArchiveWallet(r, w)
      PROVE  Out
  BY <1>3 DEF ArchiveWallet, Begin, InFlight, LedgerTypeOK
<1>4. ASSUME NEW r \in LedgerRequests, WriteWallet(r) \/ WriteArchive(r) \/ Abandon(r)
      PROVE  Out
  BY <1>4, <1>a DEF WriteWallet, WriteArchive, Abandon
<1>5. ASSUME NEW r \in LedgerRequests, NEW w \in Wallets, NEW d \in Deltas,
             CreateTransaction(r, w, d)
      PROVE  Out
  BY <1>5 DEF CreateTransaction, Begin, InFlight, LedgerTypeOK
<1>6. ASSUME NEW r \in LedgerRequests, InsertTransaction(r) PROVE Out
  <2>1. call[r].wallet # v
    BY <1>6 DEF InsertTransaction, InFlight
  <2>2. QED BY <1>6, <1>a, <2>1 DEF InsertTransaction, LedgerTypeOK
<1>7. ASSUME NEW r \in LedgerRequests, NEW s \in Wallets, NEW d \in Wallets,
             NEW a \in Amounts, CreateTransfer(r, s, d, a)
      PROVE  Out
  BY <1>7 DEF CreateTransfer, Begin, InFlight, LedgerTypeOK
<1>8. ASSUME NEW r \in LedgerRequests, ReadDestination(r) PROVE Out
  <2>1. CASE Answer(r)
    BY <1>8, <1>a, <2>1 DEF ReadDestination
  <2>2. CASE ~Answer(r)
    <3>1. /\ call' = [call EXCEPT ![r].op = "insertTransfer"]
          /\ call[r].source # v /\ call[r].dest # v
      BY <1>8, <2>2 DEF ReadDestination, InFlight
    <3>2. call'[r].source = call[r].source /\ call'[r].dest = call[r].dest
      BY <1>8, <3>1 DEF ReadDestination, LedgerTypeOK, Calls, Idle
    <3>3. ~InFlight(v)'
      BY <1>8, <3>1, <3>2 DEF InFlight, LedgerTypeOK, ReadDestination
    <3>4. QED BY <1>8, <3>3 DEF ReadDestination
  <2>3. QED BY <2>1, <2>2
<1>9. ASSUME NEW r \in LedgerRequests, InsertTransfer(r) PROVE Out
  <2>1. call[r].source # v /\ call[r].dest # v
    BY <1>9 DEF InsertTransfer, InFlight
  <2>2. QED BY <1>9, <1>a, <2>1 DEF InsertTransfer, LedgerTypeOK
<1>10. QED
  BY <1>1, <1>2, <1>3, <1>4, <1>5, <1>6, <1>7, <1>8, <1>9 DEF LedgerNext

\* Once an archived wallet has no request left that saw it active, its balance
\* is final.
THEOREM ArchiveSettles == LedgerSpec => ArchivedWalletSettles
<1>1. LedgerTypeOK /\ [LedgerNext]_<<ledgerVars, locks>>
         => [Settled]_<<posted, moved, call>>
  BY SettledStep DEF ledgerVars
<1>2. QED
  BY LedgerTypes, <1>1, PTL DEF LedgerSpec, LedgerAlone, ArchivedWalletSettles, Settled

-----------------------------------------------------------------------------
(***************************************************************************)
(* Sums over finite sets.  The induction behind each fact is an argument   *)
(* about a smallest subset for which it fails, which needs no induction    *)
(* principle: strict inclusion among finite sets is well-founded.          *)
(***************************************************************************)
\* g folds f over every subset of S the way SumFunctionOnSet does.
FoldsOver(f, S, g) ==
    g = [s \in SUBSET S |->
           IF s = {} THEN 0
           ELSE f[CHOOSE x \in s : TRUE] + g[s \ {CHOOSE x \in s : TRUE}]]

Folded(f, S) == CHOOSE g : FoldsOver(f, S, g)

\* SumFunctionOnSet is the value, at the whole set, of the fold it chooses.
LEMMA SumIsFolded ==
  ASSUME NEW f, NEW S
  PROVE  SumFunctionOnSet(f, S) = Folded(f, S)[S]
  BY DEF SumFunctionOnSet, FoldFunctionOnSet, MapThenFoldSet, FoldsOver, Folded

\* Of the subsets of a finite set that belong to D one is minimal.
LEMMA MinimalSubset ==
  ASSUME NEW S, IsFiniteSet(S), NEW D, D \subseteq SUBSET S, D # {}
  PROVE  \E s \in D : IsFiniteSet(s) /\ \A t \in D : t \subseteq s => t = s
<1>1. D \subseteq FiniteSubsetsOf(S)
  BY FS_FiniteSubsetsOfFinite
<1>2. PICK s \in D : \A t \in D : <<t, s>> \notin StrictSubsetOrdering(S)
  BY <1>1, FS_StrictSubsetOrderingWellFounded, WFMin, Zenon
<1>3. IsFiniteSet(s)
  BY <1>1 DEF FiniteSubsetsOf
<1>4. ASSUME NEW t \in D, t \subseteq s PROVE t = s
  BY <1>2, <1>4 DEF StrictSubsetOrdering
<1>5. QED
  BY <1>3, <1>4

\* A fold over S is one over every subset of S.
LEMMA FoldRestricted ==
  ASSUME NEW f, NEW S, NEW g, FoldsOver(f, S, g), NEW T \in SUBSET S
  PROVE  FoldsOver(f, T, [s \in SUBSET T |-> g[s]])
<1> DEFINE h == [s \in SUBSET T |-> g[s]]
<1>1. ASSUME NEW s \in SUBSET T
      PROVE  h[s] = IF s = {} THEN 0
                    ELSE f[CHOOSE x \in s : TRUE] + h[s \ {CHOOSE x \in s : TRUE}]
  <2>1. s \in SUBSET S /\ s \ {CHOOSE x \in s : TRUE} \in SUBSET T
    OBVIOUS
  <2>2. g[s] = IF s = {} THEN 0
               ELSE f[CHOOSE x \in s : TRUE] + g[s \ {CHOOSE x \in s : TRUE}]
    BY <2>1, Zenon DEF FoldsOver
  <2>3. QED
    BY <2>1, <2>2, Zenon
<1>2. QED
  BY <1>1, Zenon DEF FoldsOver

\* There is at most one fold over a finite set.
LEMMA FoldUnique ==
  ASSUME NEW f, NEW S, IsFiniteSet(S), NEW g, FoldsOver(f, S, g), NEW h, FoldsOver(f, S, h)
  PROVE  g = h
<1> DEFINE D == {s \in SUBSET S : g[s] # h[s]}
<1>1. ASSUME D # {} PROVE FALSE
  <2>1. PICK s \in D : \A t \in D : t \subseteq s => t = s
    <3>1. D \subseteq SUBSET S
      OBVIOUS
    <3> HIDE DEF D
    <3>2. QED
      BY <1>1, <3>1, MinimalSubset
  <2>2. s # {}
    BY Zenon DEF FoldsOver
  <2> DEFINE t == s \ {CHOOSE x \in s : TRUE}
  <2>3. t \in SUBSET S /\ t \subseteq s /\ t # s
    BY <2>2
  <2>4. g[t] = h[t]
    BY <2>1, <2>3
  <2>5. g[s] = f[CHOOSE x \in s : TRUE] + g[t] /\ h[s] = f[CHOOSE x \in s : TRUE] + h[t]
    BY <2>2, Zenon DEF FoldsOver
  <2>6. QED
    BY <2>4, <2>5
<1>2. QED
  BY <1>1, Zenon DEF FoldsOver

\* A finite set has a fold.
LEMMA FoldExists ==
  ASSUME NEW f, NEW S, IsFiniteSet(S)
  PROVE  FoldsOver(f, S, Folded(f, S))
<1> DEFINE D == {s \in SUBSET S : ~ \E g : FoldsOver(f, s, g)}
<1>1. ASSUME D # {} PROVE FALSE
  <2>1. PICK u \in D : IsFiniteSet(u) /\ \A t \in D : t \subseteq u => t = u
    <3>1. D \subseteq SUBSET S
      OBVIOUS
    <3> HIDE DEF D
    <3>2. QED
      BY <1>1, <3>1, MinimalSubset
  <2> DEFINE rest(s) == s \ {CHOOSE x \in s : TRUE}
             g == [s \in SUBSET u |->
                     IF s = {} THEN 0
                     ELSE f[CHOOSE x \in s : TRUE] + Folded(f, rest(s))[rest(s)]]
  <2>2. ASSUME NEW s \in SUBSET u, s # u PROVE FoldsOver(f, s, Folded(f, s))
    <3>1. \E h : FoldsOver(f, s, h)
      BY <2>1, <2>2
    <3>2. QED
      BY <3>1, Zenon DEF Folded
  <2>3. ASSUME NEW s \in SUBSET u, s # {}
        PROVE  rest(s) \in SUBSET u /\ rest(s) # u
    BY <2>3
  <2>4. ASSUME NEW t \in SUBSET u, t # u PROVE g[t] = Folded(f, t)[t]
    <3>1. FoldsOver(f, t, Folded(f, t))
      BY <2>2, <2>4
    <3>2. CASE t = {}
      BY <3>1, <3>2, Zenon DEF FoldsOver
    <3>3. CASE t # {}
      <4>1. rest(t) \in SUBSET u /\ rest(t) # u /\ rest(t) \in SUBSET t
        BY <2>3, <3>3
      <4>2. FoldsOver(f, rest(t), Folded(f, rest(t)))
        BY <2>2, <4>1
      <4>3. FoldsOver(f, rest(t), [s \in SUBSET rest(t) |-> Folded(f, t)[s]])
        BY <3>1, <4>1, FoldRestricted, Zenon
      <4>4. IsFiniteSet(rest(t))
        BY <2>1, <4>1, FS_Subset
      <4>5. Folded(f, rest(t)) = [s \in SUBSET rest(t) |-> Folded(f, t)[s]]
        BY <4>2, <4>3, <4>4, FoldUnique, Zenon
      <4>6. Folded(f, rest(t))[rest(t)] = Folded(f, t)[rest(t)]
        BY <4>5
      <4>7. Folded(f, t)[t] = f[CHOOSE x \in t : TRUE] + Folded(f, t)[rest(t)]
        BY <3>1, <3>3, Zenon DEF FoldsOver
      <4>8. g[t] = f[CHOOSE x \in t : TRUE] + Folded(f, rest(t))[rest(t)]
        BY <2>4, <3>3, Zenon
      <4>9. QED
        BY <4>6, <4>7, <4>8, Zenon
    <3>4. QED
      BY <3>2, <3>3
  <2>5. ASSUME NEW s \in SUBSET u
        PROVE  g[s] = IF s = {} THEN 0 ELSE f[CHOOSE x \in s : TRUE] + g[rest(s)]
    <3>1. CASE s = {}
      BY <3>1
    <3>2. CASE s # {}
      <4>1. g[rest(s)] = Folded(f, rest(s))[rest(s)]
        BY <2>3, <2>4, <3>2, Zenon
      <4>2. g[s] = f[CHOOSE x \in s : TRUE] + Folded(f, rest(s))[rest(s)]
        BY <3>2, Zenon
      <4>3. QED
        BY <3>1, <4>1, <4>2, Zenon
    <3>3. QED
      BY <3>1, <3>2
  <2>6. FoldsOver(f, u, g)
    BY <2>5, Zenon DEF FoldsOver
  <2>7. QED
    BY <2>1, <2>6, Zenon
<1>2. \E g : FoldsOver(f, S, g)
  BY <1>1
<1>3. QED
  BY <1>2, Zenon DEF Folded

\* The sum over a nonempty finite set is that of a chosen element and the rest.
LEMMA SumUnfold ==
  ASSUME NEW f, NEW S, IsFiniteSet(S)
  PROVE  SumFunctionOnSet(f, S) =
           IF S = {} THEN 0
           ELSE f[CHOOSE x \in S : TRUE]
                  + SumFunctionOnSet(f, S \ {CHOOSE x \in S : TRUE})
<1> DEFINE T == S \ {CHOOSE x \in S : TRUE}
<1>1. FoldsOver(f, S, Folded(f, S))
  BY FoldExists
<1>2. FoldsOver(f, T, Folded(f, T)) /\ IsFiniteSet(T) /\ T \in SUBSET S
  <2>1. IsFiniteSet(T) /\ T \in SUBSET S
    BY FS_Subset
  <2>2. QED
    BY <2>1, FoldExists
<1>3. Folded(f, T) = [s \in SUBSET T |-> Folded(f, S)[s]]
  <2>1. FoldsOver(f, T, [s \in SUBSET T |-> Folded(f, S)[s]])
    BY <1>1, <1>2, FoldRestricted, Zenon
  <2>2. QED
    BY <1>2, <2>1, FoldUnique, Zenon
<1>4. Folded(f, T)[T] = Folded(f, S)[T]
  BY <1>3
<1>5. Folded(f, S)[S] = IF S = {} THEN 0
                        ELSE f[CHOOSE x \in S : TRUE] + Folded(f, S)[T]
  BY <1>1, Zenon DEF FoldsOver
<1>6. QED
  BY <1>4, <1>5, SumIsFolded, Zenon

\* The sum over nothing, and over a set with something in it.
LEMMA SumOfNone ==
  ASSUME NEW f
  PROVE  SumFunctionOnSet(f, {}) = 0
<1>1. IsFiniteSet({})
  BY FS_EmptySet
<1>2. QED
  BY <1>1, SumUnfold

LEMMA SumOfSome ==
  ASSUME NEW S, IsFiniteSet(S), S # {}
  PROVE  \E x \in S : \A f :
           SumFunctionOnSet(f, S) = f[x] + SumFunctionOnSet(f, S \ {x})
<1>1. PICK x \in S : x = CHOOSE y \in S : TRUE
  OBVIOUS
<1>2. ASSUME NEW f
      PROVE  SumFunctionOnSet(f, S) = f[x] + SumFunctionOnSet(f, S \ {x})
  <2>1. SumFunctionOnSet(f, S) =
           IF S = {} THEN 0
           ELSE f[CHOOSE y \in S : TRUE]
                  + SumFunctionOnSet(f, S \ {CHOOSE y \in S : TRUE})
    BY SumUnfold
  <2>2. QED
    BY <1>1, <2>1
<1>3. QED
  BY <1>2

\* A sum of integers is an integer.
LEMMA SumIsInt ==
  ASSUME NEW S, IsFiniteSet(S), NEW f, \A x \in S : f[x] \in Int
  PROVE  SumFunctionOnSet(f, S) \in Int
<1> DEFINE D == {s \in SUBSET S : SumFunctionOnSet(f, s) \notin Int}
<1>1. ASSUME D # {} PROVE FALSE
  <2>1. PICK s \in D : IsFiniteSet(s) /\ \A t \in D : t \subseteq s => t = s
    <3>1. D \subseteq SUBSET S
      OBVIOUS
    <3> HIDE DEF D
    <3>2. QED
      BY <1>1, <3>1, MinimalSubset
  <2>2. s # {}
    <3>1. SumFunctionOnSet(f, {}) \in Int
      BY SumOfNone
    <3>2. QED
      BY <2>1, <3>1
  <2>3. PICK x \in s :
          SumFunctionOnSet(f, s) = f[x] + SumFunctionOnSet(f, s \ {x})
    BY <2>1, <2>2, SumOfSome
  <2>4. s \ {x} \in SUBSET S /\ s \ {x} \subseteq s /\ s \ {x} # s
    BY <2>3
  <2>5. SumFunctionOnSet(f, s \ {x}) \in Int
    BY <2>1, <2>4
  <2>6. f[x] \in Int
    BY <2>1
  <2>7. QED
    BY <2>1, <2>3, <2>5, <2>6
<1>2. QED
  BY <1>1

\* A sum of natural numbers is one.
LEMMA SumIsNat ==
  ASSUME NEW S, IsFiniteSet(S), NEW f, \A x \in S : f[x] \in Nat
  PROVE  SumFunctionOnSet(f, S) \in Nat
<1> DEFINE D == {s \in SUBSET S : SumFunctionOnSet(f, s) \notin Nat}
<1>1. ASSUME D # {} PROVE FALSE
  <2>1. PICK s \in D : IsFiniteSet(s) /\ \A t \in D : t \subseteq s => t = s
    <3>1. D \subseteq SUBSET S
      OBVIOUS
    <3> HIDE DEF D
    <3>2. QED
      BY <1>1, <3>1, MinimalSubset
  <2>2. s # {}
    <3>1. SumFunctionOnSet(f, {}) \in Nat
      BY SumOfNone
    <3>2. QED
      BY <2>1, <3>1
  <2>3. PICK x \in s :
          SumFunctionOnSet(f, s) = f[x] + SumFunctionOnSet(f, s \ {x})
    BY <2>1, <2>2, SumOfSome
  <2>4. s \ {x} \in SUBSET S /\ s \ {x} \subseteq s /\ s \ {x} # s
    BY <2>3
  <2>5. SumFunctionOnSet(f, s \ {x}) \in Nat
    BY <2>1, <2>4
  <2>6. f[x] \in Nat
    BY <2>1
  <2>7. QED
    BY <2>1, <2>3, <2>5, <2>6
<1>2. QED
  BY <1>1

\* Any element can be taken out of a sum.
LEMMA SumTakeOut ==
  ASSUME NEW S, IsFiniteSet(S), NEW f, \A x \in S : f[x] \in Int, NEW x \in S
  PROVE  SumFunctionOnSet(f, S) = f[x] + SumFunctionOnSet(f, S \ {x})
<1> DEFINE Takes(s) == \A y \in s :
             SumFunctionOnSet(f, s) = f[y] + SumFunctionOnSet(f, s \ {y})
           D == {s \in SUBSET S : ~Takes(s)}
<1>1. ASSUME D # {} PROVE FALSE
  <2>1. PICK s \in D : IsFiniteSet(s) /\ \A t \in D : t \subseteq s => t = s
    <3>1. D \subseteq SUBSET S
      OBVIOUS
    <3> HIDE DEF D
    <3>2. QED
      BY <1>1, <3>1, MinimalSubset
  <2>2. ASSUME NEW t \in SUBSET s, t # s PROVE Takes(t)
    BY <2>1, <2>2
  <2>3. ASSUME NEW y \in s
        PROVE  SumFunctionOnSet(f, s) = f[y] + SumFunctionOnSet(f, s \ {y})
    <3>1. PICK z \in s :
            SumFunctionOnSet(f, s) = f[z] + SumFunctionOnSet(f, s \ {z})
      <4>1. s # {}
        BY <2>3
      <4>2. QED
        BY <2>1, <4>1, SumOfSome
    <3>3. CASE y = z
      BY <3>1, <3>3
    <3>4. CASE y # z
      <4>1. SumFunctionOnSet(f, s \ {z}) = f[y] + SumFunctionOnSet(f, (s \ {z}) \ {y})
        <5>1. Takes(s \ {z}) /\ y \in s \ {z}
          BY <2>2, <2>3, <3>1, <3>4
        <5>2. QED
          BY <5>1
      <4>2. SumFunctionOnSet(f, s \ {y}) = f[z] + SumFunctionOnSet(f, (s \ {z}) \ {y})
        <5>1. Takes(s \ {y}) /\ z \in s \ {y} /\ (s \ {y}) \ {z} = (s \ {z}) \ {y}
          BY <2>2, <2>3, <3>1, <3>4
        <5>2. QED
          BY <5>1
      <4>3. IsFiniteSet((s \ {z}) \ {y}) /\ \A c \in (s \ {z}) \ {y} : f[c] \in Int
        BY <2>1, FS_Subset
      <4>4. SumFunctionOnSet(f, (s \ {z}) \ {y}) \in Int
        BY <4>3, SumIsInt
      <4>5. f[y] \in Int /\ f[z] \in Int
        BY <2>1, <2>3, <3>1
      <4>6. QED
        BY <3>1, <4>1, <4>2, <4>4, <4>5
    <3>5. QED
      BY <3>3, <3>4
  <2>4. QED
    BY <2>1, <2>3
<1>2. Takes(S)
  BY <1>1
<1>3. QED
  BY <1>2

\* Equal summands give equal sums.
LEMMA SumOfEqual ==
  ASSUME NEW S, IsFiniteSet(S), NEW f, NEW g, \A x \in S : f[x] = g[x]
  PROVE  SumFunctionOnSet(f, S) = SumFunctionOnSet(g, S)
<1> DEFINE D == {s \in SUBSET S : SumFunctionOnSet(f, s) # SumFunctionOnSet(g, s)}
<1>1. ASSUME D # {} PROVE FALSE
  <2>1. PICK s \in D : IsFiniteSet(s) /\ \A t \in D : t \subseteq s => t = s
    <3>1. D \subseteq SUBSET S
      OBVIOUS
    <3> HIDE DEF D
    <3>2. QED
      BY <1>1, <3>1, MinimalSubset
  <2>2. s # {}
    BY <2>1, SumOfNone
  <2>3. PICK x \in s : \A h :
          SumFunctionOnSet(h, s) = h[x] + SumFunctionOnSet(h, s \ {x})
    BY <2>1, <2>2, SumOfSome
  <2>4. /\ SumFunctionOnSet(f, s) = f[x] + SumFunctionOnSet(f, s \ {x})
        /\ SumFunctionOnSet(g, s) = g[x] + SumFunctionOnSet(g, s \ {x})
        /\ f[x] = g[x]
    BY <2>1, <2>3
  <2>5. s \ {x} \in SUBSET S /\ s \ {x} \subseteq s /\ s \ {x} # s
    BY <2>3
  <2>6. SumFunctionOnSet(f, s \ {x}) = SumFunctionOnSet(g, s \ {x})
    BY <2>1, <2>5
  <2>7. QED
    BY <2>1, <2>4, <2>6
<1>2. QED
  BY <1>1

\* Changing one summand changes the sum by the difference.
LEMMA SumChange ==
  ASSUME NEW S, IsFiniteSet(S), NEW x \in S,
         NEW f, \A y \in S : f[y] \in Int,
         NEW g, g[x] \in Int, \A y \in S : y # x => g[y] = f[y]
  PROVE  SumFunctionOnSet(g, S) = SumFunctionOnSet(f, S) + (g[x] - f[x])
<1>1. IsFiniteSet(S \ {x})
  BY FS_Subset
<1>2. SumFunctionOnSet(f, S \ {x}) = SumFunctionOnSet(g, S \ {x})
  BY <1>1, SumOfEqual
<1>3. SumFunctionOnSet(f, S) = f[x] + SumFunctionOnSet(f, S \ {x})
  BY SumTakeOut
<1>4. \A y \in S : g[y] \in Int
  OBVIOUS
<1>5. SumFunctionOnSet(g, S) = g[x] + SumFunctionOnSet(g, S \ {x})
  BY <1>4, SumTakeOut
<1>6. SumFunctionOnSet(f, S \ {x}) \in Int /\ f[x] \in Int
  BY <1>1, SumIsInt
<1>7. QED
  BY <1>2, <1>3, <1>5, <1>6

\* A new element adds its summand.
LEMMA SumAdd ==
  ASSUME NEW S, IsFiniteSet(S), NEW x, x \notin S,
         NEW f, \A y \in S \cup {x} : f[y] \in Int
  PROVE  SumFunctionOnSet(f, S \cup {x}) = SumFunctionOnSet(f, S) + f[x]
<1>1. IsFiniteSet(S \cup {x}) /\ (S \cup {x}) \ {x} = S
  BY FS_AddElement
<1>2. SumFunctionOnSet(f, S \cup {x}) = f[x] + SumFunctionOnSet(f, S)
  BY <1>1, SumTakeOut
<1>3. SumFunctionOnSet(f, S) \in Int
  BY SumIsInt
<1>4. QED
  BY <1>2, <1>3

\* No summand is more than a sum of natural numbers.
LEMMA SumBounds ==
  ASSUME NEW S, IsFiniteSet(S), NEW f, \A y \in S : f[y] \in Nat, NEW x \in S
  PROVE  f[x] <= SumFunctionOnSet(f, S)
<1>1. IsFiniteSet(S \ {x}) /\ \A y \in S : f[y] \in Int
  BY FS_Subset
<1>2. SumFunctionOnSet(f, S \ {x}) \in Nat
  BY <1>1, SumIsNat
<1>3. SumFunctionOnSet(f, S) = f[x] + SumFunctionOnSet(f, S \ {x})
  BY <1>1, SumTakeOut
<1>4. QED
  BY <1>2, <1>3

\* The sum of two functions taken together is that of each.
LEMMA SumOfBoth ==
  ASSUME NEW S, IsFiniteSet(S), NEW f, NEW g, NEW h,
         \A x \in S : f[x] \in Int /\ g[x] \in Int /\ h[x] = f[x] + g[x]
  PROVE  SumFunctionOnSet(h, S) = SumFunctionOnSet(f, S) + SumFunctionOnSet(g, S)
<1> DEFINE D == {s \in SUBSET S :
                   SumFunctionOnSet(h, s) # SumFunctionOnSet(f, s) + SumFunctionOnSet(g, s)}
<1>1. ASSUME D # {} PROVE FALSE
  <2>1. PICK s \in D : IsFiniteSet(s) /\ \A t \in D : t \subseteq s => t = s
    <3>1. D \subseteq SUBSET S
      OBVIOUS
    <3> HIDE DEF D
    <3>2. QED
      BY <1>1, <3>1, MinimalSubset
  <2>2. s # {}
    <3>1. SumFunctionOnSet(h, {}) = SumFunctionOnSet(f, {}) + SumFunctionOnSet(g, {})
      <4>1. /\ SumFunctionOnSet(h, {}) = 0 /\ SumFunctionOnSet(f, {}) = 0
            /\ SumFunctionOnSet(g, {}) = 0
        BY SumOfNone
      <4>2. QED
        BY <4>1
    <3>2. QED
      BY <2>1, <3>1
  <2>3. PICK x \in s : \A k :
          SumFunctionOnSet(k, s) = k[x] + SumFunctionOnSet(k, s \ {x})
    BY <2>1, <2>2, SumOfSome
  <2>4. /\ s \ {x} \in SUBSET S /\ s \ {x} \subseteq s /\ s \ {x} # s
        /\ IsFiniteSet(s \ {x})
    BY <2>1, <2>3, FS_Subset
  <2>5. SumFunctionOnSet(h, s \ {x})
          = SumFunctionOnSet(f, s \ {x}) + SumFunctionOnSet(g, s \ {x})
    BY <2>1, <2>4
  <2>6. SumFunctionOnSet(f, s \ {x}) \in Int /\ SumFunctionOnSet(g, s \ {x}) \in Int
    <3>1. (\A y \in s \ {x} : f[y] \in Int) /\ \A y \in s \ {x} : g[y] \in Int
      BY <2>1
    <3>2. QED
      BY <2>4, <3>1, SumIsInt
  <2>7. /\ SumFunctionOnSet(h, s) = h[x] + SumFunctionOnSet(h, s \ {x})
        /\ SumFunctionOnSet(f, s) = f[x] + SumFunctionOnSet(f, s \ {x})
        /\ SumFunctionOnSet(g, s) = g[x] + SumFunctionOnSet(g, s \ {x})
    BY <2>3
  <2>8. f[x] \in Int /\ g[x] \in Int /\ h[x] = f[x] + g[x]
    BY <2>1
  <2>9. SumFunctionOnSet(h, s) = SumFunctionOnSet(f, s) + SumFunctionOnSet(g, s)
    BY <2>5, <2>6, <2>7, <2>8
  <2>10. QED
    BY <2>1, <2>9
<1>2. QED
  BY <1>1

-----------------------------------------------------------------------------
(***************************************************************************)
(* Transfers.                                                              *)
(***************************************************************************)
\* Only wallets that are there send or receive, finitely many are there, and a
\* transfer about to be inserted passed the comparisons of ReadDestination.
TransfersStand ==
    /\ IsFiniteSet({w \in Wallets : status[w] # "absent"})
    /\ \A w \in Wallets : status[w] = "absent" => moved[w] = 0
    /\ \A r \in LedgerRequests :
         LET c == call[r] IN
         /\ c.op = "readDestination" => status[c.source] # "absent"
         /\ c.op = "insertTransfer" =>
              /\ c.source # c.dest
              /\ status[c.source] # "absent" /\ status[c.dest] # "absent"
              /\ Currency[c.source] = Currency[c.dest]

LedgerInv == LedgerTypeOK /\ TransfersStand /\ TransfersConserve

\* The wallets whose transfers one currency adds up.
WalletsIn(c) == {w \in Wallets : status[w] # "absent" /\ Currency[w] = c}

LEMMA WalletsAreFinite ==
  ASSUME TransfersStand, NEW c
  PROVE  IsFiniteSet(WalletsIn(c))
<1>1. WalletsIn(c) \subseteq {w \in Wallets : status[w] # "absent"}
  BY DEF WalletsIn
<1>2. QED
  BY <1>1, FS_Subset DEF TransfersStand

\* A new wallet has moved nothing.
LEMMA CreateWalletConserves ==
  ASSUME LedgerInv, NEW v \in Wallets, CreateWallet(v)
  PROVE  TransfersStand' /\ TransfersConserve'
<1>1. /\ status[v] = "absent" /\ moved[v] = 0
      /\ status' = [status EXCEPT ![v] = "active"] /\ status \in [Wallets -> Statuses]
      /\ UNCHANGED <<moved, call>> /\ moved \in [Wallets -> Int]
  BY DEF LedgerInv, TransfersStand, CreateWallet, LedgerTypeOK
<1>2. \A w \in Wallets : status[w] # "absent" => status'[w] # "absent"
  BY <1>1
<1>3. TransfersStand'
  <2>1. {w \in Wallets : status'[w] # "absent"}
          = {w \in Wallets : status[w] # "absent"} \cup {v}
    BY <1>1
  <2>2. IsFiniteSet({w \in Wallets : status'[w] # "absent"})
    BY <2>1, FS_AddElement DEF LedgerInv, TransfersStand
  <2>3. \A w \in Wallets : status'[w] = "absent" => moved'[w] = 0
    BY <1>1, <1>2 DEF LedgerInv, TransfersStand
  <2>4. ASSUME NEW r \in LedgerRequests
        PROVE  /\ call'[r].op = "readDestination" => status'[call'[r].source] # "absent"
               /\ call'[r].op = "insertTransfer" =>
                    /\ call'[r].source # call'[r].dest
                    /\ status'[call'[r].source] # "absent"
                    /\ status'[call'[r].dest] # "absent"
                    /\ Currency[call'[r].source] = Currency[call'[r].dest]
    BY <1>1 DEF LedgerInv, TransfersStand
  <2>5. QED
    BY <2>2, <2>3, <2>4 DEF TransfersStand
<1>4. ASSUME NEW c \in {Currency[w] : w \in Wallets}
      PROVE  SumFunctionOnSet(moved', WalletsIn(c)') = 0
  <2>1. SumFunctionOnSet(moved, WalletsIn(c)) = 0
    BY DEF LedgerInv, TransfersConserve, WalletsIn
  <2>2. CASE Currency[v] # c
    <3>1. WalletsIn(c)' = WalletsIn(c)
      BY <1>1, <2>2 DEF WalletsIn
    <3>2. QED
      BY <1>1, <2>1, <3>1
  <2>3. CASE Currency[v] = c
    <3>1. WalletsIn(c)' = WalletsIn(c) \cup {v} /\ v \notin WalletsIn(c)
      BY <1>1, <2>3 DEF WalletsIn
    <3>2. IsFiniteSet(WalletsIn(c))
      BY WalletsAreFinite DEF LedgerInv
    <3>3. \A w \in WalletsIn(c) \cup {v} : moved[w] \in Int
      BY <1>1 DEF WalletsIn
    <3>4. SumFunctionOnSet(moved, WalletsIn(c) \cup {v}) = 0 + moved[v]
      BY <2>1, <3>1, <3>2, <3>3, SumAdd
    <3>5. QED
      BY <1>1, <3>1, <3>4
  <2>4. QED
    BY <2>2, <2>3
<1>5. QED
  BY <1>3, <1>4 DEF TransfersConserve, WalletsIn

\* What a transfer takes from one wallet it gives to another of its currency.
LEMMA InsertTransferConserves ==
  ASSUME LedgerInv, NEW r \in LedgerRequests, InsertTransfer(r)
  PROVE  TransfersStand' /\ TransfersConserve'
<1> DEFINE s == call[r].source
           d == call[r].dest
           a == call[r].amount
<1>1. /\ call[r] \in Calls /\ call[r].op = "insertTransfer"
      /\ moved' = [moved EXCEPT ![s] = @ - a, ![d] = @ + a]
      /\ call' = [call EXCEPT ![r] = Idle] /\ UNCHANGED status
      /\ moved \in [Wallets -> Int] /\ call \in [LedgerRequests -> Calls]
  BY DEF LedgerInv, LedgerTypeOK, InsertTransfer, Answer, walletVars
<1>2. s \in Wallets /\ d \in Wallets /\ a \in Int
  <2>1. s \in Wallets /\ d \in Wallets /\ a \in Amounts
    BY <1>1 DEF Calls, Idle
  <2>2. QED
    BY <2>1, DeltasAreInt
<1>3. /\ s # d /\ status[s] # "absent" /\ status[d] # "absent"
      /\ Currency[s] = Currency[d]
  BY <1>1 DEF LedgerInv, TransfersStand
<1> HIDE DEF s, d, a
<1>4. TransfersStand'
  <2>1. \A w \in Wallets : status'[w] = "absent" => moved'[w] = 0
    BY <1>1, <1>2, <1>3 DEF LedgerInv, TransfersStand
  <2>2. \A q \in LedgerRequests : call'[q] = Idle \/ call'[q] = call[q]
    BY <1>1
  <2>3. QED
    BY <1>1, <2>1, <2>2 DEF LedgerInv, TransfersStand, Idle
<1>5. ASSUME NEW c \in {Currency[w] : w \in Wallets}
      PROVE  SumFunctionOnSet(moved', WalletsIn(c)) = 0
  <2>1. SumFunctionOnSet(moved, WalletsIn(c)) = 0
    BY DEF LedgerInv, TransfersConserve, WalletsIn
  <2>2. IsFiniteSet(WalletsIn(c))
    BY WalletsAreFinite DEF LedgerInv
  <2>3. CASE Currency[s] # c
    <3>1. \A w \in WalletsIn(c) : moved'[w] = moved[w]
      BY <1>1, <1>2, <1>3, <2>3 DEF WalletsIn
    <3>2. QED
      BY <2>1, <2>2, <3>1, SumOfEqual
  <2>4. CASE Currency[s] = c
    <3> DEFINE m == [moved EXCEPT ![s] = @ - a]
    <3>1. s \in WalletsIn(c) /\ d \in WalletsIn(c) /\ WalletsIn(c) \subseteq Wallets
      BY <1>2, <1>3, <2>4 DEF WalletsIn
    <3>2. /\ m \in [Wallets -> Int]
          /\ m[s] = moved[s] - a /\ m[d] = moved[d]
          /\ \A w \in WalletsIn(c) : w # s => m[w] = moved[w]
      BY <1>1, <1>2, <1>3, <3>1
    <3>3. /\ moved'[d] = moved[d] + a /\ moved'[d] \in Int
          /\ \A w \in WalletsIn(c) : w # d => moved'[w] = m[w]
      BY <1>1, <1>2, <1>3, <3>1
    <3> HIDE DEF m
    <3>4. (\A w \in WalletsIn(c) : m[w] \in Int) /\ \A w \in WalletsIn(c) : moved[w] \in Int
      BY <1>1, <3>1, <3>2
    <3>5. SumFunctionOnSet(m, WalletsIn(c))
            = SumFunctionOnSet(moved, WalletsIn(c)) + (m[s] - moved[s])
      BY <2>2, <3>1, <3>2, <3>4, SumChange
    <3>6. SumFunctionOnSet(moved', WalletsIn(c))
            = SumFunctionOnSet(m, WalletsIn(c)) + (moved'[d] - m[d])
      BY <2>2, <3>1, <3>3, <3>4, SumChange
    <3>7. moved[s] \in Int /\ moved[d] \in Int
      BY <1>1, <1>2
    <3>8. QED
      BY <1>2, <2>1, <3>2, <3>3, <3>5, <3>6, <3>7
  <2>5. QED
    BY <2>3, <2>4
<1>6. QED
  BY <1>1, <1>4, <1>5 DEF TransfersConserve, WalletsIn

\* A step that moves nothing and makes no wallet come or go conserves.
LEMMA StillConserves ==
  ASSUME TransfersConserve, UNCHANGED moved,
         \A w \in Wallets : status'[w] = "absent" <=> status[w] = "absent"
  PROVE  TransfersConserve'
<1>1. ASSUME NEW c PROVE WalletsIn(c)' = WalletsIn(c)
  BY DEF WalletsIn
<1>2. ASSUME NEW c \in {Currency[w] : w \in Wallets}
      PROVE  SumFunctionOnSet(moved', WalletsIn(c)') = 0
  <2>1. SumFunctionOnSet(moved, WalletsIn(c)) = 0
    BY DEF TransfersConserve, WalletsIn
  <2>2. QED
    BY <1>1, <2>1
<1>3. QED
  BY <1>2 DEF TransfersConserve, WalletsIn

\* What a request goes on with: a transfer only as ReadDestination lets it.
Sound(c) ==
    /\ c.op = "readDestination" => status[c.source] # "absent"
    /\ c.op = "insertTransfer" =>
         /\ c.source # c.dest
         /\ status[c.source] # "absent" /\ status[c.dest] # "absent"
         /\ Currency[c.source] = Currency[c.dest]

LEMMA OnlyCallsConserve ==
  ASSUME LedgerInv, NEW r \in LedgerRequests, NEW c \in Calls, Sound(c),
         call' = [call EXCEPT ![r] = c], UNCHANGED moved,
         \A w \in Wallets : status'[w] = "absent" <=> status[w] = "absent"
  PROVE  TransfersStand' /\ TransfersConserve'
<1>1. TransfersConserve'
  BY StillConserves DEF LedgerInv
<1>2. {w \in Wallets : status'[w] # "absent"} = {w \in Wallets : status[w] # "absent"}
  OBVIOUS
<1>3. IsFiniteSet({w \in Wallets : status'[w] # "absent"})
  BY <1>2 DEF LedgerInv, TransfersStand
<1>4. \A w \in Wallets : status'[w] = "absent" => moved'[w] = 0
  BY DEF LedgerInv, TransfersStand
<1>5. ASSUME NEW q \in LedgerRequests
      PROVE  /\ call'[q].op = "readDestination" => status'[call'[q].source] # "absent"
             /\ call'[q].op = "insertTransfer" =>
                  /\ call'[q].source # call'[q].dest
                  /\ status'[call'[q].source] # "absent"
                  /\ status'[call'[q].dest] # "absent"
                  /\ Currency[call'[q].source] = Currency[call'[q].dest]
  <2>1. call'[q] \in {c, call[q]} /\ Sound(call'[q])
    BY DEF LedgerInv, LedgerTypeOK, TransfersStand, Sound
  <2>2. call'[q] \in Calls
    BY DEF LedgerInv, LedgerTypeOK
  <2>3. QED
    BY <2>1, <2>2 DEF Sound, Calls, Idle
<1>6. QED
  BY <1>1, <1>3, <1>4, <1>5 DEF TransfersStand

LEMMA LedgerInvInit == LedgerInit => LedgerInv
<1> SUFFICES ASSUME LedgerInit PROVE LedgerInv
  OBVIOUS
<1>1. LedgerTypeOK
  BY LedgerTypeInit
<1>2. {w \in Wallets : status[w] # "absent"} = {}
  BY DEF LedgerInit
<1>3. TransfersStand
  BY <1>2, FS_EmptySet DEF LedgerInit, TransfersStand, Idle
<1>4. ASSUME NEW c PROVE SumFunctionOnSet(moved, WalletsIn(c)) = 0
  <2>1. WalletsIn(c) = {}
    BY <1>2 DEF WalletsIn
  <2>2. QED
    BY <2>1, SumOfNone
<1>5. QED
  BY <1>1, <1>3, <1>4 DEF LedgerInv, TransfersConserve, WalletsIn

LEMMA LedgerInvStep == LedgerInv /\ LedgerNext => LedgerInv'
<1> SUFFICES ASSUME LedgerInv, LedgerNext PROVE LedgerInv'
  OBVIOUS
<1> DEFINE Conserves == TransfersStand' /\ TransfersConserve'
<1>1. LedgerTypeOK /\ LedgerTypeOK'
  BY LedgerTypeStep DEF LedgerInv
<1>2. ASSUME NEW r \in LedgerRequests, Answer(r), UNCHANGED moved,
             \A w \in Wallets : status'[w] = "absent" <=> status[w] = "absent"
      PROVE  Conserves
  <2>1. Idle \in Calls /\ Sound(Idle) /\ call' = [call EXCEPT ![r] = Idle]
    BY <1>2, IdleIsCall DEF Answer, Sound, Idle
  <2>2. QED
    BY <1>2, <2>1, OnlyCallsConserve
<1>3. ASSUME NEW r \in LedgerRequests, NEW c \in Calls, Begin(r, c), Sound(c),
             UNCHANGED <<moved, status>>
      PROVE  Conserves
  BY <1>3, OnlyCallsConserve DEF Begin
<1>4. ASSUME NEW w \in Wallets, CreateWallet(w) PROVE Conserves
  BY <1>4, CreateWalletConserves
<1>5. ASSUME NEW r \in LedgerRequests, NEW w \in Wallets, NEW d \in Details,
             UpdateWallet(r, w, d)
      PROVE  Conserves
  <2> DEFINE c == [op |-> "updateWallet", wallet |-> w, details |-> d]
  <2>1. c \in Calls /\ Sound(c)
    BY DEF Calls, Sound
  <2>2. Begin(r, c) /\ UNCHANGED <<moved, status>>
    BY <1>5 DEF UpdateWallet, walletVars
  <2>3. QED
    BY <1>3, <2>1, <2>2
<1>6. ASSUME NEW r \in LedgerRequests, WriteWallet(r) \/ Abandon(r) PROVE Conserves
  BY <1>2, <1>6 DEF WriteWallet, Abandon, walletVars
<1>7. ASSUME NEW r \in LedgerRequests, NEW w \in Wallets, ArchiveWallet(r, w)
      PROVE  Conserves
  <2> DEFINE c == [op |-> "archiveWallet", wallet |-> w]
  <2>1. c \in Calls /\ Sound(c)
    BY DEF Calls, Sound
  <2>2. Begin(r, c) /\ UNCHANGED <<moved, status>>
    BY <1>7 DEF ArchiveWallet, walletVars
  <2>3. QED
    BY <1>3, <2>1, <2>2
<1>8. ASSUME NEW r \in LedgerRequests, WriteArchive(r) PROVE Conserves
  <2>1. \A w \in Wallets : status'[w] = "absent" <=> status[w] = "absent"
    BY <1>1, <1>8 DEF WriteArchive, LedgerTypeOK
  <2>2. QED
    BY <1>2, <1>8, <2>1 DEF WriteArchive
<1>9. ASSUME NEW r \in LedgerRequests, NEW w \in Wallets, NEW d \in Deltas,
             CreateTransaction(r, w, d)
      PROVE  Conserves
  <2> DEFINE c == [op |-> "insertTransaction", wallet |-> w, delta |-> d]
  <2>1. c \in Calls /\ Sound(c)
    BY DEF Calls, Sound
  <2>2. Begin(r, c) /\ UNCHANGED <<moved, status>>
    BY <1>9 DEF CreateTransaction, walletVars
  <2>3. QED
    BY <1>3, <2>1, <2>2
<1>10. ASSUME NEW r \in LedgerRequests, InsertTransaction(r) PROVE Conserves
  BY <1>2, <1>10 DEF InsertTransaction, walletVars
<1>11. ASSUME NEW r \in LedgerRequests, NEW s \in Wallets, NEW d \in Wallets,
              NEW a \in Amounts, CreateTransfer(r, s, d, a)
       PROVE  Conserves
  <2> DEFINE c == [op |-> "readDestination", source |-> s, dest |-> d, amount |-> a]
  <2>1. c \in Calls
    BY DEF Calls
  <2>2. Sound(c)
    BY <1>11 DEF CreateTransfer, Sound
  <2>3. Begin(r, c) /\ UNCHANGED <<moved, status>>
    BY <1>11 DEF CreateTransfer, walletVars
  <2>4. QED
    BY <1>3, <2>1, <2>2, <2>3
<1>12. ASSUME NEW r \in LedgerRequests, ReadDestination(r) PROVE Conserves
  <2>1. CASE Answer(r)
    BY <1>2, <1>12, <2>1 DEF ReadDestination, walletVars
  <2>2. CASE ~Answer(r)
    <3> DEFINE c == [call[r] EXCEPT !.op = "insertTransfer"]
    <3>1. /\ call[r].op = "readDestination" /\ call' = [call EXCEPT ![r] = c]
          /\ status[call[r].dest] = "active" /\ call[r].source # call[r].dest
          /\ Currency[call[r].source] = Currency[call[r].dest]
          /\ UNCHANGED <<moved, status>>
      BY <1>12, <2>2 DEF ReadDestination, walletVars
    <3>2. call[r] \in [op: {"readDestination", "insertTransfer"},
                       source: Wallets, dest: Wallets, amount: Amounts]
      BY <1>1, <3>1 DEF LedgerTypeOK, Calls, Idle
    <3>3. /\ c \in Calls /\ c.source = call[r].source /\ c.dest = call[r].dest
          /\ c.op = "insertTransfer"
      BY <3>2 DEF Calls
    <3>4. status[call[r].source] # "absent"
      BY <3>1 DEF LedgerInv, TransfersStand
    <3> HIDE DEF c
    <3>5. Sound(c)
      BY <3>1, <3>3, <3>4 DEF Sound
    <3>6. QED
      BY <3>1, <3>3, <3>5, OnlyCallsConserve
  <2>3. QED
    BY <2>1, <2>2
<1>13. ASSUME NEW r \in LedgerRequests, InsertTransfer(r) PROVE Conserves
  BY <1>13, InsertTransferConserves
<1>14. Conserves
  BY <1>4, <1>5, <1>6, <1>7, <1>8, <1>9, <1>10, <1>11, <1>12, <1>13 DEF LedgerNext
<1>15. QED
  BY <1>1, <1>14 DEF LedgerInv

LEMMA LedgerInvStutter == LedgerInv /\ UNCHANGED ledgerVars => LedgerInv'
<1> SUFFICES ASSUME LedgerInv, UNCHANGED ledgerVars PROVE LedgerInv'
  OBVIOUS
<1>1. LedgerTypeOK' /\ UNCHANGED <<status, moved, call>>
  BY LedgerTypeStutter DEF LedgerInv, ledgerVars, walletVars
<1>2. QED
  BY <1>1 DEF LedgerInv, TransfersStand, TransfersConserve

LEMMA LedgerInvariant == LedgerSpec => []LedgerInv
<1>1. LedgerInv /\ [LedgerNext]_<<ledgerVars, locks>> => LedgerInv'
  BY LedgerInvStep, LedgerInvStutter
<1>2. QED
  BY LedgerInvInit, <1>1, PTL DEF LedgerSpec, LedgerAlone

\* Transfers neither make nor lose money: in every currency they cancel out
\* over the wallets that exist, however many there are.
THEOREM TransfersAlwaysConserve == LedgerSpec => []TransfersConserve
<1>1. LedgerInv => TransfersConserve
  BY DEF LedgerInv
<1>2. QED
  BY LedgerInvariant, <1>1, PTL

\* What the balances of a currency add up to is its income less its expenses:
\* whoever adds up the wallets sees no transfer.
BalancesAddUp ==
    \A c \in {Currency[w] : w \in Wallets} :
        SumFunctionOnSet([w \in Wallets |-> LedgerBalance(w)], WalletsIn(c))
          = SumFunctionOnSet(posted, WalletsIn(c))

LEMMA ConservedBalances == LedgerInv => BalancesAddUp
<1> SUFFICES ASSUME LedgerInv, NEW c \in {Currency[w] : w \in Wallets}
             PROVE  SumFunctionOnSet([w \in Wallets |-> LedgerBalance(w)], WalletsIn(c))
                      = SumFunctionOnSet(posted, WalletsIn(c))
  BY DEF BalancesAddUp
<1> DEFINE balance == [w \in Wallets |-> LedgerBalance(w)]
<1>1. IsFiniteSet(WalletsIn(c))
  BY WalletsAreFinite DEF LedgerInv
<1>2. \A w \in WalletsIn(c) :
        posted[w] \in Int /\ moved[w] \in Int /\ balance[w] = posted[w] + moved[w]
  BY DEF LedgerInv, LedgerTypeOK, WalletsIn, LedgerBalance
<1>3. SumFunctionOnSet(moved, WalletsIn(c)) = 0
  BY DEF LedgerInv, TransfersConserve, WalletsIn
<1> HIDE DEF balance
<1>4. SumFunctionOnSet(balance, WalletsIn(c))
        = SumFunctionOnSet(posted, WalletsIn(c)) + SumFunctionOnSet(moved, WalletsIn(c))
  BY <1>1, <1>2, SumOfBoth
<1>5. SumFunctionOnSet(posted, WalletsIn(c)) \in Int
  BY <1>1, <1>2, SumIsInt
<1>6. QED
  BY <1>3, <1>4, <1>5 DEF balance

\* A currency's balances add up to its transactions alone at every moment.
THEOREM BalancesAlwaysAddUp == LedgerSpec => []BalancesAddUp
  BY LedgerInvariant, ConservedBalances, PTL
=============================================================================
