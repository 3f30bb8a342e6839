CONSTANTS
    w1 = w1
    c1 = c1
    v1 = v1
    v2 = v2
    r1 = r1
    b1 = b1
    b2 = b2
    Wallets = {w1}
    Currency <- MCCurrency
    LedgerRequests = {r1}
    Amounts = {1, 2}
    Details = {"d"}
    LedgerBound = 2
    NoTime = NoTime
    CaptureIds = {c1}
    InboxRequests = {v1, v2}
    Budgets = {b1, b2}
    BudgetCurrency <- MCBudgetCurrency
    NoWallet = NoWallet
    NoBudget = NoBudget
SYMMETRY MCSymmetry
SPECIFICATION InboxSpec
INVARIANTS
    InboxTypeOK
    EnteredOnce
    BudgetsFit
PROPERTIES
    CapturesOnlyAdvance
