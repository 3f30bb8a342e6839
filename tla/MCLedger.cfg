CONSTANTS
    w1 = w1
    w2 = w2
    w3 = w3
    r1 = r1
    r2 = r2
    Wallets = {w1, w2, w3}
    Currency <- MCCurrency
    LedgerRequests = {r1, r2}
    Amounts = {1}
    Details = {"d", "e"}
    LedgerBound = 1
    NoTime = NoTime
SYMMETRY MCSymmetry
SPECIFICATION LedgerSpec
INVARIANTS
    LedgerTypeOK
    TransfersConserve
PROPERTIES
    ArchivedWalletSettles
    ArchivedWalletIsFrozen
CHECK_DEADLOCK FALSE
