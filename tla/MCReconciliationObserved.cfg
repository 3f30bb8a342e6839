CONSTANTS
    w1 = w1
    q1 = q1
    q2 = q2
    c1 = c1
    c2 = c2
    r1 = r1
    Wallets = {w1}
    Currency <- MCCurrency
    LedgerRequests = {}
    Amounts = {1}
    Details = {"d"}
    LedgerBound = 1
    NoTime = NoTime
    Cases = {c1, c2}
    CaseRequests = {q1, q2}
    Observed = {0, 1}
SYMMETRY MCSymmetry
SPECIFICATION ReconciliationSpec
PROPERTIES
    ReconcilesToObserved
