CONSTANTS
    w1 = w1
    g1 = g1
    p1 = p1
    q1 = q1
    q2 = q2
    c1 = c1
    c2 = c2
    Wallets = {w1}
    Currency <- MCCurrency
    LedgerRequests = {}
    Amounts = {1}
    Details = {"d"}
    LedgerBound = 1
    NoTime = NoTime
    Goals = {g1}
    GoalCurrency <- MCGoalCurrency
    GoalRequests = {p1}
    Targets = {1}
    Cases = {c1}
    CaseRequests = {q1}
    Observed = {0}
SPECIFICATION OpenedSpec
PROPERTIES
    ReservationsFitPhysical
