CONSTANTS
    w1 = w1
    w2 = w2
    g1 = g1
    g2 = g2
    p1 = p1
    p2 = p2
    r1 = r1
    Wallets = {w1}
    Currency <- MCCurrency
    LedgerRequests = {r1}
    Amounts = {1, 2}
    Details = {"d"}
    LedgerBound = 2
    NoTime = NoTime
    Goals = {g1, g2}
    GoalCurrency <- MCGoalCurrency
    GoalRequests = {p1, p2}
    Targets = {1, 2}
SYMMETRY MCSymmetry
SPECIFICATION FundsSpec
INVARIANTS
    GoalTypeOK
    FundsInv
    NoDeadlock
PROPERTIES
    ReservationsAreCovered
    ArchivedGoalsOnlyShrink
    ArchivedGoalIsFrozen
    ImplementsContract
