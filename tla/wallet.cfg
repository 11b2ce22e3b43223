SPECIFICATION FairSpec
CONSTANTS
    p1 = p1
    p2 = p2
    t1 = t1
    t2 = t2
    r1 = r1
    r2 = r2
    Players = {p1, p2}
    Rooms = {r1, r2}
    Txs = {t1, t2}
    Amounts = {1}
    MaxBalance = 2
INVARIANTS
    TypeOK
    LedgerReconciles
    PayoutsShareNoPlayer
PROPERTY
    TransactionsEnd
