CONSTANTS
    Thread = {t1, t2, t3}
    Key = {k1}
    Val = {v1, v2}
    Bit = {b1}
    None = None
SPECIFICATION FairBroadcastSpec
INVARIANT NoSleeperLeftBehind
PROPERTY SleeperReturns
