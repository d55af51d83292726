SPECIFICATION FairSpec
CONSTANTS
    Conns = {c1, c2}
    Pushers = {ticker}
    Senders = {c1}
    Silent = {}
    Cap = 1
    MaxSends = 3
    None = None
    c1 = c1
    c2 = c2
    ticker = ticker
INVARIANT NoLostAnswer
INVARIANT Registered
PROPERTY AllAnswered
PROPERTY LoopEnds
