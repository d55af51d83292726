SPECIFICATION FairSpec
CONSTANTS
    Clients = {c1}
    Tickers = {ticker}
    Sessions = {s1, s2}
    Settings = {hi, lo}
    Levels = {info}
    SavesFail = FALSE
    None = None
    c1 = c1
    s1 = s1
    s2 = s2
    hi = hi
    lo = lo
    info = info
    ticker = ticker
INVARIANT PersistedConfig
INVARIANT NoLostCancel
PROPERTY StartAnswered
PROPERTY StatusConverges
