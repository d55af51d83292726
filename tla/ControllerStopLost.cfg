SPECIFICATION Spec
CONSTANTS
    Clients = {c1}
    Tickers = {}
    Sessions = {s1, s2}
    Settings = {hi}
    Levels = {info}
    SavesFail = FALSE
    None = None
    c1 = c1
    s1 = s1
    s2 = s2
    hi = hi
    info = info
SYMMETRY SessionSymmetry
INVARIANT NoServerAfterStop
