SPECIFICATION Spec
CONSTANTS
    Clients = {c1, c2}
    Tickers = {}
    Sessions = {s1, s2}
    Settings = {hi, lo}
    Levels = {info}
    SavesFail = TRUE
    None = None
    c1 = c1
    c2 = c2
    s1 = s1
    s2 = s2
    hi = hi
    lo = lo
    info = info
SYMMETRY Symmetry
INVARIANT PortOwned
INVARIANT ServerListens
INVARIANT StateTruthful
PROPERTY KeepsContract
