SPECIFICATION FairSpec
CONSTANTS
    Requests = {r1}
    Stopper = stopper
    Paths = {"other"}
    Kinds = {"cedar"}
    Failing = {}
    Stalls = FALSE
    None = None
    stopper = stopper
    r1 = r1
PROPERTY LoopEndReported
CHECK_DEADLOCK FALSE
