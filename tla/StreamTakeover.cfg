SPECIFICATION FairSpec
CONSTANTS
    Requests = {r1, r2}
    Stopper = stopper
    Paths = {"sdp", "other"}
    Kinds = {"exec", "cedar", "raw"}
    Failing = {"exec"}
    Stalls = FALSE
    None = None
    stopper = stopper
    r1 = r1
    r2 = r2
PROPERTY CallersReturn
CHECK_DEADLOCK FALSE
