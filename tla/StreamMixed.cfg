SPECIFICATION Spec
CONSTANTS
    Requests = {r1, r2}
    Stopper = stopper
    Paths = {"ts", "sdp", "other"}
    Kinds = {"exec", "cedar", "rtp", "raw"}
    Failing = {"exec", "cedar", "rtp"}
    Stalls = TRUE
    None = None
    stopper = stopper
    r1 = r1
    r2 = r2
SYMMETRY RequestSymmetry
INVARIANT TypeOK
INVARIANT NoOrphanEncoder
INVARIANT ActiveServed
INVARIANT NoGhostClient
INVARIANT SingleEncoder
INVARIANT EncoderOwned
INVARIANT StoppedSilent
CHECK_DEADLOCK FALSE
