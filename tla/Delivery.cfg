SPECIFICATION Spec
CONSTANTS
    Natives <- Screens
    Paths = {"ts", "sdp", "h264", "other"}
INVARIANT BodyAsAnnounced
INVARIANT StaleAddressServed
INVARIANT TornReadHarmless
INVARIANT SizeDescribed
