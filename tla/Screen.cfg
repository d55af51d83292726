SPECIFICATION FairSpec
CONSTANTS
    Requests = 2
    Fonts = TRUE
 
PROPERTY DisconnectShown
PROPERTY ConnectShown
PROPERTY MenuConverges
