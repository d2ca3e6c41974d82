SPECIFICATION FairSpec
CONSTANTS
    Tabs = {"tab"}
    MaxStreams = 1
    MaxDrops = 1
    Changes = {"profile", "bill"}
    Early <- MCEarly
    Counted <- MCCounted
    Sliced <- MCSliced
    Deferred <- MCDeferred
    MaxBoots = 2
    Mishaps = {}
    Handshake = "CONNECTED"
CHECK_DEADLOCK FALSE
INVARIANTS
    SlotsNeverLeak
PROPERTIES
    
    
    RestartCatchesUp
