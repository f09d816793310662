SPECIFICATION FairSpec
CONSTANTS
    MaxSlot = 3
    MaxMessages = 3
    Limit = 3
    MaxCerts = 2
PROPERTIES
    RefreshFair
    EveryMessageRefreshed
