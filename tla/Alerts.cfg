SPECIFICATION FairSpec
CONSTANTS
    c1 = c1
    c2 = c2
    AllChats <- TwoChats
    AlertType = "generic"
    MinConsecutiveFails = 2
    OfflineDelay = 0
    FailAfter = 1
    CheckRecover = 0
    DefaultMute = 1
    MaxMute = 1
    CheckMutes = TRUE
    MaxDbErrors = 1
    MaxCrashes = 1
CONSTRAINT ChatsOrFaults
INVARIANTS
    NoEarlyAlert
    MuteHolds
    RecoveryOnlyIfTold
PROPERTIES
    OutageIsTold
