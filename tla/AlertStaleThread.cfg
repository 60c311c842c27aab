SPECIFICATION Spec
CONSTANTS
    c1 = c1
    c2 = c2
    AllChats <- OneChat
    AlertType = "generic"
    MinConsecutiveFails = 2
    OfflineDelay = 0
    FailAfter = 1
    CheckRecover = 0
    DefaultMute = 1
    MaxMute = 1
    CheckMutes = TRUE
    MaxDbErrors = 0
    MaxCrashes = 0
INVARIANTS
    NewAlertAfterMinFails
