SPECIFICATION MCSpec
CONSTANTS
    q1 = q1
    q2 = q2
    k1 = k1
    k2 = k2
    AccRequests = {q1, q2}
    AccKeys = {k1, k2}
    AccBudgets <- MCBudgets
    AccSecrets = 2
    AccCodes = 1
    AccTokens = 2
    AccChallenges = 2
    AccGens = 2
    NoName = NoName
    EnrNames = {k1, k2}
    EnrUsers = 2
    EnrInvites = {1, 2}
    EnrNodes = {1}
    EnrRegs = {1, 2}
    RegNode <- MCRegNode
    EnrAgents = 3
    EnrSlots = {q1, q2}
    EnrLimit = 2
    TrfImporters = {q1, q2}
    TrfIds = 14
    TrfExports = 1
    TrfEdits = 2
    BcfTargets = {1, 2}
    BcfJobs = {1}
    BcfSources = {1, 2}
    BcfSlots = {q1, q2}
    BcfInputs <- MCInputs
    BcfTemplate <- MCTemplate
    BcfRequests = 4
SYMMETRY MCPeopleSymmetry
INVARIANTS
    PeopleTypeOK
    AccEnabledSecretProven
    AccLogoutFinal
    AccAnsweredChallengeGone
    EnrInviteAccounting
    EnrRevokedAgentOut
    TrfNoDangling
    BcfUsable
PROPERTIES
    TrfReplaces
CHECK_DEADLOCK FALSE
