CONSTANTS
    Tasks = {t1}
    Workers = {w1, w2}
    Exchanges = {}
    Proposals = {}
    None = None
    Role <- MCRole
    MaxRequeueAttempts = 2
    MaxTerminalTasks = 0
    MaxTerminalExchanges = 0
    MaxTerminalProposals = 0
    MaxInactiveWorkers = 0
    Intents = {"chat", "promote_to_live"}
    Asks = {"unset", "true"}
    Flags = {FALSE}
    Parents <- MCNoParents
    Wakes = {"plan"}
    Decisions = {}
    Ages = {"worker", "held", "retention"}
    MaxLives = 2
SPECIFICATION FairSpec
INVARIANTS TypeOK ApprovalGate HeldByAssignee RequeueBudget LifeIsConsistent
PROPERTIES TerminalIsFinal StaleClaimsReleased
CHECK_DEADLOCK FALSE
