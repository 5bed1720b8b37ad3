CONSTANTS
    Tasks = {t1, t2, t3}
    Workers = {w1}
    Exchanges = {}
    Proposals = {}
    None = None
    Role <- MCRole
    MaxRequeueAttempts = 1
    MaxTerminalTasks = 9
    MaxTerminalExchanges = 9
    MaxTerminalProposals = 9
    MaxInactiveWorkers = 9
    Intents = {"chat"}
    Asks = {"unset"}
    Flags = {FALSE}
    Parents <- MCParents
    Wakes = {}
    Decisions = {}
    Ages = {}
    MaxLives = 1
SPECIFICATION Spec
SYMMETRY MCSymmetry
PROPERTIES CancelReachesDescendants
CHECK_DEADLOCK FALSE
