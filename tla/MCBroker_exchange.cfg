CONSTANTS
    Tasks = {t1, t2}
    Workers = {w1, w2}
    Exchanges = {e1}
    Proposals = {}
    None = None
    Role <- MCRole
    MaxRequeueAttempts = 1
    MaxTerminalTasks = 9
    MaxTerminalExchanges = 9
    MaxTerminalProposals = 9
    MaxInactiveWorkers = 9
    Intents = {"chat"}
    Asks = {"unset"}
    Flags = {FALSE}
    Parents <- MCNoParents
    Wakes = {}
    Decisions = {"none", "accepted", "needs_clarification", "declined"}
    Ages = {}
    MaxLives = 1
SPECIFICATION Spec
SYMMETRY MCSymmetry
VIEW MCView
INVARIANTS ExchangeFollowsTask
CHECK_DEADLOCK FALSE
