CONSTANTS
    Tasks = {t1, t2}
    Workers = {w1}
    Exchanges = {e1}
    Proposals = {p1}
    None = None
    Role <- MCRole
    MaxRequeueAttempts = 1
    MaxTerminalTasks = 0
    MaxTerminalExchanges = 0
    MaxTerminalProposals = 0
    MaxInactiveWorkers = 0
    Intents = {"apply_local_change"}
    Asks = {"false"}
    Flags = {FALSE}
    Parents <- MCNoParents
    Wakes = {}
    Decisions = {"declined"}
    Ages = {"retention"}
    MaxLives = 1
SPECIFICATION Spec
SYMMETRY MCSymmetry
VIEW MCView
INVARIANTS ReferencesResolve
PROPERTIES ApplyTaskApplies
CHECK_DEADLOCK FALSE
