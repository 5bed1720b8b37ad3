CONSTANTS
    Tasks = {t1, t2}
    Lanes = {c1}
    Rounds = {r1}
    round = r1
    broker = b1
    None = None
    RunOf <- MCRunOf
    RoundOf <- MCRoundOf
    Origin <- MCOrigin
    Identity <- MCChild
    MaxEvents = 2
    Statuses = {"succeeded"}
    Times = {1, 2}
    Evidences = {"operator_visible"}
    Receipts = {}
    Limits = {1, 9}
SPECIFICATION FairSpec
INVARIANTS CursorCovers
PROPERTIES EveryBriefConfirmed
CHECK_DEADLOCK FALSE
