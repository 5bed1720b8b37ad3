CONSTANTS
    Tasks = {t1, t2}
    Lanes = {c1}
    Rounds = {r1}
    round = r1
    broker = b1
    None = None
    RunOf <- MCRunOf
    RoundOf <- MCRoundOf
    Origin <- MCOrigin
    Identity <- MCChild
    MaxEvents = 2
    Statuses = {"succeeded", "failed"}
    Times = {1, 2}
    Evidences = {"operator_visible", "provider_delivery_receipt"}
    Receipts = {"timed_out"}
    Limits = {1}
SPECIFICATION Spec
SYMMETRY MCSymmetry
INVARIANTS OutboxInv
PROPERTIES AckSticky
CHECK_DEADLOCK FALSE
