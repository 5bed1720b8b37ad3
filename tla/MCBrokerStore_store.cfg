SPECIFICATION Spec
CONSTANTS
  TaskIds = {t1, t2}
  BriefIds = {b1}
  Last = 2
  LoadSource = "hot-tables"
  KeepTerminal = 1
  LoadActive = 2
  LoadTerminal = 1
INVARIANTS StoreInv
SYMMETRY MCSymmetry
PROPERTIES RecordsDurable TombstonesKept
