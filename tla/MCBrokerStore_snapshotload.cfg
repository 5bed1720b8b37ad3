SPECIFICATION Spec
CONSTANTS
  TaskIds = {t1, t2}
  BriefIds = {}
  Last = 2
  LoadSource = "snapshot"
  KeepTerminal = 1
  LoadActive = 2
  LoadTerminal = 1
SYMMETRY MCSymmetry
PROPERTIES ActiveNeverLost
