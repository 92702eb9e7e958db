SPECIFICATION Spec
CHECK_DEADLOCK FALSE
CONSTANTS
  Txs = {t1, t2, t3}
  Minutes = {1, 2}
  Limit = 2
  Cells = {a, b}
SYMMETRY Symmetry
INVARIANTS
  DayHasLimit
  AbsenceHasLimit
  WeekIsOneReplacement
  SuccessLasts
