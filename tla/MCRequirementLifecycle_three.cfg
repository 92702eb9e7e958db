CONSTANTS
  t1 = t1
  t2 = t2
  t3 = t3
  Absent = Absent
  Null = Null
  Writers = {t1, t2, t3}
  States <- MCStates
  Types <- MCTypes
  Texts <- TextOrNull
SYMMETRY Symmetry
SPECIFICATION WorkflowSpec
CHECK_DEADLOCK FALSE
INVARIANTS
  HistoryEndsInState
  MailsMatchHistory
  StampsMatchHistory
PROPERTIES
  SequentialRules
