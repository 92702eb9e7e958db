CONSTANTS
  t1 = t1
  t2 = t2
  t3 = t3
  Absent = Absent
  Null = Null
  Writers = {t1, t2}
  States <- MCStates
  Types <- MCTypes
  Texts <- MCTexts
SYMMETRY Symmetry
SPECIFICATION WorkflowSpec
CHECK_DEADLOCK FALSE
PROPERTY ResolveResolves
