CONSTANTS
  ana = ana
  eva = eva
  People = {ana, eva}
  Earlier = {ana}
  Txs = {t1, t2, t3}
  Commands <- MCCommands
  MaxChanges = 1
  MaxFaults = 1
  None = None
SPECIFICATION Spec
SYMMETRY Symmetry
CHECK_DEADLOCK FALSE
INVARIANTS
  TypeOK
  OnlyWhoMay
  NobodyForgotten
  AnswersAddUp
