CONSTANTS
  Txs = {t1, t2, t3}
  Files = {f}
  People = {ana, bot}
  Careful = {ana}
  Cards = {card}
  Comments = {note}
  Old = {note}
  Values = {v, w, empty}
  Empty = {empty}
  Initial = v
  MaxFiles = 2
  None = None
SPECIFICATION Spec
SYMMETRY Symmetry
CHECK_DEADLOCK FALSE
INVARIANTS
  OneLinkPerFile
  EditLasts
  LinkedIsStored
  LogIsHistory
