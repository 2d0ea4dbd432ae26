SPECIFICATION Spec
CONSTANTS
  Cards = {c1, c2, c3}
  Lists = {l1, l2}
  Clients = {k1}
  Requests = {r1}
  Base = 4
  Letter <- MCLetter
  Upper = {1, 2}
  MaxDepth = 2
  Threshold = 2
  None = None
SYMMETRY MCSymmetry
INVARIANTS
  ShownInOrder
CHECK_DEADLOCK FALSE
