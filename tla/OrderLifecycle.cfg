SPECIFICATION Spec
CONSTANTS
  o1 = o1
  o2 = o2
  Orders = {o1, o2}
  Keys = {k1, k2, k3, k4, k5, k6}
  Requested <- TwoOrders
  MaxSeq = 2
  MaxTs = 1
SYMMETRY KeySymmetry
INVARIANTS
  TypeOK
  QuantityConserved
  StateTellsFill
PROPERTIES
  TerminalIsFinal
  OneFreshKeyPerChange
  UnknownNeedsEvidence
  FillsOnlyGrow
CHECK_DEADLOCK FALSE
