SPECIFICATION Spec
CONSTANTS
  Points = {p1, p2}
  None = None
  Identity = Identity
  Elsewhere = Elsewhere
  MaxPasses = 3
  Lengths = {1, 3}
  MaxRetries = 2
  MaxDrives = 1
SYMMETRY Symmetry
CHECK_DEADLOCK FALSE
INVARIANTS
  FitIsWhole
  ShownOfOneFit
  MessageExplains
  ReplicatesAccounted
PROPERTIES
  CompositeReadsChild
