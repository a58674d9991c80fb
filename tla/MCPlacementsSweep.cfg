\* Two runs of the guarantee sweep overlap.
SPECIFICATION Spec
CONSTANTS
  App = {a1}
  Worker = {w1}
  Sweeper = {s1, s2}
  MaxPlacements = 1
  MaxInvoices = 1
CHECK_DEADLOCK FALSE
SYMMETRY Symmetry
INVARIANT OneCompletionEach
