\* Two requests on two applications for one requisition.
SPECIFICATION Spec
CONSTANTS
  App = {a1, a2}
  Worker = {w1, w2}
  Sweeper = {s1}
  MaxPlacements = 2
  MaxInvoices = 2
CHECK_DEADLOCK FALSE
SYMMETRY Symmetry
INVARIANT PlacementsKept
