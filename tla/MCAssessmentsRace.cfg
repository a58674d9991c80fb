\* Two requests on a test and on its retake, or on two live tests.
SPECIFICATION Spec
CONSTANTS
  Worker = {w1, w2}
  MaxTests = 2
  MaxVersion = 6
  MaxSnapshots = 1
CHECK_DEADLOCK FALSE
SYMMETRY Symmetry
CONSTRAINT InFocus
INVARIANT VerdictsKept
PROPERTY OverrideStands
