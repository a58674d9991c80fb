\* Two requests over rounds of slots. Proposals may be smaller than the code
\* allows, so that more rounds fit into three slots.
SPECIFICATION Spec
CONSTANTS
  Slot = {t1, t2, t3}
  Worker = {w1, w2}
  MinSlots = 1
  MaxSequence = 1
CHECK_DEADLOCK FALSE
SYMMETRY Symmetry
INVARIANTS
  InterviewsKept
  ChosenIsReminded
PROPERTY ChoiceOfThisRound
