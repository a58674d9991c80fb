\* Two workers racing on one application.
SPECIFICATION AnySpec
CONSTANTS
  App = {a1}
  Worker = {w1, w2}
  EarlyVersion = 5
  MaxVersion = 9
  CallerLag = 1
  CallerLead = 0
CHECK_DEADLOCK FALSE
SYMMETRY Symmetry
ACTION_CONSTRAINT InFocus
INVARIANTS
  TypeOK
  JournalComplete
  HoldRemembers
  EvaluationsBacked
  NeverRepresentedWithoutConsent
  Vetted
PROPERTIES
  ClosedForGood
  ImplementsLife
