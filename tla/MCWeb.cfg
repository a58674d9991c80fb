\* One browser, two users or calls at a time, two tenants' reports.
SPECIFICATION Spec
CONSTANTS
  User = {alice, bob}
  Hand = {h1, h2}
  TimeLimit = 2
  MaxAnswers = 2
  MaxCharges = 2
  Tenant = {t1, t2}
  MaxFacts = 1
CHECK_DEADLOCK FALSE
 
PROPERTIES
  SessionComesToRest
  TestComesToRest
  EveryPressEnds
  FiguresConverge
