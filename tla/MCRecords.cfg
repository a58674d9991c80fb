\* Each part with the rows its module's hazards need.  The interchangeable
\* x and y serve several parts, so that few permutations serve them all.
SPECIFICATION Spec
CONSTANTS
  Date = {y1, y2}
  Base = {2500, 100}
  FeeRate = 1500
  GstRate = {1800}
  TdsRate = {200}
  Tenant = {y1, y2}
  Header = {i1}
  Row = {t1, t2, t3}
  Key = {result, dunning, invite, promo}
  Templated = {result, dunning, invite, promo}
  Registered = {result, dunning, promo}
  Unconsented = {promo}
  Sweeper = {y1, y2}
  MaxAttempts = 2
  Batch = 2
  Request = {r1, r2}
  Waiting = {r1}
  File = {y1, y2}
  Question = {x1, x2, y1, y2}
  Level = {easy, hard}
  Width = 2
  Count = 3
  Edits = 1
  Worker = {x1, x2}
CHECK_DEADLOCK FALSE
SYMMETRY Symmetry
INVARIANTS
  OffersKept
  AmountsKept
  AnswersKept
  NoticesKept
  ErasureKept
PROPERTY StepsKept
