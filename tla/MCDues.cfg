\* Two requests on one enrollment with two tests and two payments; and a
\* placement of one candidate for one job, of any client and day; and
\* rows of two candidates with two numbers, or one row of another table.  The x
\* and y serve all parts, so that few permutations serve them.
SPECIFICATION AnySpec
CONSTANTS
  Enr = {c1}
  Payment = {x1, x2}
  Worker = {y1, y2}
  MaxTests = 2
  CourseFee = 1000
  Questions = 60
  Correct = {44}
  Vendor = {x1, x2}
  Candidate = {k1, k2}
  placed = k1
  Job = {j1, j2}
  wanted = j1
  Client = {c1}
  Contract = {y1, y2}
  Sub = {b1}
  Day = {1, 2}
  Percentage = {z1, z2}
  Clerk = {u1}
  Slot = {y1, y2}
  Number = {x1, x2}
  Owner = {c1}
CHECK_DEADLOCK FALSE
SYMMETRY Symmetry
INVARIANTS
  EnrollmentsKept
  CommissionsKept
  MigrationsKept
PROPERTY DuesSteps
