\* Two threads, each part with the rows its module's hazards need.  The
\* interchangeable x1 and x2 are the threads of some parts and the rows of
\* others, so that one permutation serves them all.
SPECIFICATION Spec
CONSTANTS
  hr = hr
  invited = invited
  rival = rival
  acme = acme
  other = other
  Client = {acme, other}
  User = {hr, invited, rival}
  Job = {j1}
  Candidate = {c1}
  Doc = {d1}
  Cand = {1, 2, 3}
  Email = {e1, e2}
  Phone = {p1}
  Logins = {e1}
  Skilled = {TRUE}
  Card = {x1, x2}
  Column = {s1, s2}
  First = s1
  Move = {m1, m2}
  MaxVersion = 2
  MaxWrites = 2
  MaxMoves = 3
  Course = {x1, x2}
  Slug = {g1, g2}
  Cohort = {h1}
  Student = {u1, u2}
  Identity = {i1}
  Request = {r1, r2}
  Account = {a1, a2}
  Worker = {x1, x2}
CHECK_DEADLOCK FALSE
SYMMETRY Symmetry
INVARIANTS
  PortalKept
  IntakeKept
  GrantsKept
  LeadsKept
  BoardKept
  CampusKept
PROPERTY ReassignMends
