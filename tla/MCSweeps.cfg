\* Two sweeps of the queue that take one row at a time, over two rows that may
\* keep failing; and the sweep of guarantees.
SPECIFICATION AnySpec
CONSTANTS
  Key = {result, dunning}
  Templated = {result, dunning}
  Registered = {result, dunning}
  Unconsented = {}
  Worker = {w1}
  Sweeper = {s1, s2}
  MaxAttempts = 2
  Batch = 1
  App = {a1, a2}
  Clerk = {c1}
  Runner = {r1}
  MaxPlacements = 2
  MaxInvoices = 1
CHECK_DEADLOCK FALSE
PROPERTIES
  Settles
  SelfHeals
