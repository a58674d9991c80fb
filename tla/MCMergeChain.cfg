\* Two merges in a chain, overlapping each other and the pipeline.
SPECIFICATION ScreeningSpec
CONSTANTS
  old = old
  mid = mid
  new = new
  aOld = aOld
  aMid = aMid
  aNew = aNew
  job = job
  NoLogin = NoLogin
  Cand = {old, mid, new}
  App = {aOld, aMid, aNew}
  Worker = {w1}
  Merger = {m1, m2}
  Review <- Chain
  JobOf <- OneJob
  Home <- Homes
  CreatedAt <- Ages
  LoginOf <- NewLogins
  Referral <- Introduced
  MaxVersion = 2
  CallerLag = 1
  CallerLead = 0
CHECK_DEADLOCK FALSE
SYMMETRY Symmetry
INVARIANTS
  MergeTypeOK
  StillInPipeline
