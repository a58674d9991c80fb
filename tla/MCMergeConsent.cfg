\* The survivor adopts a stage past the consent gate.
SPECIFICATION ConsentedSpec
CONSTANTS
  old = old
  mid = mid
  new = new
  aOld = aOld
  aMid = aMid
  aNew = aNew
  job = job
  NoLogin = NoLogin
  Cand = {old, mid, new}
  App = {aOld, aMid}
  Worker = {w1}
  Merger = {m1}
  Review <- OnePair
  JobOf <- OneJob
  Home <- Homes
  CreatedAt <- Ages
  LoginOf <- NewLogins
  Referral <- Introduced
  MaxVersion = 8
  CallerLag = 0
  CallerLead = 0
CHECK_DEADLOCK FALSE
INVARIANT ConsentBeforeClient
