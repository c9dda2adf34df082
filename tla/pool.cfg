SPECIFICATION FairSpec
CONSTANTS
  t1 = t1
  t2 = t2
  t3 = t3
  Threads <- MCThreads
  Resource = {0, 1, 2}
  Limit <- MCLimit
  Requests <- MCRequests
  Impatient <- MCImpatient
  MaxDepth = 2
INVARIANTS
  SlotsConserved
  NoCircularWait
PROPERTY EventuallyServed
