\* Two jobs and two operation keys: racing creates, claims that pick the oldest
\* job, recovery passes of one row, a restart of the process, agents that may go
\* silent at any time.
CONSTANTS
  Job = {j1, j2}
  Key = {k1, k2}
  Agent = {a1}
  Token = {t1, t2}
  Ttl = {1}
  Target = {"cancelled"}
  Worker = {w1, w2}
  Sweeper = {s1}
  None = None
  PageLimit = 1
  Horizon = 1
  MaxRevision = 0
  MaxRestarts = 1
SPECIFICATION FairSpec
INVARIANTS IdempotentCreate IInv
PROPERTIES LeaseEventuallyReleased
