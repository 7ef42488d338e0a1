\* One job, two agents, two requests and a recovery pass racing on its row.
CONSTANTS
  Job = {j1}
  Key = {k1}
  Agent = {a1, a2}
  Token = {t1, t2}
  Ttl = {1}
  Target = {"running", "interrupted", "completed"}
  Worker = {w1, w2}
  Sweeper = {s1}
  None = None
  PageLimit = 2
  Horizon = 2
  MaxRevision = 2
  MaxRestarts = 0
SPECIFICATION Spec
SYMMETRY Symmetry
INVARIANTS LeaseOnlyWhileActive SaveIsCurrent EventPerMutation
PROPERTIES RecoveryOnlyAfterExpiry OnlyHolderWrites TerminalFrozen ImplementsLifecycle
