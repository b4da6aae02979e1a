SPECIFICATION FairSpec
CONSTANTS
  prj = prj  prj2 = prj2  sec = sec  sec2 = sec2  sub = sub
  itm = itm  itm2 = itm2  prc = prc  prc2 = prc2  u1 = u1  u2 = u2
  Projects = {prj, prj2}
  Sections = {sec, sec2}
  Items = {itm, itm2}
  Processes = {prc, prc2}
  ProjectOf <- TwoProjectOf
  SectionOf <- TwoSectionOf
  ItemOf <- TwoItemOf
  Subtree <- TwoSubtree
  Users = {u1}
  Txns = {t1, t2}
  MaxClock = 1
  None = None
  ExecutionIds = {e1, e2}
  SessionIds = {s1, s2}
  MaxAttempt = 2
  Commands <- RivalCommands

INVARIANTS
  OneOpenSessionPerWorker
  AttemptsNumbered
PROPERTIES
  TransactionsEnd
  ImplementsLifecycle
