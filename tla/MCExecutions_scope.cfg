SPECIFICATION Spec
CONSTANTS
  prj = prj  prj2 = prj2  sec = sec  sec2 = sec2  sub = sub
  itm = itm  itm2 = itm2  prc = prc  prc2 = prc2  u1 = u1  u2 = u2
  Projects = {prj}
  Sections = {sec, sub}
  Items = {itm, itm2}
  Processes = {prc, prc2}
  ProjectOf <- TreeProjectOf
  SectionOf <- TreeSectionOf
  ItemOf <- TreeItemOf
  Subtree <- TreeSubtree
  Users = {u1, u2}
  Txns = {t1, t2}
  MaxClock = 1
  None = None
  ExecutionIds = {e1}
  SessionIds = {s1}
  MaxAttempt = 1
  Commands <- ScopeCommands
SYMMETRY IdSymmetry
INVARIANTS
  ActiveWorkIsReachable
  RunningWorkShows
  FiguresAddUp
PROPERTIES
  ImplementsAdmission
  ArchivingSparesActiveWork
  SnapshotIsCurrent
  AuthorizedUntilCommit
