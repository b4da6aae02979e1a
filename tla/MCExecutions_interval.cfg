SPECIFICATION Spec
CONSTANTS
  prj = prj  prj2 = prj2  sec = sec  sec2 = sec2  sub = sub
  itm = itm  itm2 = itm2  prc = prc  prc2 = prc2  u1 = u1  u2 = u2
  Projects = {prj}
  Sections = {sec}
  Items = {itm}
  Processes = {prc}
  ProjectOf <- OneProjectOf
  SectionOf <- OneSectionOf
  ItemOf <- OneItemOf
  Subtree <- OneSubtree
  Users = {u1}
  Txns = {t1, t2}
  MaxClock = 2
  None = None
  ExecutionIds = {e1}
  SessionIds = {s1}
  MaxAttempt = 1
  Commands <- WorkCommands

INVARIANTS
  SessionWithinAttempt
