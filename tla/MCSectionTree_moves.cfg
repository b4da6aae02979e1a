SPECIFICATION Spec
CONSTANTS
  prj = prj  prj2 = prj2  a = a  b = b  c = c  d = d  itm = itm  u1 = u1
  Projects = {prj}
  Sections = {a, b, c}
  Items = {}
  Processes = {}
  ProjectOf <- OneProjectOf
  SectionOf <- NoItems
  ItemOf <- NoProcesses
  Users = {u1}
  Txns = {t1, t2}
  MaxClock = 1
  None = None
  Keep = Keep
  MaxPosition = 2
  Commands <- MoveCommands
SYMMETRY SectionSymmetry
INVARIANTS
  TypeOK
  Forest
PROPERTIES
  HungUnderActive
  AppendedLast
