SPECIFICATION Spec
CONSTANTS
  prj = prj  prj2 = prj2  a = a  b = b  c = c  d = d  itm = itm  u1 = u1
  Projects = {prj, prj2}
  Sections = {a, b, c, d}
  Items = {itm}
  Processes = {}
  ProjectOf <- TwoProjectOf
  SectionOf <- ItemInC
  ItemOf <- NoProcesses
  Users = {u1}
  Txns = {t1, t2}
  MaxClock = 1
  None = None
  Keep = Keep
  MaxPosition = 2
  Commands <- SubtreeCommands
SYMMETRY TxnSymmetry
PROPERTIES
  ArchivedWithoutWork
  ImplementsSectionForest
