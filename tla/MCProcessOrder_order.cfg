SPECIFICATION Spec
CONSTANTS
  prj = prj  sec = sec  itm = itm  itm2 = itm2  a = a  b = b  c = c  d = d  u1 = u1
  Projects = {prj}
  Sections = {sec}
  Items = {itm, itm2}
  Processes = {a, b, c, d}
  ProjectOf <- OneProjectOf
  SectionOf <- OneSectionOf
  ItemOf <- OneItemOf
  Users = {u1}
  Txns = {t1, t2}
  MaxClock = 1
  None = None
  Keep = Keep
  MaxPosition = 6
  Commands <- OrderCommands
SYMMETRY TxnSymmetry
INVARIANTS
  TypeOK
  IndexNeverRejects
PROPERTIES
  ReorderedAsRequested
  AppendedLast
  ImplementsOrderedList
  WrittenUnderOpenParent
  ArchivedIsFinal
