SPECIFICATION Spec
CONSTANTS
  prj = prj  prj2 = prj2  a = a  b = b
  Projects = {prj, prj2}
  Users = {a, b}
  Txns = {t1, t2, t3}
  Local = {a}
  None = None
  Commands <- LockCommands
SYMMETRY TxnSymmetry
INVARIANTS
  TypeOK
  CircleNeedsNonmember
  AuthorityHolds
PROPERTIES
  ImplementsAdmission
