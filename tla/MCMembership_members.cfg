SPECIFICATION Spec
CONSTANTS
  founder = founder  guest = guest
  Users = {founder, guest}
  Founder = founder
  Invitations = {i1, i2}
  InviteeOf <- ToGuest
  Txns = {t1, t2, t3}
  Commands <- GuestCommands
  None = None
SYMMETRY IdSymmetry
INVARIANTS
  TypeOK
  MemberRoleEndsWithMembership
  OneLiveToken
PROPERTIES
  ImplementsInvitationBook
  AcceptedWithMembership
