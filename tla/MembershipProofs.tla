-------------------------- MODULE MembershipProofs --------------------------
(***************************************************************************)
(* Proofs about Membership, for every set of users, invitations and        *)
(* connections.                                                            *)
(*                                                                         *)
(* The invariant says who may hold which uncommitted row.  No two          *)
(* transactions hold the same one.  An acceptance that grants the member   *)
(* role holds the membership as active, and a deactivation holds it as     *)
(* deleted until it has seen every member role granted before; so the two  *)
(* cannot be under way together, and the order of their commits does not   *)
(* matter.                                                                 *)
(***************************************************************************)
EXTENDS Membership, TLAPS

-----------------------------------------------------------------------------
(* The invariant. *)

\* A row is locked by one transaction at most.
LocksExclusive ==
  \A t, o \in Txns, k \in Rows :
    t # o => writes[t][k] = "unwritten" \/ writes[o][k] = "unwritten"

\* The next statement is one of the request's.
StageFits(t) ==
  /\ stage[t] = "idle" => cmd[t] = NoCommand
  /\ stage[t] # "idle" => cmd[t] \in Command
  /\ stage[t] \in {"replace", "insert"} => cmd[t].op = "invite"
  /\ stage[t] = "revoke" => cmd[t].op = "revoke"
  /\ stage[t] \in {"consume", "look", "join", "grant"} => cmd[t].op = "accept"
  /\ stage[t] \in {"clear", "delete"} => cmd[t].op \in {"accept", "deactivate"}
  /\ stage[t] = "leave" => cmd[t].op = "deactivate"
  /\ stage[t] = "commit" => cmd[t].op \in {"invite", "accept", "deactivate"}

FirstStages == {"idle", "replace", "revoke", "consume", "leave", "restore",
                "check", "assign"}

\* Before its first write a transaction holds no row.
NothingHeldYet(t) ==
  stage[t] \in FirstStages => \A k \in Rows : writes[t][k] = "unwritten"

\* The id of an invitation being created is nobody else's.
IdFresh(t) ==
  cmd[t].op = "invite" =>
    /\ row[InvitationRow(cmd[t].invitation)] = "unused"
    /\ \A o \in Txns \ {t} :
         cmd[o].op = "invite" => cmd[o].invitation # cmd[t].invitation

\* A held invitation is open, or is the one its holder creates; a created
\* one is about to be committed, and a used one is its user's.
InvitationsHeld(t) ==
  \A i \in Invitations :
    /\ writes[t][InvitationRow(i)] # "unwritten" =>
         \/ Pending(i)
         \/ cmd[t].op = "invite" /\ cmd[t].invitation = i
    /\ writes[t][InvitationRow(i)] = "pending" => stage[t] = "commit"
    /\ writes[t][InvitationRow(i)] = "accepted" =>
         cmd[t].op = "accept" /\ cmd[t].user = InviteeOf[i]

\* While an invitation is being created, no other to the address is open or
\* becomes open.
CreationIsAlone(t) ==
  \A i \in Invitations : writes[t][InvitationRow(i)] = "pending" =>
    \A j \in Siblings(i) \ {i} :
      /\ View(t, InvitationRow(j)) # "pending"
      /\ \A o \in Txns : writes[o][InvitationRow(j)] # "pending"

\* A held membership is the one of the request.  It is active in an
\* acceptance that reached its grant, and whoever grants the member role
\* holds it so.
MembershipsHeld(t) ==
  \A u \in Users :
    /\ writes[t][MembershipRow(u)] # "unwritten" =>
         u = cmd[t].user /\ writes[t][MembershipRow(u)] \in {"active", "deleted"}
    /\ writes[t][RoleRow(u, "member")] = "granted" =>
         writes[t][MembershipRow(u)] = "active"
    /\ u = cmd[t].user /\ cmd[t].op = "accept" /\ stage[t] \in {"grant", "commit"} =>
         writes[t][MembershipRow(u)] = "active"

\* A deactivation that holds the membership finds the member role when its
\* DELETE runs, and the role is gone when the DELETE is done.
RoleGoesWithMembership(t) ==
  \A u \in Users : writes[t][MembershipRow(u)] = "deleted" =>
    /\ cmd[t].op = "deactivate" /\ stage[t] \in {"clear", "delete", "commit"}
    /\ stage[t] = "delete" /\ View(t, RoleRow(u, "member")) = "granted" =>
         "member" \in saw[t]
    /\ stage[t] = "commit" => View(t, RoleRow(u, "member")) # "granted"

\* What a transaction may count on.
Sound(t) ==
  /\ StageFits(t)
  /\ NothingHeldYet(t)
  /\ IdFresh(t)
  /\ InvitationsHeld(t)
  /\ CreationIsAlone(t)
  /\ MembershipsHeld(t)
  /\ RoleGoesWithMembership(t)

IInv ==
  /\ TypeOK
  /\ LocksExclusive
  /\ \A t \in Txns : Sound(t)
  /\ OneLiveToken
  /\ MemberRoleEndsWithMembership

-----------------------------------------------------------------------------
(* Rows. *)

\* Rows of different tables are different, and a key names one row.
LEMMA RowsAreDistinct ==
  /\ \A i, j \in Invitations : InvitationRow(i) = InvitationRow(j) => i = j
  /\ \A u, v \in Users : MembershipRow(u) = MembershipRow(v) => u = v
  /\ \A u, v \in Users, q, r \in Roles :
       RoleRow(u, q) = RoleRow(v, r) => u = v /\ q = r
  /\ \A i \in Invitations, u \in Users : InvitationRow(i) # MembershipRow(u)
  /\ \A i \in Invitations, u \in Users, r \in Roles : InvitationRow(i) # RoleRow(u, r)
  /\ \A u, v \in Users, r \in Roles : MembershipRow(u) # RoleRow(v, r)
<1>1. \A i, u : <<"invitation", i>> # <<"membership", u>>
  OBVIOUS
<1>2. \A i, u, r : <<"invitation", i>> # <<"role", u, r>>
  OBVIOUS
<1>3. \A u, v, r : <<"membership", u>> # <<"role", v, r>>
  OBVIOUS
<1> QED
  BY <1>1, <1>2, <1>3 DEF InvitationRow, MembershipRow, RoleRow

\* Every row belongs to one of the three tables.
LEMMA RowsOfTables ==
  /\ \A i \in Invitations : InvitationRow(i) \in Rows /\ InvitationRow(i) \in InvitationRows
  /\ \A u \in Users : MembershipRow(u) \in Rows /\ MembershipRow(u) \in MembershipRows
  /\ \A u \in Users, r \in Roles : RoleRow(u, r) \in Rows /\ RoleRow(u, r) \in RoleRows
  /\ \A k \in Rows : \/ \E i \in Invitations : k = InvitationRow(i)
                     \/ \E u \in Users : k = MembershipRow(u)
                     \/ \E u \in Users, r \in Roles : k = RoleRow(u, r)
BY DEF Rows, InvitationRows, MembershipRows, RoleRows

\* The states of a row are those of its table.
LEMMA StatesOfTables ==
  /\ \A i \in Invitations : RowValues(InvitationRow(i)) = InvitationStates
  /\ \A u \in Users : RowValues(MembershipRow(u)) = MembershipStates
  /\ \A u \in Users, r \in Roles : RowValues(RoleRow(u, r)) = RoleStates
<1>1. ASSUME NEW i \in Invitations PROVE RowValues(InvitationRow(i)) = InvitationStates
  BY RowsOfTables DEF RowValues
<1>2. ASSUME NEW u \in Users PROVE RowValues(MembershipRow(u)) = MembershipStates
  <2>1. MembershipRow(u) \notin InvitationRows
    BY RowsAreDistinct DEF InvitationRows
  <2> QED
    BY <2>1, RowsOfTables DEF RowValues
<1>3. ASSUME NEW u \in Users, NEW r \in Roles PROVE RowValues(RoleRow(u, r)) = RoleStates
  <2>1. RoleRow(u, r) \notin InvitationRows /\ RoleRow(u, r) \notin MembershipRows
    BY RowsAreDistinct DEF InvitationRows, MembershipRows
  <2> QED
    BY <2>1, RowsOfTables DEF RowValues
<1> QED
  BY <1>1, <1>2, <1>3

-----------------------------------------------------------------------------
(* Kinds of steps. *)

\* A step of t changes nothing of another transaction.
OnlyOf(t) ==
  \A o \in Txns \ {t} :
    /\ stage'[o] = stage[o] /\ cmd'[o] = cmd[o]
    /\ writes'[o] = writes[o] /\ saw'[o] = saw[o]

\* What may become visible when t ends: rows nobody else holds, invitations
\* that are alone, and member roles of members.
Publishes(t) ==
  /\ \A k \in Rows : row'[k] # row[k] => Free(t, k)
  /\ \A i \in Invitations : row'[InvitationRow(i)] # row[InvitationRow(i)] =>
       \/ Pending(i)
       \/ cmd[t].op = "invite" /\ cmd[t].invitation = i
  /\ \A i \in Invitations : row'[InvitationRow(i)] = "pending" /\ ~Pending(i) =>
       \A j \in Siblings(i) \ {i} :
         /\ row'[InvitationRow(j)] # "pending"
         /\ \A o \in Txns : writes[o][InvitationRow(j)] # "pending"
  /\ \A u \in Users : row'[RoleRow(u, "member")] = "granted" =>
       /\ row'[MembershipRow(u)] = "active"
       /\ row[RoleRow(u, "member")] # "granted" => Free(t, MembershipRow(u))

\* A request that is under way names a user and, if it is about an
\* invitation, an invitation.
LEMMA RequestFields ==
  ASSUME NEW c \in Command
  PROVE  /\ c.user \in Users
         /\ c.op \in {"invite", "revoke", "accept", "deactivate", "reactivate",
                      "assign_owner"}
         /\ c.op \in {"invite", "revoke", "accept"} => c.invitation \in Invitations
BY DEF Command

\* A statement inside a transaction preserves the invariant when it takes
\* rows that are free and leaves its own transaction sound.
LEMMA PrivateStep ==
  ASSUME IInv, NEW t \in Txns, TypeOK', OnlyOf(t), row' = row, cmd' = cmd, Sound(t)',
         \A k \in Rows : writes'[t][k] # writes[t][k] => Free(t, k)
  PROVE  IInv'
<1>1. LocksExclusive'
  BY DEF IInv, LocksExclusive, OnlyOf, Free
<1>2. ASSUME NEW o \in Txns \ {t} PROVE Sound(o)'
  <2>1. StageFits(o)' /\ NothingHeldYet(o)' /\ IdFresh(o)'
    BY DEF IInv, Sound, StageFits, NothingHeldYet, IdFresh, OnlyOf
  <2>2. InvitationsHeld(o)'
    BY DEF IInv, Sound, InvitationsHeld, OnlyOf, Pending
  <2>3. CreationIsAlone(o)'
    <3> SUFFICES ASSUME NEW i \in Invitations, writes[o][InvitationRow(i)] = "pending",
                        NEW j \in Siblings(i) \ {i}
                 PROVE  /\ View(o, InvitationRow(j))' # "pending"
                        /\ \A p \in Txns : writes'[p][InvitationRow(j)] # "pending"
      BY DEF CreationIsAlone, OnlyOf, Siblings
    <3>1. /\ View(o, InvitationRow(j)) # "pending"
          /\ \A p \in Txns : writes[p][InvitationRow(j)] # "pending"
      BY DEF IInv, Sound, CreationIsAlone
    <3>2. writes'[t][InvitationRow(j)] # "pending"
      <4>1. j \in Invitations /\ i \in Siblings(j) \ {j}
        BY DEF Siblings
      <4>2. writes'[o][InvitationRow(i)] = "pending"
        BY DEF OnlyOf
      <4> QED
        BY <4>1, <4>2 DEF Sound, CreationIsAlone, Siblings
    <3> QED
      BY <3>1, <3>2 DEF OnlyOf, View
  <2>4. MembershipsHeld(o)'
    BY DEF IInv, Sound, MembershipsHeld, OnlyOf
  <2>5. RoleGoesWithMembership(o)'
    BY DEF IInv, Sound, RoleGoesWithMembership, OnlyOf, View
  <2> QED
    BY <2>1, <2>2, <2>3, <2>4, <2>5 DEF Sound
<1>3. OneLiveToken' /\ MemberRoleEndsWithMembership'
  BY DEF IInv, OneLiveToken, MemberRoleEndsWithMembership, Pending, IsMember
<1> QED
  BY <1>1, <1>2, <1>3 DEF IInv

\* The end of a request preserves the invariant when what it makes visible is
\* as Publishes says.
LEMMA EndStep ==
  ASSUME IInv, NEW t \in Txns, TypeOK', End(t), Publishes(t)
  PROVE  IInv'
<1> USE RowsOfTables
<1>0. OnlyOf(t) /\ stage'[t] = "idle" /\ cmd'[t] = NoCommand /\ writes'[t] = NoWrites
  BY DEF End, OnlyOf, IInv, TypeOK
<1>1. \A k \in Rows : writes'[t][k] = "unwritten"
  BY <1>0 DEF NoWrites
<1>2. LocksExclusive'
  BY <1>0, <1>1 DEF IInv, LocksExclusive, OnlyOf
<1>3. Sound(t)'
  <2>1. StageFits(t)' /\ NothingHeldYet(t)' /\ IdFresh(t)'
    BY <1>0, <1>1 DEF StageFits, NothingHeldYet, IdFresh, NoCommand
  <2>2. InvitationsHeld(t)' /\ CreationIsAlone(t)'
    BY <1>1 DEF InvitationsHeld, CreationIsAlone
  <2>3. MembershipsHeld(t)' /\ RoleGoesWithMembership(t)'
    BY <1>0, <1>1 DEF MembershipsHeld, RoleGoesWithMembership, NoCommand, Roles
  <2> QED
    BY <2>1, <2>2, <2>3 DEF Sound
<1>4. ASSUME NEW o \in Txns \ {t} PROVE Sound(o)'
  <2> USE <1>0
  <2>1. StageFits(o)' /\ NothingHeldYet(o)'
    BY DEF IInv, Sound, StageFits, NothingHeldYet, OnlyOf
  <2>2. IdFresh(o)'
    <3> SUFFICES ASSUME cmd[o].op = "invite"
                 PROVE  /\ row'[InvitationRow(cmd[o].invitation)] = "unused"
                        /\ \A p \in Txns \ {o} : cmd'[p].op = "invite" =>
                             cmd'[p].invitation # cmd[o].invitation
      BY DEF IdFresh, OnlyOf
    <3>1. /\ row[InvitationRow(cmd[o].invitation)] = "unused"
          /\ \A p \in Txns \ {o} : cmd[p].op = "invite" =>
               cmd[p].invitation # cmd[o].invitation
      BY DEF IInv, Sound, IdFresh
    <3>2. cmd[o].invitation \in Invitations
      BY RequestFields DEF IInv, Sound, StageFits, NoCommand
    <3>3. row'[InvitationRow(cmd[o].invitation)] = "unused"
      BY <3>1, <3>2 DEF Publishes, Pending
    <3> QED
      BY <3>1, <3>3 DEF OnlyOf, NoCommand
  <2>3. InvitationsHeld(o)'
    BY DEF IInv, Sound, InvitationsHeld, OnlyOf, Pending, Publishes, Free
  <2>4. CreationIsAlone(o)'
    <3> SUFFICES ASSUME NEW i \in Invitations, writes[o][InvitationRow(i)] = "pending",
                        NEW j \in Siblings(i) \ {i}
                 PROVE  /\ View(o, InvitationRow(j))' # "pending"
                        /\ \A p \in Txns : writes'[p][InvitationRow(j)] # "pending"
      BY DEF CreationIsAlone, OnlyOf, Siblings
    <3>1. /\ View(o, InvitationRow(j)) # "pending"
          /\ \A p \in Txns : writes[p][InvitationRow(j)] # "pending"
      BY DEF IInv, Sound, CreationIsAlone
    <3>2. j \in Invitations /\ i \in Siblings(j) \ {j}
      BY DEF Siblings
    <3>3. row'[InvitationRow(j)] = "pending" => row[InvitationRow(j)] = "pending"
      BY <3>2 DEF Publishes, Pending
    <3> QED
      BY <3>1, <3>2, <3>3, <1>1 DEF OnlyOf, View
  <2>5. MembershipsHeld(o)'
    BY DEF IInv, Sound, MembershipsHeld, OnlyOf
  <2>6. RoleGoesWithMembership(o)'
    <3> SUFFICES ASSUME NEW u \in Users, writes[o][MembershipRow(u)] = "deleted"
                 PROVE  View(o, RoleRow(u, "member"))' = "granted" =>
                          View(o, RoleRow(u, "member")) = "granted"
      BY DEF RoleGoesWithMembership, OnlyOf, IInv, Sound
    <3>1. ~Free(t, MembershipRow(u))
      BY DEF Free
    <3> QED
      BY <3>1 DEF Publishes, View, OnlyOf
  <2> QED
    BY <2>1, <2>2, <2>3, <2>4, <2>5, <2>6 DEF Sound
<1>5. OneLiveToken'
  <2> SUFFICES ASSUME NEW i \in Invitations, NEW j \in Invitations, i # j,
                      InviteeOf[i] = InviteeOf[j],
                      row'[InvitationRow(i)] = "pending", row'[InvitationRow(j)] = "pending"
               PROVE  FALSE
    BY DEF OneLiveToken, Pending
  <2>1. i \in Siblings(j) \ {j} /\ j \in Siblings(i) \ {i}
    BY DEF Siblings
  <2>2. Pending(i) /\ Pending(j)
    BY <2>1 DEF Publishes
  <2> QED
    BY <2>2 DEF IInv, OneLiveToken
<1>6. MemberRoleEndsWithMembership'
  BY DEF Publishes, MemberRoleEndsWithMembership, IsMember
<1> QED
  BY <1>2, <1>3, <1>4, <1>5, <1>6 DEF IInv

-----------------------------------------------------------------------------
(* Every step is of one of those kinds. *)

\* Beginning a request: it holds nothing, and a new invitation has a new id.
LEMMA BeginKeeps ==
  ASSUME IInv, NEW t \in Txns, NEW c \in Commands, Begin(t, c)
  PROVE  IInv'
<1> USE MembershipAssumption, RowsOfTables
<1>1. /\ OnlyOf(t) /\ row' = row /\ writes' = writes
      /\ cmd'[t] = c /\ stage'[t] \in FirstStages \ {"idle"} /\ saw' = saw
  <2>1. stage'[t] \in FirstStages \ {"idle"}
    BY RequestFields DEF Begin, Go, IInv, TypeOK, FirstStages
  <2> QED
    BY <2>1 DEF Begin, Go, OnlyOf, IInv, TypeOK
<1>2. c \in Command
  OBVIOUS
<1>3. TypeOK'
  <2>1. stage'[t] \in Stages /\ stage' \in [Txns -> Stages]
    BY <1>1 DEF Begin, Go, IInv, TypeOK, FirstStages, Stages
  <2>2. late' \in [Txns -> BOOLEAN]
    <3>1. late \in [Txns -> BOOLEAN] /\ (c.invitation \in expired) \in BOOLEAN
      BY DEF IInv, TypeOK
    <3>2. late' = [late EXCEPT ![t] = c.invitation \in expired]
      BY DEF Begin
    <3> QED
      BY <3>1, <3>2, Zenon
  <2> QED
    BY <1>1, <1>2, <2>1, <2>2 DEF Begin, IInv, TypeOK
<1>4. \A k \in Rows : writes[t][k] = "unwritten"
  BY DEF Begin, Running, IInv, Sound, NothingHeldYet, FirstStages
<1>5. Sound(t)'
  <2>1. StageFits(t)'
    BY <1>1, <1>2 DEF Begin, Go, StageFits, Command, IInv, TypeOK
  <2>2. NothingHeldYet(t)'
    BY <1>1, <1>4 DEF NothingHeldYet
  <2>3. IdFresh(t)'
    BY <1>1 DEF Begin, IdFresh, OnlyOf
  <2>4. InvitationsHeld(t)' /\ CreationIsAlone(t)'
    BY <1>1, <1>4 DEF InvitationsHeld, CreationIsAlone
  <2>5. MembershipsHeld(t)' /\ RoleGoesWithMembership(t)'
    BY <1>1, <1>4 DEF MembershipsHeld, RoleGoesWithMembership, FirstStages, Roles
  <2> QED
    BY <2>1, <2>2, <2>3, <2>4, <2>5 DEF Sound
<1>6. ASSUME NEW o \in Txns \ {t} PROVE Sound(o)'
  <2>1. IdFresh(o)'
    BY <1>1 DEF Begin, IdFresh, OnlyOf, IInv, Sound
  <2> QED
    BY <1>1, <2>1 DEF IInv, Sound, OnlyOf, StageFits, NothingHeldYet, InvitationsHeld,
      CreationIsAlone, MembershipsHeld, RoleGoesWithMembership, Pending, View
<1> QED
  BY <1>1, <1>3, <1>5, <1>6 DEF IInv, LocksExclusive, OneLiveToken, Pending,
    MemberRoleEndsWithMembership, IsMember

\* What End changes is well typed.
LEMMA EndTyped ==
  ASSUME IInv, NEW t \in Txns, End(t), row' \in [Rows -> RowStates],
         \A k \in Rows : row'[k] \in RowValues(k)
  PROVE  TypeOK'
<1>1. "idle" \in Stages
  BY DEF Stages
<1>2. NoWrites \in [Rows -> RowStates]
  BY DEF NoWrites, RowStates
<1> QED
  BY <1>1, <1>2 DEF End, IInv, TypeOK, NoWrites

\* Rolling back makes nothing visible.
LEMMA RollbackKeeps ==
  ASSUME IInv, NEW t \in Txns, End(t), row' = row
  PROVE  IInv'
<1>1. TypeOK'
  BY EndTyped DEF IInv, TypeOK
<1>2. Publishes(t)
  BY DEF Publishes, IInv, MemberRoleEndsWithMembership, IsMember, Pending
<1> QED
  BY <1>1, <1>2, EndStep

\* Committing makes the private rows visible.
LEMMA CommitKeeps ==
  ASSUME IInv, NEW t \in Txns, Commit(t)
  PROVE  IInv'
<1> USE RowsOfTables
<1>0. /\ End(t) /\ stage[t] = "commit"
      /\ row' \in [Rows -> RowStates] /\ \A k \in Rows : row'[k] = View(t, k)
  BY DEF Commit, Running, View, IInv, TypeOK
<1>1. TypeOK'
  BY <1>0, EndTyped DEF View, IInv, TypeOK
<1>2. \A k \in Rows : row'[k] # row[k] => Free(t, k)
  BY <1>0 DEF View, Free, IInv, LocksExclusive
<1>3. ASSUME NEW i \in Invitations, row'[InvitationRow(i)] # row[InvitationRow(i)]
      PROVE  \/ Pending(i)
             \/ cmd[t].op = "invite" /\ cmd[t].invitation = i
  BY <1>0, <1>3 DEF View, IInv, Sound, InvitationsHeld
<1>4. ASSUME NEW i \in Invitations, row'[InvitationRow(i)] = "pending", ~Pending(i),
             NEW j \in Siblings(i) \ {i}
      PROVE  /\ row'[InvitationRow(j)] # "pending"
             /\ \A o \in Txns : writes[o][InvitationRow(j)] # "pending"
  BY <1>0, <1>4 DEF View, IInv, Sound, CreationIsAlone, Pending, Siblings
<1>5. ASSUME NEW u \in Users, row'[RoleRow(u, "member")] = "granted"
      PROVE  /\ row'[MembershipRow(u)] = "active"
             /\ row[RoleRow(u, "member")] # "granted" => Free(t, MembershipRow(u))
  <2> USE <1>0 DEF Roles
  <2>1. CASE writes[t][RoleRow(u, "member")] = "granted"
    BY <2>1 DEF View, Free, IInv, Sound, MembershipsHeld, LocksExclusive
  <2>2. CASE writes[t][RoleRow(u, "member")] # "granted"
    <3>1. row[RoleRow(u, "member")] = "granted" /\ row[MembershipRow(u)] = "active"
      BY <2>2, <1>5 DEF View, IInv, MemberRoleEndsWithMembership, IsMember
    <3>2. writes[t][MembershipRow(u)] # "deleted"
      BY <1>5 DEF IInv, Sound, RoleGoesWithMembership
    <3> QED
      BY <3>1, <3>2 DEF View, IInv, Sound, MembershipsHeld
  <2> QED
    BY <2>1, <2>2
<1>6. Publishes(t)
  BY <1>2, <1>3, <1>4, <1>5 DEF Publishes
<1> QED
  BY <1>0, <1>1, <1>6, EndStep

\* A statement outside a transaction that changes no member role and no
\* invitation but to revoke it.
LEMMA AutocommitKeeps ==
  ASSUME IInv, NEW t \in Txns, NEW k \in Rows, NEW v \in RowValues(k),
         Autocommit(t, k, v), Free(t, k),
         \A i \in Invitations : k = InvitationRow(i) => Pending(i) /\ v # "pending",
         \A u \in Users : k # RoleRow(u, "member"),
         \A u \in Users : k = MembershipRow(u) => v = "active"
  PROVE  IInv'
<1> USE RowsOfTables DEF Roles
<1>0. /\ End(t)
      /\ row' = [row EXCEPT ![k] = v]
      /\ row \in [Rows -> RowStates] /\ v \in RowStates
  BY DEF Autocommit, IInv, TypeOK, RowValues, RowStates
<1>1. TypeOK'
  BY <1>0, EndTyped DEF IInv, TypeOK
<1>2. Publishes(t)
  <2>1. \A l \in Rows : row'[l] # row[l] => Free(t, l)
    BY <1>0
  <2>2. \A i \in Invitations : row'[InvitationRow(i)] # row[InvitationRow(i)] => Pending(i)
    BY <1>0
  <2>3. \A i \in Invitations : row'[InvitationRow(i)] = "pending" => Pending(i)
    BY <1>0 DEF Pending
  <2>4. \A u \in Users : row'[RoleRow(u, "member")] = "granted" =>
          /\ row'[MembershipRow(u)] = "active"
          /\ row[RoleRow(u, "member")] = "granted"
    BY <1>0 DEF IInv, MemberRoleEndsWithMembership, IsMember
  <2> QED
    BY <2>1, <2>2, <2>3, <2>4 DEF Publishes
<1> QED
  BY <1>0, <1>1, <1>2, EndStep

\* Revoking an open invitation, or finding it is not open (invitations.rs).
LEMMA RevokeKeeps ==
  ASSUME IInv, NEW t \in Txns, Revoke(t)
  PROVE  IInv'
<1>1. cmd[t].invitation \in Invitations
  BY RequestFields DEF Revoke, Running, IInv, Sound, StageFits
<1>2. CASE Pending(cmd[t].invitation)
  BY <1>1, <1>2, AutocommitKeeps, RowsOfTables, RowsAreDistinct, StatesOfTables
    DEF Revoke, Roles, InvitationStates
<1>3. CASE ~Pending(cmd[t].invitation)
  BY <1>3, RollbackKeeps DEF Revoke
<1> QED
  BY <1>2, <1>3

\* Reactivating a deleted membership by one statement (rbac.rs).
LEMMA RestoreKeeps ==
  ASSUME IInv, NEW t \in Txns, Restore(t)
  PROVE  IInv'
<1>1. cmd[t].user \in Users
  BY RequestFields DEF Restore, Running, IInv, Sound, StageFits
<1>2. CASE row[MembershipRow(cmd[t].user)] = "deleted"
  BY <1>1, <1>2, AutocommitKeeps, RowsOfTables, RowsAreDistinct, StatesOfTables
    DEF Restore, Roles, MembershipStates
<1>3. CASE row[MembershipRow(cmd[t].user)] # "deleted"
  BY <1>3, RollbackKeeps DEF Restore
<1> QED
  BY <1>2, <1>3

\* Assigning the owner role, which no part of the invariant restricts.
LEMMA AssignKeeps ==
  ASSUME IInv, NEW t \in Txns, Assign(t)
  PROVE  IInv'
<1>1. cmd[t].user \in Users
  BY RequestFields DEF Assign, Running, IInv, Sound, StageFits
<1>2. /\ \A i \in Invitations : RoleRow(cmd[t].user, "owner") # InvitationRow(i)
      /\ \A u \in Users : RoleRow(cmd[t].user, "owner") # MembershipRow(u)
      /\ \A u \in Users : RoleRow(cmd[t].user, "owner") # RoleRow(u, "member")
  BY <1>1, RowsAreDistinct DEF Roles
<1>3. /\ RoleRow(cmd[t].user, "owner") \in Rows
      /\ "granted" \in RowValues(RoleRow(cmd[t].user, "owner"))
  BY <1>1, RowsOfTables, StatesOfTables DEF Roles, RoleStates
<1> QED
  BY <1>2, <1>3, AutocommitKeeps DEF Assign

\* What a statement inside a transaction changes is well typed.
LEMMA PrivateTyped ==
  ASSUME IInv, NEW t \in Txns, Private, NEW s \in Stages, Go(t, s),
         writes' \in [Txns -> [Rows -> RowStates]],
         \A o \in Txns, k \in Rows :
           writes'[o][k] \in RowValues(k) \cup {"unwritten"},
         saw' \in [Txns -> SUBSET Roles]
  PROVE  TypeOK' /\ stage'[t] = s
BY DEF Private, Go, IInv, TypeOK

\* A statement that writes one row.
LEMMA OneRowWritten ==
  ASSUME IInv, NEW t \in Txns, NEW k \in Rows, NEW v \in RowValues(k), Write(t, k, v)
  PROVE  /\ writes' \in [Txns -> [Rows -> RowStates]]
         /\ \A o \in Txns, l \in Rows :
              writes'[o][l] \in RowValues(l) \cup {"unwritten"}
         /\ \A o \in Txns \ {t} : writes'[o] = writes[o]
         /\ writes'[t][k] = v
         /\ \A l \in Rows \ {k} : writes'[t][l] = writes[t][l]
<1>1. v \in RowStates
  BY DEF RowValues, RowStates
<1>2. /\ writes' = [writes EXCEPT ![t] = [writes[t] EXCEPT ![k] = v]]
      /\ writes \in [Txns -> [Rows -> RowStates]]
  BY DEF Write, IInv, TypeOK
<1> QED
  BY <1>1, <1>2 DEF IInv, TypeOK

-----------------------------------------------------------------------------
(* The statements. *)

\* Looking at rows, and noting which to delete, writes nothing.
LEMMA LookKeeps ==
  ASSUME IInv, NEW t \in Txns, Look(t) \/ CheckMember(t)
  PROVE  IInv'
<1>1. PICK s \in {"join", "clear", "assign"} :
        /\ Go(t, s) /\ Private /\ writes' = writes /\ saw' = saw
        /\ s # "assign" => stage[t] = "look"
        /\ s = "assign" => stage[t] = "check"
  BY DEF Look, CheckMember, Running
<1>2. TypeOK' /\ stage'[t] = s
  BY <1>1, PrivateTyped DEF IInv, TypeOK, Stages
<1>3. OnlyOf(t) /\ row' = row /\ cmd' = cmd
  BY <1>1 DEF OnlyOf, Go, Private, IInv, TypeOK
<1>4. Sound(t)'
  <2>1. StageFits(t)' /\ IdFresh(t)'
    BY <1>1, <1>2, <1>3 DEF IInv, Sound, StageFits, IdFresh
  <2>2. NothingHeldYet(t)'
    BY <1>1, <1>2 DEF IInv, Sound, NothingHeldYet, FirstStages
  <2>3. InvitationsHeld(t)' /\ CreationIsAlone(t)'
    BY <1>1, <1>2, <1>3 DEF IInv, Sound, InvitationsHeld, CreationIsAlone, Pending, View
  <2>4. MembershipsHeld(t)' /\ RoleGoesWithMembership(t)'
    BY <1>1, <1>2, <1>3 DEF IInv, Sound, MembershipsHeld, RoleGoesWithMembership
  <2> QED
    BY <2>1, <2>2, <2>3, <2>4 DEF Sound
<1> QED
  BY <1>1, <1>2, <1>3, <1>4, PrivateStep

\* Noting the assignments to delete: a deactivation notes the member role.
LEMMA ClearKeeps ==
  ASSUME IInv, NEW t \in Txns, Clear(t)
  PROVE  IInv'
<1>1. /\ stage[t] = "clear" /\ Go(t, "delete") /\ Private /\ writes' = writes
      /\ saw' = [saw EXCEPT ![t] =
                   {r \in Roles : View(t, RoleRow(cmd[t].user, r)) = "granted"}]
      /\ saw' \in [Txns -> SUBSET Roles]
  BY DEF Clear, Running, IInv, TypeOK
<1>2. TypeOK' /\ stage'[t] = "delete"
  BY <1>1, PrivateTyped DEF IInv, TypeOK, Stages
<1>3. OnlyOf(t) /\ row' = row /\ cmd' = cmd
  BY <1>1 DEF OnlyOf, Go, Private, IInv, TypeOK
<1>4. Sound(t)'
  <2>1. StageFits(t)' /\ IdFresh(t)' /\ NothingHeldYet(t)'
    BY <1>1, <1>2, <1>3 DEF IInv, Sound, StageFits, IdFresh, NothingHeldYet, FirstStages
  <2>2. InvitationsHeld(t)' /\ CreationIsAlone(t)'
    BY <1>1, <1>2, <1>3 DEF IInv, Sound, InvitationsHeld, CreationIsAlone, Pending, View
  <2>3. MembershipsHeld(t)'
    BY <1>1, <1>2, <1>3 DEF IInv, Sound, MembershipsHeld
  <2>4. RoleGoesWithMembership(t)'
    <3> SUFFICES ASSUME NEW u \in Users, writes[t][MembershipRow(u)] = "deleted",
                        View(t, RoleRow(u, "member")) = "granted"
                 PROVE  "member" \in saw'[t]
      BY <1>1, <1>2, <1>3 DEF IInv, Sound, RoleGoesWithMembership, View
    <3>1. u = cmd[t].user
      BY DEF IInv, Sound, MembershipsHeld
    <3> QED
      BY <3>1, <1>1 DEF IInv, TypeOK, Roles
  <2> QED
    BY <2>1, <2>2, <2>3, <2>4 DEF Sound
<1> QED
  BY <1>1, <1>2, <1>3, <1>4, PrivateStep

\* A statement of an acceptance or a deactivation that writes one row.
LEMMA FrameOfWrite ==
  ASSUME IInv, NEW t \in Txns, NEW k \in Rows, NEW v \in RowValues(k), NEW s \in Stages,
         Write(t, k, v), Go(t, s), Private, saw' = saw
  PROVE  /\ TypeOK' /\ OnlyOf(t) /\ row' = row /\ cmd' = cmd /\ stage'[t] = s
         /\ writes'[t][k] = v
         /\ \A l \in Rows \ {k} : writes'[t][l] = writes[t][l]
<1>1. TypeOK' /\ stage'[t] = s
  BY OneRowWritten, PrivateTyped DEF IInv, TypeOK
<1> QED
  BY <1>1, OneRowWritten DEF OnlyOf, Go, Private, IInv, TypeOK

\* Inserting an invitation once its address has no other open one.
LEMMA InsertKeeps ==
  ASSUME IInv, NEW t \in Txns, Insert(t)
  PROVE  IInv'
<1> USE RowsOfTables
<1> DEFINE i == cmd[t].invitation
           k == InvitationRow(i)
<1>0. /\ i \in Invitations /\ cmd[t].op = "invite" /\ stage[t] = "insert"
      /\ k \in Rows /\ "pending" \in RowValues(k) /\ "commit" \in Stages
  BY RequestFields, StatesOfTables
    DEF Insert, Running, IInv, Sound, StageFits, Stages, InvitationStates
<1>1. Write(t, k, "pending") /\ Go(t, "commit") /\ Private /\ saw' = saw
  BY DEF Insert
<1> HIDE DEF k
<1>2. /\ TypeOK' /\ OnlyOf(t) /\ row' = row /\ cmd' = cmd /\ stage'[t] = "commit"
      /\ writes'[t][k] = "pending"
      /\ \A l \in Rows \ {k} : writes'[t][l] = writes[t][l]
  BY <1>0, <1>1, FrameOfWrite
<1>3. /\ \A j \in Invitations \ {i} : InvitationRow(j) \in Rows \ {k}
      /\ \A u \in Users : MembershipRow(u) \in Rows \ {k}
      /\ \A u \in Users, r \in Roles : RoleRow(u, r) \in Rows \ {k}
  BY <1>0, RowsAreDistinct DEF k
<1>4. Sound(t)'
  <2>1. StageFits(t)' /\ IdFresh(t)' /\ NothingHeldYet(t)'
    BY <1>0, <1>2 DEF IInv, Sound, StageFits, IdFresh, NothingHeldYet, FirstStages
  <2>2. InvitationsHeld(t)'
    BY <1>0, <1>2, <1>3 DEF IInv, Sound, InvitationsHeld, Pending, k
  <2>3. CreationIsAlone(t)'
    <3>1. ASSUME NEW j \in Siblings(i) \ {i}
          PROVE  /\ View(t, InvitationRow(j))' # "pending"
                 /\ \A o \in Txns : writes'[o][InvitationRow(j)] # "pending"
      <4>1. /\ j \in Invitations \ {i}
            /\ Free(t, InvitationRow(j)) /\ View(t, InvitationRow(j)) # "pending"
        BY DEF Insert, IsOnlyOpen, Siblings
      <4>2. writes'[t][InvitationRow(j)] # "pending"
        BY <4>1, <1>2, <1>3 DEF View
      <4> QED
        BY <4>1, <4>2, <1>2, <1>3 DEF View, Free, OnlyOf
    <3>2. ASSUME NEW h \in Invitations \ {i}
          PROVE  writes'[t][InvitationRow(h)] # "pending"
      <4>1. writes[t][InvitationRow(h)] # "pending"
        BY <1>0 DEF IInv, Sound, InvitationsHeld
      <4> QED
        BY <4>1, <1>2, <1>3
    <3> QED
      BY <3>1, <3>2, <1>0 DEF CreationIsAlone, Siblings
  <2>4. MembershipsHeld(t)'
    BY <1>0, <1>2, <1>3 DEF IInv, Sound, MembershipsHeld, Roles
  <2>5. RoleGoesWithMembership(t)'
    BY <1>0, <1>2, <1>3 DEF IInv, Sound, RoleGoesWithMembership
  <2> QED
    BY <2>1, <2>2, <2>3, <2>4, <2>5 DEF Sound
<1>5. Free(t, k)
  BY <1>0 DEF Insert, IsOnlyOpen, Siblings, k
<1> QED
  BY <1>0, <1>2, <1>4, <1>5, PrivateStep

\* Consuming a token: it was open, and its row is now held.
LEMMA ConsumeKeeps ==
  ASSUME IInv, NEW t \in Txns, Consume(t)
  PROVE  IInv'
<1> USE RowsOfTables
<1> DEFINE i == cmd[t].invitation
           k == InvitationRow(i)
<1>0. /\ i \in Invitations /\ cmd[t].op = "accept" /\ stage[t] = "consume"
      /\ k \in Rows /\ "accepted" \in RowValues(k) /\ "look" \in Stages
  BY RequestFields, StatesOfTables
    DEF Consume, Running, IInv, Sound, StageFits, Stages, InvitationStates
<1>1. /\ Write(t, k, "accepted") /\ Go(t, "look") /\ Private /\ saw' = saw
      /\ Free(t, k) /\ Pending(i) /\ InviteeOf[i] = cmd[t].user
  BY DEF Consume, Consumable
<1> HIDE DEF k
<1>2. /\ TypeOK' /\ OnlyOf(t) /\ row' = row /\ cmd' = cmd /\ stage'[t] = "look"
      /\ writes'[t][k] = "accepted"
      /\ \A l \in Rows \ {k} : writes'[t][l] = writes[t][l]
  BY <1>0, <1>1, FrameOfWrite
<1>3. /\ \A j \in Invitations \ {i} : InvitationRow(j) \in Rows \ {k}
      /\ \A u \in Users : MembershipRow(u) \in Rows \ {k}
      /\ \A u \in Users, r \in Roles : RoleRow(u, r) \in Rows \ {k}
  BY <1>0, RowsAreDistinct DEF k
<1>4. \A l \in Rows : writes[t][l] = "unwritten"
  BY <1>0 DEF IInv, Sound, NothingHeldYet, FirstStages
<1>5. Sound(t)'
  <2>1. StageFits(t)' /\ IdFresh(t)' /\ NothingHeldYet(t)'
    BY <1>0, <1>2 DEF IInv, Sound, StageFits, IdFresh, NothingHeldYet, FirstStages
  <2>2. InvitationsHeld(t)' /\ CreationIsAlone(t)'
    <3>1. \A j \in Invitations \ {i} : writes'[t][InvitationRow(j)] = "unwritten"
      BY <1>2, <1>3, <1>4
    <3> QED
      BY <3>1, <1>0, <1>1, <1>2 DEF InvitationsHeld, CreationIsAlone, Pending, k
  <2>3. MembershipsHeld(t)' /\ RoleGoesWithMembership(t)'
    BY <1>2, <1>3, <1>4 DEF MembershipsHeld, RoleGoesWithMembership, Roles
  <2> QED
    BY <2>1, <2>2, <2>3 DEF Sound
<1> QED
  BY <1>1, <1>2, <1>5, PrivateStep

\* Joining: the acceptance holds the membership as active.
LEMMA JoinKeeps ==
  ASSUME IInv, NEW t \in Txns, Join(t)
  PROVE  IInv'
<1> USE RowsOfTables
<1> DEFINE v == cmd[t].user
           k == MembershipRow(v)
<1>0. /\ v \in Users /\ cmd[t].op = "accept" /\ stage[t] = "join"
      /\ k \in Rows /\ "active" \in RowValues(k) /\ "grant" \in Stages
  BY RequestFields, StatesOfTables
    DEF Join, Running, IInv, Sound, StageFits, Stages, MembershipStates
<1>1. Write(t, k, "active") /\ Go(t, "grant") /\ Private /\ saw' = saw /\ Free(t, k)
  BY DEF Join, Upsert
<1> HIDE DEF k
<1>2. /\ TypeOK' /\ OnlyOf(t) /\ row' = row /\ cmd' = cmd /\ stage'[t] = "grant"
      /\ writes'[t][k] = "active"
      /\ \A l \in Rows \ {k} : writes'[t][l] = writes[t][l]
  BY <1>0, <1>1, FrameOfWrite
<1>3. /\ \A j \in Invitations : InvitationRow(j) \in Rows \ {k}
      /\ \A u \in Users \ {v} : MembershipRow(u) \in Rows \ {k}
      /\ \A u \in Users, r \in Roles : RoleRow(u, r) \in Rows \ {k}
  BY <1>0, RowsAreDistinct DEF k
<1>4. Sound(t)'
  <2>1. StageFits(t)' /\ IdFresh(t)' /\ NothingHeldYet(t)'
    BY <1>0, <1>2 DEF IInv, Sound, StageFits, IdFresh, NothingHeldYet, FirstStages
  <2>2. InvitationsHeld(t)' /\ CreationIsAlone(t)'
    <3>1. \A j \in Invitations :
            writes'[t][InvitationRow(j)] = writes[t][InvitationRow(j)]
      BY <1>2, <1>3
    <3>2. \A o \in Txns, j \in Invitations :
            writes'[o][InvitationRow(j)] = writes[o][InvitationRow(j)]
      BY <3>1, <1>2 DEF OnlyOf
    <3> QED
      BY <3>2, <1>0, <1>2 DEF IInv, Sound, InvitationsHeld, CreationIsAlone, Pending,
        View, Siblings
  <2>3. MembershipsHeld(t)' /\ RoleGoesWithMembership(t)'
    <3>1. \A u \in Users \ {v} : writes[t][MembershipRow(u)] = "unwritten"
      BY DEF IInv, Sound, MembershipsHeld
    <3>2. \A u \in Users \ {v} : writes'[t][MembershipRow(u)] = "unwritten"
      BY <3>1, <1>2, <1>3
    <3> QED
      BY <3>1, <3>2, <1>0, <1>2, <1>3 DEF IInv, Sound, MembershipsHeld,
        RoleGoesWithMembership, Roles, k
  <2> QED
    BY <2>1, <2>2, <2>3 DEF Sound
<1> QED
  BY <1>1, <1>2, <1>4, PrivateStep

\* Leaving: the deactivation holds the membership, or none if it is not active.
LEMMA LeaveKeeps ==
  ASSUME IInv, NEW t \in Txns, Leave(t)
  PROVE  IInv'
<1> USE RowsOfTables
<1> DEFINE v == cmd[t].user
           k == MembershipRow(v)
<1>0. /\ v \in Users /\ cmd[t].op = "deactivate" /\ stage[t] = "leave"
      /\ k \in Rows /\ "deleted" \in RowValues(k) /\ "clear" \in Stages
  BY RequestFields, StatesOfTables
    DEF Leave, Running, IInv, Sound, StageFits, Stages, MembershipStates
<1>1. /\ Go(t, "clear") /\ Private /\ saw' = saw
      /\ (Write(t, k, "deleted") /\ Free(t, k)) \/ writes' = writes
  BY DEF Leave
<1> HIDE DEF k
<1>2. \A l \in Rows : writes[t][l] = "unwritten"
  BY <1>0 DEF IInv, Sound, NothingHeldYet, FirstStages
<1>3. /\ TypeOK' /\ OnlyOf(t) /\ row' = row /\ cmd' = cmd /\ stage'[t] = "clear"
      /\ writes'[t][k] \in {"deleted", "unwritten"}
      /\ \A l \in Rows \ {k} : writes'[t][l] = "unwritten"
      /\ \A l \in Rows : writes'[t][l] # writes[t][l] => Free(t, l)
  <2>1. CASE Write(t, k, "deleted") /\ Free(t, k)
    BY <2>1, <1>0, <1>1, <1>2, FrameOfWrite
  <2>2. CASE writes' = writes
    <3>1. TypeOK' /\ stage'[t] = "clear"
      BY <2>2, <1>0, <1>1, PrivateTyped DEF IInv, TypeOK
    <3> QED
      BY <2>2, <3>1, <1>0, <1>1, <1>2 DEF OnlyOf, Go, Private, IInv, TypeOK
  <2> QED
    BY <2>1, <2>2, <1>1
<1>4. /\ \A j \in Invitations : InvitationRow(j) \in Rows \ {k}
      /\ \A u \in Users \ {v} : MembershipRow(u) \in Rows \ {k}
      /\ \A u \in Users, r \in Roles : RoleRow(u, r) \in Rows \ {k}
  BY <1>0, RowsAreDistinct DEF k
<1>5. Sound(t)'
  <2>1. StageFits(t)' /\ IdFresh(t)' /\ NothingHeldYet(t)'
    BY <1>0, <1>3 DEF IInv, Sound, StageFits, IdFresh, NothingHeldYet, FirstStages
  <2>2. InvitationsHeld(t)' /\ CreationIsAlone(t)'
    BY <1>3, <1>4 DEF InvitationsHeld, CreationIsAlone
  <2>3. MembershipsHeld(t)' /\ RoleGoesWithMembership(t)'
    BY <1>0, <1>3, <1>4 DEF MembershipsHeld, RoleGoesWithMembership, Roles, k
  <2> QED
    BY <2>1, <2>2, <2>3 DEF Sound
<1> QED
  BY <1>3, <1>5, PrivateStep

\* Granting the member role, with the membership held as active.
LEMMA GrantKeeps ==
  ASSUME IInv, NEW t \in Txns, Grant(t)
  PROVE  IInv'
<1> USE RowsOfTables DEF Roles
<1> DEFINE v == cmd[t].user
           k == RoleRow(v, "member")
<1>0. /\ v \in Users /\ cmd[t].op = "accept" /\ stage[t] = "grant"
      /\ k \in Rows /\ "granted" \in RowValues(k) /\ "commit" \in Stages
  BY RequestFields, StatesOfTables
    DEF Grant, Running, IInv, Sound, StageFits, Stages, RoleStates
<1>1. /\ Go(t, "commit") /\ Private /\ saw' = saw /\ Free(t, k)
      /\ (Write(t, k, "granted") \/ writes' = writes)
  BY DEF Grant
<1> HIDE DEF k
<1>2. /\ TypeOK' /\ OnlyOf(t) /\ row' = row /\ cmd' = cmd /\ stage'[t] = "commit"
      /\ \A l \in Rows \ {k} : writes'[t][l] = writes[t][l]
  <2>1. CASE Write(t, k, "granted")
    BY <2>1, <1>0, <1>1, FrameOfWrite
  <2>2. CASE writes' = writes
    <3>1. TypeOK' /\ stage'[t] = "commit"
      BY <2>2, <1>0, <1>1, PrivateTyped DEF IInv, TypeOK
    <3> QED
      BY <2>2, <3>1, <1>0, <1>1 DEF OnlyOf, Go, Private, IInv, TypeOK
  <2> QED
    BY <2>1, <2>2, <1>1
<1>3. /\ \A j \in Invitations : InvitationRow(j) \in Rows \ {k}
      /\ \A u \in Users : MembershipRow(u) \in Rows \ {k}
      /\ \A u \in Users \ {v} : RoleRow(u, "member") \in Rows \ {k}
  BY <1>0, RowsAreDistinct DEF k
<1>4. writes[t][MembershipRow(v)] = "active"
  BY <1>0 DEF IInv, Sound, MembershipsHeld
<1>5. Sound(t)'
  <2>1. StageFits(t)' /\ IdFresh(t)' /\ NothingHeldYet(t)'
    BY <1>0, <1>2 DEF IInv, Sound, StageFits, IdFresh, NothingHeldYet, FirstStages
  <2>2. InvitationsHeld(t)' /\ CreationIsAlone(t)'
    <3>1. \A j \in Invitations :
            writes'[t][InvitationRow(j)] = writes[t][InvitationRow(j)]
      BY <1>2, <1>3
    <3>2. \A o \in Txns, j \in Invitations :
            writes'[o][InvitationRow(j)] = writes[o][InvitationRow(j)]
      BY <3>1, <1>2 DEF OnlyOf
    <3> QED
      BY <3>2, <1>0, <1>2 DEF IInv, Sound, InvitationsHeld, CreationIsAlone, Pending,
        View, Siblings
  <2>3. MembershipsHeld(t)'
    BY <1>0, <1>2, <1>3, <1>4 DEF IInv, Sound, MembershipsHeld, k
  <2>4. RoleGoesWithMembership(t)'
    BY <1>2, <1>3, <1>4 DEF IInv, Sound, MembershipsHeld, RoleGoesWithMembership
  <2> QED
    BY <2>1, <2>2, <2>3, <2>4 DEF Sound
<1> QED
  BY <1>1, <1>2, <1>5, PrivateStep

\* A statement that gives several rows of t one value.
LEMMA SeveralRowsWritten ==
  ASSUME IInv, NEW t \in Txns, NEW K \in SUBSET Rows, NEW v,
         \A k \in K : v \in RowValues(k),
         writes' = [writes EXCEPT ![t] =
                      [k \in Rows |-> IF k \in K THEN v ELSE writes[t][k]]]
  PROVE  /\ writes' \in [Txns -> [Rows -> RowStates]]
         /\ \A o \in Txns, l \in Rows :
              writes'[o][l] \in RowValues(l) \cup {"unwritten"}
         /\ \A o \in Txns \ {t} : writes'[o] = writes[o]
         /\ \A l \in Rows : writes'[t][l] = IF l \in K THEN v ELSE writes[t][l]
<1> DEFINE W == [k \in Rows |-> IF k \in K THEN v ELSE writes[t][k]]
<1>1. W \in [Rows -> RowStates]
  BY DEF RowValues, RowStates, IInv, TypeOK
<1>2. writes'[t] = W /\ \A o \in Txns \ {t} : writes'[o] = writes[o]
  BY DEF IInv, TypeOK
<1>3. writes' \in [Txns -> [Rows -> RowStates]]
  BY <1>1 DEF IInv, TypeOK
<1> QED
  BY <1>2, <1>3 DEF IInv, TypeOK

\* Replacing the open invitations to an address.
LEMMA ReplaceKeeps ==
  ASSUME IInv, NEW t \in Txns, Replace(t)
  PROVE  IInv'
<1> USE RowsOfTables
<1> DEFINE open == {j \in Siblings(cmd[t].invitation) : Pending(j)}
           K == {k \in Rows : \E j \in open : k = InvitationRow(j)}
<1>0. cmd[t].op = "invite" /\ stage[t] = "replace" /\ "insert" \in Stages
  BY DEF Replace, Running, IInv, Sound, StageFits, Stages
<1>1. /\ Go(t, "insert") /\ Private /\ saw' = saw
      /\ writes' = [writes EXCEPT ![t] =
                      [k \in Rows |-> IF k \in K THEN "revoked" ELSE writes[t][k]]]
  BY DEF Replace
<1>2. /\ \A k \in K : "revoked" \in RowValues(k) /\ Free(t, k)
      /\ \A i \in Invitations : InvitationRow(i) \in K => Pending(i)
      /\ \A u \in Users : MembershipRow(u) \notin K
      /\ \A u \in Users, r \in Roles : RoleRow(u, r) \notin K
  <2>1. open \subseteq Invitations
    BY DEF Siblings
  <2> QED
    BY <2>1, RowsAreDistinct, StatesOfTables DEF Replace, InvitationStates
<1> HIDE DEF K
<1>3. \A l \in Rows : writes[t][l] = "unwritten"
  BY <1>0 DEF IInv, Sound, NothingHeldYet, FirstStages
<1>4. /\ writes' \in [Txns -> [Rows -> RowStates]]
      /\ \A o \in Txns, l \in Rows : writes'[o][l] \in RowValues(l) \cup {"unwritten"}
      /\ \A o \in Txns \ {t} : writes'[o] = writes[o]
      /\ \A l \in Rows : writes'[t][l] = IF l \in K THEN "revoked" ELSE "unwritten"
  <2>1. K \in SUBSET Rows
    BY DEF K
  <2> QED
    BY <2>1, <1>1, <1>2, <1>3, SeveralRowsWritten
<1>5. TypeOK' /\ stage'[t] = "insert"
  BY <1>0, <1>1, <1>4, PrivateTyped DEF IInv, TypeOK
<1>6. OnlyOf(t) /\ row' = row /\ cmd' = cmd
  BY <1>1, <1>4 DEF OnlyOf, Go, Private, IInv, TypeOK
<1>7. Sound(t)'
  <2>1. StageFits(t)' /\ IdFresh(t)' /\ NothingHeldYet(t)'
    BY <1>0, <1>5, <1>6 DEF IInv, Sound, StageFits, IdFresh, NothingHeldYet, FirstStages
  <2>2. InvitationsHeld(t)' /\ CreationIsAlone(t)'
    BY <1>2, <1>4, <1>6 DEF InvitationsHeld, CreationIsAlone, Pending
  <2>3. MembershipsHeld(t)' /\ RoleGoesWithMembership(t)'
    BY <1>0, <1>2, <1>4, <1>6 DEF MembershipsHeld, RoleGoesWithMembership, Roles
  <2> QED
    BY <2>1, <2>2, <2>3 DEF Sound
<1>8. \A k \in Rows : writes'[t][k] # writes[t][k] => Free(t, k)
  BY <1>2, <1>3, <1>4
<1> QED
  BY <1>5, <1>6, <1>7, <1>8, PrivateStep

\* Deleting the noted assignments: after it the member role is gone.
LEMMA DeleteKeeps ==
  ASSUME IInv, NEW t \in Txns, Delete(t)
  PROVE  IInv'
<1> USE RowsOfTables
<1> DEFINE v == cmd[t].user
           found == {r \in saw[t] : row[RoleRow(v, r)] = "granted"}
           K == {k \in Rows : \E r \in found : k = RoleRow(v, r)}
           s == IF cmd[t].op = "accept" THEN "join" ELSE "commit"
<1>0. /\ v \in Users /\ cmd[t].op \in {"accept", "deactivate"} /\ stage[t] = "delete"
      /\ s \in Stages /\ found \subseteq Roles
  BY RequestFields DEF Delete, Running, IInv, TypeOK, Sound, StageFits, Stages
<1>1. /\ Go(t, s) /\ Private /\ saw' = [saw EXCEPT ![t] = {}]
      /\ writes' = [writes EXCEPT ![t] =
                      [k \in Rows |-> IF k \in K THEN "absent" ELSE writes[t][k]]]
  BY DEF Delete, Deleted
<1>2. /\ \A k \in K : "absent" \in RowValues(k) /\ Free(t, k)
      /\ \A i \in Invitations : InvitationRow(i) \notin K
      /\ \A u \in Users : MembershipRow(u) \notin K
      /\ \A r \in found : RoleRow(v, r) \in K
  BY <1>0, RowsAreDistinct, StatesOfTables DEF Delete, RoleStates
<1> HIDE DEF K, s
<1>3. /\ writes' \in [Txns -> [Rows -> RowStates]]
      /\ \A o \in Txns, l \in Rows : writes'[o][l] \in RowValues(l) \cup {"unwritten"}
      /\ \A o \in Txns \ {t} : writes'[o] = writes[o]
      /\ \A l \in Rows : writes'[t][l] = IF l \in K THEN "absent" ELSE writes[t][l]
  <2>1. K \in SUBSET Rows
    BY DEF K
  <2> QED
    BY <2>1, <1>1, <1>2, SeveralRowsWritten
<1>4. TypeOK' /\ stage'[t] = s
  <2>1. saw' \in [Txns -> SUBSET Roles]
    BY <1>1 DEF IInv, TypeOK
  <2> QED
    BY <2>1, <1>0, <1>1, <1>3, PrivateTyped
<1>5. OnlyOf(t) /\ row' = row /\ cmd' = cmd
  BY <1>1, <1>3 DEF OnlyOf, Go, Private, IInv, TypeOK
<1>6. Sound(t)'
  <2>1. StageFits(t)' /\ IdFresh(t)' /\ NothingHeldYet(t)'
    BY <1>0, <1>4, <1>5 DEF IInv, Sound, StageFits, IdFresh, NothingHeldYet, FirstStages, s
  <2>2. InvitationsHeld(t)' /\ CreationIsAlone(t)'
    <3>1. \A o \in Txns, j \in Invitations :
            writes'[o][InvitationRow(j)] = writes[o][InvitationRow(j)]
      BY <1>2, <1>3
    <3> QED
      BY <3>1, <1>0, <1>5 DEF IInv, Sound, InvitationsHeld, CreationIsAlone, Pending,
        View, Siblings
  <2>3. MembershipsHeld(t)'
    <3>1. /\ \A u \in Users : writes'[t][MembershipRow(u)] = writes[t][MembershipRow(u)]
          /\ \A u \in Users : writes'[t][RoleRow(u, "member")] = "granted" =>
               writes[t][RoleRow(u, "member")] = "granted"
      BY <1>2, <1>3 DEF Roles
    <3> QED
      BY <3>1, <1>4, <1>5 DEF IInv, Sound, MembershipsHeld, s
  <2>4. RoleGoesWithMembership(t)'
    <3> SUFFICES ASSUME NEW u \in Users, writes'[t][MembershipRow(u)] = "deleted"
                 PROVE  /\ cmd[t].op = "deactivate"
                        /\ s \in {"clear", "delete", "commit"}
                        /\ s # "delete"
                        /\ s = "commit" => View(t, RoleRow(u, "member"))' # "granted"
      BY <1>4, <1>5 DEF RoleGoesWithMembership
    <3>1. /\ writes[t][MembershipRow(u)] = "deleted" /\ u = v
          /\ RoleRow(u, "member") \in Rows
      BY <1>2, <1>3 DEF IInv, Sound, MembershipsHeld, Roles
    <3>2. cmd[t].op = "deactivate"
      BY <3>1 DEF IInv, Sound, RoleGoesWithMembership
    <3>3. View(t, RoleRow(u, "member"))' # "granted"
      <4>1. CASE View(t, RoleRow(u, "member")) = "granted"
        <5>1. "member" \in saw[t]
          BY <4>1, <3>1, <1>0 DEF IInv, Sound, RoleGoesWithMembership
        <5>2. row[RoleRow(u, "member")] = "granted"
          BY <4>1, <3>1 DEF View, IInv, Sound, MembershipsHeld
        <5>3. writes'[t][RoleRow(u, "member")] = "absent"
          BY <5>1, <5>2, <3>1, <1>2, <1>3
        <5> QED
          BY <5>3 DEF View
      <4>2. CASE View(t, RoleRow(u, "member")) # "granted"
        BY <4>2, <3>1, <1>3, <1>5 DEF View
      <4> QED
        BY <4>1, <4>2
    <3> QED
      BY <3>2, <3>3 DEF s
  <2> QED
    BY <2>1, <2>2, <2>3, <2>4 DEF Sound
<1>7. \A k \in Rows : writes'[t][k] # writes[t][k] => Free(t, k)
  BY <1>2, <1>3
<1> QED
  BY <1>4, <1>5, <1>6, <1>7, PrivateStep

-----------------------------------------------------------------------------
(* The theorems. *)

\* The founding rows are of their tables, and the founder has no member role.
LEMMA InitHolds == Init => IInv
<1> SUFFICES ASSUME Init PROVE IInv
  OBVIOUS
<1> USE RowsOfTables, MembershipAssumption
<1>1. /\ \A i \in Invitations : row[InvitationRow(i)] = "unused"
      /\ \A u \in Users : row[RoleRow(u, "member")] # "granted"
  <2>1. \A i \in Invitations : row[InvitationRow(i)] = "unused"
    BY DEF Init, FoundingRow
  <2>2. ASSUME NEW u \in Users PROVE row[RoleRow(u, "member")] = "absent"
    <3>1. /\ RoleRow(u, "member") \in Rows
          /\ RoleRow(u, "member") \notin InvitationRows
          /\ RoleRow(u, "member") \notin MembershipRows
          /\ RoleRow(u, "member") # RoleRow(Founder, "owner")
      BY RowsAreDistinct DEF InvitationRows, MembershipRows, Roles
    <3> QED
      BY <3>1 DEF Init, FoundingRow
  <2> QED
    BY <2>1, <2>2
<1>2. \A t \in Txns : /\ stage[t] = "idle" /\ cmd[t] = NoCommand
                      /\ \A k \in Rows : writes[t][k] = "unwritten"
  BY DEF Init, NoWrites
<1>3. TypeOK
  <2>1. ASSUME NEW k \in Rows PROVE FoundingRow(k) \in RowValues(k) /\ FoundingRow(k) \in RowStates
    BY DEF FoundingRow, RowValues, RowStates, InvitationStates, MembershipStates, RoleStates
  <2>2. NoWrites \in [Rows -> RowStates] /\ "idle" \in Stages
    BY DEF NoWrites, RowStates, Stages
  <2> QED
    BY <2>1, <2>2 DEF Init, TypeOK, NoWrites
<1>4. ASSUME NEW t \in Txns PROVE Sound(t)
  <2>1. StageFits(t) /\ NothingHeldYet(t) /\ IdFresh(t)
    BY <1>2 DEF StageFits, NothingHeldYet, IdFresh, NoCommand
  <2>2. InvitationsHeld(t) /\ CreationIsAlone(t)
    BY <1>2 DEF InvitationsHeld, CreationIsAlone
  <2>3. MembershipsHeld(t) /\ RoleGoesWithMembership(t)
    BY <1>2 DEF MembershipsHeld, RoleGoesWithMembership, NoCommand, Roles
  <2> QED
    BY <2>1, <2>2, <2>3 DEF Sound
<1> QED
  BY <1>1, <1>2, <1>3, <1>4 DEF IInv, LocksExclusive, OneLiveToken, Pending,
    MemberRoleEndsWithMembership

\* Time that runs out touches no row.
LEMMA ExpireKeeps ==
  ASSUME IInv, NEW i \in Invitations, Expire(i)
  PROVE  IInv'
<1>1. TypeOK'
  BY DEF Expire, IInv, TypeOK
<1>2. \A t \in Txns : Sound(t)'
  BY DEF Expire, IInv, Sound, StageFits, NothingHeldYet, IdFresh, InvitationsHeld,
    CreationIsAlone, MembershipsHeld, RoleGoesWithMembership, Pending, View
<1> QED
  BY <1>1, <1>2 DEF Expire, IInv, LocksExclusive, OneLiveToken, Pending,
    MemberRoleEndsWithMembership, IsMember

\* Every step preserves the invariant.
LEMMA NextKeeps == IInv /\ [Next]_vars => IInv'
<1> SUFFICES ASSUME IInv, [Next]_vars PROVE IInv'
  OBVIOUS
<1>1. ASSUME NEW t \in Txns, NEW c \in Commands, Begin(t, c) PROVE IInv'
  BY <1>1, BeginKeeps
<1>2. ASSUME NEW t \in Txns, Statement(t) PROVE IInv'
  BY <1>2, ReplaceKeeps, InsertKeeps, RevokeKeeps, ConsumeKeeps, LookKeeps, ClearKeeps,
    DeleteKeeps, JoinKeeps, GrantKeeps, LeaveKeeps, RestoreKeeps, AssignKeeps
    DEF Statement
<1>3. ASSUME NEW t \in Txns, Commit(t) PROVE IInv'
  BY <1>3, CommitKeeps
<1>4. ASSUME NEW t \in Txns, Abort(t) PROVE IInv'
  BY <1>4, RollbackKeeps DEF Abort
<1>5. ASSUME NEW i \in Invitations, Expire(i) PROVE IInv'
  BY <1>5, ExpireKeeps
<1>6. CASE UNCHANGED vars
  <2>1. \A t \in Txns : Sound(t)'
    BY <1>6 DEF vars, IInv, Sound, StageFits, NothingHeldYet, IdFresh, InvitationsHeld,
      CreationIsAlone, MembershipsHeld, RoleGoesWithMembership, Pending, View
  <2> QED
    BY <1>6, <2>1 DEF vars, IInv, TypeOK, LocksExclusive, OneLiveToken, Pending,
      MemberRoleEndsWithMembership, IsMember
<1> QED
  BY <1>1, <1>2, <1>3, <1>4, <1>5, <1>6 DEF Next

\* The inductive invariant holds always.
THEOREM InvariantHolds == Spec => []IInv
<1> QED
  BY InitHolds, NextKeeps, PTL DEF Spec

\* Rows, private writes and requests are well typed.
THEOREM TypeCorrect == Spec => []TypeOK
<1>1. IInv => TypeOK
  BY DEF IInv
<1> QED
  BY <1>1, InvariantHolds, PTL

\* However deactivations and acceptances of a user interleave, whoever has
\* the member role is an active member.
THEOREM MemberRoleIsAMembers == Spec => []MemberRoleEndsWithMembership
<1>1. IInv => MemberRoleEndsWithMembership
  BY DEF IInv
<1> QED
  BY <1>1, InvariantHolds, PTL

\* However many inviters act at once, an address has one live token at most.
THEOREM TokensAreAlone == Spec => []OneLiveToken
<1>1. IInv => OneLiveToken
  BY DEF IInv
<1> QED
  BY <1>1, InvariantHolds, PTL

\* A step makes visible only what its transaction held, a revocation, a
\* reactivation or an owner role.
LEMMA StepsPublishHeld ==
  ASSUME IInv, Next, NEW i \in Invitations, row'[InvitationRow(i)] # row[InvitationRow(i)]
  PROVE  \/ \E t \in Txns : Commit(t) /\ writes[t][InvitationRow(i)] # "unwritten"
         \/ Pending(i) /\ row'[InvitationRow(i)] = "revoked"
<1> USE RowsOfTables
<1>1. ASSUME NEW t \in Txns, Commit(t) PROVE writes[t][InvitationRow(i)] # "unwritten"
  BY <1>1 DEF Commit, View
<1>2. ASSUME NEW t \in Txns, Revoke(t)
      PROVE  Pending(i) /\ row'[InvitationRow(i)] = "revoked"
  <2>1. cmd[t].invitation \in Invitations
    BY <1>2, RequestFields DEF Revoke, Running, IInv, Sound, StageFits
  <2>2. /\ Pending(cmd[t].invitation)
        /\ row' = [row EXCEPT ![InvitationRow(cmd[t].invitation)] = "revoked"]
    BY <1>2 DEF Revoke, Autocommit
  <2> QED
    BY <2>1, <2>2, RowsAreDistinct DEF IInv, TypeOK
<1>3. ASSUME NEW t \in Txns, Restore(t) PROVE FALSE
  <2>1. cmd[t].user \in Users
    BY <1>3, RequestFields DEF Restore, Running, IInv, Sound, StageFits
  <2> QED
    BY <1>3, <2>1, RowsAreDistinct DEF Restore, Autocommit, IInv, TypeOK
<1>4. ASSUME NEW t \in Txns, Assign(t) PROVE FALSE
  <2>1. cmd[t].user \in Users
    BY <1>4, RequestFields DEF Assign, Running, IInv, Sound, StageFits
  <2> QED
    BY <1>4, <2>1, RowsAreDistinct DEF Assign, Autocommit, IInv, TypeOK, Roles
<1>5. ASSUME NEW t \in Txns,
             \/ Abort(t) \/ \E c \in Commands : Begin(t, c)
             \/ (Statement(t) /\ ~Revoke(t) /\ ~Restore(t) /\ ~Assign(t))
      PROVE  row' = row
  BY <1>5 DEF Abort, Begin, Statement, Replace, Insert, Consume, Look, Clear, Delete,
    Join, Grant, Leave, CheckMember, Private
<1>6. \A j \in Invitations : ~Expire(j)
  BY DEF Expire
<1> QED
  BY <1>1, <1>2, <1>3, <1>4, <1>5, <1>6 DEF Next

\* A token that was used, revoked or replaced stays so.
THEOREM TokensStayFinal == Spec => TokensAreFinal
<1>1. ASSUME IInv, [Next]_vars, NEW i \in Invitations,
             row[InvitationRow(i)] \in {"accepted", "revoked"}
      PROVE  row'[InvitationRow(i)] = row[InvitationRow(i)]
  <2>1. CASE UNCHANGED vars
    BY <2>1 DEF vars
  <2>2. CASE Next
    <3> SUFFICES ASSUME row'[InvitationRow(i)] # row[InvitationRow(i)] PROVE FALSE
      OBVIOUS
    <3>1. ~Pending(i)
      BY <1>1 DEF Pending
    <3>2. PICK t \in Txns : writes[t][InvitationRow(i)] # "unwritten"
      BY <1>1, <2>2, <3>1, StepsPublishHeld
    <3>3. cmd[t].op = "invite" /\ cmd[t].invitation = i
      BY <1>1, <3>1, <3>2 DEF IInv, Sound, InvitationsHeld
    <3> QED
      BY <1>1, <3>3 DEF IInv, Sound, IdFresh
  <2> QED
    BY <1>1, <2>1, <2>2
<1>2. IInv /\ [Next]_vars =>
        [\A i \in Invitations :
           row[InvitationRow(i)] \in {"accepted", "revoked"} =>
             row'[InvitationRow(i)] = row[InvitationRow(i)]]_vars
  BY <1>1
<1> QED
  BY <1>2, InvariantHolds, PTL DEF Spec, TokensAreFinal

\* No token is consumed without a membership.
THEOREM AcceptanceJoins == Spec => AcceptedWithMembership
<1> USE RowsOfTables, MembershipAssumption
<1>1. ASSUME IInv, [Next]_vars, NEW i \in Invitations, Pending(i),
             row'[InvitationRow(i)] = "accepted"
      PROVE  row'[MembershipRow(InviteeOf[i])] = "active"
  <2>1. row'[InvitationRow(i)] # row[InvitationRow(i)] /\ Next
    BY <1>1 DEF vars, Pending
  <2>2. PICK t \in Txns : Commit(t) /\ writes[t][InvitationRow(i)] # "unwritten"
    BY <1>1, <2>1, StepsPublishHeld
  <2>3. writes[t][InvitationRow(i)] = "accepted"
    BY <1>1, <2>2 DEF Commit, View
  <2>4. cmd[t].op = "accept" /\ cmd[t].user = InviteeOf[i] /\ stage[t] = "commit"
    BY <1>1, <2>2, <2>3 DEF IInv, Sound, InvitationsHeld, Commit, Running
  <2>5. writes[t][MembershipRow(InviteeOf[i])] = "active"
    BY <1>1, <2>4 DEF IInv, Sound, MembershipsHeld
  <2> QED
    BY <2>2, <2>5 DEF Commit, View
<1>2. IInv /\ [Next]_vars =>
        [\A i \in Invitations :
           Pending(i) /\ row'[InvitationRow(i)] = "accepted" =>
             row'[MembershipRow(InviteeOf[i])] = "active"]_vars
  BY <1>1
<1> QED
  BY <1>2, InvariantHolds, PTL DEF Spec, AcceptedWithMembership

-----------------------------------------------------------------------------
(* The refinement of InvitationBook. *)

\* The rows a transaction holds are those of its request, and what they were
\* when it locked them: nothing else can become visible when it commits.
HoldsItsOwn(t) ==
  LET c == cmd[t] IN
  /\ \A i \in Invitations : writes[t][InvitationRow(i)] # "unwritten" =>
       \/ c.op = "invite" /\ i = c.invitation /\ writes[t][InvitationRow(i)] = "pending"
       \/ /\ c.op = "invite" /\ i \in Siblings(c.invitation) /\ Pending(i)
          /\ writes[t][InvitationRow(i)] = "revoked"
       \/ /\ c.op = "accept" /\ i = c.invitation /\ Pending(i)
          /\ writes[t][InvitationRow(i)] = "accepted"
  /\ \A u \in Users : writes[t][MembershipRow(u)] # "unwritten" =>
       \/ c.op = "accept" /\ u = c.user /\ writes[t][MembershipRow(u)] = "active"
       \/ /\ c.op = "deactivate" /\ u = c.user /\ row[MembershipRow(u)] = "active"
          /\ writes[t][MembershipRow(u)] = "deleted"
  /\ c.op = "invite" /\ stage[t] = "commit" =>
       writes[t][InvitationRow(c.invitation)] = "pending"
  /\ c.op = "accept" /\ stage[t] \in {"look", "clear", "delete", "join", "grant", "commit"} =>
       /\ writes[t][InvitationRow(c.invitation)] = "accepted"
       /\ c.user = InviteeOf[c.invitation]

\* A step of a request is of no other transaction, and changes only rows that
\* nobody else holds.
LEMMA StepsAreOfOne ==
  ASSUME IInv, NEW t \in Txns,
         (\E c \in Commands : Begin(t, c)) \/ Statement(t) \/ Commit(t) \/ Abort(t)
  PROVE  OnlyOf(t) /\ \A k \in Rows : row'[k] # row[k] => Free(t, k)
<1> USE DEF OnlyOf, IInv, TypeOK
<1>1. ASSUME End(t) PROVE OnlyOf(t)
  BY <1>1 DEF End
<1>2. ASSUME NEW c \in Commands, Begin(t, c) PROVE OnlyOf(t) /\ row' = row
  BY <1>2 DEF Begin, Go
<1>3. ASSUME NEW k, NEW v, Autocommit(t, k, v), Free(t, k)
      PROVE  OnlyOf(t) /\ \A l \in Rows : row'[l] # row[l] => Free(t, l)
  BY <1>1, <1>3 DEF Autocommit
<1>4. CASE Revoke(t) \/ Restore(t) \/ Assign(t)
  BY <1>1, <1>3, <1>4 DEF Revoke, Restore, Assign
<1>5. CASE Replace(t) \/ Insert(t) \/ Consume(t) \/ Join(t)
  BY <1>5 DEF Replace, Insert, Consume, Join, Upsert, Write, Go, Private
<1>6. CASE Look(t) \/ CheckMember(t) \/ Clear(t) \/ Delete(t)
  BY <1>6 DEF Look, CheckMember, Clear, Delete, Go, Private
<1>7. CASE Grant(t) \/ Leave(t)
  BY <1>7 DEF Grant, Leave, Write, Go, Private
<1>8. CASE Commit(t)
  <2>1. \A k \in Rows : row'[k] # row[k] => writes[t][k] # "unwritten"
    BY <1>8 DEF Commit, View
  <2>2. \A k \in Rows : writes[t][k] # "unwritten" => Free(t, k)
    BY DEF LocksExclusive, Free
  <2> QED
    BY <1>1, <1>8, <2>1, <2>2 DEF Commit
<1>9. CASE Abort(t)
  BY <1>1, <1>9 DEF Abort
<1> QED
  BY <1>2, <1>4, <1>5, <1>6, <1>7, <1>8, <1>9 DEF Statement

\* Whoever is not at work keeps what it holds as it was.
LEMMA OthersHoldTheirOwn ==
  ASSUME NEW t \in Txns, NEW o \in Txns \ {t}, OnlyOf(t), HoldsItsOwn(o),
         \A k \in Rows : row'[k] # row[k] => Free(t, k)
  PROVE  HoldsItsOwn(o)'
<1>1. \A k \in Rows : writes[o][k] # "unwritten" => row'[k] = row[k]
  BY DEF Free
<1> QED
  BY <1>1, RowsOfTables DEF HoldsItsOwn, OnlyOf, Pending, Siblings

\* A finished request holds nothing.
LEMMA EndHoldsNothing ==
  ASSUME IInv, NEW t \in Txns, End(t)
  PROVE  HoldsItsOwn(t)'
<1>1. cmd'[t] = NoCommand /\ writes'[t] = NoWrites
  BY DEF End, IInv, TypeOK
<1> QED
  BY <1>1, RowsOfTables DEF HoldsItsOwn, NoCommand, NoWrites

\* Every statement of a request takes rows of that request.
LEMMA StatementsHoldTheirOwn ==
  ASSUME IInv, NEW t \in Txns, HoldsItsOwn(t), Statement(t)
  PROVE  HoldsItsOwn(t)'
<1> USE RowsOfTables, RowsAreDistinct
<1>0. \A k \in Rows : writes[t][k] = "unwritten" \/ stage[t] \notin FirstStages
  BY DEF IInv, Sound, NothingHeldYet
<1>1. ASSUME Private, writes' = writes, stage'[t] # "commit",
             cmd[t].op = "accept" => stage[t] \in {"look", "clear"}
      PROVE  HoldsItsOwn(t)'
  BY <1>1 DEF HoldsItsOwn, Private, Pending, Siblings
<1>2. CASE Replace(t)
  <2>1. /\ cmd[t].op = "invite" /\ stage'[t] = "insert" /\ row' = row /\ cmd' = cmd
        /\ \A k \in Rows : writes[t][k] = "unwritten"
    BY <1>0, <1>2 DEF Replace, Running, Go, Private, IInv, TypeOK, Sound, StageFits, FirstStages
  <2>2. \A k \in Rows : writes'[t][k] =
          IF \E j \in Siblings(cmd[t].invitation) : Pending(j) /\ k = InvitationRow(j)
          THEN "revoked" ELSE "unwritten"
    BY <1>2, <2>1 DEF Replace, IInv, TypeOK
  <2>3. \A i \in Invitations : writes'[t][InvitationRow(i)] # "unwritten" =>
          /\ i \in Siblings(cmd[t].invitation) /\ Pending(i)
          /\ writes'[t][InvitationRow(i)] = "revoked"
    BY <2>2 DEF Siblings
  <2>4. \A u \in Users : writes'[t][MembershipRow(u)] = "unwritten"
    BY <2>2 DEF Siblings
  <2> QED
    BY <2>1, <2>3, <2>4 DEF HoldsItsOwn, Pending, Siblings
<1>3. ASSUME NEW k \in Rows, NEW v, Write(t, k, v), Private
      PROVE  writes'[t] = [writes[t] EXCEPT ![k] = v] /\ row' = row /\ cmd' = cmd
  BY <1>3 DEF Write, Private, IInv, TypeOK
<1>4. CASE Insert(t)
  <2>1. /\ cmd[t].op = "invite" /\ cmd[t].invitation \in Invitations
        /\ Write(t, InvitationRow(cmd[t].invitation), "pending") /\ Private
    BY <1>4, RequestFields DEF Insert, Running, IInv, Sound, StageFits
  <2>2. /\ writes'[t] = [writes[t] EXCEPT ![InvitationRow(cmd[t].invitation)] = "pending"]
        /\ row' = row /\ cmd' = cmd /\ writes[t] \in [Rows -> RowStates]
    BY <1>3, <2>1 DEF IInv, TypeOK
  <2> QED
    BY <2>1, <2>2 DEF HoldsItsOwn, Pending, Siblings
<1>5. CASE Consume(t)
  <2>1. /\ cmd[t].op = "accept" /\ cmd[t].invitation \in Invitations
        /\ Write(t, InvitationRow(cmd[t].invitation), "accepted") /\ Private
        /\ Pending(cmd[t].invitation) /\ InviteeOf[cmd[t].invitation] = cmd[t].user
    BY <1>5, RequestFields DEF Consume, Consumable, Running, IInv, Sound, StageFits
  <2>2. /\ writes'[t] = [writes[t] EXCEPT ![InvitationRow(cmd[t].invitation)] = "accepted"]
        /\ row' = row /\ cmd' = cmd /\ writes[t] \in [Rows -> RowStates]
    BY <1>3, <2>1 DEF IInv, TypeOK
  <2> QED
    BY <2>1, <2>2 DEF HoldsItsOwn, Pending, Siblings
<1>6. CASE Join(t)
  <2>1. /\ cmd[t].op = "accept" /\ cmd[t].user \in Users /\ stage[t] = "join"
        /\ Write(t, MembershipRow(cmd[t].user), "active") /\ Private
        /\ cmd[t].invitation \in Invitations
    BY <1>6, RequestFields DEF Join, Upsert, Running, IInv, Sound, StageFits
  <2>2. /\ writes'[t] = [writes[t] EXCEPT ![MembershipRow(cmd[t].user)] = "active"]
        /\ row' = row /\ cmd' = cmd /\ writes[t] \in [Rows -> RowStates]
    BY <1>3, <2>1 DEF IInv, TypeOK
  <2> QED
    BY <2>1, <2>2 DEF HoldsItsOwn, Pending, Siblings
<1>7. CASE Grant(t)
  <2>1. /\ cmd[t].op = "accept" /\ cmd[t].user \in Users /\ stage[t] = "grant"
        /\ cmd[t].invitation \in Invitations /\ Private
        /\ writes' = writes \/ Write(t, RoleRow(cmd[t].user, "member"), "granted")
    BY <1>7, RequestFields DEF Grant, Running, IInv, Sound, StageFits
  <2>2. /\ row' = row /\ cmd' = cmd
        /\ \A i \in Invitations : writes'[t][InvitationRow(i)] = writes[t][InvitationRow(i)]
        /\ \A u \in Users : writes'[t][MembershipRow(u)] = writes[t][MembershipRow(u)]
    <3>1. CASE writes' = writes
      BY <2>1, <3>1 DEF Private
    <3>2. CASE Write(t, RoleRow(cmd[t].user, "member"), "granted")
      <4>1. RoleRow(cmd[t].user, "member") \in Rows /\ writes[t] \in [Rows -> RowStates]
        BY <2>1 DEF Roles, IInv, TypeOK
      <4>2. /\ writes'[t] = [writes[t] EXCEPT ![RoleRow(cmd[t].user, "member")] = "granted"]
            /\ row' = row /\ cmd' = cmd
        BY <1>3, <2>1, <3>2, <4>1
      <4> QED
        BY <2>1, <4>1, <4>2 DEF Roles
    <3> QED
      BY <2>1, <3>1, <3>2
  <2> QED
    BY <2>1, <2>2 DEF HoldsItsOwn, Pending, Siblings
<1>8. CASE Leave(t)
  <2>1. /\ cmd[t].op = "deactivate" /\ cmd[t].user \in Users /\ stage[t] = "leave" /\ Private
        /\ \/ writes' = writes
           \/ /\ Write(t, MembershipRow(cmd[t].user), "deleted")
              /\ row[MembershipRow(cmd[t].user)] = "active"
    BY <1>8, RequestFields DEF Leave, Running, IInv, Sound, StageFits
  <2>2. CASE writes' = writes
    BY <2>1, <2>2 DEF HoldsItsOwn, Pending, Siblings, Private
  <2>3. CASE writes' # writes
    <3>1. /\ writes'[t] = [writes[t] EXCEPT ![MembershipRow(cmd[t].user)] = "deleted"]
          /\ row' = row /\ cmd' = cmd /\ writes[t] \in [Rows -> RowStates]
      BY <1>3, <2>1, <2>3 DEF IInv, TypeOK
    <3> QED
      BY <2>1, <2>3, <3>1 DEF HoldsItsOwn, Pending, Siblings
  <2> QED
    BY <2>2, <2>3
<1>9. CASE Delete(t)
  <2>1. cmd[t].op \in {"accept", "deactivate"} /\ stage[t] = "delete" /\ cmd[t].user \in Users
    BY <1>9, RequestFields DEF Delete, Running, IInv, Sound, StageFits
  <2>2. /\ row' = row /\ cmd' = cmd
        /\ \A i \in Invitations : writes'[t][InvitationRow(i)] = writes[t][InvitationRow(i)]
        /\ \A u \in Users : writes'[t][MembershipRow(u)] = writes[t][MembershipRow(u)]
    <3>1. saw[t] \subseteq Roles
      BY DEF IInv, TypeOK
    <3> QED
      BY <1>9, <2>1, <3>1 DEF Delete, Private, IInv, TypeOK
  <2>3. cmd[t].op = "accept" => cmd[t].invitation \in Invitations
    BY <1>9, <2>1, RequestFields DEF IInv, Sound, StageFits
  <2> QED
    BY <2>1, <2>2, <2>3 DEF HoldsItsOwn, Pending, Siblings
<1>10. CASE Look(t) \/ Clear(t) \/ CheckMember(t)
  <2>1. Private /\ writes' = writes /\ stage'[t] # "commit"
    BY <1>10 DEF Look, Clear, CheckMember, Go, IInv, TypeOK
  <2>2. CASE Look(t) \/ Clear(t)
    BY <1>1, <2>1, <2>2 DEF Look, Clear, Running
  <2>3. CASE CheckMember(t)
    <3>1. stage[t] = "check" /\ stage'[t] = "assign" /\ \A k \in Rows : writes[t][k] = "unwritten"
      BY <1>0, <2>3 DEF CheckMember, Running, Go, IInv, TypeOK, FirstStages
    <3> QED
      BY <2>1, <3>1 DEF HoldsItsOwn, Private
  <2> QED
    BY <1>10, <2>2, <2>3
<1>11. CASE Revoke(t) \/ Restore(t) \/ Assign(t)
  BY <1>11, EndHoldsNothing DEF Revoke, Restore, Assign, Autocommit
<1> QED
  BY <1>2, <1>4, <1>5, <1>6, <1>7, <1>8, <1>9, <1>10, <1>11 DEF Statement

\* Every step keeps what the transactions hold to their requests.
LEMMA HoldsKept ==
  ASSUME IInv, \A t \in Txns : HoldsItsOwn(t), [Next]_vars
  PROVE  \A t \in Txns : HoldsItsOwn(t)'
<1>1. ASSUME NEW t \in Txns,
             (\E c \in Commands : Begin(t, c)) \/ Statement(t) \/ Commit(t) \/ Abort(t)
      PROVE  \A o \in Txns : HoldsItsOwn(o)'
  <2>1. \A o \in Txns \ {t} : HoldsItsOwn(o)'
    BY <1>1, StepsAreOfOne, OthersHoldTheirOwn
  <2>2. HoldsItsOwn(t)'
    <3>1. CASE Commit(t) \/ Abort(t)
      BY <3>1, EndHoldsNothing DEF Commit, Abort
    <3>2. CASE Statement(t)
      BY <3>2, StatementsHoldTheirOwn
    <3>3. ASSUME NEW c \in Commands, Begin(t, c) PROVE HoldsItsOwn(t)'
      <4>1. /\ \A k \in Rows : writes'[t][k] = "unwritten"
            /\ stage'[t] \notin {"look", "clear", "delete", "join", "grant", "commit"}
        BY <3>3, MembershipAssumption, RequestFields
        DEF Begin, Running, Go, IInv, TypeOK, Sound, NothingHeldYet, FirstStages
      <4> QED
        BY <4>1, RowsOfTables DEF HoldsItsOwn
    <3> QED
      BY <1>1, <3>1, <3>2, <3>3
  <2> QED
    BY <2>1, <2>2
<1>2. ASSUME UNCHANGED <<row, writes, stage, cmd>> PROVE \A t \in Txns : HoldsItsOwn(t)'
  BY <1>2 DEF HoldsItsOwn, Pending, Siblings
<1>3. CASE (\E i \in Invitations : Expire(i)) \/ UNCHANGED vars
  BY <1>2, <1>3 DEF Expire, vars
<1> QED
  BY <1>1, <1>3 DEF Next

\* The invitations and the memberships that are committed.
Tokens == [i \in Invitations |-> row[InvitationRow(i)]]
Standing == [u \in Users |-> row[MembershipRow(u)]]

\* Nothing of the book changes.
LEMMA BookStutters ==
  ASSUME \A i \in Invitations : row'[InvitationRow(i)] = row[InvitationRow(i)],
         \A u \in Users : row'[MembershipRow(u)] = row[MembershipRow(u)]
  PROVE  UNCHANGED <<Tokens, Standing>>
BY DEF Tokens, Standing

\* A commit is one request of the book, or has changed roles only.
LEMMA CommitIsRequest ==
  ASSUME IInv, NEW t \in Txns, HoldsItsOwn(t), Commit(t)
  PROVE  Book!Next \/ UNCHANGED <<Tokens, Standing>>
<1> USE RowsOfTables, RowsAreDistinct
<1>0. /\ stage[t] = "commit" /\ cmd[t] \in Command
      /\ cmd[t].op \in {"invite", "accept", "deactivate"}
      /\ cmd[t].user \in Users
      /\ \A k \in Rows : row'[k] = View(t, k)
  BY RequestFields DEF Commit, Running, IInv, Sound, StageFits
<1>1. CASE cmd[t].op = "invite"
  <2>1. PICK i \in Invitations : i = cmd[t].invitation
    BY <1>0, <1>1, RequestFields
  <2>2. row[InvitationRow(i)] = "unused" /\ row'[InvitationRow(i)] = "pending"
    BY <1>0, <1>1, <2>1 DEF HoldsItsOwn, View, IInv, Sound, IdFresh
  <2>3. ASSUME NEW j \in Invitations \ {i}
        PROVE  row'[InvitationRow(j)] =
                 IF row[InvitationRow(j)] = "pending" /\ InviteeOf[j] = InviteeOf[i]
                 THEN "revoked" ELSE row[InvitationRow(j)]
    <3>1. CASE writes[t][InvitationRow(j)] = "unwritten"
      <4>1. writes[t][InvitationRow(i)] = "pending"
        BY <1>0, <1>1, <2>1 DEF HoldsItsOwn
      <4>2. j \in Siblings(i) => View(t, InvitationRow(j)) # "pending"
        BY <4>1 DEF IInv, Sound, CreationIsAlone
      <4> QED
        BY <1>0, <3>1, <4>2 DEF View, Siblings
    <3>2. CASE writes[t][InvitationRow(j)] # "unwritten"
      BY <1>0, <1>1, <2>1, <3>2 DEF HoldsItsOwn, View, Siblings, Pending
    <3> QED
      BY <3>1, <3>2
  <2>4. \A u \in Users : row'[MembershipRow(u)] = row[MembershipRow(u)]
    BY <1>0, <1>1 DEF HoldsItsOwn, View
  <2>5. Standing' = Standing
    BY <2>4 DEF Standing
  <2>6. Book!Issue(i)
    BY <2>2, <2>3, <2>5 DEF Book!Issue, Standing
  <2> QED
    BY <2>6 DEF Book!Next
<1>2. CASE cmd[t].op = "accept"
  <2>1. PICK i \in Invitations : i = cmd[t].invitation
    BY <1>0, <1>2, RequestFields
  <2>2. /\ row[InvitationRow(i)] = "pending" /\ row'[InvitationRow(i)] = "accepted"
        /\ InviteeOf[i] = cmd[t].user
    BY <1>0, <1>2, <2>1 DEF HoldsItsOwn, View, Pending
  <2>3. \A j \in Invitations \ {i} : row'[InvitationRow(j)] = row[InvitationRow(j)]
    BY <1>0, <1>2, <2>1 DEF HoldsItsOwn, View
  <2>4. row'[MembershipRow(cmd[t].user)] = "active"
    BY <1>0, <1>2 DEF View, IInv, Sound, MembershipsHeld
  <2>5. \A u \in Users \ {cmd[t].user} : row'[MembershipRow(u)] = row[MembershipRow(u)]
    BY <1>0, <1>2 DEF HoldsItsOwn, View
  <2>6. Tokens' = [Tokens EXCEPT ![i] = "accepted"]
    BY <2>2, <2>3 DEF Tokens
  <2>7. Standing' = [Standing EXCEPT ![InviteeOf[i]] = "active"]
    BY <2>2, <2>4, <2>5 DEF Standing
  <2>8. Book!Accept(i)
    BY <2>2, <2>6, <2>7 DEF Book!Accept, Tokens, Standing
  <2> QED
    BY <2>8 DEF Book!Next
<1>3. CASE cmd[t].op = "deactivate"
  <2>1. \A j \in Invitations : row'[InvitationRow(j)] = row[InvitationRow(j)]
    BY <1>0, <1>3 DEF HoldsItsOwn, View
  <2>2. PICK u \in Users : u = cmd[t].user
    BY <1>0
  <2>3. \A v \in Users \ {u} : row'[MembershipRow(v)] = row[MembershipRow(v)]
    BY <1>0, <1>3, <2>2 DEF HoldsItsOwn, View
  <2>4. CASE writes[t][MembershipRow(u)] = "unwritten"
    BY <1>0, <2>1, <2>3, <2>4, BookStutters DEF View
  <2>5. CASE writes[t][MembershipRow(u)] # "unwritten"
    <3>1. row[MembershipRow(u)] = "active" /\ row'[MembershipRow(u)] = "deleted"
      BY <1>0, <1>3, <2>2, <2>5 DEF HoldsItsOwn, View
    <3>2. Standing' = [Standing EXCEPT ![u] = "deleted"] /\ Tokens' = Tokens
      BY <2>1, <2>3, <3>1 DEF Standing, Tokens
    <3>3. Book!Leave(u)
      BY <3>1, <3>2 DEF Book!Leave, Standing, Tokens
    <3> QED
      BY <3>3 DEF Book!Next
  <2> QED
    BY <2>4, <2>5
<1> QED
  BY <1>0, <1>1, <1>2, <1>3

\* So is a statement that commits by itself.
LEMMA AutocommitIsRequest ==
  ASSUME IInv, NEW t \in Txns, Revoke(t) \/ Restore(t) \/ Assign(t)
  PROVE  Book!Next \/ UNCHANGED <<Tokens, Standing>>
<1> USE RowsOfTables, RowsAreDistinct
<1>0. cmd[t] \in Command /\ cmd[t].user \in Users /\ row \in [Rows -> RowStates]
  BY RequestFields DEF Revoke, Restore, Assign, Running, IInv, TypeOK, Sound, StageFits
<1>1. CASE Revoke(t) /\ Pending(cmd[t].invitation)
  <2>1. PICK i \in Invitations : i = cmd[t].invitation
    BY <1>0, <1>1, RequestFields DEF Revoke, Running, IInv, Sound, StageFits
  <2>2. row' = [row EXCEPT ![InvitationRow(i)] = "revoked"] /\ row[InvitationRow(i)] = "pending"
    BY <1>1, <2>1 DEF Revoke, Autocommit, Pending
  <2>3. Tokens' = [Tokens EXCEPT ![i] = "revoked"] /\ Standing' = Standing
    <3>1. row'[InvitationRow(i)] = "revoked"
      BY <1>0, <2>2
    <3>2. \A j \in Invitations \ {i} : row'[InvitationRow(j)] = row[InvitationRow(j)]
      BY <1>0, <2>2
    <3>3. \A u \in Users : row'[MembershipRow(u)] = row[MembershipRow(u)]
      BY <1>0, <2>2
    <3> QED
      BY <3>1, <3>2, <3>3 DEF Tokens, Standing
  <2>4. Book!Withdraw(i)
    BY <2>2, <2>3 DEF Book!Withdraw, Tokens, Standing
  <2> QED
    BY <2>4 DEF Book!Next
<1>2. CASE Restore(t) /\ row[MembershipRow(cmd[t].user)] = "deleted"
  <2>1. PICK u \in Users : u = cmd[t].user
    BY <1>0
  <2>2. row' = [row EXCEPT ![MembershipRow(u)] = "active"] /\ row[MembershipRow(u)] = "deleted"
    BY <1>2, <2>1 DEF Restore, Autocommit
  <2>3. Standing' = [Standing EXCEPT ![u] = "active"] /\ Tokens' = Tokens
    <3>1. \A i \in Invitations : row'[InvitationRow(i)] = row[InvitationRow(i)]
      BY <1>0, <2>2
    <3>2. /\ row'[MembershipRow(u)] = "active"
          /\ \A v \in Users \ {u} : row'[MembershipRow(v)] = row[MembershipRow(v)]
      BY <1>0, <2>2
    <3> QED
      BY <3>1, <3>2 DEF Tokens, Standing
  <2>4. Book!Return(u)
    BY <2>2, <2>3 DEF Book!Return, Tokens, Standing
  <2> QED
    BY <2>4 DEF Book!Next
<1>3. CASE Assign(t)
  <2>1. row' = [row EXCEPT ![RoleRow(cmd[t].user, "owner")] = "granted"]
    BY <1>3 DEF Assign, Autocommit
  <2> QED
    BY <1>0, <2>1, BookStutters DEF Roles
<1>4. CASE row' = row
  BY <1>4, BookStutters
<1> QED
  BY <1>1, <1>2, <1>3, <1>4 DEF Revoke, Restore

\* However the statements of requests interleave, the invitations and the
\* memberships change as if the requests came one after the other.
THEOREM RequestsAreBooked == Spec => ImplementsInvitationBook
<1>1. Init => Book!Init /\ \A t \in Txns : HoldsItsOwn(t)
  <2> SUFFICES ASSUME Init PROVE Book!Init /\ \A t \in Txns : HoldsItsOwn(t)
    OBVIOUS
  <2> USE RowsOfTables, RowsAreDistinct, MembershipAssumption
  <2>1. \A i \in Invitations : row[InvitationRow(i)] = "unused"
    BY DEF Init, FoundingRow
  <2>2. \A u \in Users : row[MembershipRow(u)] = IF u = Founder THEN "active" ELSE "none"
    <3>1. ASSUME NEW u \in Users PROVE MembershipRow(u) \notin InvitationRows
      BY DEF InvitationRows
    <3> QED
      BY <3>1 DEF Init, FoundingRow
  <2>3. Book!Init
    BY <2>1, <2>2 DEF Book!Init
  <2>4. \A t \in Txns : HoldsItsOwn(t)
    BY DEF Init, HoldsItsOwn, NoCommand, NoWrites
  <2> QED
    BY <2>3, <2>4
<1>2. IInv /\ (\A t \in Txns : HoldsItsOwn(t)) /\ [Next]_vars
        => (\A t \in Txns : HoldsItsOwn(t))'
  BY HoldsKept
<1>3. IInv /\ (\A t \in Txns : HoldsItsOwn(t)) /\ [Next]_vars
        => [Book!Next]_<<Tokens, Standing>>
  <2> SUFFICES ASSUME IInv, \A t \in Txns : HoldsItsOwn(t), [Next]_vars
               PROVE  Book!Next \/ UNCHANGED <<Tokens, Standing>>
    OBVIOUS
  <2>1. CASE row' = row
    BY <2>1, BookStutters
  <2>2. ASSUME row' # row
        PROVE  \E t \in Txns : Commit(t) \/ Revoke(t) \/ Restore(t) \/ Assign(t)
    BY <2>2 DEF Next, Begin, Abort, Expire, Statement, Replace, Insert, Consume, Look,
      Clear, Delete, Join, Grant, Leave, CheckMember, Private, vars
  <2> QED
    BY <2>1, <2>2, CommitIsRequest, AutocommitIsRequest
<1> QED
  BY <1>1, <1>2, <1>3, InvariantHolds, PTL
  DEF Spec, ImplementsInvitationBook, Book!Spec, Book!vars, Tokens, Standing

=============================================================================
