----------------------------- MODULE Membership -----------------------------
(***************************************************************************)
(* Membership of one organization: invitations and their acceptance, the   *)
(* deactivation and reactivation of a membership, and role assignments.    *)
(*                                                                         *)
(* No lock is common to these requests.  Each is a sequence of statements  *)
(* that lock the rows they write, one by one, and READ COMMITTED shows     *)
(* every statement what was committed when it ran.  Here a transaction's   *)
(* uncommitted rows are its private writes, a private write is the lock on *)
(* its row, and a step is a statement.  A statement that has to wait for a *)
(* row looks at it again when it gets it, so it runs at that moment.       *)
(***************************************************************************)
EXTENDS Naturals

CONSTANTS
  Users,
  Founder,      \* the user who created the organization
  Invitations,  \* ids of invitations, used and unused
  InviteeOf,    \* the user whose address an invitation names
  Txns,         \* database connections, at most one request each
  Commands,     \* the requests clients and operators make
  None

Roles == {"owner", "member"}  \* the built-in roles

Command ==
  [op : {"invite", "revoke", "accept"}, user : Users, invitation : Invitations]
  \cup [op : {"deactivate", "reactivate", "assign_owner"}, user : Users,
        invitation : {None}]

ASSUME MembershipAssumption ==
  /\ Founder \in Users
  /\ InviteeOf \in [Invitations -> Users]
  /\ Commands \subseteq Command
  /\ None \notin Invitations

InvitationRow(i) == <<"invitation", i>>
MembershipRow(u) == <<"membership", u>>
RoleRow(u, r)    == <<"role", u, r>>

InvitationRows == {InvitationRow(i) : i \in Invitations}
MembershipRows == {MembershipRow(u) : u \in Users}
RoleRows == {RoleRow(u, r) : u \in Users, r \in Roles}
Rows == InvitationRows \cup MembershipRows \cup RoleRows

\* "unused", "none" and "absent" stand for a row that does not exist.
InvitationStates == {"unused", "pending", "accepted", "revoked"}
MembershipStates == {"none", "active", "deleted"}
RoleStates == {"absent", "granted"}
RowStates == InvitationStates \cup MembershipStates \cup RoleStates \cup {"unwritten"}

Stages == {"idle", "replace", "insert", "revoke", "consume", "look", "clear",
           "delete", "join", "grant", "leave", "restore", "check", "assign",
           "commit"}

VARIABLES
  row,      \* what is committed
  writes,   \* per transaction: its uncommitted rows, each locked
  stage,    \* per transaction: its next statement
  cmd,      \* per transaction: its request
  late,     \* per transaction: the invitation had expired at BEGIN
  saw,      \* per transaction: the roles a DELETE has yet to delete
  expired   \* the invitations whose time is up

vars == <<row, writes, stage, cmd, late, saw, expired>>

NoWrites == [k \in Rows |-> "unwritten"]
NoCommand == [op |-> "none", user |-> None, invitation |-> None]

\* The founder's membership and owner role, committed with the organization.
FoundingRow(k) ==
  IF k \in InvitationRows THEN "unused"
  ELSE IF k \in MembershipRows
    THEN IF k = MembershipRow(Founder) THEN "active" ELSE "none"
    ELSE IF k = RoleRow(Founder, "owner") THEN "granted" ELSE "absent"

Init ==
  /\ row = [k \in Rows |-> FoundingRow(k)]
  /\ writes = [t \in Txns |-> NoWrites]
  /\ stage = [t \in Txns |-> "idle"]
  /\ cmd = [t \in Txns |-> NoCommand]
  /\ late = [t \in Txns |-> FALSE]
  /\ saw = [t \in Txns |-> {}]
  /\ expired = {}

-----------------------------------------------------------------------------
(* Rows and statements. *)

(* A definition marked "Defect" is a plausible mistake in the next one; the *)
(* runs over the mutants show that a property notices it.                   *)

View(t, k) == IF writes[t][k] = "unwritten" THEN row[k] ELSE writes[t][k]

Free(t, k) == \A o \in Txns \ {t} : writes[o][k] = "unwritten"

Write(t, k, v) == writes' = [writes EXCEPT ![t][k] = v]

Running(t, s) == stage[t] = s
Go(t, s) == stage' = [stage EXCEPT ![t] = s]

\* The request is over and its locks are gone.
End(t) ==
  /\ stage' = [stage EXCEPT ![t] = "idle"]
  /\ cmd' = [cmd EXCEPT ![t] = NoCommand]
  /\ late' = [late EXCEPT ![t] = FALSE]
  /\ saw' = [saw EXCEPT ![t] = {}]
  /\ writes' = [writes EXCEPT ![t] = NoWrites]
  /\ UNCHANGED expired

\* A statement inside a transaction changes nothing others see.
Private == UNCHANGED <<row, cmd, late, expired>>

\* A statement outside a transaction commits by itself.
Autocommit(t, k, v) == row' = [row EXCEPT ![k] = v] /\ End(t)

Siblings(i) == {j \in Invitations : InviteeOf[j] = InviteeOf[i]}
IsMember(u) == row[MembershipRow(u)] = "active"
MayInvite(u) == IsMember(u) /\ row[RoleRow(u, "owner")] = "granted"

\* A request is authorized and its BEGIN sent; a new invitation has a new id.
Begin(t, c) ==
  /\ Running(t, "idle")
  /\ c.op \in {"invite", "revoke"} => MayInvite(c.user)
  /\ c.op = "invite" =>
       /\ row[InvitationRow(c.invitation)] = "unused"
       /\ \A o \in Txns : cmd[o].op = "invite" => cmd[o].invitation # c.invitation
  /\ Go(t, CASE c.op = "invite" -> "replace"
             [] c.op = "revoke" -> "revoke"
             [] c.op = "accept" -> "consume"
             [] c.op = "deactivate" -> "leave"
             [] c.op = "reactivate" -> "restore"
             [] c.op = "assign_owner" -> "check")
  /\ cmd' = [cmd EXCEPT ![t] = c]
  /\ late' = [late EXCEPT ![t] = c.invitation \in expired]
  /\ UNCHANGED <<row, writes, saw, expired>>

\* An early return, an error, a deadlock victim or a lost connection.
Abort(t) == ~Running(t, "idle") /\ End(t) /\ UNCHANGED row

Commit(t) ==
  /\ Running(t, "commit")
  /\ row' = [k \in Rows |-> View(t, k)]
  /\ End(t)

Expire(i) ==
  /\ row[InvitationRow(i)] = "pending"
  /\ i \notin expired
  /\ expired' = expired \cup {i}
  /\ UNCHANGED <<row, writes, stage, cmd, late, saw>>

-----------------------------------------------------------------------------
(* Invitations. *)

Pending(i) == row[InvitationRow(i)] = "pending"

\* The invitations to the same address that are still open are revoked.
Replace(t) ==
  LET open == {j \in Siblings(cmd[t].invitation) : Pending(j)} IN
  /\ Running(t, "replace")
  /\ \A j \in open : Free(t, InvitationRow(j))
  /\ writes' = [writes EXCEPT ![t] =
       [k \in Rows |-> IF \E j \in open : k = InvitationRow(j)
                       THEN "revoked" ELSE writes[t][k]]]
  /\ Go(t, "insert")
  /\ Private /\ UNCHANGED saw

\* Defect: the replacement above is trusted to leave no open invitation.
NoIndex(t, i) == TRUE

\* invitations_tenant_email_pending_unique: wait for whoever is changing an
\* invitation to the address, and fail when one is open.
IsOnlyOpen(t, i) ==
  \A j \in Siblings(i) : /\ Free(t, InvitationRow(j))
                         /\ View(t, InvitationRow(j)) # "pending"

Insert(t) ==
  /\ Running(t, "insert")
  /\ IsOnlyOpen(t, cmd[t].invitation)
  /\ Write(t, InvitationRow(cmd[t].invitation), "pending")
  /\ Go(t, "commit")
  /\ Private /\ UNCHANGED saw

Revoke(t) ==
  LET i == cmd[t].invitation IN
  /\ Running(t, "revoke")
  /\ IF Pending(i) THEN Free(t, InvitationRow(i)) /\ Autocommit(t, InvitationRow(i), "revoked")
     ELSE UNCHANGED row /\ End(t)

\* Defect: the conditions of the consumption are left to the lookup.
KnownToken(t, i) == row[InvitationRow(i)] # "unused"

Consumable(t, i) == Pending(i) /\ ~late[t]

\* The row is locked, the address compared, and the token consumed once.
Consume(t) ==
  LET i == cmd[t].invitation IN
  /\ Running(t, "consume")
  /\ Free(t, InvitationRow(i))
  /\ InviteeOf[i] = cmd[t].user
  /\ Consumable(t, i)
  /\ Write(t, InvitationRow(i), "accepted")
  /\ Go(t, "look")
  /\ Private /\ UNCHANGED saw

\* A plain read decides whether old assignments must go.
Look(t) ==
  /\ Running(t, "look")
  /\ Go(t, IF IsMember(cmd[t].user) THEN "join" ELSE "clear")
  /\ Private /\ UNCHANGED <<writes, saw>>

-----------------------------------------------------------------------------
(* Memberships and roles. *)

\* The DELETE of a user's assignments finds its rows, and then deletes each
\* as soon as nobody else is changing it.
Clear(t) ==
  /\ Running(t, "clear")
  /\ saw' = [saw EXCEPT ![t] =
       {r \in Roles : View(t, RoleRow(cmd[t].user, r)) = "granted"}]
  /\ Go(t, "delete")
  /\ Private /\ UNCHANGED writes

\* Defect: an assignment is soft-deleted like a membership.
SoftDeleted == "deleted"

Deleted == "absent"

Delete(t) ==
  LET u == cmd[t].user
      found == {r \in saw[t] : row[RoleRow(u, r)] = "granted"} IN
  /\ Running(t, "delete")
  /\ \A r \in found : Free(t, RoleRow(u, r))
  /\ writes' = [writes EXCEPT ![t] =
       [k \in Rows |-> IF \E r \in found : k = RoleRow(u, r)
                       THEN Deleted ELSE writes[t][k]]]
  /\ saw' = [saw EXCEPT ![t] = {}]
  /\ Go(t, IF cmd[t].op = "accept" THEN "join" ELSE "commit")
  /\ Private

\* Defect: ON CONFLICT DO NOTHING, as for the assignment of the role.
JoinOnce(t, u) ==
  IF row[MembershipRow(u)] = "none" THEN Write(t, MembershipRow(u), "active")
  ELSE UNCHANGED writes

\* ON CONFLICT DO UPDATE, which locks the row even when it is active.
Upsert(t, u) == Write(t, MembershipRow(u), "active")

Join(t) ==
  /\ Running(t, "join")
  /\ Free(t, MembershipRow(cmd[t].user))
  /\ Upsert(t, cmd[t].user)
  /\ Go(t, "grant")
  /\ Private /\ UNCHANGED saw

Grant(t) ==
  LET k == RoleRow(cmd[t].user, "member") IN
  /\ Running(t, "grant")
  /\ Free(t, k)
  /\ IF View(t, k) = "granted" THEN UNCHANGED writes ELSE Write(t, k, "granted")
  /\ Go(t, "commit")
  /\ Private /\ UNCHANGED saw

Leave(t) ==
  LET k == MembershipRow(cmd[t].user) IN
  /\ Running(t, "leave")
  /\ IF row[k] = "active" THEN Free(t, k) /\ Write(t, k, "deleted")
     ELSE UNCHANGED writes
  /\ Go(t, "clear")
  /\ Private /\ UNCHANGED saw

Restore(t) ==
  LET k == MembershipRow(cmd[t].user) IN
  /\ Running(t, "restore")
  /\ IF row[k] = "deleted" THEN Free(t, k) /\ Autocommit(t, k, "active")
     ELSE UNCHANGED row /\ End(t)

\* assign_owner reads the membership and writes the role with two statements.
CheckMember(t) ==
  /\ Running(t, "check")
  /\ IsMember(cmd[t].user)
  /\ Go(t, "assign")
  /\ Private /\ UNCHANGED <<writes, saw>>

Assign(t) ==
  LET k == RoleRow(cmd[t].user, "owner") IN
  /\ Running(t, "assign")
  /\ Free(t, k)
  /\ Autocommit(t, k, "granted")

Statement(t) ==
  \/ Replace(t) \/ Insert(t) \/ Revoke(t)
  \/ Consume(t) \/ Look(t) \/ Clear(t) \/ Delete(t) \/ Join(t) \/ Grant(t)
  \/ Leave(t) \/ Restore(t) \/ CheckMember(t) \/ Assign(t)

Next ==
  \/ \E t \in Txns : \/ \E c \in Commands : Begin(t, c)
                     \/ Statement(t)
                     \/ Commit(t)
                     \/ Abort(t)
  \/ \E i \in Invitations : Expire(i)

Spec == Init /\ [][Next]_vars

-----------------------------------------------------------------------------
(* Properties. *)

RowValues(k) ==
  IF k \in InvitationRows THEN InvitationStates
  ELSE IF k \in MembershipRows THEN MembershipStates ELSE RoleStates

\* Every row holds a value of its table; an assignment is there or it is not.
TypeOK ==
  /\ row \in [Rows -> RowStates]
  /\ writes \in [Txns -> [Rows -> RowStates]]
  /\ \A k \in Rows : row[k] \in RowValues(k)
  /\ \A t \in Txns, k \in Rows : writes[t][k] \in RowValues(k) \cup {"unwritten"}
  /\ stage \in [Txns -> Stages]
  /\ cmd \in [Txns -> Command \cup {NoCommand}]
  /\ late \in [Txns -> BOOLEAN]
  /\ saw \in [Txns -> SUBSET Roles]
  /\ expired \subseteq Invitations

\* The member role, which every acceptance grants, ends with the membership:
\* a deactivation that interleaves with acceptances of the same user never
\* leaves the role to a membership that is not active.
MemberRoleEndsWithMembership ==
  \A u \in Users : row[RoleRow(u, "member")] = "granted" => IsMember(u)

\* One live token per address, whoever invites at the same time.
OneLiveToken ==
  \A i, j \in Invitations :
    Pending(i) /\ Pending(j) /\ InviteeOf[i] = InviteeOf[j] => i = j

\* A token that was used, revoked or replaced stays so, also when the
\* acceptance had already begun.
TokensAreFinal ==
  [][\A i \in Invitations :
       row[InvitationRow(i)] \in {"accepted", "revoked"} =>
         row'[InvitationRow(i)] = row[InvitationRow(i)]]_vars

\* No token is consumed without a membership: the step that makes an
\* invitation accepted leaves its user an active member.
AcceptedWithMembership ==
  [][\A i \in Invitations :
       Pending(i) /\ row'[InvitationRow(i)] = "accepted" =>
         row'[MembershipRow(InviteeOf[i])] = "active"]_vars

\* Refuted, stated of the code by rbac.rs: a reactivation starts with no old
\* privileges.  A membership that becomes active again is not an owner's.
NoResurrection ==
  [][\A u \in Users :
       row[MembershipRow(u)] = "deleted" /\ row'[MembershipRow(u)] = "active" =>
         row'[RoleRow(u, "owner")] = "absent"]_vars

-----------------------------------------------------------------------------
(* Refinement. *)

Book == INSTANCE InvitationBook WITH
  invitation <- [i \in Invitations |-> row[InvitationRow(i)]],
  membership <- [u \in Users |-> row[MembershipRow(u)]]

\* However the statements of requests interleave, every commit is one whole
\* request: it closes the invitations it replaces and no others, a token is
\* used once and makes its user a member, and nobody returns who has not left.
ImplementsInvitationBook == Book!Spec

=============================================================================
