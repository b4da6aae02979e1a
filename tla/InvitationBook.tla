---------------------------- MODULE InvitationBook ----------------------------
(***************************************************************************)
(* What an organization may rely on when it invites people: requests       *)
(* happen one after the other, each in one step and whole.  There are no   *)
(* statements, transactions and locks here.  Roles are left out, and so is *)
(* the time at which an invitation expires.                                *)
(***************************************************************************)
CONSTANTS Users, Founder, Invitations, InviteeOf

VARIABLES
  invitation,  \* "unused", "pending", "accepted" or "revoked"
  membership   \* "none", "active" or "deleted"

vars == <<invitation, membership>>

Init ==
  /\ invitation = [i \in Invitations |-> "unused"]
  /\ membership = [u \in Users |-> IF u = Founder THEN "active" ELSE "none"]

\* A new invitation takes the place of every open one to the same user.
Issue(i) ==
  /\ invitation[i] = "unused"
  /\ invitation' = [j \in Invitations |->
       IF j = i THEN "pending"
       ELSE IF invitation[j] = "pending" /\ InviteeOf[j] = InviteeOf[i] THEN "revoked"
       ELSE invitation[j]]
  /\ UNCHANGED membership

Withdraw(i) ==
  /\ invitation[i] = "pending"
  /\ invitation' = [invitation EXCEPT ![i] = "revoked"]
  /\ UNCHANGED membership

\* Whoever accepts is a member, also after having left.
Accept(i) ==
  /\ invitation[i] = "pending"
  /\ invitation' = [invitation EXCEPT ![i] = "accepted"]
  /\ membership' = [membership EXCEPT ![InviteeOf[i]] = "active"]

Leave(u) ==
  /\ membership[u] = "active"
  /\ membership' = [membership EXCEPT ![u] = "deleted"]
  /\ UNCHANGED invitation

Return(u) ==
  /\ membership[u] = "deleted"
  /\ membership' = [membership EXCEPT ![u] = "active"]
  /\ UNCHANGED invitation

Next ==
  \/ \E i \in Invitations : Issue(i) \/ Withdraw(i) \/ Accept(i)
  \/ \E u \in Users : Leave(u) \/ Return(u)

Spec == Init /\ [][Next]_vars

=============================================================================
