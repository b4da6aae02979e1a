---------------------------- MODULE MCMembership ----------------------------
(* An instance of Membership for TLC: the founder and one invitee. *)
EXTENDS Membership, TLC

CONSTANTS founder, guest

ToGuest == [i \in Invitations |-> guest]

\* The founder's requests about the guest, and the guest's own.
GuestCommands ==
  {c \in Command :
     \/ c.op \in {"invite", "revoke"} /\ c.user = founder
     \/ c.op \notin {"invite", "revoke"} /\ c.user = guest}

IdSymmetry == Permutations(Txns) \cup Permutations(Invitations)
=============================================================================
