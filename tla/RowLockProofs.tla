--------------------------- MODULE RowLockProofs ---------------------------
(***************************************************************************)
(* Proofs about RowLocks, for every set of users, projects, connections    *)
(* and commands.                                                           *)
(*                                                                         *)
(* The invariant says what a transaction has locked when it is at a given  *)
(* statement of its command.  A circle of waiting transactions is excluded *)
(* without a measure: in a circle without anybody who found no member,     *)
(* whoever holds a role or a membership exclusively has locked the         *)
(* membership of the user first (a deactivation, or an acceptance past its *)
(* INSERT) and waits for a role of that user.  A writer that shares those  *)
(* roles shares that membership too, so nobody in the circle can hold them;*)
(* then no writer waits, and then nobody does.                             *)
(***************************************************************************)
EXTENDS RowLocks, TLAPS

-----------------------------------------------------------------------------
(* The invariant. *)

\* The rows statement s may find, whatever there is at the moment.
Asked(c, s) ==
  CASE s = "project"    -> {<<"project", c.project>>}
    [] s = "members"    -> Memberships(c.user)
    [] s = "grant"      -> Supporting(c)
    [] s = "assignee"   -> Memberships(c.assignee)
    [] s = "slot"       -> {<<"slot", c.user>>}
    [] s = "membership" -> {Membership(c)}
    [] s = "roles"      -> Revoked(c)
    [] s = "role"       -> {<<"member", c.user>>}
    [] OTHER            -> {}

\* A write at statement s with the rows L left, S shared and X held.
WritePlan(c, s, L, S, X) ==
  /\ s \in {"project", "members", "grant", "assignee", "slot", "commit"}
  /\ s = "assignee" => c.op = "assign"
  /\ s = "slot" => c.op = "work"
  /\ X \subseteq {<<"project", c.project>>, <<"slot", c.user>>}
  /\ s = "project" /\ L # {} => X = {}
  /\ <<"project", c.project>> \in X \/ (s = "project" /\ L # {})
  /\ <<"slot", c.user>> \in X => s = "commit" \/ (s = "slot" /\ L = {})
  /\ \A r \in S : r[1] \in {"org", "ws"} \/ (r[1] \in Roles /\ r[2] = c.user)
  /\ s \in {"project", "members"} => \A r \in S : r[1] \in {"org", "ws"}
  /\ s = "members" => Memberships(c.user) \subseteq S \cup L
  /\ s \in {"grant", "assignee", "slot", "commit"} => Memberships(c.user) \subseteq S
  /\ s = "grant" => L # {} \/ Supporting(c) \cap S # {}
  /\ s \in {"assignee", "slot", "commit"} => Supporting(c) \cap S # {}
  /\ s = "assignee" => Memberships(c.assignee) \subseteq S \cup L
  /\ s = "commit" /\ c.op = "assign" => Memberships(c.assignee) \subseteq S

\* The same of a command about a member.
MemberPlan(c, s, L, S, X) ==
  /\ S = {}
  /\ \A r \in X : r[1] \in {"org", "ws"} \cup Roles
  /\ c.op \in LeaveOps =>
       /\ s \in {"membership", "roles", "commit"}
       /\ X \subseteq {Membership(c)} \cup Revoked(c)
       /\ s = "membership" => X \subseteq {Membership(c)} /\ (L # {} => X = {})
       /\ s = "roles" => L \cap X = {}
  /\ c.op \in JoinOps => s \in {"membership", "commit"} /\ (L # {} => X = {})
  /\ c.op = "accept" =>
       /\ s \in {"look", "roles", "membership", "role", "commit"}
       /\ X \subseteq {Membership(c)} \cup Revoked(c)
       /\ Membership(c) \in X <=>
            s \in {"role", "commit"} \/ (s = "membership" /\ L = {})
  /\ s = "look" => X = {}

Plan(c, s, L, S, X) ==
  /\ s = "idle" => c = NoCommand
  /\ L \subseteq Asked(c, s)
  /\ s # "idle" => /\ c \in Command
                   /\ IF IsWrite(c) THEN WritePlan(c, s, L, S, X) ELSE MemberPlan(c, s, L, S, X)

\* Whoever holds a row exclusively is alone with it, and a shared row is there.
LocksFit ==
  /\ \A t, u \in Txns : t # u => excl[t] \cap (excl[u] \cup share[u]) = {}
  /\ \A t \in Txns : share[t] \subseteq live

IInv ==
  /\ TypeOK
  /\ LocksFit
  /\ \A t \in Txns : Plan(cmd[t], stage[t], left[t], share[t], excl[t])

-----------------------------------------------------------------------------
(* Rows and commands. *)

\* Rows of different tables are different, and a key names one row.
LEMMA RowKinds ==
  /\ \A k \in {"project", "org", "ws", "slot"} \cup Roles : \A x :
       <<k, x>>[1] = k /\ <<k, x>>[2] = x
  /\ \A j, k, x, y : <<j, x>> = <<k, y>> => j = k /\ x = y
OBVIOUS

\* What a command is, by its operation.
LEMMA CommandFields ==
  /\ \A c \in Command :
       /\ c.op \in WriteOps \cup MemberOps
       /\ c.user \in Users
       /\ IsWrite(c) => c.project \in Projects
       /\ c.op = "assign" => c.assignee \in Users
  /\ ~IsWrite(NoCommand) /\ NoCommand.op = "none" /\ NoCommand \notin Command
<1>1. \A c \in Command :
       /\ c.op \in WriteOps \cup MemberOps
       /\ c.user \in Users
       /\ IsWrite(c) => c.project \in Projects
       /\ c.op = "assign" => c.assignee \in Users
  BY DEF Command, WriteOps, MemberOps, LeaveOps, JoinOps, IsWrite
<1> QED
  BY <1>1 DEF NoCommand, IsWrite, WriteOps, MemberOps, LeaveOps, JoinOps

\* A statement finds rows of the kinds it asks for, and nothing else.
LEMMA TargetsAsked ==
  \A c \in Command, s \in Stages :
    /\ Targets(c, s) \subseteq Asked(c, s)
    /\ (s \in {"assignee"} => c.op = "assign") /\ (s \in {"project", "members", "grant", "slot"} => IsWrite(c))
         => Asked(c, s) \subseteq Rows
<1> SUFFICES ASSUME NEW c \in Command, NEW s \in Stages
             PROVE  /\ Targets(c, s) \subseteq Asked(c, s)
                    /\ (s \in {"assignee"} => c.op = "assign") /\ (s \in {"project", "members", "grant", "slot"} => IsWrite(c))
                         => Asked(c, s) \subseteq Rows
  OBVIOUS
<1>1. Targets(c, s) \subseteq Asked(c, s)
  BY DEF Targets, Asked, Stages
<1>2. ASSUME s \in {"assignee"} => c.op = "assign",
             s \in {"project", "members", "grant", "slot"} => IsWrite(c)
      PROVE  Asked(c, s) \subseteq Rows
  BY <1>2, CommandFields DEF Asked, Stages, Rows, Roles, Memberships, Supporting, OrgRoles,
    LocalRole, Membership, Revoked
<1> QED
  BY <1>1, <1>2

\* The order of the statements.
LEMMA Order ==
  ASSUME NEW c \in Command
  PROVE  /\ IsWrite(c) => Following(c, "idle") = "project"
         /\ c.op = "accept" => Following(c, "idle") = "look"
         /\ c.op \in LeaveOps \cup JoinOps => Following(c, "idle") = "membership"
         /\ Following(c, "project") = "members"
         /\ Following(c, "members") = "grant"
         /\ c.op = "assign" => Following(c, "grant") = "assignee"
         /\ c.op = "work" => Following(c, "grant") = "slot"
         /\ c.op \notin {"assign", "work"} => Following(c, "grant") = "commit"
         /\ Following(c, "assignee") = "commit" /\ Following(c, "slot") = "commit"
         /\ c.op \in LeaveOps => Following(c, "membership") = "roles"
         /\ c.op \in JoinOps => Following(c, "membership") = "commit"
         /\ c.op = "accept" => Following(c, "membership") = "role"
         /\ c.op = "accept" => Following(c, "roles") = "membership"
         /\ c.op # "accept" => Following(c, "roles") = "commit"
         /\ Following(c, "role") = "commit"
BY DEF Following, IsWrite, WriteOps, LeaveOps, JoinOps

\* What a statement asks for.
LEMMA Questions ==
  ASSUME NEW c
  PROVE  /\ Asked(c, "project") = {<<"project", c.project>>}
         /\ Asked(c, "members") = Memberships(c.user)
         /\ Asked(c, "grant") = Supporting(c)
         /\ Asked(c, "assignee") = Memberships(c.assignee)
         /\ Asked(c, "slot") = {<<"slot", c.user>>}
         /\ Asked(c, "membership") = {Membership(c)}
         /\ Asked(c, "roles") = Revoked(c)
         /\ Asked(c, "role") = {<<"member", c.user>>}
         /\ Asked(c, "look") = {} /\ Asked(c, "commit") = {} /\ Asked(c, "idle") = {}
BY DEF Asked


-----------------------------------------------------------------------------
(* Plans. *)

\* A command begins with nothing locked.
LEMMA PlanBegins ==
  ASSUME NEW c \in Command
  PROVE  /\ Following(c, "idle") \in Stages \ {"idle"}
         /\ Plan(c, Following(c, "idle"), Targets(c, Following(c, "idle")), {}, {})
<1> DEFINE s == Following(c, "idle")
<1>1. /\ s \in {"project", "look", "membership"}
      /\ IsWrite(c) => s = "project"
      /\ ~IsWrite(c) => s # "project"
      /\ c.op = "accept" => s = "look"
      /\ c.op \in LeaveOps \cup JoinOps => s = "membership"
  BY Order, CommandFields DEF IsWrite, WriteOps, MemberOps, LeaveOps, JoinOps
<1>2. s \in Stages \ {"idle"}
  BY <1>1 DEF Stages
<1>3. Targets(c, s) \subseteq Asked(c, s)
  BY <1>2, TargetsAsked
<1>4. CASE IsWrite(c)
  <2>1. WritePlan(c, s, Targets(c, s), {}, {})
    <3>1. Targets(c, s) = {<<"project", c.project>>}
      BY <1>1, <1>4 DEF Targets
    <3> QED
      BY <1>1, <1>4, <3>1 DEF WritePlan
  <2> QED
    BY <1>1, <1>2, <1>3, <1>4, <2>1 DEF Plan
<1>5. CASE ~IsWrite(c)
  <2>1. MemberPlan(c, s, Targets(c, s), {}, {})
    BY <1>1, <1>5, CommandFields DEF MemberPlan, WriteOps, MemberOps, LeaveOps, JoinOps, IsWrite
  <2> QED
    BY <1>1, <1>2, <1>3, <1>5, <2>1 DEF Plan
<1> QED
  BY <1>2, <1>4, <1>5

\* A statement that locked what it found leaves the plan of the next one.
LEMMA PlanProceeds ==
  ASSUME NEW c \in Command, NEW s \in Stages, NEW S, NEW X,
         s \notin {"idle", "look", "commit"},
         Plan(c, s, {}, S, X),
         Finds(c, Following(c, s), Targets(c, Following(c, s)))
  PROVE  /\ Following(c, s) \in Stages \ {"idle"}
         /\ Plan(c, Following(c, s), Targets(c, Following(c, s)), S, X)
<1> DEFINE n == Following(c, s)  T == Targets(c, n)
<1>1. n \in {"members", "grant", "assignee", "slot", "roles", "membership", "role", "commit"}
  <2>1. CASE IsWrite(c)
    <3>1. s \in {"project", "members", "grant", "assignee", "slot"}
      BY <2>1 DEF Plan, WritePlan
    <3> QED
      BY <3>1, Order
  <2>2. CASE ~IsWrite(c)
    <3>1. c.op \in LeaveOps \cup JoinOps \cup {"accept"} /\ s \in {"membership", "roles", "role"}
      BY <2>2, CommandFields DEF Plan, MemberPlan, IsWrite, MemberOps
    <3> QED
      BY <3>1, Order DEF LeaveOps, JoinOps
  <2> QED
    BY <2>1, <2>2
<1>2. n \in Stages \ {"idle", "look"}
  BY <1>1 DEF Stages
<1>3. T \subseteq Asked(c, n)
  BY <1>2, TargetsAsked
<1>4. CASE IsWrite(c)
  <2>1. WritePlan(c, s, {}, S, X)
    BY <1>4 DEF Plan
  <2>2. s \in {"project", "members", "grant", "assignee", "slot"}
    BY <2>1 DEF WritePlan
  <2>3. WritePlan(c, n, T, S, X)
    <3>1. CASE s = "project"
      <4>1. n = "members" /\ T = Memberships(c.user)
        BY <3>1, Order DEF Finds
      <4> QED
        BY <2>1, <3>1, <4>1, RowKinds DEF WritePlan
    <3>2. CASE s = "members"
      <4>1. n = "grant" /\ T # {}
        BY <3>2, Order DEF Finds
      <4> QED
        BY <2>1, <3>2, <4>1 DEF WritePlan
    <3>3. CASE s = "grant"
      <4>1. /\ n \in {"assignee", "slot", "commit"}
            /\ c.op = "assign" <=> n = "assignee"
            /\ n = "slot" => c.op = "work"
        BY <3>3, Order DEF IsWrite
      <4>2. n = "assignee" => T = Memberships(c.assignee)
        BY DEF Finds
      <4> QED
        BY <2>1, <3>3, <4>1, <4>2 DEF WritePlan
    <3>4. CASE s = "assignee"
      <4>1. n = "commit"
        BY <3>4, Order
      <4> QED
        BY <2>1, <3>4, <4>1 DEF WritePlan
    <3>5. CASE s = "slot"
      <4>1. n = "commit" /\ c.op # "assign"
        BY <2>1, <3>5, Order DEF WritePlan
      <4> QED
        BY <2>1, <3>5, <4>1 DEF WritePlan
    <3> QED
      BY <2>2, <3>1, <3>2, <3>3, <3>4, <3>5
  <2> QED
    BY <1>2, <1>3, <1>4, <2>3 DEF Plan
<1>5. CASE ~IsWrite(c)
  <2>1. MemberPlan(c, s, {}, S, X)
    BY <1>5 DEF Plan
  <2>2. c.op \in MemberOps
    BY <1>5, CommandFields DEF IsWrite
  <2>3. MemberPlan(c, n, T, S, X)
    <3>1. CASE c.op \in LeaveOps
      <4>1. /\ s \in {"membership", "roles"}
            /\ s = "membership" => n = "roles"
            /\ s = "roles" => n = "commit"
        BY <2>1, <3>1, Order DEF MemberPlan, LeaveOps
      <4>2. s = "membership" => T \cap X = {}
        <5>1. ASSUME s = "membership" PROVE T \subseteq Revoked(c) /\ X \subseteq {Membership(c)}
          BY <1>3, <2>1, <3>1, <4>1, <5>1, Questions DEF MemberPlan
        <5>2. Membership(c) \notin Revoked(c)
          BY DEF Membership, Revoked, OrgRoles, LocalRole
        <5> QED
          BY <5>1, <5>2
      <4> QED
        BY <2>1, <3>1, <4>1, <4>2 DEF MemberPlan, LeaveOps, JoinOps
    <3>2. CASE c.op \in JoinOps
      <4>1. s = "membership" /\ n = "commit" /\ T = {}
        BY <1>2, <1>3, <2>1, <3>2, Order, Questions DEF MemberPlan
      <4> QED
        BY <2>1, <3>2, <4>1 DEF MemberPlan, LeaveOps, JoinOps
    <3>3. CASE c.op = "accept"
      <4>1. /\ n \in {"membership", "role", "commit"}
            /\ n \in {"role", "commit"} <=> Membership(c) \in X
        BY <2>1, <3>3, Order DEF MemberPlan
      <4>2. n = "membership" => T # {}
        BY <3>3 DEF Targets
      <4> QED
        BY <2>1, <3>3, <4>1, <4>2 DEF MemberPlan, LeaveOps, JoinOps
    <3> QED
      BY <2>2, <3>1, <3>2, <3>3 DEF MemberOps
  <2> QED
    BY <1>2, <1>3, <1>5, <2>3 DEF Plan
<1> QED
  BY <1>2, <1>4, <1>5

\* After its look an acceptance holds nothing yet.
LEMMA PlanLooks ==
  ASSUME NEW c \in Command, NEW n \in {"membership", "roles"}, NEW L, NEW S, NEW X,
         Plan(c, "look", L, S, X)
  PROVE  /\ n \in Stages \ {"idle"}
         /\ Finds(c, n, Targets(c, n))
         /\ Plan(c, n, Targets(c, n), S, X)
<1>1. ~IsWrite(c) /\ MemberPlan(c, "look", L, S, X)
  BY DEF Plan, WritePlan
<1>2. c.op = "accept"
  BY <1>1, CommandFields DEF MemberPlan, IsWrite, MemberOps, LeaveOps, JoinOps
<1>3. Targets(c, n) \subseteq Asked(c, n) /\ n \in Stages \ {"idle"}
  BY TargetsAsked DEF Stages
<1>4. n = "membership" => Targets(c, n) # {}
  BY <1>2 DEF Targets
<1>5. MemberPlan(c, n, Targets(c, n), S, X)
  BY <1>1, <1>2, <1>4 DEF MemberPlan, LeaveOps, JoinOps
<1> QED
  BY <1>1, <1>3, <1>5 DEF Plan, Finds

\* A statement that locked row r FOR SHARE.
LEMMA PlanShares ==
  ASSUME NEW c \in Command, NEW s \in ShareStages, NEW L, NEW S, NEW X, NEW r \in L, NEW M,
         Plan(c, s, L, S, X),
         M = IF s = "grant" THEN {} ELSE L \ {r}
  PROVE  Plan(c, s, M, S \cup {r}, X)
<1>1. L \subseteq Asked(c, s) /\ M \subseteq Asked(c, s) /\ s # "idle"
  BY DEF Plan, ShareStages
<1>2. IsWrite(c) /\ WritePlan(c, s, L, S, X)
  BY CommandFields DEF Plan, MemberPlan, ShareStages, IsWrite, MemberOps
<1>3. /\ s \in {"members", "assignee"} => r[1] \in {"org", "ws"}
      /\ s = "grant" => r[1] \in Roles /\ r[2] = c.user /\ r \in Supporting(c)
  BY <1>1, Questions DEF Memberships, Supporting, OrgRoles, LocalRole, Roles
<1>4. WritePlan(c, s, M, S \cup {r}, X)
  BY <1>2, <1>3 DEF WritePlan, ShareStages
<1> QED
  BY <1>1, <1>2, <1>4 DEF Plan

\* A grant statement that skips a row that is gone has others to try.
LEMMA PlanSkips ==
  ASSUME NEW c \in Command, NEW L, NEW S, NEW X, NEW r \in L, L # {r},
         Plan(c, "grant", L, S, X)
  PROVE  Plan(c, "grant", L \ {r}, S, X)
<1>1. IsWrite(c) /\ WritePlan(c, "grant", L, S, X)
  BY CommandFields DEF Plan, MemberPlan, IsWrite, MemberOps
<1>2. WritePlan(c, "grant", L \ {r}, S, X)
  BY <1>1 DEF WritePlan
<1> QED
  BY <1>1, <1>2 DEF Plan

\* A statement that locked row r exclusively, or left it alone.
LEMMA PlanTakes ==
  ASSUME NEW c \in Command, NEW s \in Stages \ ShareStages, s # "idle",
         NEW L, NEW S, NEW X, NEW Y, NEW r \in L,
         Plan(c, s, L, S, X),
         Y \in {X, X \cup {r}}, s = "project" => Y = X \cup {r},
         c.op = "accept" /\ s = "membership" => Y = X \cup {r}
  PROVE  Plan(c, s, L \ {r}, S, Y)
<1>1. L \subseteq Asked(c, s)
  BY DEF Plan
<1>2. CASE IsWrite(c)
  <2>1. WritePlan(c, s, L, S, X)
    BY <1>2 DEF Plan
  <2>2. s \in {"project", "slot"}
    BY <1>1, <2>1, Questions DEF WritePlan, ShareStages
  <2>3. /\ s = "project" => L = {<<"project", c.project>>}
        /\ s = "slot" => L = {<<"slot", c.user>>}
    BY <1>1, <2>2, Questions
  <2>4. WritePlan(c, s, L \ {r}, S, Y)
    BY <2>1, <2>2, <2>3, RowKinds DEF WritePlan
  <2> QED
    BY <1>1, <1>2, <2>4 DEF Plan
<1>3. CASE ~IsWrite(c)
  <2>1. MemberPlan(c, s, L, S, X)
    BY <1>3 DEF Plan
  <2>2. s \in {"membership", "roles", "role"}
    BY <1>1, <1>3, <2>1, CommandFields, Questions DEF MemberPlan, MemberOps, IsWrite
  <2>3. /\ r[1] \in {"org", "ws"} \cup Roles
        /\ s = "membership" => L = {Membership(c)} /\ r = Membership(c)
        /\ s = "roles" => r \in Revoked(c)
    BY <1>1, <2>2, Questions DEF Membership, Revoked, OrgRoles, LocalRole, Roles
  <2>4. MemberPlan(c, s, L \ {r}, S, Y)
    <3>1. \A q \in Y : q[1] \in {"org", "ws"} \cup Roles
      BY <2>1, <2>3 DEF MemberPlan
    <3>2. CASE c.op \in LeaveOps
      <4>1. /\ c.op \notin JoinOps \cup {"accept"}
            /\ X \subseteq {Membership(c)} \cup Revoked(c)
            /\ s \in {"membership", "roles"}
        BY <2>1, <2>2, <3>2 DEF MemberPlan, LeaveOps, JoinOps
      <4>2. s = "membership" => L \ {r} = {} /\ Y \subseteq {Membership(c)}
        BY <2>1, <2>3, <3>2 DEF MemberPlan
      <4>3. s = "roles" => (L \ {r}) \cap Y = {} /\ Y \subseteq {Membership(c)} \cup Revoked(c)
        BY <2>1, <2>3, <3>2, <4>1 DEF MemberPlan
      <4> QED
        BY <2>1, <3>1, <3>2, <4>1, <4>2, <4>3 DEF MemberPlan
    <3>3. CASE c.op \in JoinOps
      <4>1. c.op \notin LeaveOps \cup {"accept"} /\ s = "membership" /\ L \ {r} = {}
        BY <2>1, <2>2, <2>3, <3>3 DEF MemberPlan, LeaveOps, JoinOps
      <4> QED
        BY <2>1, <3>1, <3>3, <4>1 DEF MemberPlan
    <3>4. CASE c.op = "accept"
      <4>1. s = "role" => r \in Revoked(c)
        BY <1>1, <3>4, Questions DEF Revoked, OrgRoles
      <4>2. Y \subseteq {Membership(c)} \cup Revoked(c)
        BY <2>1, <2>2, <2>3, <3>4, <4>1 DEF MemberPlan
      <4>3. s \in {"role", "membership"} <=> Membership(c) \in Y
        <5>1. Membership(c) \notin Revoked(c)
          BY DEF Membership, Revoked, OrgRoles, LocalRole
        <5> QED
          BY <2>1, <2>2, <2>3, <3>4, <4>1, <5>1 DEF MemberPlan
      <4>4. s = "membership" => L \ {r} = {}
        BY <2>3
      <4> QED
        BY <2>1, <2>2, <3>1, <3>4, <4>2, <4>3, <4>4 DEF MemberPlan, LeaveOps, JoinOps
    <3> QED
      BY <1>3, <3>2, <3>3, <3>4, CommandFields DEF IsWrite, MemberOps
  <2> QED
    BY <1>1, <1>3, <2>4 DEF Plan
<1> QED
  BY <1>2, <1>3

-----------------------------------------------------------------------------
(* Every step moves one transaction, or appoints an owner. *)

\* Transaction t goes to statement s of command c, with the rows L left and
\* the locks S and X, which are compatible with those of the others.
Moves(t, c, s, L, S, X) ==
  /\ c \in Command \cup {NoCommand} /\ s \in Stages
  /\ L \subseteq Rows /\ S \subseteq Rows /\ X \subseteq Rows
  /\ cmd' = [cmd EXCEPT ![t] = c] /\ stage' = [stage EXCEPT ![t] = s]
  /\ left' = [left EXCEPT ![t] = L]
  /\ \E r \in IF L = {} THEN {None} ELSE L : aim' = [aim EXCEPT ![t] = r]
  /\ share' = [share EXCEPT ![t] = S] /\ excl' = [excl EXCEPT ![t] = X]
  /\ s = "idle" => c = NoCommand /\ L = {} /\ S = {} /\ X = {}
  /\ Plan(c, s, L, S, X)
  /\ \A u \in Txns \ {t} : X \cap (excl[u] \cup share[u]) = {} /\ S \cap excl[u] = {}
  /\ live' \subseteq Rows /\ S \subseteq live'
  /\ \A u \in Txns \ {t} : share[u] \subseteq live'

LEMMA OneMoves ==
  ASSUME IInv, NEW t \in Txns, NEW c, NEW s, NEW L, NEW S, NEW X,
         Moves(t, c, s, L, S, X)
  PROVE  IInv'
<1>1. /\ cmd'[t] = c /\ stage'[t] = s /\ left'[t] = L /\ share'[t] = S /\ excl'[t] = X
      /\ aim'[t] \in IF L = {} THEN {None} ELSE L
  BY DEF Moves, IInv, TypeOK
<1>2. ASSUME NEW u \in Txns \ {t}
      PROVE  /\ cmd'[u] = cmd[u] /\ stage'[u] = stage[u] /\ left'[u] = left[u]
             /\ share'[u] = share[u] /\ excl'[u] = excl[u] /\ aim'[u] = aim[u]
  BY DEF Moves, IInv, TypeOK
<1>3. TypeOK'
  <2>1. /\ cmd' \in [Txns -> Command \cup {NoCommand}] /\ stage' \in [Txns -> Stages]
        /\ left' \in [Txns -> SUBSET Rows] /\ share' \in [Txns -> SUBSET Rows]
        /\ excl' \in [Txns -> SUBSET Rows] /\ aim' \in [Txns -> Rows \cup {None}]
    <3>1. aim' \in [Txns -> Rows \cup {None}]
      BY DEF Moves, IInv, TypeOK
    <3> QED
      BY <3>1 DEF Moves, IInv, TypeOK
  <2>2. ASSUME NEW u \in Txns
        PROVE  /\ aim'[u] \in IF left'[u] = {} THEN {None} ELSE left'[u]
               /\ stage'[u] = "idle" =>
                    cmd'[u] = NoCommand /\ left'[u] = {} /\ share'[u] = {} /\ excl'[u] = {}
    <3>1. CASE u = t
      BY <1>1, <3>1 DEF Moves
    <3>2. CASE u # t
      BY <1>2, <3>2 DEF IInv, TypeOK
    <3> QED
      BY <3>1, <3>2
  <2> QED
    BY <2>1, <2>2 DEF Moves, TypeOK, NoCommand
<1>4. LocksFit'
  <2>1. ASSUME NEW u \in Txns, NEW v \in Txns, u # v
        PROVE  excl'[u] \cap (excl'[v] \cup share'[v]) = {}
    <3>1. CASE u = t
      BY <1>1, <1>2, <2>1, <3>1 DEF Moves
    <3>2. CASE v = t
      BY <1>1, <1>2, <2>1, <3>2 DEF Moves
    <3>3. CASE u # t /\ v # t
      BY <1>2, <2>1, <3>3 DEF IInv, LocksFit
    <3> QED
      BY <3>1, <3>2, <3>3
  <2>2. ASSUME NEW u \in Txns PROVE share'[u] \subseteq live'
    BY <1>1, <1>2 DEF Moves
  <2> QED
    BY <2>1, <2>2 DEF LocksFit
<1>5. ASSUME NEW u \in Txns
      PROVE  Plan(cmd'[u], stage'[u], left'[u], share'[u], excl'[u])
  BY <1>1, <1>2 DEF Moves, IInv
<1> QED
  BY <1>3, <1>4, <1>5 DEF IInv

\* A rollback, and a commit that takes away no row others share.
LEMMA EndKeepsInvariant ==
  ASSUME IInv, NEW t \in Txns, EndTx(t),
         live' \subseteq Rows, \A u \in Txns \ {t} : share[u] \subseteq live'
  PROVE  IInv'
<1>1. Plan(NoCommand, "idle", {}, {}, {})
  BY DEF Plan
<1>2. \E r \in IF {} = {} THEN {None} ELSE {} : aim' = [aim EXCEPT ![t] = r]
  BY DEF EndTx
<1>3. Moves(t, NoCommand, "idle", {}, {}, {})
  BY <1>1, <1>2 DEF Moves, EndTx, Stages
<1> QED
  BY <1>3, OneMoves

LEMMA RollbackKeepsInvariant ==
  ASSUME IInv, NEW t \in Txns, Rollback(t)
  PROVE  IInv'
BY EndKeepsInvariant DEF Rollback, IInv, TypeOK, LocksFit

\* The plan of a transaction that is under way.
LEMMA UnderWay ==
  ASSUME IInv, NEW t \in Txns, stage[t] # "idle"
  PROVE  /\ cmd[t] \in Command /\ stage[t] \in Stages
         /\ left[t] \subseteq Rows /\ share[t] \subseteq Rows /\ excl[t] \subseteq Rows
         /\ Plan(cmd[t], stage[t], left[t], share[t], excl[t])
BY DEF IInv, TypeOK, Plan

\* Entering a statement only needs its plan.
LEMMA EnterKeepsInvariant ==
  ASSUME IInv, NEW t \in Txns, stage[t] # "idle",
         NEW s \in Stages \ {"idle"}, Enter(t, s),
         Finds(cmd[t], s, Targets(cmd[t], s)) =>
           Plan(cmd[t], s, Targets(cmd[t], s), share[t], excl[t])
  PROVE  IInv'
<1> DEFINE T == Targets(cmd[t], s)
<1>1. CASE ~Finds(cmd[t], s, T)
  BY <1>1, RollbackKeepsInvariant DEF Enter
<1>2. CASE Finds(cmd[t], s, T)
  <2>1. cmd[t] \in Command
    BY UnderWay
  <2>2. T \subseteq Rows
    <3>1. /\ s \in {"assignee"} => cmd[t].op = "assign"
          /\ s \in {"project", "members", "grant", "slot"} => IsWrite(cmd[t])
      BY <1>2, CommandFields DEF Plan, WritePlan, MemberPlan, MemberOps, IsWrite
    <3> QED
      BY <2>1, <3>1, TargetsAsked
  <2>3. /\ stage' = [stage EXCEPT ![t] = s] /\ left' = [left EXCEPT ![t] = T]
        /\ \E r \in IF T = {} THEN {None} ELSE T : aim' = [aim EXCEPT ![t] = r]
        /\ UNCHANGED <<live, cmd, share, excl>>
    BY <1>2 DEF Enter, AimAt
  <2>4. /\ cmd' = [cmd EXCEPT ![t] = cmd[t]] /\ share' = [share EXCEPT ![t] = share[t]]
        /\ excl' = [excl EXCEPT ![t] = excl[t]]
    BY <2>3 DEF IInv, TypeOK
  <2>5. /\ share[t] \in SUBSET Rows /\ excl[t] \in SUBSET Rows
        /\ \A u \in Txns \ {t} : /\ excl[t] \cap (excl[u] \cup share[u]) = {}
                                 /\ share[t] \cap excl[u] = {}
        /\ live' \subseteq Rows /\ share[t] \subseteq live'
        /\ \A u \in Txns \ {t} : share[u] \subseteq live'
    BY <2>3 DEF IInv, TypeOK, LocksFit
  <2>6. Plan(cmd[t], s, T, share[t], excl[t])
    BY <1>2
  <2>7. cmd[t] \in Command \cup {NoCommand} /\ s \in Stages /\ s # "idle" /\ T \in SUBSET Rows
    BY <2>1, <2>2
  <2>8. PICK c, L, S, X : c = cmd[t] /\ L = T /\ S = share[t] /\ X = excl[t]
    OBVIOUS
  <2>9. Moves(t, c, s, L, S, X)
    <3> HIDE DEF T
    <3> QED
      BY <2>3, <2>4, <2>5, <2>6, <2>7, <2>8 DEF Moves
  <2> QED
    BY <2>9, OneMoves
<1> QED
  BY <1>1, <1>2

-----------------------------------------------------------------------------
(* The invariant. *)

LEMMA InitEstablishesInvariant == Init => IInv
<1> SUFFICES ASSUME Init PROVE IInv
  OBVIOUS
<1>1. live \subseteq Rows
  <2>1. \A u \in Users : Memberships(u) \cup {<<"member", u>>} \subseteq Rows
    BY DEF Memberships, Rows, Roles
  <2>2. \A u \in Local : <<"local", u>> \in Rows
    BY LockAssumption DEF Rows, Roles
  <2>3. ASSUME NEW r \in live
        PROVE  \/ \E u \in Users : r \in Memberships(u) \cup {<<"member", u>>}
               \/ \E u \in Local : r = <<"local", u>>
    BY DEF Init
  <2> QED
    BY <2>1, <2>2, <2>3
<1>2. \A t \in Txns : Plan(cmd[t], stage[t], left[t], share[t], excl[t])
  BY DEF Init, Plan
<1>3. TypeOK
  BY <1>1 DEF Init, TypeOK, Stages
<1>4. LocksFit
  BY DEF Init, LocksFit
<1> QED
  BY <1>2, <1>3, <1>4 DEF IInv

LEMMA BeginKeepsInvariant ==
  ASSUME IInv, NEW t \in Txns, NEW d \in Commands, Begin(t, d)
  PROVE  IInv'
<1>1. PICK c, s, L : c = d /\ s = Following(d, "idle") /\ L = Targets(d, Following(d, "idle"))
  OBVIOUS
<1>2. /\ c \in Command /\ s \in Stages \ {"idle"} /\ Plan(c, s, L, {}, {})
  BY <1>1, LockAssumption, PlanBegins
<1>3. L \subseteq Rows
  <2>1. /\ s \in {"assignee"} => c.op = "assign"
        /\ s \in {"project", "members", "grant", "slot"} => IsWrite(c)
    BY <1>2, CommandFields DEF Plan, WritePlan, MemberPlan, MemberOps, IsWrite
  <2> QED
    BY <1>1, <1>2, <2>1, TargetsAsked
<1>4. share[t] = {} /\ excl[t] = {}
  BY DEF Begin, IInv, TypeOK
<1>5. /\ cmd' = [cmd EXCEPT ![t] = c] /\ stage' = [stage EXCEPT ![t] = s]
      /\ left' = [left EXCEPT ![t] = L]
      /\ \E r \in IF L = {} THEN {None} ELSE L : aim' = [aim EXCEPT ![t] = r]
      /\ UNCHANGED <<live, share, excl>>
  BY <1>1 DEF Begin, AimAt
<1>6. share' = [share EXCEPT ![t] = {}] /\ excl' = [excl EXCEPT ![t] = {}]
  BY <1>4, <1>5 DEF IInv, TypeOK
<1>7. live' \subseteq Rows /\ \A u \in Txns \ {t} : share[u] \subseteq live'
  BY <1>5 DEF IInv, TypeOK, LocksFit
<1>8. Moves(t, c, s, L, {}, {})
  BY <1>2, <1>3, <1>5, <1>6, <1>7 DEF Moves
<1> QED
  BY <1>8, OneMoves

LEMMA LookKeepsInvariant ==
  ASSUME IInv, NEW t \in Txns, Look(t)
  PROVE  IInv'
<1>1. PICK n \in {"membership", "roles"} : Enter(t, n)
  BY DEF Look
<1>2. stage[t] = "look" /\ cmd[t] \in Command /\ Plan(cmd[t], "look", left[t], share[t], excl[t])
  BY UnderWay DEF Look
<1>3. n \in Stages \ {"idle"} /\ Plan(cmd[t], n, Targets(cmd[t], n), share[t], excl[t])
  BY <1>2, PlanLooks
<1> QED
  BY <1>1, <1>2, <1>3, EnterKeepsInvariant

LEMMA ProceedKeepsInvariant ==
  ASSUME IInv, NEW t \in Txns, Proceed(t)
  PROVE  IInv'
<1>1. PICK n : n = Following(cmd[t], stage[t])
  OBVIOUS
<1>2. /\ cmd[t] \in Command /\ stage[t] \in Stages /\ stage[t] \notin {"idle", "look", "commit"}
      /\ Plan(cmd[t], stage[t], {}, share[t], excl[t])
  BY UnderWay DEF Proceed
<1>3. Finds(cmd[t], n, Targets(cmd[t], n)) =>
        n \in Stages \ {"idle"} /\ Plan(cmd[t], n, Targets(cmd[t], n), share[t], excl[t])
  BY <1>1, <1>2, PlanProceeds
<1>4. Enter(t, n)
  BY <1>1 DEF Proceed
<1>5. CASE Finds(cmd[t], n, Targets(cmd[t], n))
  BY <1>2, <1>3, <1>4, <1>5, EnterKeepsInvariant
<1>6. CASE ~Finds(cmd[t], n, Targets(cmd[t], n))
  BY <1>4, <1>6, RollbackKeepsInvariant DEF Enter
<1> QED
  BY <1>5, <1>6

\* A commit takes away rows the transaction holds, and adds such rows.
LEMMA OutcomeBounds ==
  ASSUME NEW t \in Txns
  PROVE  /\ live \ excl[t] \subseteq Outcome(t)
         /\ Outcome(t) \subseteq live \cup excl[t]
BY DEF Outcome

LEMMA CommitKeepsInvariant ==
  ASSUME IInv, NEW t \in Txns, Commit(t)
  PROVE  IInv'
<1>1. live \ excl[t] \subseteq live' /\ live' \subseteq live \cup excl[t]
  BY OutcomeBounds DEF Commit
<1>2. live' \subseteq Rows
  BY <1>1 DEF IInv, TypeOK
<1>3. \A u \in Txns \ {t} : share[u] \subseteq live'
  BY <1>1 DEF IInv, LocksFit
<1> QED
  BY <1>2, <1>3, EndKeepsInvariant DEF Commit

LEMMA AppointKeepsInvariant ==
  ASSUME IInv, NEW u \in Users, Appoint(u)
  PROVE  IInv'
<1>1. live \subseteq live' /\ live' \subseteq Rows /\ UNCHANGED txVars
  BY DEF Appoint, IInv, TypeOK, Rows, Roles
<1> QED
  BY <1>1 DEF IInv, TypeOK, LocksFit, txVars

\* The rows of an update that meets a changed row are left alone; a locked row
\* is held by nobody else.
LEMMA TakeKeepsInvariant ==
  ASSUME IInv, NEW t \in Txns, Take(t)
  PROVE  IInv'
<1> DEFINE r == aim[t]
<1>1. /\ r \in left[t] /\ r \in Rows /\ stage[t] # "idle"
      /\ cmd[t] \in Command /\ stage[t] \in Stages
      /\ left[t] \subseteq Rows /\ share[t] \subseteq Rows /\ excl[t] \subseteq Rows
      /\ Plan(cmd[t], stage[t], left[t], share[t], excl[t])
  <2>1. r # None /\ left[t] # {} /\ r \in left[t]
    BY DEF Take, IInv, TypeOK
  <2>2. stage[t] # "idle"
    BY <2>1 DEF IInv, TypeOK
  <2> QED
    BY <2>1, <2>2, UnderWay
<1>2. CASE Rollback(t)
  BY <1>2, RollbackKeepsInvariant
<1>3. CASE ~Rollback(t)
  <2>1. /\ AimAt(t, Remaining(t, r))
        /\ share' = IF StillThere(t, r) /\ stage[t] \in ShareStages
                    THEN [share EXCEPT ![t] = @ \cup {r}] ELSE share
        /\ excl' = IF StillThere(t, r) /\ stage[t] \notin ShareStages
                   THEN [excl EXCEPT ![t] = @ \cup {r}] ELSE excl
        /\ UNCHANGED <<live, cmd, stage>>
        /\ ~(stage[t] \in ShareStages /\ r \notin live
              /\ (stage[t] # "grant" \/ left[t] = {r}))
        /\ \A u \in Txns : ~Blocks(u, t, r)
    BY <1>3 DEF Take
  <2>2. PICK c, s, L, S, X :
          /\ c = cmd[t] /\ s = stage[t] /\ L = Remaining(t, r)
          /\ S = IF StillThere(t, r) /\ stage[t] \in ShareStages THEN share[t] \cup {r} ELSE share[t]
          /\ X = IF StillThere(t, r) /\ stage[t] \notin ShareStages THEN excl[t] \cup {r} ELSE excl[t]
    OBVIOUS
  <2>3. /\ cmd' = [cmd EXCEPT ![t] = c] /\ stage' = [stage EXCEPT ![t] = s]
        /\ left' = [left EXCEPT ![t] = L]
        /\ \E q \in IF L = {} THEN {None} ELSE L : aim' = [aim EXCEPT ![t] = q]
        /\ share' = [share EXCEPT ![t] = S] /\ excl' = [excl EXCEPT ![t] = X]
    BY <2>1, <2>2 DEF AimAt, IInv, TypeOK
  <2>4. L \subseteq Rows /\ S \subseteq Rows /\ X \subseteq Rows
    BY <1>1, <2>2 DEF Remaining
  <2>5. Plan(c, s, L, S, X)
    <3>1. CASE s \in ShareStages
      <4>1. X = excl[t] /\ (StillThere(t, r) <=> r \in live)
        BY <2>2, <3>1 DEF StillThere, ShareStages
      <4>2. CASE r \in live
        <5>1. S = share[t] \cup {r} /\ L = IF s = "grant" THEN {} ELSE left[t] \ {r}
          BY <2>2, <3>1, <4>1, <4>2 DEF Remaining
        <5>2. /\ c \in Command /\ r \in left[t] /\ X = excl[t]
              /\ Plan(c, s, left[t], share[t], excl[t])
          BY <1>1, <2>2, <4>1
        <5> QED
          BY <3>1, <5>1, <5>2, PlanShares
      <4>3. CASE r \notin live
        <5>1. s = "grant" /\ left[t] # {r} /\ S = share[t] /\ L = left[t] \ {r}
          BY <2>1, <2>2, <3>1, <4>1, <4>3 DEF Remaining
        <5>2. /\ c \in Command /\ r \in left[t] /\ X = excl[t]
              /\ Plan(c, "grant", left[t], share[t], excl[t])
          BY <1>1, <2>2, <4>1, <5>1
        <5> QED
          BY <5>1, <5>2, PlanSkips
      <4> QED
        BY <4>2, <4>3
    <3>2. CASE s \notin ShareStages
      <4>1. S = share[t] /\ X \in {excl[t], excl[t] \cup {r}} /\ L = left[t] \ {r}
        BY <2>2, <3>2 DEF Remaining, ShareStages
      <4>2. s = "project" => X = excl[t] \cup {r}
        BY <2>2, <3>2 DEF StillThere, ShareStages
      <4>3. c.op = "accept" /\ s = "membership" => X = excl[t] \cup {r}
        BY <2>2, <3>2 DEF StillThere, ShareStages, LeaveOps, JoinOps
      <4> QED
        BY <1>1, <2>2, <3>2, <4>1, <4>2, <4>3, PlanTakes
    <3> QED
      BY <3>1, <3>2
  <2>6. ASSUME NEW u \in Txns \ {t}
        PROVE  X \cap (excl[u] \cup share[u]) = {} /\ S \cap excl[u] = {}
    <3>1. /\ excl[t] \cap (excl[u] \cup share[u]) = {} /\ share[t] \cap excl[u] = {}
          /\ share[u] \subseteq live
      BY DEF IInv, LocksFit
    <3>2. r \notin excl[u]
      BY <2>1 DEF Blocks
    <3>3. ASSUME r \in X, r \notin excl[t] PROVE r \notin share[u]
      <4>1. StillThere(t, r) /\ stage[t] \notin ShareStages
        BY <2>2, <3>3
      <4>2. CASE stage[t] = "role"
        <5>1. r \notin live
          BY <4>1, <4>2 DEF StillThere, ShareStages
        <5> QED
          BY <3>1, <5>1
      <4>3. CASE stage[t] # "role"
        BY <2>1, <4>1, <4>3 DEF Blocks
      <4> QED
        BY <4>2, <4>3
    <3> QED
      BY <2>2, <3>1, <3>2, <3>3
  <2>7. live' \subseteq Rows /\ S \subseteq live' /\ \A u \in Txns \ {t} : share[u] \subseteq live'
    <3>1. live' = live /\ live \subseteq Rows /\ \A u \in Txns : share[u] \subseteq live
      BY <2>1 DEF IInv, TypeOK, LocksFit
    <3>2. StillThere(t, r) /\ stage[t] \in ShareStages => r \in live
      BY DEF StillThere, ShareStages
    <3> QED
      BY <2>2, <3>1, <3>2
  <2>8. c \in Command /\ s \in Stages /\ s # "idle"
    BY <1>1, <2>2
  <2>9. Moves(t, c, s, L, S, X)
    BY <2>3, <2>4, <2>5, <2>6, <2>7, <2>8 DEF Moves
  <2> QED
    BY <2>9, OneMoves
<1> QED
  BY <1>2, <1>3

LEMMA NextKeepsInvariant == IInv /\ [Next]_vars => IInv'
<1> SUFFICES ASSUME IInv, [Next]_vars PROVE IInv'
  OBVIOUS
<1>1. CASE UNCHANGED vars
  BY <1>1 DEF vars, txVars, IInv, TypeOK, LocksFit
<1>2. ASSUME NEW u \in Users, Appoint(u) PROVE IInv'
  BY <1>2, AppointKeepsInvariant
<1>3. ASSUME NEW t \in Txns, NEW c \in Commands, Begin(t, c) PROVE IInv'
  BY <1>3, BeginKeepsInvariant
<1>4. ASSUME NEW t \in Txns, Take(t) PROVE IInv'
  BY <1>4, TakeKeepsInvariant
<1>5. ASSUME NEW t \in Txns, Step(t) PROVE IInv'
  BY <1>5, LookKeepsInvariant, ProceedKeepsInvariant, CommitKeepsInvariant DEF Step
<1>6. ASSUME NEW t \in Txns, Abort(t) \/ Detect(t) PROVE IInv'
  BY <1>6, RollbackKeepsInvariant DEF Abort, Detect
<1> QED
  BY <1>1, <1>2, <1>3, <1>4, <1>5, <1>6 DEF Next

\* What every transaction has locked, at every statement of its command.
THEOREM Invariance == Spec => []IInv
BY InitEstablishesInvariant, NextKeepsInvariant, PTL DEF Spec

\* Locks and commands are well typed, and a connection that is free again holds
\* no lock, for any number of connections.
THEOREM TypeCorrect == Spec => []TypeOK
<1>1. IInv => TypeOK
  BY DEF IInv
<1> QED
  BY <1>1, Invariance, PTL

\* Whatever memberships and roles a write was allowed by are in force at its
\* commit.
THEOREM AuthorityInForce == Spec => []AuthorityHolds
<1>1. ASSUME IInv, NEW t \in Txns, stage[t] = "commit", IsWrite(cmd[t])
      PROVE  /\ Memberships(cmd[t].user) \subseteq live
             /\ Supporting(cmd[t]) \cap live # {}
             /\ cmd[t].op = "assign" => Memberships(cmd[t].assignee) \subseteq live
  <2>1. WritePlan(cmd[t], "commit", left[t], share[t], excl[t])
    BY <1>1 DEF IInv, Plan
  <2>2. share[t] \subseteq live
    BY <1>1 DEF IInv, LocksFit
  <2> QED
    BY <2>1, <2>2 DEF WritePlan
<1>2. IInv => AuthorityHolds
  BY <1>1 DEF AuthorityHolds
<1> QED
  BY <1>2, Invariance, PTL

-----------------------------------------------------------------------------
(* Circles. *)

\* A deactivation or an acceptance that holds the membership of its user and
\* goes on to the roles.
Anchored(t) ==
  /\ Membership(cmd[t]) \in excl[t]
  /\ \/ stage[t] = "roles" /\ cmd[t].op \in LeaveOps
     \/ stage[t] = "role" /\ cmd[t].op = "accept"

\* What such a transaction holds and asks for belongs to its user.
LEMMA AnchoredRows ==
  ASSUME IInv, NEW t \in Txns, Anchored(t)
  PROVE  /\ excl[t] \subseteq {Membership(cmd[t])} \cup Revoked(cmd[t])
         /\ left[t] \subseteq Revoked(cmd[t])
         /\ cmd[t].op \in LeaveOps => left[t] \cap excl[t] = {}
<1>1. /\ stage[t] # "idle"
      /\ cmd[t] \in Command /\ Plan(cmd[t], stage[t], left[t], share[t], excl[t])
  BY UnderWay DEF Anchored
<1>2. MemberPlan(cmd[t], stage[t], left[t], share[t], excl[t])
  BY <1>1 DEF Plan, WritePlan, Anchored
<1>3. left[t] \subseteq Asked(cmd[t], stage[t])
  BY <1>1 DEF Plan
<1>4. CASE stage[t] = "roles" /\ cmd[t].op \in LeaveOps
  BY <1>2, <1>3, <1>4, Questions DEF MemberPlan
<1>5. CASE stage[t] = "role" /\ cmd[t].op = "accept"
  <2>1. left[t] \subseteq Revoked(cmd[t])
    BY <1>3, <1>5, Questions DEF Revoked, OrgRoles
  <2> QED
    BY <1>2, <1>5, <2>1 DEF MemberPlan, LeaveOps
<1> QED
  BY <1>4, <1>5 DEF Anchored

\* Who holds a role or a membership exclusively, waits, and did not find its
\* user not to be a member.
LEMMA HoldersAreAnchored ==
  ASSUME IInv, NEW t \in Txns, aim[t] # None, ~FoundNoMember(t),
         NEW r \in excl[t], r[1] \in {"org", "ws"} \cup Roles
  PROVE  /\ Anchored(t) /\ (r[1] \in {"org", "ws"} => r = Membership(cmd[t]))
         /\ r[2] = cmd[t].user
<1>1. left[t] # {}
  BY DEF IInv, TypeOK
<1>2. stage[t] # "idle"
  BY <1>1 DEF IInv, TypeOK
<1>3. cmd[t] \in Command /\ Plan(cmd[t], stage[t], left[t], share[t], excl[t])
  BY <1>2, UnderWay
<1>4. ~IsWrite(cmd[t])
  BY <1>2, <1>3, RowKinds DEF Plan, WritePlan, Roles
<1>5. MemberPlan(cmd[t], stage[t], left[t], share[t], excl[t]) /\ cmd[t].op \in MemberOps
  BY <1>2, <1>3, <1>4, CommandFields DEF Plan, IsWrite
<1>6. cmd[t].op \notin JoinOps
  BY <1>1, <1>5 DEF MemberPlan
<1>7. stage[t] \notin {"commit", "look"}
  BY <1>1, <1>3, Questions DEF Plan
<1>8. Anchored(t)
  <2>1. CASE cmd[t].op = "accept"
    <3>1. Membership(cmd[t]) \in excl[t]
      BY <2>1 DEF FoundNoMember
    <3> QED
      BY <1>1, <1>5, <1>7, <2>1, <3>1 DEF MemberPlan, Anchored
  <2>2. CASE cmd[t].op \in LeaveOps
    <3>1. stage[t] = "roles"
      BY <1>1, <1>5, <1>7, <2>2 DEF MemberPlan
    <3> QED
      BY <2>2, <3>1 DEF FoundNoMember, Anchored
  <2> QED
    BY <1>5, <1>6, <2>1, <2>2 DEF MemberOps
<1>9. r \in {Membership(cmd[t])} \cup Revoked(cmd[t])
  BY <1>8, AnchoredRows
<1> QED
  BY <1>8, <1>9, RowKinds DEF Membership, Revoked, OrgRoles, LocalRole

\* The row it waits for is a role of its user.
LEMMA AnchoredAim ==
  ASSUME IInv, NEW t \in Txns, aim[t] # None, Anchored(t)
  PROVE  /\ aim[t] \in Revoked(cmd[t]) /\ (cmd[t].op \in LeaveOps => aim[t] \notin excl[t])
         /\ aim[t][1] \in Roles /\ aim[t][2] = cmd[t].user
<1>1. aim[t] \in left[t]
  BY DEF IInv, TypeOK
<1>2. aim[t] \in Revoked(cmd[t]) /\ (cmd[t].op \in LeaveOps => aim[t] \notin excl[t])
  BY <1>1, AnchoredRows
<1> QED
  BY <1>2 DEF Revoked, OrgRoles, LocalRole, Roles

\* Only memberships and roles are shared.
LEMMA SharedRows ==
  ASSUME IInv, NEW t \in Txns, NEW r \in share[t]
  PROVE  r[1] \in {"org", "ws"} \cup Roles
<1>1. stage[t] # "idle"
  BY DEF IInv, TypeOK
<1>2. Plan(cmd[t], stage[t], left[t], share[t], excl[t])
  BY <1>1, UnderWay
<1>3. WritePlan(cmd[t], stage[t], left[t], share[t], excl[t])
  BY <1>1, <1>2 DEF Plan, MemberPlan
<1> QED
  BY <1>3 DEF WritePlan

\* Whoever shares a role shares the memberships of its user.
LEMMA SharersAreMembers ==
  ASSUME IInv, NEW t \in Txns, NEW r \in share[t], r[1] \in Roles
  PROVE  Memberships(r[2]) \subseteq share[t]
<1>1. stage[t] # "idle"
  BY DEF IInv, TypeOK
<1>2. Plan(cmd[t], stage[t], left[t], share[t], excl[t])
  BY <1>1, UnderWay
<1>3. WritePlan(cmd[t], stage[t], left[t], share[t], excl[t])
  BY <1>1, <1>2 DEF Plan, MemberPlan
<1>4. r[2] = cmd[t].user /\ stage[t] \notin {"project", "members"}
  BY <1>3 DEF WritePlan, Roles
<1> QED
  BY <1>3, <1>4 DEF WritePlan

\* t waits for u, and neither found its user not to be a member.
Waits(t, u) == WaitsFor(t, u) /\ aim[u] # None /\ ~FoundNoMember(t) /\ ~FoundNoMember(u)

\* Whoever holds a membership of the organization waits for nobody who waits: a
\* writer that shares a role would share the membership, and whoever else holds
\* one leaves the workspace, which needs no more.
LEMMA OrgAnchorsAreFree ==
  ASSUME IInv, NEW t \in Txns, NEW u \in Txns, Anchored(t), cmd[t].op # "leave_ws"
  PROVE  ~Waits(t, u)
<1> SUFFICES ASSUME Waits(t, u) PROVE FALSE
  OBVIOUS
<1> DEFINE r == aim[t]
<1>1. /\ r # None /\ u # t /\ (r \in excl[u] \/ r \in share[u])
      /\ aim[u] # None /\ ~FoundNoMember(u)
  BY DEF Waits, WaitsFor, Blocks
<1>2. r[1] \in Roles /\ r[2] = cmd[t].user
  BY <1>1, AnchoredAim
<1>3. <<"org", cmd[t].user>> \in excl[t]
  BY DEF Anchored, Membership, LeaveOps
<1>4. excl[t] \cap (excl[u] \cup share[u]) = {}
  BY <1>1 DEF IInv, LocksFit
<1>5. CASE r \in share[u]
  BY <1>2, <1>3, <1>4, <1>5, SharersAreMembers DEF Memberships
<1>6. CASE r \in excl[u]
  <2>1. Anchored(u) /\ r[2] = cmd[u].user
    BY <1>1, <1>2, <1>6, HoldersAreAnchored
  <2>2. Membership(cmd[u]) # <<"org", cmd[u].user>>
    BY <1>2, <1>3, <1>4, <2>1 DEF Anchored
  <2>3. cmd[u].op = "leave_ws"
    BY <2>1, <2>2 DEF Anchored, Membership, LeaveOps
  <2>4. r \in Revoked(cmd[u])
    <3>1. r \in {Membership(cmd[u])} \cup Revoked(cmd[u])
      BY <1>6, <2>1, AnchoredRows
    <3> QED
      BY <1>2, <3>1, RowKinds DEF Membership, Roles
  <2>5. Revoked(cmd[u]) = {<<"local", cmd[u].user>>}
    BY <2>3 DEF Revoked, LocalRole
  <2>6. aim[u] \in Revoked(cmd[u]) /\ aim[u] \notin excl[u]
    BY <1>1, <2>1, <2>3, AnchoredAim DEF LeaveOps
  <2> QED
    BY <1>6, <2>4, <2>5, <2>6
<1> QED
  BY <1>1, <1>5, <1>6

\* Who leaves the workspace waits at most for one of those.
LEMMA AnchorsMeetOrgAnchors ==
  ASSUME IInv, NEW t \in Txns, NEW u \in Txns, Anchored(t), Waits(t, u)
  PROVE  Anchored(u) /\ cmd[u].op # "leave_ws"
<1> DEFINE r == aim[t]
<1>1. cmd[t].op = "leave_ws"
  BY OrgAnchorsAreFree
<1>2. /\ r # None /\ u # t /\ (r \in excl[u] \/ r \in share[u])
      /\ aim[u] # None /\ ~FoundNoMember(u)
  BY DEF Waits, WaitsFor, Blocks
<1>3. r[1] \in Roles /\ r[2] = cmd[t].user
  BY <1>2, AnchoredAim
<1>4. <<"ws", cmd[t].user>> \in excl[t]
  BY <1>1 DEF Anchored, Membership
<1>5. excl[t] \cap (excl[u] \cup share[u]) = {}
  BY <1>2 DEF IInv, LocksFit
<1>6. r \notin share[u]
  BY <1>3, <1>4, <1>5, SharersAreMembers DEF Memberships
<1>7. Anchored(u) /\ r[2] = cmd[u].user
  BY <1>2, <1>3, <1>6, HoldersAreAnchored
<1>8. cmd[u].op # "leave_ws"
  BY <1>3, <1>4, <1>5, <1>7 DEF Anchored, Membership
<1> QED
  BY <1>7, <1>8

\* In a circle of transactions that found their users to be members nobody is
\* anchored, so nobody holds a membership or a role exclusively;
\* hence no writer waits, and then nobody does.
LEMMA NoCircleOfMembers ==
  ASSUME IInv, NEW S \in SUBSET Txns, Circle(S), \A t \in S : ~FoundNoMember(t)
  PROVE  FALSE
<1>1. \A t \in S : \E u \in S : Waits(t, u)
  BY DEF Circle, Waits, WaitsFor
<1>2. \A t \in S : ~Anchored(t)
  <2>1. \A t \in S : ~(Anchored(t) /\ cmd[t].op # "leave_ws")
    BY <1>1, OrgAnchorsAreFree
  <2> QED
    BY <1>1, <2>1, AnchorsMeetOrgAnchors
<1>3. \A t \in S : aim[t] # None
  BY <1>1 DEF Waits, WaitsFor
<1>4. ASSUME NEW t \in S, NEW r \in excl[t] PROVE r[1] \notin {"org", "ws"} \cup Roles
  BY <1>2, <1>3, <1>4, HoldersAreAnchored
<1>5. ASSUME NEW t \in S
      PROVE  /\ aim[t] \in left[t] /\ stage[t] # "idle"
             /\ cmd[t] \in Command /\ stage[t] \in Stages
             /\ left[t] \subseteq Asked(cmd[t], stage[t])
             /\ Plan(cmd[t], stage[t], left[t], share[t], excl[t])
  <2>1. aim[t] \in left[t] /\ stage[t] # "idle"
    BY <1>3, <1>5 DEF IInv, TypeOK
  <2> QED
    BY <1>5, <2>1, UnderWay DEF Plan
<1>6. ASSUME NEW t \in S, IsWrite(cmd[t]), stage[t] # "project" PROVE FALSE
  <2>1. WritePlan(cmd[t], stage[t], left[t], share[t], excl[t])
    BY <1>5, <1>6 DEF Plan
  <2>2. PICK u \in S : u # t /\ Blocks(u, t, aim[t])
    BY <1>1, <1>6 DEF Waits, WaitsFor, Blocks
  <2>3. CASE stage[t] \in ShareStages
    <3>1. aim[t][1] \in {"org", "ws"} \cup Roles
      BY <1>5, <1>6, <2>3, Questions DEF ShareStages, Memberships, Supporting, OrgRoles, LocalRole, Roles
    <3>2. aim[t] \in excl[u]
      BY <2>2, <2>3 DEF Blocks
    <3> QED
      BY <1>4, <3>1, <3>2
  <2>4. CASE stage[t] = "slot"
    <3>1. aim[t] = <<"slot", cmd[t].user>>
      BY <1>5, <1>6, <2>4, Questions
    <3>2. ASSUME <<"slot", cmd[t].user>> \in excl[u] PROVE FALSE
      <4>1. cmd[u].user = cmd[t].user /\ WritePlan(cmd[u], stage[u], left[u], share[u], excl[u])
        BY <1>5, <2>2, <3>2, RowKinds DEF Plan, WritePlan, MemberPlan, Roles
      <4>2. left[u] # {} /\ stage[u] # "commit"
        BY <1>5, <2>2, Questions
      <4> QED
        BY <3>2, <4>1, <4>2 DEF WritePlan
    <3>3. <<"slot", cmd[t].user>> \notin share[u]
      BY <2>2, SharedRows, RowKinds DEF Roles
    <3> QED
      BY <2>2, <3>1, <3>2, <3>3 DEF Blocks
  <2>5. stage[t] # "commit"
    BY <1>5, <1>6, Questions
  <2> QED
    BY <1>6, <2>1, <2>3, <2>4, <2>5 DEF WritePlan, ShareStages
<1>7. ASSUME NEW t \in S, IsWrite(cmd[t]) PROVE FALSE
  <2>1. stage[t] = "project" /\ aim[t] = <<"project", cmd[t].project>>
    BY <1>5, <1>6, <1>7, Questions
  <2>2. PICK u \in S : u # t /\ Blocks(u, t, aim[t])
    BY <1>1, <1>7 DEF Waits, WaitsFor, Blocks
  <2>3. <<"project", cmd[t].project>> \notin share[u]
    BY <2>2, SharedRows, RowKinds DEF Roles
  <2>4. <<"project", cmd[t].project>> \in excl[u]
    BY <2>1, <2>2, <2>3 DEF Blocks
  <2>5. IsWrite(cmd[u])
    BY <1>5, <2>2, <2>4, RowKinds DEF Plan, MemberPlan, Roles
  <2>6. stage[u] = "project"
    BY <1>6, <2>2, <2>5
  <2>7. excl[u] = {}
    BY <1>5, <2>2, <2>5, <2>6 DEF Plan, WritePlan
  <2> QED
    BY <2>4, <2>7
<1>8. PICK t \in S : TRUE
  BY DEF Circle
<1>9. PICK u \in S : Blocks(u, t, aim[t])
  BY <1>1, <1>8 DEF Waits, WaitsFor
<1>10. ~IsWrite(cmd[t]) /\ ~IsWrite(cmd[u])
  BY <1>7
<1>11. share[u] = {} /\ aim[t] \in excl[u]
  BY <1>5, <1>9, <1>10 DEF Plan, MemberPlan, Blocks
<1>12. aim[t][1] \in {"org", "ws"} \cup Roles
  <2>1. stage[t] \in {"membership", "roles", "role"}
    BY <1>5, <1>10, CommandFields, Questions DEF Plan, MemberPlan, IsWrite, MemberOps
  <2> QED
    BY <1>5, <2>1, Questions DEF Membership, Revoked, OrgRoles, LocalRole, Roles
<1> QED
  BY <1>4, <1>11, <1>12

\* However many writers, assignments, deactivations, reactivations and
\* acceptances wait for each other, a circle needs somebody who found no member.
THEOREM CirclesNeedNonmembers == Spec => []CircleNeedsNonmember
<1>1. IInv => CircleNeedsNonmember
  BY NoCircleOfMembers DEF CircleNeedsNonmember
<1> QED
  BY <1>1, Invariance, PTL

-----------------------------------------------------------------------------
(* The refinement of Admission. *)

InForce == {r \in Right : Entitled(r[2], r[1])}
Place   == [t \in Txns |-> IF IsAdmitted(t) THEN cmd[t].project ELSE None]
Relied  == [t \in Txns |-> ReliedOn(t)]

\* An admitted write has its project's row, and holds whatever it relies on.
LEMMA AdmittedHolds ==
  ASSUME IInv, NEW t \in Txns, IsAdmitted(t)
  PROVE  /\ cmd[t] \in Command /\ cmd[t].project \in Projects /\ cmd[t].project # None
         /\ <<"project", cmd[t].project>> \in excl[t]
         /\ ReliedOn(t) \subseteq InForce
<1>1. stage[t] \in {"assignee", "slot", "commit"} /\ IsWrite(cmd[t])
  BY DEF IsAdmitted
<1>2. cmd[t] \in Command /\ Plan(cmd[t], stage[t], left[t], share[t], excl[t])
  BY <1>1, UnderWay
<1>3. WritePlan(cmd[t], stage[t], left[t], share[t], excl[t])
  BY <1>1, <1>2 DEF Plan
<1>4. /\ cmd[t].project \in Projects /\ cmd[t].user \in Users
      /\ cmd[t].op = "assign" => cmd[t].assignee \in Users
  BY <1>1, <1>2, CommandFields
<1>5. share[t] \subseteq live
  BY DEF IInv, LocksFit
<1>6. Memberships(cmd[t].user) \subseteq live /\ Supporting(cmd[t]) \cap live # {}
  BY <1>1, <1>3, <1>5 DEF WritePlan
<1>7. CASE cmd[t].op # "assign"
  <2>1. ReliedOn(t) = {<<"write", cmd[t].user>>}
    BY <1>7 DEF ReliedOn
  <2>2. Entitled(cmd[t].user, "write")
    BY <1>6, <1>7 DEF Entitled, Supporting
  <2> QED
    BY <1>1, <1>2, <1>3, <1>4, <2>1, <2>2, LockAssumption DEF WritePlan, InForce, Right
<1>8. CASE cmd[t].op = "assign"
  <2>1. Entitled(cmd[t].user, "assign")
    BY <1>6, <1>8 DEF Entitled, Supporting
  <2>2. stage[t] = "commit" => Entitled(cmd[t].assignee, "member")
    BY <1>3, <1>5, <1>8 DEF WritePlan, Entitled
  <2>3. \A r \in ReliedOn(t) :
          \/ r = <<"assign", cmd[t].user>>
          \/ r = <<"member", cmd[t].assignee>> /\ stage[t] = "commit"
    BY <1>8 DEF ReliedOn
  <2>4. ReliedOn(t) \subseteq InForce
    BY <1>4, <1>8, <2>1, <2>2, <2>3 DEF InForce, Right
  <2> QED
    BY <1>1, <1>2, <1>3, <1>4, <2>4, LockAssumption DEF WritePlan
<1> QED
  BY <1>7, <1>8

\* No two writes are admitted to the same project.
LEMMA AdmittedAlone ==
  ASSUME IInv, NEW t \in Txns, NEW u \in Txns, t # u, IsAdmitted(u),
         <<"project", cmd[u].project>> \in excl[t]
  PROVE  FALSE
BY AdmittedHolds DEF IInv, LocksFit

\* A step of t leaves the others where they are.
LEMMA OthersStay ==
  ASSUME IInv, NEW t \in Txns,
         cmd' = [cmd EXCEPT ![t] = cmd'[t]], stage' = [stage EXCEPT ![t] = stage'[t]]
  PROVE  \A u \in Txns \ {t} : /\ Place'[u] = Place[u] /\ Relied'[u] = Relied[u]
                               /\ IsAdmitted(u)' = IsAdmitted(u)
<1>1. \A u \in Txns \ {t} : cmd'[u] = cmd[u] /\ stage'[u] = stage[u]
  BY DEF IInv, TypeOK
<1>2. \A u \in Txns \ {t} : IsAdmitted(u)' = IsAdmitted(u)
  BY <1>1 DEF IsAdmitted
<1>3. \A u \in Txns \ {t} : ReliedOn(u)' = ReliedOn(u)
  BY <1>1, <1>2 DEF ReliedOn
<1> QED
  BY <1>1, <1>2, <1>3 DEF Place, Relied

\* What is in force changes with the memberships and the roles only.
LEMMA SameRights == UNCHANGED live => InForce' = InForce
  BY DEF InForce, Entitled

\* A statement of t that does not change what it is admitted to.
LEMMA StatementStutters ==
  ASSUME IInv, NEW t \in Txns,
         cmd' = [cmd EXCEPT ![t] = cmd'[t]], stage' = [stage EXCEPT ![t] = stage'[t]],
         Place'[t] = Place[t], Relied'[t] = Relied[t]
  PROVE  UNCHANGED <<Place, Relied>>
<1>1. \A u \in Txns : Place'[u] = Place[u] /\ Relied'[u] = Relied[u]
  BY OthersStay
<1> QED
  BY <1>1 DEF Place, Relied

\* The end of a transaction, whatever it changed.
LEMMA EndRefines ==
  ASSUME IInv, NEW t \in Txns, EndTx(t)
  PROVE  /\ cmd' = [cmd EXCEPT ![t] = cmd'[t]] /\ stage' = [stage EXCEPT ![t] = stage'[t]]
         /\ Place'[t] = None /\ Relied'[t] = {}
<1>1. cmd'[t] = NoCommand /\ stage'[t] = "idle"
  BY DEF EndTx, IInv, TypeOK
<1>2. ~IsAdmitted(t)'
  BY <1>1 DEF IsAdmitted
<1> QED
  BY <1>1, <1>2 DEF EndTx, Place, Relied, ReliedOn

\* A transaction that ends without a change to the rights.
LEMMA EndFinishes ==
  ASSUME IInv, NEW t \in Txns, EndTx(t), UNCHANGED live
  PROVE  Admissions!Finish(t) \/ UNCHANGED <<InForce, Place, Relied>>
<1>1. CASE IsAdmitted(t)
  <2>1. Place[t] # None
    BY <1>1, AdmittedHolds DEF Place
  <2>2. Place' = [Place EXCEPT ![t] = None] /\ Relied' = [Relied EXCEPT ![t] = {}]
    <3>1. \A u \in Txns \ {t} : Place'[u] = Place[u] /\ Relied'[u] = Relied[u]
      BY EndRefines, OthersStay
    <3>2. Place'[t] = None /\ Relied'[t] = {}
      BY EndRefines
    <3> QED
      BY <3>1, <3>2 DEF Place, Relied
  <2>3. InForce' = InForce
    BY SameRights
  <2> QED
    BY <2>1, <2>2, <2>3 DEF Admissions!Finish, Place, Relied, InForce
<1>2. CASE ~IsAdmitted(t)
  <2>1. Place[t] = None /\ Relied[t] = {}
    BY <1>2 DEF Place, Relied, ReliedOn
  <2> QED
    BY <2>1, EndRefines, StatementStutters, SameRights
<1> QED
  BY <1>1, <1>2

ReliesOnRights == \A t \in Txns : ReliedOn(t) \subseteq InForce

LEMMA ReliedInForce == IInv => ReliesOnRights
BY AdmittedHolds DEF ReliedOn, ReliesOnRights

\* A step that changes the rights and no transaction's admission.
LEMMA RightsChange ==
  ASSUME IInv', UNCHANGED <<Place, Relied>>
  PROVE  Admissions!ChangeRights
<1>1. \A t \in Txns : Relied'[t] \subseteq InForce'
  <2>1. ReliesOnRights'
    BY ReliedInForce, PTL
  <2> QED
    BY <2>1 DEF ReliesOnRights, Relied
<1>2. InForce' \in SUBSET Right
  BY DEF InForce
<1> QED
  BY <1>1, <1>2 DEF Admissions!ChangeRights, Place, Relied, InForce

\* The statement that finds the role admits the write; the one that locks the
\* assignee's memberships lets it rely on one more member.
LEMMA ProceedRefines ==
  ASSUME IInv, IInv', NEW t \in Txns, Proceed(t)
  PROVE  Admissions!Next \/ UNCHANGED <<InForce, Place, Relied>>
<1> DEFINE c == cmd[t]  s == stage[t]  n == Following(c, s)
<1>1. /\ s \notin {"idle", "look", "commit"} /\ left[t] = {} /\ c \in Command
      /\ Plan(c, s, {}, share[t], excl[t])
  BY UnderWay DEF Proceed
<1>2. CASE Rollback(t)
  BY <1>2, EndFinishes DEF Rollback, Admissions!Next
<1>3. CASE ~Rollback(t)
  <2>1. /\ stage' = [stage EXCEPT ![t] = n] /\ cmd' = cmd /\ live' = live
        /\ share' = share /\ excl' = excl
    BY <1>3 DEF Proceed, Enter
  <2>2. stage'[t] = n /\ cmd'[t] = c
    BY <2>1 DEF IInv, TypeOK
  <2>3. cmd' = [cmd EXCEPT ![t] = cmd'[t]] /\ stage' = [stage EXCEPT ![t] = stage'[t]]
    BY <2>1, <2>2 DEF IInv, TypeOK
  <2>4. InForce' = InForce
    BY <2>1, SameRights
  <2>5. IsAdmitted(t)' <=> IsWrite(c) /\ n \in {"assignee", "slot", "commit"}
    BY <2>2 DEF IsAdmitted
  <2>6. CASE ~IsWrite(c)
    BY <2>3, <2>4, <2>5, <2>6, StatementStutters DEF IsAdmitted, Place, Relied, ReliedOn
  <2>7. ASSUME IsWrite(c), s \in {"project", "members"}
        PROVE  UNCHANGED <<InForce, Place, Relied>>
    <3>1. n \in {"members", "grant"}
      BY <1>1, <2>7, Order
    <3> QED
      BY <2>3, <2>4, <2>5, <2>7, <3>1, StatementStutters DEF IsAdmitted, Place, Relied, ReliedOn
  <2>8. ASSUME IsWrite(c), s = "grant"
        PROVE  Admissions!Next
    <3>0. PICK p : p = c.project
      OBVIOUS
    <3>1. n \in {"assignee", "slot", "commit"}
      BY <1>1, <2>8, Order DEF IsWrite
    <3>2. <<"project", p>> \in excl[t] /\ p \in Projects
      BY <1>1, <2>8, <3>0, CommandFields DEF Plan, WritePlan
    <3>3. IsAdmitted(t)' /\ ~IsAdmitted(t)
      BY <2>5, <2>8, <3>1 DEF IsAdmitted
    <3>4. Place[t] = None /\ \A u \in Txns : Place[u] # p
      <4>1. p # None
        BY <3>2, LockAssumption
      <4>2. ASSUME NEW u \in Txns, IsAdmitted(u) PROVE cmd[u].project # p
        BY <3>2, <3>3, <4>2, AdmittedAlone
      <4> QED
        BY <3>3, <4>1, <4>2 DEF Place
    <3>5. Place' = [Place EXCEPT ![t] = p]
      <4>1. Place'[t] = p
        BY <2>2, <3>0, <3>3 DEF Place
      <4> QED
        BY <2>3, <4>1, OthersStay DEF Place
    <3>6. Relied' = [Relied EXCEPT ![t] = Relied'[t]]
      BY <2>3, OthersStay DEF Relied
    <3>7. Relied'[t] \in SUBSET InForce
      <4>1. ReliesOnRights'
        BY ReliedInForce, PTL
      <4> QED
        BY <2>4, <4>1 DEF ReliesOnRights, Relied
    <3>8. Admissions!Admit(t, p)
      BY <2>4, <3>4, <3>5, <3>6, <3>7 DEF Admissions!Admit, Place, Relied, InForce
    <3> QED
      BY <3>2, <3>8 DEF Admissions!Next
  <2>9. ASSUME IsWrite(c), s = "assignee"
        PROVE  Admissions!Next
    <3> DEFINE r == <<"member", c.assignee>>
    <3>1. n = "commit" /\ c.op = "assign"
      BY <1>1, <2>9, Order DEF Plan, WritePlan
    <3>2. IsAdmitted(t)' /\ IsAdmitted(t)
      BY <2>5, <2>9, <3>1 DEF IsAdmitted
    <3>3. ReliedOn(t)' = ReliedOn(t) \cup {r}
      BY <2>2, <2>9, <3>1, <3>2 DEF ReliedOn
    <3>4. r \in InForce
      <4>1. ReliesOnRights'
        BY ReliedInForce, PTL
      <4> QED
        BY <2>4, <3>3, <4>1 DEF ReliesOnRights
    <3>5. Place' = Place
      <4>1. Place'[t] = Place[t]
        BY <2>2, <3>2 DEF Place
      <4> QED
        BY <2>3, <4>1, OthersStay DEF Place
    <3>6. Relied' = [Relied EXCEPT ![t] = Relied[t] \cup {r}]
      <4>1. Relied'[t] = Relied[t] \cup {r}
        BY <3>3 DEF Relied
      <4> QED
        BY <2>3, <4>1, OthersStay DEF Relied
    <3>7. Place[t] # None
      BY <3>2, AdmittedHolds DEF Place
    <3>8. Admissions!Rely(t)
      <4> HIDE DEF r
      <4> QED
        BY <2>4, <3>4, <3>5, <3>6, <3>7 DEF Admissions!Rely, Place, Relied, InForce
    <3> QED
      BY <3>8 DEF Admissions!Next
  <2>10. ASSUME IsWrite(c), s = "slot"
         PROVE  UNCHANGED <<InForce, Place, Relied>>
    <3>1. n = "commit" /\ c.op = "work"
      BY <1>1, <2>10, Order DEF Plan, WritePlan
    <3>2. IsAdmitted(t)' /\ IsAdmitted(t)
      BY <2>5, <2>10, <3>1 DEF IsAdmitted
    <3>3. Place'[t] = Place[t] /\ Relied'[t] = Relied[t]
      BY <2>2, <3>1, <3>2 DEF Place, Relied, ReliedOn
    <3> QED
      BY <2>3, <2>4, <3>3, StatementStutters
  <2>11. IsWrite(c) => s \in {"project", "members", "grant", "assignee", "slot"}
    BY <1>1 DEF Plan, WritePlan
  <2> QED
    BY <2>6, <2>7, <2>8, <2>9, <2>10, <2>11
<1> QED
  BY <1>2, <1>3

\* A write finishes with its commit; the commit of an administrator or of an
\* acceptance changes the rights.
LEMMA CommitRefines ==
  ASSUME IInv, IInv', NEW t \in Txns, Commit(t)
  PROVE  Admissions!Next \/ UNCHANGED <<InForce, Place, Relied>>
<1>1. CASE IsWrite(cmd[t])
  <2>1. live' = live
    BY <1>1 DEF Commit, Outcome, IsWrite, WriteOps, LeaveOps, JoinOps
  <2> QED
    BY <2>1, EndFinishes DEF Commit, Admissions!Next
<1>2. CASE ~IsWrite(cmd[t])
  <2>1. Place[t] = None /\ Relied[t] = {}
    BY <1>2 DEF IsAdmitted, Place, Relied, ReliedOn
  <2>2. UNCHANGED <<Place, Relied>>
    BY <2>1, EndRefines, StatementStutters DEF Commit
  <2> QED
    BY <2>2, RightsChange DEF Admissions!Next
<1> QED
  BY <1>1, <1>2

\* A command begins outside, and an acceptance stays there.
LEMMA QuietRefines ==
  ASSUME IInv, NEW t \in Txns,
         (\E c \in Commands : Begin(t, c)) \/ Take(t) \/ Look(t)
  PROVE  Admissions!Next \/ UNCHANGED <<InForce, Place, Relied>>
<1>1. CASE Rollback(t)
  BY <1>1, EndFinishes DEF Rollback, Admissions!Next
<1>2. ASSUME NEW c \in Commands, Begin(t, c)
      PROVE  UNCHANGED <<InForce, Place, Relied>>
  <2>1. Following(c, "idle") \in {"project", "look", "membership"}
    <3>1. c \in Command /\ c.op \in WriteOps \cup MemberOps
      BY CommandFields, LockAssumption
    <3>2. IsWrite(c) \/ c.op = "accept" \/ c.op \in LeaveOps \cup JoinOps
      BY <3>1 DEF IsWrite, MemberOps
    <3> QED
      BY <3>1, <3>2, Order
  <2>2. cmd'[t] = c /\ stage'[t] = Following(c, "idle") /\ stage[t] = "idle"
    BY <1>2 DEF Begin, IInv, TypeOK
  <2>3. ~IsAdmitted(t)' /\ ~IsAdmitted(t)
    BY <2>1, <2>2 DEF IsAdmitted
  <2>4. Place'[t] = Place[t] /\ Relied'[t] = Relied[t]
    BY <2>3 DEF Place, Relied, ReliedOn
  <2> QED
    BY <1>2, <2>2, <2>4, StatementStutters, SameRights DEF Begin
<1>3. CASE Take(t) /\ ~Rollback(t)
  <2>1. UNCHANGED <<live, cmd, stage>>
    BY <1>3 DEF Take
  <2> QED
    BY <2>1, SameRights DEF Place, Relied, ReliedOn, IsAdmitted
<1>4. CASE Look(t) /\ ~Rollback(t)
  <2>1. PICK n \in {"membership", "roles"} : Enter(t, n)
    BY <1>4 DEF Look
  <2>2. live' = live /\ cmd' = cmd /\ stage' = [stage EXCEPT ![t] = n] /\ stage[t] = "look"
    BY <1>4, <2>1 DEF Enter, Look
  <2>3. stage'[t] = n /\ stage' = [stage EXCEPT ![t] = stage'[t]]
        /\ cmd' = [cmd EXCEPT ![t] = cmd'[t]]
    BY <2>2 DEF IInv, TypeOK
  <2>4. ~IsAdmitted(t)' /\ ~IsAdmitted(t)
    BY <2>2, <2>3 DEF IsAdmitted
  <2>5. Place'[t] = Place[t] /\ Relied'[t] = Relied[t]
    BY <2>4 DEF Place, Relied, ReliedOn
  <2> QED
    BY <2>2, <2>3, <2>5, StatementStutters, SameRights
<1> QED
  BY <1>1, <1>2, <1>3, <1>4

LEMMA StepsRefine ==
  ASSUME IInv, IInv', [Next]_vars
  PROVE  Admissions!Next \/ UNCHANGED <<InForce, Place, Relied>>
<1>1. CASE UNCHANGED vars
  BY <1>1 DEF vars, txVars, InForce, Entitled, Place, Relied, ReliedOn, IsAdmitted
<1>2. ASSUME NEW u \in Users, Appoint(u) PROVE Admissions!Next
  <2>1. UNCHANGED <<Place, Relied>>
    BY <1>2 DEF Appoint, txVars, Place, Relied, ReliedOn, IsAdmitted
  <2> QED
    BY <2>1, RightsChange DEF Admissions!Next
<1>3. ASSUME NEW t \in Txns, (\E c \in Commands : Begin(t, c)) \/ Take(t) \/ Look(t)
      PROVE  Admissions!Next \/ UNCHANGED <<InForce, Place, Relied>>
  BY <1>3, QuietRefines
<1>4. ASSUME NEW t \in Txns, Proceed(t) \/ Commit(t)
      PROVE  Admissions!Next \/ UNCHANGED <<InForce, Place, Relied>>
  BY <1>4, ProceedRefines, CommitRefines
<1>5. ASSUME NEW t \in Txns, Abort(t) \/ Detect(t)
      PROVE  Admissions!Next \/ UNCHANGED <<InForce, Place, Relied>>
  BY <1>5, EndFinishes DEF Abort, Detect, Rollback, Admissions!Next
<1> QED
  BY <1>1, <1>2, <1>3, <1>4, <1>5 DEF Next, Step

LEMMA InitRefines == Init => Admissions!Init
<1> SUFFICES ASSUME Init PROVE Admissions!Init
  OBVIOUS
<1>1. \A t \in Txns : ~IsAdmitted(t) /\ ReliedOn(t) = {}
  BY DEF Init, IsAdmitted, ReliedOn
<1> QED
  BY <1>1 DEF Admissions!Init

\* Row by row, the locks implement Admission: an admitted write is alone in its
\* project, and no revocation takes away what it relies on before its commit.
THEOREM WritesAreAdmitted == Spec => ImplementsAdmission
<1>1. Init => Admissions!Init
  BY InitRefines
<1>2. IInv /\ IInv' /\ [Next]_vars => [Admissions!Next]_<<InForce, Place, Relied>>
  BY StepsRefine
<1> QED
  BY <1>1, <1>2, Invariance, PTL
  DEF Spec, ImplementsAdmission, Admissions!Spec, InForce, Place, Relied

=============================================================================
