----------------------------- MODULE Executions -----------------------------
(***************************************************************************)
(* Attempts to execute a process, the time sessions workers hold on an     *)
(* attempt, the responsibility for a process, and the status changes of    *)
(* the rows above them, as concurrent transactions.                        *)
(*                                                                         *)
(* A process has numbered attempts; an attempt is active until it is       *)
(* completed or cancelled.  A worker opens and closes sessions on active   *)
(* attempts, and ending the attempt closes every session still open on it. *)
(***************************************************************************)
EXTENDS WorkScope

CONSTANTS
  Subtree,      \* a section with all its descendants (SectionTree changes it)
  ExecutionIds, \* ids of attempts, used and unused
  SessionIds,   \* ids of time sessions; their number bounds the sessions
  MaxAttempt,   \* the largest attempt number an integer column holds
  Commands      \* the commands clients issue

AttemptOps == {"complete", "cancel", "start_session"}

\* A command names the row its path leads to (scope) and, for commands on an
\* attempt or on a session, that attempt or session (row).
Command ==
  [op : {"start"}, actor : Users, scope : Processes, row : {None}, arg : {None}]
  \cup [op : AttemptOps, actor : Users, scope : Processes, row : ExecutionIds,
        arg : {None}]
  \cup [op : {"stop_session"}, actor : Users, scope : Processes,
        row : SessionIds, arg : {None}]
  \cup [op : {"assign"}, actor : Users, scope : Processes, row : {None},
        arg : Users \cup {None}]
  \cup [op : {"set_status"}, actor : Users, scope : Nodes, row : {None},
        arg : Statuses]

ASSUME ExecutionAssumption ==
  /\ Subtree \in [Sections -> SUBSET Sections]
  /\ \A s \in Sections : /\ s \in Subtree[s]
                         /\ \A r \in Subtree[s] : ProjectOf[r] = ProjectOf[s]
  /\ Commands \subseteq Command
  /\ None \notin ExecutionIds /\ None \notin SessionIds
  /\ MaxAttempt \in Nat \ {0}

VARIABLES
  execution,  \* the attempts
  session,    \* the time sessions; endedAt = 0 stands for NULL
  assignee,   \* the user responsible for a process
  seen        \* per transaction: what a START read, to be inserted

vars == <<scopeVars, execution, session, assignee, seen>>
tables == <<status, execution, session, assignee>>

NoExecution == [process |-> None, no |-> 0, status |-> "absent",
                startedAt |-> 0, endedAt |-> 0, assignee |-> None]
NoSession == [execution |-> None, worker |-> None, startedAt |-> 0, endedAt |-> 0]
NothingSeen == [no |-> 0, assignee |-> None]

Init ==
  /\ ScopeInit
  /\ execution = [e \in ExecutionIds |-> NoExecution]
  /\ session = [s \in SessionIds |-> NoSession]
  /\ assignee = [p \in Processes |-> None]
  /\ seen = [t \in Txns |-> NothingSeen]

-----------------------------------------------------------------------------
(* Queries. *)

(* A definition marked "Defect" is a plausible mistake in the next one; the *)
(* runs over the mutants show that a property notices it.                   *)

ProcessesUnder(n) ==
  {p \in Processes :
     \/ n \in {p, ItemOf[p], ProjectAbove(p)}
     \/ n \in Sections /\ SectionAbove(p) \in Subtree[n]}

AttemptsOf(p) == {e \in ExecutionIds : execution[e].process = p}

\* Defect: an inner join with the assignee loses unassigned attempts.
ActiveAndAssigned(p) ==
  {e \in AttemptsOf(p) : execution[e].status = "active" /\ execution[e].assignee # None}

ActiveOn(p) == {e \in AttemptsOf(p) : execution[e].status = "active"}

IsOpen(s)     == session[s].execution # None /\ session[s].endedAt = 0
OpenOf(u)     == {s \in SessionIds : IsOpen(s) /\ session[s].worker = u}
OpenOn(e)     == {s \in SessionIds : IsOpen(s) /\ session[s].execution = e}

\* Defect: the maximum over the attempts of every process.
IsNextAnywhere(n, p) ==
  /\ \A e \in ExecutionIds : execution[e].no < n
  /\ n > 1 => \E e \in ExecutionIds : execution[e].no = n - 1

\* n = COALESCE(max(attempt_no), 0) + 1
IsNextAttempt(n, p) ==
  /\ \A e \in AttemptsOf(p) : execution[e].no < n
  /\ n > 1 => \E e \in AttemptsOf(p) : execution[e].no = n - 1

\* Defect: the number is not converted back from bigint.
BigNumbers == 1..(MaxAttempt + 1)

\* The attempt numbers an integer column holds.
AttemptNumbers == 1..MaxAttempt

\* Defect: the guard of a section looks at the section's own work only.
ActiveDirectlyUnder(n) ==
  UNION {ActiveOn(p) : p \in {q \in Processes :
           n \in {q, ItemOf[q], SectionAbove(q), ProjectAbove(q)}}}

\* The guard of the archiving paths: attempts that are active at or below n.
ActiveUnder(n) == UNION {ActiveOn(p) : p \in ProcessesUnder(n)}

\* Status changes each level accepts.
CanBecome(n, to) ==
  /\ n \in Projects => <<status[n], to>> # <<"archived", "completed">>
  /\ n \in Sections \cup Processes => to # "completed"

-----------------------------------------------------------------------------
(* A request resolves its path, so its rows exist, before it sends BEGIN.  *)

\* Defect: the attempt or session is looked up only inside the transaction.
RowUnresolved(c) == TRUE

RowInScope(c) ==
  /\ c.op \in AttemptOps => execution[c.row].process = c.scope
  /\ c.op = "stop_session" =>
       \E e \in ExecutionIds : /\ session[c.row].execution = e
                               /\ execution[e].process = c.scope

Begin(t, c) ==
  /\ c.actor \in members
  /\ NodeOpen(c.scope)
  /\ RowInScope(c)
  /\ BeginTx(t, c)
  /\ UNCHANGED <<clock, members, tables, seen>>

Lock(t) == LockParent(t) /\ UNCHANGED <<execution, session, assignee, seen>>

\* The reads of a command and its early returns, under the project lock.

\* Defect: any member may stop any session.
CanStopAny(c) == IsOpen(c.row)

CanStop(c) == session[c.row].worker = c.actor /\ IsOpen(c.row)

CanSetStatus(n, to) ==
  /\ CanBecome(n, to)
  /\ to = "archived" /\ status[n] # "archived" => ActiveUnder(n) = {}

Passes(c) ==
  /\ c.op = "start" => ActiveOn(c.scope) = {}
  /\ c.op \in AttemptOps => execution[c.row].status = "active"
  /\ c.op = "start_session" => OpenOf(c.actor) = {}
  /\ c.op = "stop_session" => CanStop(c)
  /\ c.op = "assign" => c.arg \in members \cup {None}
  /\ c.op = "set_status" => CanSetStatus(c.scope, c.arg)

\* What is read to be written later: the number and the assignee of a new
\* attempt.  There is no such number when the integer column is exhausted.
Reads(c) ==
  IF c.op = "start"
  THEN {[no |-> n, assignee |-> assignee[c.scope]] :
          n \in {m \in AttemptNumbers : IsNextAttempt(m, c.scope)}}
  ELSE {NothingSeen}

Check(t) ==
  /\ phase[t] = "locked"
  /\ IF Passes(cmd[t]) /\ Reads(cmd[t]) # {}
     THEN /\ MoveTo(t, "checked")
          /\ \E r \in Reads(cmd[t]) : seen' = [seen EXCEPT ![t] = r]
     ELSE EndTx(t) /\ UNCHANGED seen
  /\ UNCHANGED <<clock, members, tables>>

-----------------------------------------------------------------------------
(* The writes.  A constraint that rejects one rolls the transaction back.  *)

Writes(t, ops) ==
  /\ phase[t] = "checked"
  /\ cmd[t].op \in ops
  /\ EndTx(t)
  /\ seen' = [seen EXCEPT ![t] = NothingSeen]
  /\ UNCHANGED <<clock, members>>

\* process_executions_one_active and process_executions_attempt_key
AttemptIsUnique(p, no) ==
  ActiveOn(p) = {} /\ \A e \in AttemptsOf(p) : execution[e].no # no

InsertExecution(t) ==
  /\ Writes(t, {"start"})
  /\ LET p == cmd[t].scope
         free == {e \in ExecutionIds : execution[e].status = "absent"}
         row == [process |-> p, no |-> seen[t].no, status |-> "active",
                 startedAt |-> began[t], endedAt |-> 0,
                 assignee |-> seen[t].assignee]
     IN IF AttemptIsUnique(p, seen[t].no) /\ free # {}
        THEN \E e \in free : execution' = [execution EXCEPT ![e] = row]
        ELSE UNCHANGED execution
  /\ UNCHANGED <<status, session, assignee>>

\* Defects: only the actor's own session is closed; sessions that had ended
\* are closed again.
OwnSessionClosed(e, t) ==
  [s \in SessionIds |-> IF s \in OpenOn(e) /\ session[s].worker = cmd[t].actor
                        THEN [session[s] EXCEPT !.endedAt = began[t]]
                        ELSE session[s]]
AllSessionsClosed(e, t) ==
  [s \in SessionIds |-> IF session[s].execution = e
                        THEN [session[s] EXCEPT !.endedAt = began[t]]
                        ELSE session[s]]

\* Every session open on attempt e ends at the time of transaction t.
SessionsClosed(e, t) ==
  [s \in SessionIds |-> IF s \in OpenOn(e)
                        THEN [session[s] EXCEPT !.endedAt = began[t]]
                        ELSE session[s]]

\* The state_check constraints of both tables, for ending attempt e at time d.
TimesAllow(e, d) ==
  /\ execution[e].startedAt <= d
  /\ \A s \in OpenOn(e) : session[s].startedAt <= d

TransitionExecution(t) ==
  /\ Writes(t, {"complete", "cancel"})
  /\ LET e == cmd[t].row
         end == IF cmd[t].op = "complete" THEN "completed" ELSE "cancelled"
     IN IF execution[e].status = "active" /\ TimesAllow(e, began[t])
        THEN /\ execution' = [execution EXCEPT ![e] =
                  [@ EXCEPT !.status = end, !.endedAt = began[t]]]
             /\ session' = SessionsClosed(e, t)
        ELSE UNCHANGED <<execution, session>>
  /\ UNCHANGED <<status, assignee>>

\* Defect: the unique index covers the worker and the attempt, not the tenant.
UniqueOnAttempt(c) == \A s \in OpenOf(c.actor) : session[s].execution # c.row

\* The partial unique index one_open_per_worker also sees the sessions other
\* projects' transactions committed after the check.
SessionIsUnique(c) == OpenOf(c.actor) = {}

InsertSession(t) ==
  /\ Writes(t, {"start_session"})
  /\ LET free == {s \in SessionIds : session[s].execution = None}
         row == [execution |-> cmd[t].row, worker |-> cmd[t].actor,
                 startedAt |-> began[t], endedAt |-> 0]
     IN IF SessionIsUnique(cmd[t]) /\ free # {}
        THEN \E s \in free : session' = [session EXCEPT ![s] = row]
        ELSE UNCHANGED session
  /\ UNCHANGED <<status, execution, assignee>>

CloseSession(t) ==
  /\ Writes(t, {"stop_session"})
  /\ LET s == cmd[t].row
     IN IF IsOpen(s) /\ session[s].startedAt <= began[t]
        THEN session' = [session EXCEPT ![s] = [@ EXCEPT !.endedAt = began[t]]]
        ELSE UNCHANGED session
  /\ UNCHANGED <<status, execution, assignee>>

AssignProcess(t) ==
  /\ Writes(t, {"assign"})
  /\ assignee' = [assignee EXCEPT ![cmd[t].scope] = cmd[t].arg]
  /\ UNCHANGED <<status, execution, session>>

UpdateStatus(t) ==
  /\ Writes(t, {"set_status"})
  /\ status' = [status EXCEPT ![cmd[t].scope] = cmd[t].arg]
  /\ UNCHANGED <<execution, session, assignee>>

\* A dropped request, a lost connection or a crash of the server: the
\* database rolls the transaction back.
Abort(t) ==
  /\ phase[t] # "idle"
  /\ EndTx(t)
  /\ seen' = [seen EXCEPT ![t] = NothingSeen]
  /\ UNCHANGED <<clock, members, tables>>

Write(t) ==
  \/ InsertExecution(t) \/ TransitionExecution(t)
  \/ InsertSession(t) \/ CloseSession(t)
  \/ AssignProcess(t) \/ UpdateStatus(t)

Environment ==
  /\ Tick \/ \E u \in Users : Revoke(u) \/ Restore(u)
  /\ UNCHANGED <<execution, session, assignee, seen>>

Next ==
  \/ Environment
  \/ \E t \in Txns : \/ \E c \in Commands : Begin(t, c)
                     \/ Lock(t) \/ Check(t) \/ Write(t) \/ Abort(t)

Spec == Init /\ [][Next]_vars

-----------------------------------------------------------------------------
(* Fairness.  A connection that holds the lock keeps executing its          *)
(* statements; the row lock is granted in the order of the waiters, so a    *)
(* transaction that is overtaken again and again still gets it.             *)

Fairness == \A t \in Txns : SF_vars(Lock(t)) /\ WF_vars(Check(t) \/ Write(t))

FairSpec == Spec /\ Fairness

=============================================================================
