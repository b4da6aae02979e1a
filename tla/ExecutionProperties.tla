------------------------ MODULE ExecutionProperties ------------------------
(***************************************************************************)
(* What the commands of Executions promise, one at a time and together.    *)
(***************************************************************************)
EXTENDS Executions

Phases == {"idle", "begun", "locked", "checked"}

ExecutionRow ==
  [process : Processes \cup {None}, no : 0..MaxAttempt,
   status : {"absent", "active", "completed", "cancelled"},
   startedAt : 0..MaxClock, endedAt : 0..MaxClock,
   assignee : Users \cup {None}]

SessionRow ==
  [execution : ExecutionIds \cup {None}, worker : Users \cup {None},
   startedAt : 0..MaxClock, endedAt : 0..MaxClock]

\* Every variable has its type; an attempt number never leaves the range of
\* its integer column (start_execution converts from bigint and refuses).
TypeOK ==
  /\ clock \in 1..MaxClock
  /\ members \subseteq Users
  /\ status \in [Nodes -> Statuses]
  /\ phase \in [Txns -> Phases]
  /\ cmd \in [Txns -> Command \cup {NoCommand}]
  /\ began \in [Txns -> 0..MaxClock]
  /\ execution \in [ExecutionIds -> ExecutionRow]
  /\ session \in [SessionIds -> SessionRow]
  /\ assignee \in [Processes -> Users \cup {None}]
  /\ seen \in [Txns -> [no : 0..MaxAttempt, assignee : Users \cup {None}]]

-----------------------------------------------------------------------------
(* Invariants. *)

\* A process never has two active attempts (process_executions_one_active).
OneActiveAttempt ==
  \A e, f \in ExecutionIds :
    /\ execution[e].status = "active" /\ execution[f].status = "active"
    /\ execution[e].process = execution[f].process
    => e = f

\* The attempts of a process are numbered 1, 2, ... without gap or repetition,
\* and only the last can be active: a retry follows the end of its predecessor.
AttemptsNumbered ==
  \A p \in Processes : \A e \in AttemptsOf(p) :
    LET no == execution[e].no IN
    /\ no >= 1
    /\ no > 1 => \E f \in AttemptsOf(p) : execution[f].no = no - 1
    /\ \A f \in AttemptsOf(p) : /\ execution[f].no = no => f = e
                                /\ execution[e].status = "active" => execution[f].no <= no

\* A session is open only on an active attempt: however a START WORK races
\* with a COMPLETE or CANCEL, no open session outlives its attempt.
OpenWorkIsOnActiveAttempt ==
  \A s \in SessionIds :
    IsOpen(s) => execution[session[s].execution].status = "active"

\* A worker has at most one open session in the tenant, in whatever projects
\* (hence under whatever locks) the sessions are opened.
OneOpenSessionPerWorker ==
  \A u \in Users : \A r, s \in OpenOf(u) : r = s

\* An active attempt can always be reached by complete and cancel: no row
\* above it was archived around it, at any of the four levels.
ActiveWorkIsReachable ==
  \A e \in ExecutionIds :
    execution[e].status = "active" => ProcessOpen(execution[e].process)

StillTrue(t) ==
  IF cmd[t].op = "start_session"
  THEN execution[cmd[t].row].status = "active"
  ELSE /\ Passes(cmd[t])
       /\ cmd[t].op = "start" => /\ seen[t] \in Reads(cmd[t])
                                /\ AttemptIsUnique(cmd[t].scope, seen[t].no)

\* What a transaction read under the project lock is still true when it
\* writes.  The one exception is the worker's other open session, which may
\* be opened under another project's lock.
ChecksStillHold == \A t \in Txns : phase[t] = "checked" => StillTrue(t)

\* Transaction times are taken before the lock is granted.  Still an attempt
\* never ends before it started, a session never starts before its attempt,
\* and a worker's own stop never meets the check on the session's times.
TimesOrdered ==
  /\ \A t \in Txns : phase[t] # "idle" =>
       /\ cmd[t].op \in AttemptOps => execution[cmd[t].row].startedAt <= began[t]
       /\ cmd[t].op = "stop_session" => session[cmd[t].row].startedAt <= began[t]
  /\ \A e \in ExecutionIds :
       execution[e].status \in {"completed", "cancelled"}
         => execution[e].startedAt <= execution[e].endedAt
  /\ \A s \in SessionIds : session[s].execution # None =>
       execution[session[s].execution].startedAt <= session[s].startedAt

-----------------------------------------------------------------------------
(* Action properties. *)

Commits(t) == /\ phase[t] = "checked" /\ phase'[t] = "idle"
              /\ tables' # tables

\* Below a section, a revocation never slips between the check of the actor's
\* authority and the commit: whoever writes is still a member then, and so is
\* the user a process is assigned to.
AuthorizedUntilCommit ==
  [][\A t \in Txns : Commits(t) /\ SharesAuthority(cmd[t]) =>
       /\ cmd[t].actor \in members
       /\ cmd[t].op = "assign" => cmd[t].arg \in members \cup {None}]_vars

\* Ended attempts and closed sessions never change, and a stored attempt keeps
\* its process, its number, its start and its assignee.
HistoryIsFinal ==
  [][/\ \A e \in ExecutionIds : execution[e].status # "absent" =>
          \/ execution'[e] = execution[e]
          \/ /\ execution[e].status = "active"
             /\ execution'[e] = [execution[e] EXCEPT
                  !.status = execution'[e].status, !.endedAt = execution'[e].endedAt]
     /\ \A s \in SessionIds : session[s].execution # None =>
          \/ session'[s] = session[s]
          \/ /\ IsOpen(s)
             /\ session'[s] = [session[s] EXCEPT !.endedAt = session'[s].endedAt]
    ]_vars

\* A session is closed by its own worker, or together with its attempt and
\* then at the very time the attempt ends.
SessionsCloseForAReason ==
  [][\A s \in SessionIds : IsOpen(s) /\ ~IsOpen(s)' =>
       LET e == session[s].execution IN
       \/ /\ execution'[e] = execution[e]
          /\ \E t \in Txns : /\ Commits(t)
                             /\ cmd[t].op = "stop_session" /\ cmd[t].row = s
                             /\ cmd[t].actor = session[s].worker
       \/ /\ execution'[e].status \in {"completed", "cancelled"}
          /\ session'[s].endedAt = execution'[e].endedAt]_vars

\* A new attempt records the assignee the process has at the commit, however
\* an assignment races with the start.
SnapshotIsCurrent ==
  [][\A e \in ExecutionIds :
       execution[e].status = "absent" /\ execution'[e].status = "active" =>
         execution'[e].assignee = assignee'[execution'[e].process]]_vars

\* A level is archived only when no attempt at or below it is active, in the
\* whole section subtree, and the archiving never ends an attempt itself.
ArchivingSparesActiveWork ==
  [][\A n \in Nodes :
       status[n] # "archived" /\ status'[n] = "archived" =>
         \A p \in ProcessesUnder(n) : ActiveOn(p) = {} /\ ActiveOn(p)' = {}]_vars

-----------------------------------------------------------------------------
(* Refinement. *)

\* The state of attempt no of process p, and the process a user works on.
AttemptState(p, no) ==
  IF \E e \in AttemptsOf(p) : execution[e].no = no
  THEN execution[CHOOSE e \in AttemptsOf(p) : execution[e].no = no].status
  ELSE "none"

WorkingOn(u) ==
  IF OpenOf(u) = {} THEN None
  ELSE execution[session[CHOOSE s \in OpenOf(u) : TRUE].execution].process

Histories  == [p \in Processes |-> [no \in 1..MaxAttempt |-> AttemptState(p, no)]]
Workplaces == [u \in Users |-> WorkingOn(u)]

Lifecycle == INSTANCE AttemptLifecycle WITH
  Numbers <- 1..MaxAttempt, attempts <- Histories, working <- Workplaces

\* The transactions implement the abstract life cycle: every commit is one of
\* its steps, whole, or changes nothing it sees.
ImplementsLifecycle == Lifecycle!Spec

-----------------------------------------------------------------------------
(* Liveness. *)

\* No transaction waits for a project lock forever: every request that sent
\* BEGIN commits or is rolled back.
TransactionsEnd == \A t \in Txns : phase[t] # "idle" ~> phase[t] = "idle"

-----------------------------------------------------------------------------
(* What the documents say and the code does not do. *)

\* ADR 0019: ending an attempt closes all its open sessions.  The transition
\* that passed its checks would never be turned down by the sessions' check
\* constraint.
TransitionIsNeverRejected ==
  \A t \in Txns : phase[t] = "checked" /\ cmd[t].op \in {"complete", "cancel"} =>
    TimesAllow(cmd[t].row, began[t])

\* ADR 0019: a session's interval never exceeds the life of its attempt.
SessionWithinAttempt ==
  \A s \in SessionIds : session[s].execution # None /\ ~IsOpen(s) =>
    LET e == execution[session[s].execution] IN
    e.status # "active" => session[s].endedAt <= e.endedAt

\* projects.rs: a racing revoke cannot slip between the handler's checks and
\* the commit of a project's update.
ProjectUpdateIsAuthorized ==
  [][\A t \in Txns : Commits(t) /\ cmd[t].scope \in Projects =>
       cmd[t].actor \in members]_vars

=============================================================================
