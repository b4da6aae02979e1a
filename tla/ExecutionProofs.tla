-------------------------- MODULE ExecutionProofs --------------------------
(***************************************************************************)
(* Proofs, for every number of rows, users, transactions and attempts,     *)
(* that the transactions of Executions keep their promises.                *)
(*                                                                         *)
(* The argument is rely-guarantee.  A transaction that holds the lock of   *)
(* its project makes claims about that project (its parent chain is open,  *)
(* its reads are still true).  A write of another lock holder touches rows *)
(* of its own project only, so it leaves the claims alone (Untouched).     *)
(***************************************************************************)
EXTENDS ExecutionProperties, ScopeProofs, TLAPS

-----------------------------------------------------------------------------
(* The inductive invariant. *)

\* A used attempt belongs to a process, a used session to a used attempt.
RowsLinked ==
  /\ \A e \in ExecutionIds : execution[e].status = "absent" <=> execution[e].process = None
  /\ \A s \in SessionIds : session[s].execution # None =>
       execution[session[s].execution].status # "absent"

\* What transaction t may rely on: its command's row lies in the scope; under
\* the lock the parent chain stays open, the memberships it shares stay active
\* and, once checked, its reads stay true.
Claims(t) ==
  /\ phase[t] # "idle" => /\ cmd[t] \in Command /\ RowInScope(cmd[t])
                           /\ began[t] \in 1..MaxClock
  /\ Holds(t) => NodeOpen(cmd[t].scope)
  /\ Shared(t) \subseteq members \cup {None}
  /\ phase[t] = "checked" => StillTrue(t)

TablesOK ==
  /\ RowsLinked
  /\ OneActiveAttempt /\ OneOpenSessionPerWorker
  /\ OpenWorkIsOnActiveAttempt /\ ActiveWorkIsReachable

IInv ==
  /\ TypeOK /\ TablesOK
  /\ ProjectLockIsExclusive
  /\ \A t \in Txns : Claims(t)

-----------------------------------------------------------------------------
(* Commands and the parent chain. *)

\* The fields of a command, by its operation.
LEMMA CommandFields ==
  ASSUME NEW c \in Command
  PROVE  /\ c.actor \in Users /\ c.scope \in Nodes
         /\ c.op \in AttemptOps \cup {"start", "stop_session", "assign", "set_status"}
         /\ c.op # "set_status" => c.scope \in Processes
         /\ c.op \in AttemptOps => c.row \in ExecutionIds
         /\ c.op = "stop_session" => c.row \in SessionIds
         /\ c.op = "assign" => c.arg \in Users \cup {None}
         /\ c.op = "set_status" => c.arg \in Statuses
  BY DEF Command, Nodes, AttemptOps

\* An idle transaction's placeholder is no command of a client.
LEMMA NoCommandIsNone == NoCommand \notin Command
  BY DEF Command, NoCommand, AttemptOps

\* Where the rows above a row are.
LEMMA ChainTypes ==
  /\ \A p \in Processes : /\ ItemOf[p] \in Items
                          /\ SectionAbove(p) = SectionOf[ItemOf[p]]
                          /\ SectionAbove(p) \in Sections
                          /\ ProjectAbove(p) = ProjectOf[SectionAbove(p)]
  /\ \A i \in Items : /\ SectionAbove(i) = SectionOf[i]
                      /\ SectionOf[i] \in Sections
                      /\ ProjectAbove(i) = ProjectOf[SectionOf[i]]
  /\ \A s \in Sections : SectionAbove(s) = s /\ ProjectAbove(s) = ProjectOf[s]
  /\ \A p \in Projects : ProjectAbove(p) = p
  /\ \A n \in Nodes : ProjectAbove(n) \in Projects
  BY ScopeAssumption DEF SectionAbove, ProjectAbove, Nodes

\* A row and the processes under it are in one project.
LEMMA UnderIsInProject ==
  ASSUME NEW n \in Nodes, NEW p \in ProcessesUnder(n)
  PROVE  ProjectAbove(p) = ProjectAbove(n)
  <1>1. p \in Processes
    BY DEF ProcessesUnder
  <1>2. CASE n \in {p, ItemOf[p], ProjectAbove(p)}
    <2>1. ProjectAbove(ItemOf[p]) = ProjectAbove(p)
      BY <1>1, ChainTypes
    <2>2. ProjectAbove(ProjectAbove(p)) = ProjectAbove(p)
      BY <1>1, ChainTypes DEF Nodes
    <2> QED
      BY <1>2, <2>1, <2>2
  <1>3. CASE n \in Sections /\ SectionAbove(p) \in Subtree[n]
    BY <1>1, <1>3, ChainTypes, ExecutionAssumption
  <1> QED
    BY <1>2, <1>3 DEF ProcessesUnder

-----------------------------------------------------------------------------
(* Type correctness. *)

\* The end of a transaction, by commit, rollback or abort, keeps the types.
LEMMA EndTxTypes ==
  ASSUME TypeOK, NEW t \in Txns, EndTx(t)
  PROVE  /\ phase' \in [Txns -> Phases]
         /\ cmd' \in [Txns -> Command \cup {NoCommand}]
         /\ began' \in [Txns -> 0..MaxClock]
  BY ScopeAssumption DEF TypeOK, EndTx, Phases

\* A phase change keeps the types of the transactions.
LEMMA MoveToTypes ==
  ASSUME TypeOK, NEW t \in Txns, NEW to \in Phases, MoveTo(t, to)
  PROVE  /\ phase' \in [Txns -> Phases]
         /\ cmd' \in [Txns -> Command \cup {NoCommand}]
         /\ began' \in [Txns -> 0..MaxClock]
  BY DEF TypeOK, MoveTo

\* A transaction that writes runs a command of that operation.
LEMMA WriterRuns ==
  ASSUME TypeOK, NEW t \in Txns, NEW ops, "none" \notin ops, Writes(t, ops)
  PROVE  /\ cmd[t] \in Command /\ cmd[t].op \in ops /\ began[t] \in 0..MaxClock
         /\ seen[t] \in [no : 0..MaxAttempt, assignee : Users \cup {None}]
         /\ clock' = clock /\ members' = members
         /\ seen' \in [Txns -> [no : 0..MaxAttempt, assignee : Users \cup {None}]]
  <1>1. NothingSeen \in [no : 0..MaxAttempt, assignee : Users \cup {None}]
    BY ExecutionAssumption DEF NothingSeen
  <1> QED
    BY <1>1 DEF TypeOK, Writes, NoCommand

\* Ended attempts and closed sessions are rows of their tables.
LEMMA EndedRowTypes ==
  ASSUME NEW d \in 0..MaxClock
  PROVE  /\ \A r \in SessionRow : [r EXCEPT !.endedAt = d] \in SessionRow
         /\ \A r \in ExecutionRow : \A end \in {"completed", "cancelled"} :
              [r EXCEPT !.status = end, !.endedAt = d] \in ExecutionRow
  BY DEF SessionRow, ExecutionRow

\* The initial state is typed.
LEMMA InitTypes == Init => TypeOK
  BY ScopeAssumption, ExecutionAssumption
  DEF Init, ScopeInit, TypeOK, Phases, Statuses, NoExecution, NoSession,
      NothingSeen, ExecutionRow, SessionRow

\* Begin, Lock and Abort keep the types.
LEMMA QuietTypes ==
  ASSUME TypeOK, NEW t \in Txns,
         \/ \E c \in Commands : Begin(t, c)
         \/ Lock(t) \/ Abort(t)
  PROVE  TypeOK'
  <1> USE DEF TypeOK, tables
  <1>0. NothingSeen \in [no : 0..MaxAttempt, assignee : Users \cup {None}]
    BY ExecutionAssumption DEF NothingSeen
  <1>1. ASSUME NEW c \in Commands, Begin(t, c) PROVE TypeOK'
    BY <1>1, ScopeAssumption, ExecutionAssumption DEF Begin, BeginTx, Phases
  <1>2. CASE Lock(t)
    <2>1. /\ phase' \in [Txns -> Phases]
          /\ cmd' \in [Txns -> Command \cup {NoCommand}]
          /\ began' \in [Txns -> 0..MaxClock]
      <3>1. CASE Admitted(cmd[t])
        BY <1>2, <3>1, MoveToTypes DEF Lock, LockParent, Phases
      <3>2. CASE ~Admitted(cmd[t])
        BY <1>2, <3>2, EndTxTypes DEF Lock, LockParent
      <3> QED
        BY <3>1, <3>2
    <2> QED
      BY <1>2, <2>1 DEF Lock, LockParent
  <1>3. CASE Abort(t)
    BY <1>0, <1>3, EndTxTypes DEF Abort
  <1> QED
    BY <1>1, <1>2, <1>3

\* So do the checks, whose reads fit the transaction's memory.
LEMMA CheckTypes ==
  ASSUME TypeOK, NEW t \in Txns, Claims(t), Check(t)
  PROVE  TypeOK'
  <1>1. \A r \in Reads(cmd[t]) :
          r \in [no : 0..MaxAttempt, assignee : Users \cup {None}]
    <2>1. cmd[t] \in Command
      BY DEF Check, Claims, Phases
    <2>2. CASE cmd[t].op = "start"
      <3>1. assignee[cmd[t].scope] \in Users \cup {None}
        BY <2>1, <2>2, CommandFields DEF TypeOK
      <3> QED
        BY <2>2, <3>1, ExecutionAssumption DEF Reads, AttemptNumbers
    <2>3. CASE cmd[t].op # "start"
      BY <2>3, ExecutionAssumption DEF Reads, NothingSeen
    <2> QED
      BY <2>2, <2>3
  <1>2. seen' \in [Txns -> [no : 0..MaxAttempt, assignee : Users \cup {None}]]
    <2>1. \/ seen' = seen
          \/ \E r \in Reads(cmd[t]) : seen' = [seen EXCEPT ![t] = r]
      BY DEF Check
    <2> QED
      BY <1>1, <2>1 DEF TypeOK
  <1>3. /\ phase' \in [Txns -> Phases]
        /\ cmd' \in [Txns -> Command \cup {NoCommand}]
        /\ began' \in [Txns -> 0..MaxClock]
    <2>1. MoveTo(t, "checked") \/ EndTx(t)
      BY DEF Check
    <2> QED
      BY <2>1, MoveToTypes, EndTxTypes DEF Phases
  <1> QED
    BY <1>2, <1>3 DEF TypeOK, Check, tables

\* So do the writes: what they store was typed when it was read.
LEMMA WriteTypes ==
  ASSUME TypeOK, NEW t \in Txns, Write(t)
  PROVE  TypeOK'
  <1> DEFINE TxTypes ==
        /\ phase' \in [Txns -> Phases]
        /\ cmd' \in [Txns -> Command \cup {NoCommand}]
        /\ began' \in [Txns -> 0..MaxClock]
        /\ seen' \in [Txns -> [no : 0..MaxAttempt, assignee : Users \cup {None}]]
        /\ clock' = clock /\ members' = members
        /\ cmd[t] \in Command /\ began[t] \in 0..MaxClock
        /\ seen[t] \in [no : 0..MaxAttempt, assignee : Users \cup {None}]
  <1>0. ASSUME NEW ops, "none" \notin ops, Writes(t, ops)
        PROVE  TxTypes /\ cmd[t].op \in ops
    BY <1>0, WriterRuns, EndTxTypes DEF Writes
  <1> HIDE DEF TxTypes
  <1>1. CASE InsertExecution(t)
    <2>1. TxTypes /\ cmd[t].op = "start"
      BY <1>1, <1>0 DEF InsertExecution
    <2>2. cmd[t].scope \in Processes
      BY <2>1, CommandFields DEF TxTypes
    <2>3. [process |-> cmd[t].scope, no |-> seen[t].no, status |-> "active",
           startedAt |-> began[t], endedAt |-> 0, assignee |-> seen[t].assignee]
            \in ExecutionRow
      BY <2>1, <2>2, ScopeAssumption DEF TxTypes, ExecutionRow
    <2>4. execution' \in [ExecutionIds -> ExecutionRow]
      BY <1>1, <2>3 DEF InsertExecution, TypeOK
    <2> QED
      BY <1>1, <2>1, <2>4 DEF InsertExecution, TypeOK, TxTypes
  <1>2. CASE TransitionExecution(t)
    <2>1. TxTypes /\ cmd[t].op \in {"complete", "cancel"}
      BY <1>2, <1>0 DEF TransitionExecution
    <2>2. cmd[t].row \in ExecutionIds
      BY <2>1, CommandFields DEF TxTypes, AttemptOps
    <2>3. execution' \in [ExecutionIds -> ExecutionRow]
      <3> DEFINE end == IF cmd[t].op = "complete" THEN "completed" ELSE "cancelled"
                 e == cmd[t].row
      <3>1. \/ execution' = execution
            \/ execution' = [execution EXCEPT ![e] =
                              [execution[e] EXCEPT !.status = end, !.endedAt = began[t]]]
        BY <1>2 DEF TransitionExecution
      <3>2. end \in {"completed", "cancelled"}
        OBVIOUS
      <3>3. [execution[e] EXCEPT !.status = end, !.endedAt = began[t]] \in ExecutionRow
        BY <2>1, <2>2, <3>2, EndedRowTypes DEF TypeOK, TxTypes
      <3> HIDE DEF end
      <3> QED
        BY <2>2, <3>1, <3>3 DEF TypeOK
    <2>4. session' \in [SessionIds -> SessionRow]
      <3>1. ASSUME NEW s \in SessionIds
            PROVE  [session[s] EXCEPT !.endedAt = began[t]] \in SessionRow
        BY <2>1, EndedRowTypes DEF TypeOK, TxTypes
      <3>2. session' = session \/ session' = SessionsClosed(cmd[t].row, t)
        BY <1>2 DEF TransitionExecution
      <3> QED
        BY <3>1, <3>2 DEF SessionsClosed, TypeOK
    <2> QED
      BY <1>2, <2>1, <2>3, <2>4 DEF TransitionExecution, TypeOK, TxTypes
  <1>3. CASE InsertSession(t)
    <2>1. TxTypes /\ cmd[t].op = "start_session"
      BY <1>3, <1>0 DEF InsertSession
    <2>2. [execution |-> cmd[t].row, worker |-> cmd[t].actor,
           startedAt |-> began[t], endedAt |-> 0] \in SessionRow
      BY <2>1, CommandFields, ScopeAssumption DEF TxTypes, SessionRow, AttemptOps
    <2>3. session' \in [SessionIds -> SessionRow]
      BY <1>3, <2>2 DEF InsertSession, TypeOK
    <2> QED
      BY <1>3, <2>1, <2>3 DEF InsertSession, TypeOK, TxTypes
  <1>4. CASE CloseSession(t)
    <2>1. TxTypes
      BY <1>4, <1>0 DEF CloseSession
    <2>2. ASSUME NEW s \in SessionIds
          PROVE  [session[s] EXCEPT !.endedAt = began[t]] \in SessionRow
      BY <2>1, EndedRowTypes DEF TypeOK, TxTypes
    <2>3. \/ session' = session
          \/ session' = [session EXCEPT ![cmd[t].row] =
                          [session[cmd[t].row] EXCEPT !.endedAt = began[t]]]
      BY <1>4 DEF CloseSession
    <2>4. session' \in [SessionIds -> SessionRow]
      BY <2>2, <2>3 DEF TypeOK
    <2> QED
      BY <1>4, <2>1, <2>4 DEF CloseSession, TypeOK, TxTypes
  <1>5. CASE AssignProcess(t)
    <2>1. TxTypes /\ cmd[t].op = "assign"
      BY <1>5, <1>0 DEF AssignProcess
    <2>2. assignee' \in [Processes -> Users \cup {None}]
      BY <1>5, <2>1, CommandFields DEF AssignProcess, TypeOK, TxTypes
    <2> QED
      BY <1>5, <2>1, <2>2 DEF AssignProcess, TypeOK, TxTypes
  <1>6. CASE UpdateStatus(t)
    <2>1. TxTypes /\ cmd[t].op = "set_status"
      BY <1>6, <1>0 DEF UpdateStatus
    <2>2. status' \in [Nodes -> Statuses]
      BY <1>6, <2>1, CommandFields DEF UpdateStatus, TypeOK, TxTypes
    <2> QED
      BY <1>6, <2>1, <2>2 DEF UpdateStatus, TypeOK, TxTypes
  <1> QED
    BY <1>1, <1>2, <1>3, <1>4, <1>5, <1>6 DEF Write

\* So do the clock and the administration of members.
LEMMA EnvironmentTypes ==
  ASSUME TypeOK, Environment
  PROVE  TypeOK'
  BY ScopeAssumption DEF TypeOK, Environment, Tick, Revoke, Restore

\* What a start reads has its type because the lock holder runs a command, so
\* type correctness needs the claims.
LEMMA StepTypes ==
  ASSUME TypeOK, \A t \in Txns : Claims(t), [Next]_vars
  PROVE  TypeOK'
  <1>1. CASE UNCHANGED vars
    BY <1>1 DEF TypeOK, vars, scopeVars
  <1>2. CASE Next
    BY <1>2, QuietTypes, CheckTypes, WriteTypes, EnvironmentTypes DEF Next
  <1> QED
    BY <1>1, <1>2

-----------------------------------------------------------------------------
(* What a step leaves alone. *)

\* Stored rows stay where they are.
KeepRows ==
  /\ \A e \in ExecutionIds : execution[e].status # "absent" =>
       execution'[e].status # "absent" /\ execution'[e].process = execution[e].process
  /\ \A s \in SessionIds : session[s].execution # None =>
       session'[s].execution = session[s].execution

InProject(n, t) == n \in Nodes /\ ProjectAbove(n) = ProjectAbove(cmd[t].scope)

\* The rows of the project whose lock transaction t holds.
Untouched(t) ==
  /\ \A n \in Nodes : InProject(n, t) => status'[n] = status[n]
  /\ \A p \in Processes : InProject(p, t) =>
       /\ AttemptsOf(p)' = AttemptsOf(p)
       /\ \A e \in AttemptsOf(p) : execution'[e] = execution[e]
       /\ assignee'[p] = assignee[p]
  /\ \A s \in SessionIds :
       session[s].execution # None /\ InProject(execution[session[s].execution].process, t)
         => session'[s] = session[s]

\* A step that writes no table touches nobody's project.
LEMMA QuietIsUntouched ==
  ASSUME UNCHANGED tables, NEW t \in Txns
  PROVE  KeepRows /\ Untouched(t)
  BY DEF tables, KeepRows, Untouched, AttemptsOf

\* The processes of the project t holds the lock of.
LEMMA ScopeIsInProject ==
  ASSUME NEW t \in Txns, cmd[t] \in Command
  PROVE  /\ InProject(cmd[t].scope, t)
         /\ \A p \in ProcessesUnder(cmd[t].scope) : p \in Processes /\ InProject(p, t)
  <1>1. cmd[t].scope \in Nodes
    BY CommandFields
  <1>2. \A p \in ProcessesUnder(cmd[t].scope) : p \in Processes
    BY DEF ProcessesUnder
  <1> QED
    BY <1>1, <1>2, UnderIsInProject DEF InProject, Nodes

\* A chain is open or closed by rows of its project.
LEMMA OpenIsLocal ==
  ASSUME NEW t \in Txns, Untouched(t), NEW n \in Nodes, InProject(n, t)
  PROVE  /\ NodeOpen(n)' <=> NodeOpen(n)
         /\ n \in Processes => (ProcessOpen(n)' <=> ProcessOpen(n))
  <1>1. ASSUME NEW s \in Sections, InProject(s, t)
        PROVE  SectionOpen(s)' <=> SectionOpen(s)
    <2>1. InProject(ProjectOf[s], t)
      BY <1>1, ChainTypes, ScopeAssumption DEF InProject, Nodes
    <2> QED
      BY <1>1, <2>1 DEF Untouched, SectionOpen, InProject
  <1>2. ASSUME NEW i \in Items, InProject(i, t)
        PROVE  ItemOpen(i)' <=> ItemOpen(i)
    <2>1. SectionOf[i] \in Sections /\ InProject(SectionOf[i], t)
      BY <1>2, ChainTypes DEF InProject, Nodes
    <2> QED
      BY <1>1, <1>2, <2>1 DEF Untouched, ItemOpen, InProject
  <1>3. ASSUME NEW p \in Processes, InProject(p, t)
        PROVE  ProcessOpen(p)' <=> ProcessOpen(p)
    <2>1. ItemOf[p] \in Items /\ InProject(ItemOf[p], t)
      BY <1>3, ChainTypes DEF InProject, Nodes
    <2> QED
      BY <1>2, <1>3, <2>1 DEF Untouched, ProcessOpen, InProject
  <1> QED
    BY <1>2, <1>3 DEF NodeOpen

-----------------------------------------------------------------------------
(* Rely: a transaction's claims survive steps that leave its project alone. *)

\* What a transaction reads in its project stays the same while the project
\* is untouched.
LEMMA ReadsKept ==
  ASSUME TypeOK, RowsLinked, NEW t \in Txns, cmd[t] \in Command, RowInScope(cmd[t]),
         KeepRows, Untouched(t),
         Shared(t) \subseteq members' \cup {None},
         phase[t] = "checked", cmd'[t] = cmd[t], seen'[t] = seen[t], StillTrue(t)
  PROVE  StillTrue(t)'
  <1> DEFINE c == cmd[t]
  <1> USE CommandFields
  <1>1. ASSUME NEW p \in Processes, InProject(p, t)
        PROVE  /\ ActiveOn(p)' = ActiveOn(p)
               /\ AttemptsOf(p)' = AttemptsOf(p)
               /\ \A e \in AttemptsOf(p) : execution'[e] = execution[e]
               /\ assignee'[p] = assignee[p]
    BY <1>1 DEF Untouched, ActiveOn
  <1>2. c.scope \in Processes => InProject(c.scope, t)
    BY ScopeIsInProject
  <1>3. CASE c.op \in AttemptOps
    <2>1. c.row \in AttemptsOf(c.scope) /\ c.scope \in Processes
      BY <1>3 DEF RowInScope, AttemptsOf, AttemptOps
    <2>2. execution'[c.row] = execution[c.row]
      BY <1>1, <1>2, <2>1
    <2> QED
      BY <1>3, <2>2 DEF StillTrue, Passes, AttemptOps
  <1>4. CASE c.op = "start"
    <2>1. c.scope \in Processes
      BY <1>4
    <2>2. ActiveOn(c.scope)' = ActiveOn(c.scope) /\ assignee'[c.scope] = assignee[c.scope]
      BY <1>1, <1>2, <2>1
    <2>3. \A n : IsNextAttempt(n, c.scope)' <=> IsNextAttempt(n, c.scope)
      BY <1>1, <1>2, <2>1 DEF IsNextAttempt
    <2>4. AttemptIsUnique(c.scope, seen[t].no)' <=> AttemptIsUnique(c.scope, seen[t].no)
      BY <1>1, <1>2, <2>1 DEF AttemptIsUnique
    <2>5. Reads(c)' = Reads(c)
      BY <1>4, <2>2, <2>3 DEF Reads
    <2> QED
      BY <1>4, <2>2, <2>4, <2>5 DEF StillTrue, Passes, AttemptOps
  <1>5. CASE c.op = "stop_session"
    <2>1. PICK e \in ExecutionIds : session[c.row].execution = e /\ execution[e].process = c.scope
      BY <1>5 DEF RowInScope
    <2>2. session'[c.row] = session[c.row]
      BY <1>2, <1>5, <2>1, ExecutionAssumption DEF Untouched
    <2> QED
      BY <1>5, <2>2 DEF StillTrue, Passes, CanStop, IsOpen, AttemptOps
  <1>6. CASE c.op = "assign"
    <2>1. c.arg \in Shared(t)
      BY <1>6 DEF Shared, Holds, SharesAuthority
    <2> QED
      BY <1>6, <2>1 DEF StillTrue, Passes, AttemptOps
  <1>7. CASE c.op = "set_status"
    <2>1. c.scope \in Nodes /\ status'[c.scope] = status[c.scope]
      BY <1>7, ScopeIsInProject DEF Untouched
    <2>2. \A p \in ProcessesUnder(c.scope) : ActiveOn(p)' = ActiveOn(p)
      BY <1>1, ScopeIsInProject
    <2>3. ActiveUnder(c.scope)' = ActiveUnder(c.scope)
      BY <2>2 DEF ActiveUnder
    <2> QED
      BY <1>7, <2>1, <2>3 DEF StillTrue, Passes, CanSetStatus, CanBecome, AttemptOps
  <1> QED
    BY <1>3, <1>4, <1>5, <1>6, <1>7

\* RowInScope survives because stored rows stay where they are.
LEMMA ResolvedKept ==
  ASSUME RowsLinked, KeepRows, NEW c \in Command, RowInScope(c)
  PROVE  RowInScope(c)'
  <1>1. None \notin Processes /\ None \notin ExecutionIds
    BY ScopeAssumption, ExecutionAssumption DEF Nodes
  <1>2. ASSUME c.op \in AttemptOps PROVE execution'[c.row].process = c.scope
    BY <1>1, <1>2, CommandFields DEF RowsLinked, KeepRows, RowInScope, AttemptOps
  <1>3. ASSUME c.op = "stop_session"
        PROVE  \E e \in ExecutionIds : session'[c.row].execution = e /\ execution'[e].process = c.scope
    BY <1>1, <1>3, CommandFields DEF RowsLinked, KeepRows, RowInScope
  <1> QED
    BY <1>2, <1>3 DEF RowInScope

\* All its claims survive such a step, if the members it shares stay.
LEMMA ClaimsKept ==
  ASSUME TypeOK, RowsLinked, NEW t \in Txns, Claims(t), KeepRows,
         Holds(t) => Untouched(t) /\ Shared(t) \subseteq members' \cup {None},
         phase'[t] = phase[t], cmd'[t] = cmd[t], began'[t] = began[t], seen'[t] = seen[t]
  PROVE  Claims(t)'
  <1>1. phase'[t] # "idle" => /\ cmd'[t] \in Command /\ RowInScope(cmd[t])'
                               /\ began'[t] \in 1..MaxClock
    BY ResolvedKept DEF Claims
  <1>2. Holds(t)' => NodeOpen(cmd[t].scope)'
    BY OpenIsLocal, ScopeIsInProject, CommandFields DEF Claims, Holds
  <1>3. Shared(t)' \subseteq members' \cup {None}
    BY DEF Shared, Holds, SharesAuthority
  <1>4. phase'[t] = "checked" => StillTrue(t)'
    BY ReadsKept DEF Claims, Holds
  <1> QED
    BY <1>1, <1>2, <1>3, <1>4 DEF Claims, RowInScope, NodeOpen

\* An idle transaction claims nothing.
LEMMA IdleClaims ==
  ASSUME NEW t \in Txns, phase'[t] = "idle"
  PROVE  Claims(t)'
  BY DEF Claims, Holds, Shared

-----------------------------------------------------------------------------
(* Guarantee: what each write changes. *)

\* The insert of an attempt: one new row in the writer's process, or nothing.
LEMMA InsertExecutionEffect ==
  ASSUME TypeOK, NEW t \in Txns, Claims(t), InsertExecution(t)
  PROVE  LET p == cmd[t].scope IN
         /\ cmd[t] \in Command /\ p \in Processes /\ ProcessOpen(p)
         /\ UNCHANGED <<status, session, assignee>>
         /\ \/ execution' = execution
            \/ \E e \in ExecutionIds :
                 /\ ActiveOn(p) = {} /\ execution[e].status = "absent"
                 /\ execution'[e].status = "active" /\ execution'[e].process = p
                 /\ \A f \in ExecutionIds : f # e => execution'[f] = execution[f]
  <1>1. cmd[t] \in Command /\ cmd[t].op = "start"
    BY WriterRuns DEF InsertExecution
  <1>2. cmd[t].scope \in Processes
    BY <1>1, CommandFields
  <1>3. ProcessOpen(cmd[t].scope)
    BY <1>2 DEF InsertExecution, Writes, Claims, Holds, NodeOpen
  <1> QED
    BY <1>1, <1>2, <1>3 DEF InsertExecution, AttemptIsUnique, TypeOK

\* The end of an attempt: its row and the sessions open on it, or nothing.
LEMMA TransitionExecutionEffect ==
  ASSUME TypeOK, NEW t \in Txns, Claims(t), TransitionExecution(t)
  PROVE  LET e == cmd[t].row IN
         /\ cmd[t] \in Command /\ e \in ExecutionIds
         /\ cmd[t].scope \in Processes /\ execution[e].process = cmd[t].scope
         /\ UNCHANGED <<status, assignee>>
         /\ \/ UNCHANGED <<execution, session>>
            \/ /\ execution[e].status = "active"
               /\ execution'[e].status \in {"completed", "cancelled"}
               /\ execution'[e].process = execution[e].process
               /\ \A f \in ExecutionIds : f # e => execution'[f] = execution[f]
               /\ session' = SessionsClosed(e, t)
  <1>1. /\ cmd[t] \in Command /\ cmd[t].op \in {"complete", "cancel"}
        /\ began[t] \in 0..MaxClock
    BY WriterRuns DEF TransitionExecution
  <1>2. /\ cmd[t].row \in ExecutionIds /\ cmd[t].scope \in Processes
        /\ execution[cmd[t].row].process = cmd[t].scope
    BY <1>1, CommandFields DEF AttemptOps, Claims, RowInScope, TransitionExecution, Writes
  <1> DEFINE e == cmd[t].row
             end == IF cmd[t].op = "complete" THEN "completed" ELSE "cancelled"
  <1>3. \/ UNCHANGED <<execution, session>>
        \/ /\ execution[e].status = "active"
           /\ execution' = [execution EXCEPT ![e] =
                              [execution[e] EXCEPT !.status = end, !.endedAt = began[t]]]
           /\ session' = SessionsClosed(e, t)
    BY DEF TransitionExecution
  <1>4. [execution[e] EXCEPT !.status = end, !.endedAt = began[t]].status = end
        /\ [execution[e] EXCEPT !.status = end, !.endedAt = began[t]].process = execution[e].process
    BY <1>2 DEF TypeOK, ExecutionRow
  <1>5. end \in {"completed", "cancelled"}
    OBVIOUS
  <1> HIDE DEF end
  <1> QED
    BY <1>1, <1>2, <1>3, <1>4, <1>5 DEF TransitionExecution, TypeOK

\* The insert of a session: one new row of the actor, or nothing.
LEMMA InsertSessionEffect ==
  ASSUME TypeOK, NEW t \in Txns, Claims(t), InsertSession(t)
  PROVE  LET c == cmd[t] IN
         /\ c \in Command /\ c.row \in ExecutionIds /\ c.actor \in Users
         /\ c.scope \in Processes /\ execution[c.row].process = c.scope
         /\ execution[c.row].status = "active"
         /\ UNCHANGED <<status, execution, assignee>>
         /\ \/ session' = session
            \/ \E s \in SessionIds :
                 /\ OpenOf(c.actor) = {} /\ session[s].execution = None
                 /\ session'[s].execution = c.row /\ session'[s].worker = c.actor
                 /\ \A r \in SessionIds : r # s => session'[r] = session[r]
  <1>1. cmd[t] \in Command /\ cmd[t].op = "start_session"
    BY WriterRuns DEF InsertSession
  <1>2. /\ cmd[t].row \in ExecutionIds /\ cmd[t].actor \in Users
        /\ cmd[t].scope \in Processes /\ execution[cmd[t].row].process = cmd[t].scope
    BY <1>1, CommandFields DEF AttemptOps, Claims, RowInScope, InsertSession, Writes
  <1>3. execution[cmd[t].row].status = "active"
    BY <1>1 DEF Claims, InsertSession, Writes, StillTrue
  <1> QED
    BY <1>1, <1>2, <1>3 DEF InsertSession, SessionIsUnique, TypeOK

\* The stop of a session: its end is set, or nothing.
LEMMA CloseSessionEffect ==
  ASSUME TypeOK, NEW t \in Txns, Claims(t), CloseSession(t)
  PROVE  LET s == cmd[t].row IN
         /\ cmd[t] \in Command /\ s \in SessionIds /\ cmd[t].scope \in Processes
         /\ session[s].execution \in ExecutionIds
         /\ execution[session[s].execution].process = cmd[t].scope
         /\ UNCHANGED <<status, execution, assignee>>
         /\ session'[s].execution = session[s].execution
         /\ session'[s].worker = session[s].worker
         /\ IsOpen(s) \/ session' = session
         /\ \A r \in SessionIds : r # s => session'[r] = session[r]
  <1>1. cmd[t] \in Command /\ cmd[t].op = "stop_session" /\ began[t] \in 0..MaxClock
    BY WriterRuns DEF CloseSession
  <1>2. cmd[t].row \in SessionIds /\ cmd[t].scope \in Processes
    BY <1>1, CommandFields
  <1>3. /\ session[cmd[t].row].execution \in ExecutionIds
        /\ execution[session[cmd[t].row].execution].process = cmd[t].scope
    BY <1>1 DEF Claims, RowInScope, CloseSession, Writes
  <1> DEFINE s == cmd[t].row
  <1>4. \/ session' = session
        \/ /\ IsOpen(s)
           /\ session' = [session EXCEPT ![s] = [session[s] EXCEPT !.endedAt = began[t]]]
    BY DEF CloseSession
  <1>5. /\ [session[s] EXCEPT !.endedAt = began[t]].execution = session[s].execution
        /\ [session[s] EXCEPT !.endedAt = began[t]].worker = session[s].worker
    BY <1>2 DEF TypeOK, SessionRow
  <1> QED
    BY <1>1, <1>2, <1>3, <1>4, <1>5 DEF CloseSession, TypeOK

\* Closing the sessions of an attempt changes neither their attempt nor their
\* worker, and opens none.
LEMMA SessionsClosedEffect ==
  ASSUME TypeOK, NEW t \in Txns, NEW e \in ExecutionIds, session' = SessionsClosed(e, t)
  PROVE  \A s \in SessionIds :
           /\ session'[s].execution = session[s].execution
           /\ session'[s].worker = session[s].worker
           /\ IsOpen(s)' => IsOpen(s)
           /\ session[s].execution # e => session'[s] = session[s]
           /\ ~IsOpen(s) => session'[s] = session[s]
  BY DEF SessionsClosed, OpenOn, IsOpen, TypeOK, SessionRow

-----------------------------------------------------------------------------
(* A write respects the claims of the other lock holders. *)

\* A write ends the writer's transaction and no other.
LEMMA WriterEnds ==
  ASSUME TypeOK, NEW t \in Txns, Write(t)
  PROVE  /\ phase[t] = "checked" /\ phase'[t] = "idle" /\ members' = members
         /\ \A u \in Txns : u # t =>
              /\ phase'[u] = phase[u] /\ cmd'[u] = cmd[u]
              /\ began'[u] = began[u] /\ seen'[u] = seen[u]
  BY DEF Write, InsertExecution, TransitionExecution, InsertSession, CloseSession,
         AssignProcess, UpdateStatus, Writes, EndTx, TypeOK

\* A status change writes one row's status.
LEMMA UpdateStatusEffect ==
  ASSUME TypeOK, NEW t \in Txns, Claims(t), UpdateStatus(t)
  PROVE  LET c == cmd[t] IN
         /\ c \in Command /\ CanSetStatus(c.scope, c.arg)
         /\ status' = [status EXCEPT ![c.scope] = c.arg]
         /\ UNCHANGED <<execution, session, assignee>>
  <1>1. cmd[t] \in Command /\ cmd[t].op = "set_status"
    BY WriterRuns DEF UpdateStatus
  <1> QED
    BY <1>1 DEF UpdateStatus, Writes, Claims, StillTrue, Passes

\* An assignment writes one process's assignee.
LEMMA AssignProcessEffect ==
  ASSUME TypeOK, NEW t \in Txns, AssignProcess(t)
  PROVE  LET c == cmd[t] IN
         /\ c \in Command /\ c.scope \in Processes
         /\ assignee' = [assignee EXCEPT ![c.scope] = c.arg]
         /\ UNCHANGED <<status, execution, session>>
  <1>1. cmd[t] \in Command /\ cmd[t].op = "assign"
    BY WriterRuns DEF AssignProcess
  <1> QED
    BY <1>1, CommandFields DEF AssignProcess

\* A write keeps the identity of the rows that exist.
LEMMA WriteKeepsRows ==
  ASSUME TypeOK, RowsLinked, NEW t \in Txns, Claims(t), Write(t)
  PROVE  KeepRows
  <1> USE DEF KeepRows
  <1>1. CASE InsertExecution(t)
    BY <1>1, InsertExecutionEffect
  <1>2. CASE TransitionExecution(t)
    BY <1>2, TransitionExecutionEffect, SessionsClosedEffect
  <1>3. CASE InsertSession(t)
    BY <1>3, InsertSessionEffect
  <1>4. CASE CloseSession(t)
    BY <1>4, CloseSessionEffect
  <1>5. CASE AssignProcess(t)
    BY <1>5, AssignProcessEffect
  <1>6. CASE UpdateStatus(t)
    BY <1>6, UpdateStatusEffect
  <1> QED
    BY <1>1, <1>2, <1>3, <1>4, <1>5, <1>6 DEF Write

\* The heart of the argument: two lock holders are in different projects, so
\* what one writes is nowhere the other looks.
LEMMA WriteIsElsewhere ==
  ASSUME TypeOK, RowsLinked, ProjectLockIsExclusive,
         NEW t \in Txns, Claims(t), Write(t),
         NEW u \in Txns, u # t, Holds(u)
  PROVE  Untouched(u)
  <1>1. Holds(t)
    BY WriterEnds DEF Holds
  <1>2. ~InProject(cmd[t].scope, u)
    BY <1>1 DEF ProjectLockIsExclusive, InProject
  <1>3. None \notin Processes /\ None \notin ExecutionIds
    BY ScopeAssumption, ExecutionAssumption DEF Nodes
  <1>4. CASE InsertExecution(t)
    BY <1>2, <1>3, <1>4, InsertExecutionEffect DEF Untouched, AttemptsOf, RowsLinked
  <1>5. CASE TransitionExecution(t)
    <2>1. \A s \in SessionIds :
            session[s].execution # None /\ InProject(execution[session[s].execution].process, u)
              => session'[s] = session[s]
      BY <1>2, <1>5, TransitionExecutionEffect, SessionsClosedEffect
    <2>2. \A p \in Processes : InProject(p, u) =>
            /\ AttemptsOf(p)' = AttemptsOf(p)
            /\ \A e \in AttemptsOf(p) : execution'[e] = execution[e]
      BY <1>2, <1>5, TransitionExecutionEffect DEF AttemptsOf
    <2> QED
      BY <1>5, <2>1, <2>2, TransitionExecutionEffect DEF Untouched
  <1>6. CASE InsertSession(t)
    BY <1>6, InsertSessionEffect DEF Untouched, AttemptsOf
  <1>7. CASE CloseSession(t)
    BY <1>2, <1>7, CloseSessionEffect DEF Untouched, AttemptsOf
  <1>8. CASE AssignProcess(t)
    BY <1>2, <1>8, AssignProcessEffect DEF Untouched, AttemptsOf, TypeOK
  <1>9. CASE UpdateStatus(t)
    BY <1>2, <1>9, UpdateStatusEffect DEF Untouched, AttemptsOf, TypeOK
  <1> QED
    BY <1>4, <1>5, <1>6, <1>7, <1>8, <1>9 DEF Write

\* The claims of the other transactions survive a write.
LEMMA WriteKeepsClaims ==
  ASSUME IInv, NEW t \in Txns, Write(t)
  PROVE  \A u \in Txns : Claims(u)'
  <1>1. Claims(t)'
    BY WriterEnds, IdleClaims DEF IInv
  <1>2. ASSUME NEW u \in Txns, u # t PROVE Claims(u)'
    <2>1. KeepRows
      BY WriteKeepsRows DEF IInv, TablesOK
    <2>2. Holds(u) => Untouched(u)
      BY <1>2, WriteIsElsewhere DEF IInv, TablesOK
    <2> QED
      BY <1>2, <2>1, <2>2, WriterEnds, ClaimsKept DEF IInv, TablesOK, Claims
  <1> QED
    BY <1>1, <1>2

-----------------------------------------------------------------------------
(* Each write keeps the tables consistent. *)

\* A chain of open rows stays open when a row is archived that no active
\* attempt lies under, and when a row is not archived at all.
LEMMA UpdateStatusKeepsOpen ==
  ASSUME TypeOK, NEW t \in Txns, Claims(t), UpdateStatus(t),
         NEW p \in Processes, ActiveOn(p) # {}, ProcessOpen(p)
  PROVE  ProcessOpen(p)'
  <1> DEFINE n == cmd[t].scope
             to == cmd[t].arg
  <1>1. /\ n \in Nodes /\ CanBecome(n, to)
        /\ to = "archived" /\ status[n] # "archived" => ActiveUnder(n) = {}
        /\ status' = [status EXCEPT ![n] = to]
        /\ to \in Statuses
    <2>1. cmd[t].op = "set_status"
      BY WriterRuns DEF UpdateStatus
    <2> QED
      BY <2>1, UpdateStatusEffect, CommandFields DEF CanSetStatus
  <1> HIDE DEF n, to
  <1>2. n \in {p, ItemOf[p], SectionAbove(p), ProjectAbove(p)} => p \in ProcessesUnder(n)
    BY ChainTypes, ScopeAssumption, ExecutionAssumption DEF ProcessesUnder
  <1>3. n \in {p, ItemOf[p], SectionAbove(p), ProjectAbove(p)}
          => to # "archived" \/ status[n] = "archived"
    BY <1>1, <1>2 DEF ActiveUnder
  <1>4. \A m \in Nodes : status'[m] = IF m = n THEN to ELSE status[m]
    BY <1>1 DEF TypeOK
  <1>5. /\ p \in Nodes /\ ItemOf[p] \in Items /\ SectionAbove(p) \in Sections
        /\ SectionAbove(p) = SectionOf[ItemOf[p]]
        /\ ProjectAbove(p) = ProjectOf[SectionAbove(p)] /\ ProjectAbove(p) \in Projects
    BY ChainTypes DEF Nodes
  <1>6. /\ status[p] = "active" /\ status[ItemOf[p]] # "archived"
        /\ status[SectionAbove(p)] = "active" /\ status[ProjectAbove(p)] # "archived"
    BY <1>5 DEF ProcessOpen, ItemOpen, SectionOpen
  <1>7. /\ status'[p] = "active" /\ status'[ItemOf[p]] # "archived"
        /\ status'[SectionAbove(p)] = "active" /\ status'[ProjectAbove(p)] # "archived"
    BY <1>1, <1>3, <1>4, <1>5, <1>6 DEF CanBecome, Statuses, Nodes
  <1> QED
    BY <1>5, <1>7 DEF ProcessOpen, ItemOpen, SectionOpen

\* Inserting an attempt keeps the tables consistent.
LEMMA InsertExecutionKeepsTables ==
  ASSUME IInv, NEW t \in Txns, InsertExecution(t)
  PROVE  TablesOK'
  <1> DEFINE p == cmd[t].scope
  <1>0. /\ p \in Processes /\ ProcessOpen(p) /\ UNCHANGED <<status, session, assignee>>
        /\ None \notin Processes /\ None \notin ExecutionIds
    BY InsertExecutionEffect, ScopeAssumption, ExecutionAssumption DEF IInv, Nodes
  <1>1. CASE execution' = execution
    BY <1>0, <1>1 DEF IInv, TablesOK, RowsLinked, OneActiveAttempt, OneOpenSessionPerWorker,
       OpenWorkIsOnActiveAttempt, ActiveWorkIsReachable, OpenOf, IsOpen,
       ProcessOpen, ItemOpen, SectionOpen
  <1>2. ASSUME NEW e \in ExecutionIds,
               ActiveOn(p) = {}, execution[e].status = "absent",
               execution'[e].status = "active", execution'[e].process = p,
               \A f \in ExecutionIds : f # e => execution'[f] = execution[f]
        PROVE  TablesOK'
    <2>1. RowsLinked'
      <3>1. ASSUME NEW f \in ExecutionIds
            PROVE  execution'[f].status = "absent" <=> execution'[f].process = None
        <4>1. execution[f].status = "absent" <=> execution[f].process = None
          BY DEF RowsLinked, IInv, TablesOK
        <4> QED
          BY <1>0, <1>2, <4>1
      <3>2. ASSUME NEW s \in SessionIds, session'[s].execution # None
            PROVE  execution'[session'[s].execution].status # "absent"
        <4>1. session'[s].execution = session[s].execution
          BY <1>0
        <4>2. /\ session[s].execution \in ExecutionIds
              /\ execution[session[s].execution].status # "absent"
          BY <3>2, <4>1 DEF RowsLinked, IInv, TablesOK, TypeOK, SessionRow
        <4> QED
          BY <1>2, <4>1, <4>2
      <3> QED
        BY <3>1, <3>2 DEF RowsLinked
    <2>2. OneActiveAttempt'
      BY <1>0, <1>2 DEF OneActiveAttempt, IInv, TablesOK, ActiveOn, AttemptsOf
    <2>3. OneOpenSessionPerWorker'
      BY <1>0 DEF OneOpenSessionPerWorker, IInv, TablesOK, OpenOf, IsOpen
    <2>4. OpenWorkIsOnActiveAttempt'
      <3>1. ASSUME NEW s \in SessionIds, IsOpen(s)
            PROVE  execution'[session[s].execution].status = "active"
        <4>1. session[s].execution \in ExecutionIds
          BY <3>1 DEF IsOpen, IInv, TypeOK, SessionRow
        <4> QED
          BY <1>2, <3>1, <4>1 DEF OpenWorkIsOnActiveAttempt, IInv, TablesOK
      <3> QED
        BY <1>0, <3>1 DEF OpenWorkIsOnActiveAttempt, IsOpen
    <2>5. ActiveWorkIsReachable'
      BY <1>0, <1>2 DEF ActiveWorkIsReachable, IInv, TablesOK,
         ProcessOpen, ItemOpen, SectionOpen
    <2> QED
      BY <2>1, <2>2, <2>3, <2>4, <2>5 DEF TablesOK
  <1> QED
    BY <1>1, <1>2, InsertExecutionEffect DEF IInv

\* So does ending one, because its sessions are closed with it.
LEMMA TransitionExecutionKeepsTables ==
  ASSUME IInv, NEW t \in Txns, TransitionExecution(t)
  PROVE  TablesOK'
  <1> DEFINE e == cmd[t].row
  <1>0. UNCHANGED status /\ e \in ExecutionIds /\ None \notin ExecutionIds
    BY TransitionExecutionEffect, ExecutionAssumption DEF IInv
  <1>1. CASE UNCHANGED <<execution, session>>
    BY <1>0, <1>1 DEF IInv, TablesOK, RowsLinked, OneActiveAttempt, OneOpenSessionPerWorker,
       OpenWorkIsOnActiveAttempt, ActiveWorkIsReachable, OpenOf, IsOpen,
       ProcessOpen, ItemOpen, SectionOpen
  <1>2. ASSUME execution[e].status = "active",
               execution'[e].status \in {"completed", "cancelled"},
               execution'[e].process = execution[e].process,
               \A f \in ExecutionIds : f # e => execution'[f] = execution[f],
               session' = SessionsClosed(e, t)
        PROVE  TablesOK'
    <2>0. \A s \in SessionIds :
           /\ session'[s].execution = session[s].execution
           /\ session'[s].worker = session[s].worker
           /\ IsOpen(s)' => IsOpen(s)
      BY <1>0, <1>2, SessionsClosedEffect DEF IInv
    <2>1. RowsLinked'
      <3>1. ASSUME NEW f \in ExecutionIds
            PROVE  execution'[f].status = "absent" <=> execution'[f].process = None
        <4>1. execution[f].status = "absent" <=> execution[f].process = None
          BY DEF RowsLinked, IInv, TablesOK
        <4> QED
          BY <1>0, <1>2, <4>1
      <3>2. ASSUME NEW s \in SessionIds, session'[s].execution # None
            PROVE  execution'[session'[s].execution].status # "absent"
        <4>1. session'[s].execution = session[s].execution
          BY <1>0, <2>0
        <4>2. /\ session[s].execution \in ExecutionIds
              /\ execution[session[s].execution].status # "absent"
          BY <3>2, <4>1 DEF RowsLinked, IInv, TablesOK, TypeOK, SessionRow
        <4> QED
          BY <1>2, <4>1, <4>2
      <3> QED
        BY <3>1, <3>2 DEF RowsLinked
    <2>2. OneActiveAttempt'
      BY <1>0, <1>2 DEF OneActiveAttempt, IInv, TablesOK
    <2>3. OneOpenSessionPerWorker'
      BY <2>0 DEF OneOpenSessionPerWorker, IInv, TablesOK, OpenOf
    <2>4. OpenWorkIsOnActiveAttempt'
      <3>1. ASSUME NEW s \in SessionIds, IsOpen(s)'
            PROVE  execution'[session'[s].execution].status = "active"
        <4>1. IsOpen(s) /\ session[s].execution \in ExecutionIds
          BY <2>0, <3>1 DEF IsOpen, IInv, TypeOK, SessionRow
        <4>2. began[t] \in 1..MaxClock
          BY DEF TransitionExecution, Writes, IInv, Claims
        <4>3. session[s].execution # e
          BY <1>2, <3>1, <4>1, <4>2 DEF SessionsClosed, OpenOn, IsOpen, IInv, TypeOK, SessionRow
        <4> QED
          BY <1>2, <2>0, <4>1, <4>3 DEF OpenWorkIsOnActiveAttempt, IInv, TablesOK
      <3> QED
        BY <3>1 DEF OpenWorkIsOnActiveAttempt
    <2>5. ActiveWorkIsReachable'
      BY <1>0, <1>2 DEF ActiveWorkIsReachable, IInv, TablesOK,
         ProcessOpen, ItemOpen, SectionOpen
    <2> QED
      BY <2>1, <2>2, <2>3, <2>4, <2>5 DEF TablesOK
  <1> QED
    BY <1>1, <1>2, TransitionExecutionEffect DEF IInv

\* So does opening a session, on an attempt the claims show active.
LEMMA InsertSessionKeepsTables ==
  ASSUME IInv, NEW t \in Txns, InsertSession(t)
  PROVE  TablesOK'
  <1> DEFINE c == cmd[t]
  <1>0. /\ UNCHANGED <<status, execution>> /\ c.row \in ExecutionIds /\ c.actor \in Users
        /\ execution[c.row].status = "active" /\ None \notin ExecutionIds
    BY InsertSessionEffect, ExecutionAssumption DEF IInv
  <1>1. CASE session' = session
    BY <1>0, <1>1 DEF IInv, TablesOK, RowsLinked, OneActiveAttempt, OneOpenSessionPerWorker,
       OpenWorkIsOnActiveAttempt, ActiveWorkIsReachable, OpenOf, IsOpen,
       ProcessOpen, ItemOpen, SectionOpen
  <1>2. ASSUME NEW s \in SessionIds,
               OpenOf(c.actor) = {}, session[s].execution = None,
               session'[s].execution = c.row, session'[s].worker = c.actor,
               \A r \in SessionIds : r # s => session'[r] = session[r]
        PROVE  TablesOK'
    <2>1. RowsLinked'
      BY <1>0, <1>2 DEF RowsLinked, IInv, TablesOK
    <2>2. OneOpenSessionPerWorker'
      BY <1>0, <1>2 DEF OneOpenSessionPerWorker, IInv, TablesOK, OpenOf, IsOpen
    <2>3. OpenWorkIsOnActiveAttempt'
      BY <1>0, <1>2 DEF OpenWorkIsOnActiveAttempt, IInv, TablesOK, IsOpen
    <2> QED
      BY <1>0, <2>1, <2>2, <2>3 DEF TablesOK, IInv, OneActiveAttempt, ActiveWorkIsReachable,
         ProcessOpen, ItemOpen, SectionOpen
  <1> QED
    BY <1>1, <1>2, InsertSessionEffect DEF IInv

\* So does closing one.
LEMMA CloseSessionKeepsTables ==
  ASSUME IInv, NEW t \in Txns, CloseSession(t)
  PROVE  TablesOK'
  <1> DEFINE c == cmd[t]
  <1>0. /\ UNCHANGED <<status, execution>> /\ c.row \in SessionIds
        /\ session'[c.row].execution = session[c.row].execution
        /\ session'[c.row].worker = session[c.row].worker
        /\ IsOpen(c.row) \/ session' = session
        /\ \A r \in SessionIds : r # c.row => session'[r] = session[r]
    BY CloseSessionEffect DEF IInv
  <1>1. \A s \in SessionIds : /\ session'[s].execution = session[s].execution
                              /\ session'[s].worker = session[s].worker
                              /\ IsOpen(s)' => IsOpen(s)
    BY <1>0 DEF IsOpen
  <1>2. OneOpenSessionPerWorker' /\ OpenWorkIsOnActiveAttempt'
    BY <1>0, <1>1 DEF OneOpenSessionPerWorker, OpenWorkIsOnActiveAttempt, IInv, TablesOK, OpenOf
  <1> QED
    BY <1>0, <1>1, <1>2 DEF TablesOK, IInv, RowsLinked, OneActiveAttempt,
       ActiveWorkIsReachable, ProcessOpen, ItemOpen, SectionOpen

\* So does a status change, because nothing below an archived row is active.
LEMMA UpdateStatusKeepsTables ==
  ASSUME IInv, NEW t \in Txns, UpdateStatus(t)
  PROVE  TablesOK'
  <1>1. UNCHANGED <<execution, session>>
    BY UpdateStatusEffect DEF IInv
  <1>2. ActiveWorkIsReachable'
    <2>1. ASSUME NEW e \in ExecutionIds, execution[e].status = "active"
          PROVE  ProcessOpen(execution[e].process)'
      <3> DEFINE p == execution[e].process
      <3>1. p \in Processes /\ e \in ActiveOn(p)
        BY <2>1 DEF IInv, TablesOK, RowsLinked, TypeOK, ExecutionRow, ActiveOn, AttemptsOf
      <3>2. ProcessOpen(p)
        BY <2>1 DEF IInv, TablesOK, ActiveWorkIsReachable
      <3>3. \A q \in Processes : ActiveOn(q) # {} /\ ProcessOpen(q) => ProcessOpen(q)'
        BY UpdateStatusKeepsOpen DEF IInv
      <3> QED
        BY <1>1, <3>1, <3>2, <3>3 DEF ProcessOpen, ItemOpen, SectionOpen
    <2> QED
      BY <1>1, <2>1 DEF ActiveWorkIsReachable, ProcessOpen, ItemOpen, SectionOpen
  <1> QED
    BY <1>1, <1>2 DEF TablesOK, IInv, RowsLinked, OneActiveAttempt, OneOpenSessionPerWorker,
       OpenWorkIsOnActiveAttempt, OpenOf, IsOpen

\* Steps that write no table keep the tables as they are.
LEMMA QuietKeepsTables ==
  ASSUME IInv, UNCHANGED <<status, execution, session>>
  PROVE  TablesOK'
  BY DEF IInv, TablesOK, RowsLinked, OneActiveAttempt, OneOpenSessionPerWorker,
     OpenWorkIsOnActiveAttempt, ActiveWorkIsReachable, OpenOf, IsOpen,
     ProcessOpen, ItemOpen, SectionOpen

\* Hence every write keeps the tables consistent.
LEMMA WriteKeepsTables ==
  ASSUME IInv, NEW t \in Txns, Write(t)
  PROVE  TablesOK'
  <1>1. CASE AssignProcess(t)
    BY <1>1, AssignProcessEffect, QuietKeepsTables DEF IInv
  <1> QED
    BY <1>1, InsertExecutionKeepsTables, TransitionExecutionKeepsTables,
       InsertSessionKeepsTables, CloseSessionKeepsTables, UpdateStatusKeepsTables DEF Write

-----------------------------------------------------------------------------
(* The other steps. *)

\* While one transaction moves, the claims of the others stand.
LEMMA OthersKeepClaims ==
  ASSUME IInv, UNCHANGED <<members, tables>>, NEW u \in Txns,
         phase'[u] = phase[u], cmd'[u] = cmd[u], began'[u] = began[u], seen'[u] = seen[u]
  PROVE  Claims(u)'
  BY ClaimsKept, QuietIsUntouched DEF IInv, TablesOK, Claims

\* A transaction that begins claims only that its row is in scope.
LEMMA BeginClaims ==
  ASSUME IInv, NEW t \in Txns, NEW c \in Commands, Begin(t, c)
  PROVE  \A u \in Txns : Claims(u)'
  <1>1. Claims(t)'
    <2>1. phase'[t] = "begun" /\ cmd'[t] = c /\ began'[t] \in 1..MaxClock
      BY DEF Begin, BeginTx, IInv, TypeOK
    <2>2. c \in Command /\ RowInScope(c)'
      BY ExecutionAssumption DEF Begin, RowInScope, tables
    <2> QED
      BY <2>1, <2>2 DEF Claims, Holds, Shared, RowInScope
  <1>2. ASSUME NEW u \in Txns, u # t PROVE Claims(u)'
    BY <1>2, OthersKeepClaims DEF Begin, BeginTx, IInv, TypeOK
  <1> QED
    BY <1>1, <1>2

\* The lock brings the claim on the parent chain.
LEMMA LockClaims ==
  ASSUME IInv, NEW t \in Txns, Lock(t)
  PROVE  \A u \in Txns : Claims(u)'
  <1>1. Claims(t)'
    <2>1. CASE Admitted(cmd[t])
      <3>1. /\ phase'[t] = "locked" /\ cmd'[t] = cmd[t] /\ began'[t] = began[t]
            /\ UNCHANGED <<members, status, execution, session, assignee>>
        BY <2>1 DEF Lock, LockParent, MoveTo, IInv, TypeOK
      <3>2. cmd[t] \in Command /\ RowInScope(cmd[t]) /\ began[t] \in 1..MaxClock
        BY DEF Lock, LockParent, IInv, Claims
      <3>3. RowInScope(cmd[t])' /\ NodeOpen(cmd[t].scope)'
        BY <2>1, <3>1, <3>2 DEF Admitted, RowInScope, NodeOpen, ProcessOpen, ItemOpen, SectionOpen
      <3>4. Shared(t)' \subseteq members' \cup {None}
        <4>1. SharesAuthority(cmd[t]) => cmd[t].scope \notin Projects
          BY ScopeAssumption DEF SharesAuthority
        <4> QED
          BY <2>1, <3>1, <4>1 DEF Admitted, Shared, SharesAuthority
      <3> QED
        BY <3>1, <3>2, <3>3, <3>4 DEF Claims
    <2>2. CASE ~Admitted(cmd[t])
      BY <2>2, IdleClaims DEF Lock, LockParent, EndTx, IInv, TypeOK
    <2> QED
      BY <2>1, <2>2
  <1>2. ASSUME NEW u \in Txns, u # t PROVE Claims(u)'
    BY <1>2, OthersKeepClaims DEF Lock, LockParent, MoveTo, EndTx, IInv, TypeOK, tables
  <1> QED
    BY <1>1, <1>2

\* The checks bring the claim on the reads.
LEMMA CheckClaims ==
  ASSUME IInv, NEW t \in Txns, Check(t)
  PROVE  \A u \in Txns : Claims(u)'
  <1>1. Claims(t)'
    <2>1. CASE Passes(cmd[t]) /\ Reads(cmd[t]) # {}
      <3>1. PICK r \in Reads(cmd[t]) : seen' = [seen EXCEPT ![t] = r]
        BY <2>1 DEF Check
      <3>2. /\ phase'[t] = "checked" /\ cmd'[t] = cmd[t] /\ began'[t] = began[t]
            /\ seen'[t] = r /\ UNCHANGED <<members, status, execution, session, assignee>>
        BY <2>1, <3>1 DEF Check, MoveTo, IInv, TypeOK, tables
      <3>3. /\ cmd[t] \in Command /\ RowInScope(cmd[t]) /\ began[t] \in 1..MaxClock
            /\ NodeOpen(cmd[t].scope) /\ Shared(t) \subseteq members \cup {None}
            /\ phase[t] = "locked"
        BY DEF Check, IInv, Claims, Holds
      <3>4. RowInScope(cmd[t])' /\ NodeOpen(cmd[t].scope)'
        BY <3>2, <3>3 DEF RowInScope, NodeOpen, ProcessOpen, ItemOpen, SectionOpen
      <3>5. Shared(t)' \subseteq members' \cup {None}
        <4>1. cmd[t].op = "assign" => cmd[t].arg \in members \cup {None}
          BY <2>1 DEF Passes
        <4> QED
          BY <3>2, <3>3, <4>1 DEF Shared, Holds, SharesAuthority
      <3>6. StillTrue(t)'
        <4>1. cmd[t].op = "start" => AttemptIsUnique(cmd[t].scope, r.no)
          <5>1. ASSUME cmd[t].op = "start"
                PROVE  ActiveOn(cmd[t].scope) = {} /\ IsNextAttempt(r.no, cmd[t].scope)
                       /\ r.no \in Nat
            BY <2>1, <3>1, <5>1, ExecutionAssumption DEF Passes, Reads, AttemptNumbers
          <5>2. \A e \in ExecutionIds : execution[e].no \in Nat
            BY ExecutionAssumption DEF IInv, TypeOK, ExecutionRow
          <5> QED
            BY <5>1, <5>2 DEF AttemptIsUnique, IsNextAttempt, AttemptsOf
        <4>2. Passes(cmd[t])' /\ Reads(cmd[t])' = Reads(cmd[t])
          BY <2>1, <3>2 DEF Passes, ActiveOn, AttemptsOf, OpenOf, IsOpen, CanStop,
             CanSetStatus, CanBecome, ActiveUnder, Reads, IsNextAttempt
        <4>3. cmd[t].op = "start" => AttemptIsUnique(cmd[t].scope, seen[t].no)'
          BY <3>2, <4>1 DEF AttemptIsUnique, ActiveOn, AttemptsOf
        <4>4. cmd[t].op = "start_session" => execution[cmd[t].row].status = "active"
          BY <2>1 DEF Passes, AttemptOps
        <4> QED
          BY <3>2, <4>2, <4>3, <4>4 DEF StillTrue
      <3> QED
        BY <3>2, <3>3, <3>4, <3>5, <3>6 DEF Claims
    <2>2. CASE ~(Passes(cmd[t]) /\ Reads(cmd[t]) # {})
      BY <2>2, IdleClaims DEF Check, EndTx, IInv, TypeOK
    <2> QED
      BY <2>1, <2>2
  <1>2. ASSUME NEW u \in Txns, u # t PROVE Claims(u)'
    BY <1>2, OthersKeepClaims DEF Check, MoveTo, EndTx, IInv, TypeOK
  <1> QED
    BY <1>1, <1>2

\* A rollback gives up the claims and keeps everybody else's.
LEMMA AbortClaims ==
  ASSUME IInv, NEW t \in Txns, Abort(t)
  PROVE  \A u \in Txns : Claims(u)'
  <1>1. Claims(t)'
    BY IdleClaims DEF Abort, EndTx, IInv, TypeOK
  <1>2. ASSUME NEW u \in Txns, u # t PROVE Claims(u)'
    BY <1>2, OthersKeepClaims DEF Abort, EndTx, IInv, TypeOK
  <1> QED
    BY <1>1, <1>2

\* A revocation waits for every lock on the member's rows.
LEMMA EnvironmentClaims ==
  ASSUME IInv, Environment
  PROVE  \A u \in Txns : Claims(u)'
  <1>1. UNCHANGED tables /\ UNCHANGED <<phase, cmd, began, seen>>
    BY DEF Environment, Tick, Revoke, Restore, tables
  <1>2. ASSUME NEW u \in Txns PROVE Shared(u) \subseteq members' \cup {None}
    BY DEF Environment, Tick, Revoke, Restore, IInv, Claims
  <1> QED
    BY <1>1, <1>2, ClaimsKept, QuietIsUntouched DEF IInv, TablesOK

\* Only a transaction that finds the lock free takes it.
LEMMA ExclusionKept ==
  ASSUME IInv, [Next]_vars
  PROVE  ProjectLockIsExclusive'
  <1> DEFINE Same(t) == phase'[t] = phase[t] /\ cmd'[t] = cmd[t]
  <1>1. ASSUME NEW t \in Txns, Lock(t)
        PROVE  ProjectLockIsExclusive'
    <2>1. \A u \in Txns : u # t => Same(u)
      BY <1>1 DEF Lock, LockParent, MoveTo, EndTx, IInv, TypeOK
    <2>2. ~Holds(t)' \/ cmd'[t] = cmd[t]
      BY <1>1 DEF Lock, LockParent, MoveTo, EndTx, IInv, TypeOK, Holds
    <2>3. \A u \in Txns : Holds(u) => ProjectAbove(cmd[u].scope) # ProjectAbove(cmd[t].scope)
      BY <1>1 DEF Lock, LockParent, LockFree
    <2> QED
      BY <2>1, <2>2, <2>3 DEF ProjectLockIsExclusive, IInv, Holds
  <1>2. ASSUME \A u \in Txns : Holds(u)' => Holds(u) /\ cmd'[u] = cmd[u]
        PROVE  ProjectLockIsExclusive'
    BY <1>2 DEF ProjectLockIsExclusive, IInv
  <1>3. ASSUME NEW t \in Txns, NEW c \in Commands, Begin(t, c)
        PROVE  \A u \in Txns : Holds(u)' => Holds(u) /\ cmd'[u] = cmd[u]
    BY <1>3 DEF Begin, BeginTx, IInv, TypeOK, Holds
  <1>4. ASSUME NEW t \in Txns, Check(t)
        PROVE  \A u \in Txns : Holds(u)' => Holds(u) /\ cmd'[u] = cmd[u]
    BY <1>4 DEF Check, MoveTo, EndTx, IInv, TypeOK, Holds
  <1>5. ASSUME NEW t \in Txns, Write(t) \/ Abort(t)
        PROVE  \A u \in Txns : Holds(u)' => Holds(u) /\ cmd'[u] = cmd[u]
    BY <1>5, WriterEnds DEF Abort, EndTx, IInv, TypeOK, Holds
  <1>6. ASSUME Environment \/ UNCHANGED vars
        PROVE  \A u \in Txns : Holds(u)' => Holds(u) /\ cmd'[u] = cmd[u]
    BY <1>6 DEF Environment, Tick, Revoke, Restore, vars, scopeVars, Holds
  <1> QED
    BY <1>1, <1>2, <1>3, <1>4, <1>5, <1>6 DEF Next

-----------------------------------------------------------------------------
(* The theorems. *)

\* The invariant holds initially.
LEMMA InitIInv == Init => IInv
  <1> SUFFICES ASSUME Init PROVE IInv
    OBVIOUS
  <1>1. TypeOK
    BY InitTypes
  <1>2. TablesOK
    BY DEF Init, TablesOK, RowsLinked, OneActiveAttempt, OneOpenSessionPerWorker,
       OpenWorkIsOnActiveAttempt, ActiveWorkIsReachable, OpenOf, IsOpen,
       NoExecution, NoSession
  <1>3. ProjectLockIsExclusive /\ \A t \in Txns : Claims(t)
    BY DEF Init, ScopeInit, ProjectLockIsExclusive, Claims, Holds, Shared
  <1> QED
    BY <1>1, <1>2, <1>3 DEF IInv

\* Every step preserves the invariant.
LEMMA NextIInv == IInv /\ [Next]_vars => IInv'
  <1> SUFFICES ASSUME IInv, [Next]_vars PROVE IInv'
    OBVIOUS
  <1>1. TypeOK' /\ ProjectLockIsExclusive'
    BY StepTypes, ExclusionKept DEF IInv
  <1>2. TablesOK' /\ \A u \in Txns : Claims(u)'
    <2>1. ASSUME NEW t \in Txns, NEW c \in Commands, Begin(t, c)
          PROVE  TablesOK' /\ \A u \in Txns : Claims(u)'
      BY <2>1, BeginClaims, QuietKeepsTables DEF Begin, tables
    <2>2. ASSUME NEW t \in Txns, Lock(t)
          PROVE  TablesOK' /\ \A u \in Txns : Claims(u)'
      BY <2>2, LockClaims, QuietKeepsTables DEF Lock, LockParent
    <2>3. ASSUME NEW t \in Txns, Check(t)
          PROVE  TablesOK' /\ \A u \in Txns : Claims(u)'
      BY <2>3, CheckClaims, QuietKeepsTables DEF Check, tables
    <2>4. ASSUME NEW t \in Txns, Write(t)
          PROVE  TablesOK' /\ \A u \in Txns : Claims(u)'
      BY <2>4, WriteKeepsClaims, WriteKeepsTables
    <2>5. ASSUME NEW t \in Txns, Abort(t)
          PROVE  TablesOK' /\ \A u \in Txns : Claims(u)'
      BY <2>5, AbortClaims, QuietKeepsTables DEF Abort, tables
    <2>6. CASE Environment
      <3>1. UNCHANGED <<status, execution, session>>
        BY <2>6 DEF Environment, Tick, Revoke, Restore
      <3> QED
        BY <2>6, <3>1, EnvironmentClaims, QuietKeepsTables
    <2>7. CASE UNCHANGED vars
      <3>1. UNCHANGED <<members, tables>> /\ UNCHANGED <<phase, cmd, began, seen>>
        BY <2>7 DEF vars, scopeVars, tables
      <3> QED
        BY <3>1, OthersKeepClaims, QuietKeepsTables DEF tables
    <2> QED
      BY <2>1, <2>2, <2>3, <2>4, <2>5, <2>6, <2>7 DEF Next
  <1> QED
    BY <1>1, <1>2 DEF IInv

\* The inductive invariant: tables, lock and every transaction's claims.
THEOREM Invariance == Spec => []IInv
  BY InitIInv, NextIInv, PTL DEF Spec

\* Every variable keeps its type; the claims are needed for what a start reads.
THEOREM TypeCorrectness == Spec => []TypeOK
  BY Invariance, PTL DEF IInv

\* The row lock on the project serialises the writes of every level below it.
THEOREM LockExclusion == Spec => []ProjectLockIsExclusive
  BY Invariance, PTL DEF IInv

\* However starts race, a process never has two active attempts.
THEOREM AtMostOneActiveAttempt == Spec => []OneActiveAttempt
  BY Invariance, PTL DEF IInv, TablesOK

\* However a start of work races with the end of its attempt, an open session
\* is on an active attempt.
THEOREM OpenWorkNeedsActiveAttempt == Spec => []OpenWorkIsOnActiveAttempt
  BY Invariance, PTL DEF IInv, TablesOK

\* A worker has one open session, under whatever projects' locks it was opened.
THEOREM AtMostOneOpenSession == Spec => []OneOpenSessionPerWorker
  BY Invariance, PTL DEF IInv, TablesOK

\* No row above an active attempt is archived, whatever archiving races with it.
THEOREM ActiveWorkStaysReachable == Spec => []ActiveWorkIsReachable
  BY Invariance, PTL DEF IInv, TablesOK

\* What was read under the project lock is still true at the write.
THEOREM ChecksHoldUntilWrite == Spec => []ChecksStillHold
  <1>1. IInv => ChecksStillHold
    BY DEF IInv, Claims, ChecksStillHold
  <1> QED
    BY <1>1, Invariance, PTL

\* The tables change only by the write of a transaction.
LEMMA OnlyWritesChange ==
  ASSUME [Next]_vars
  PROVE  UNCHANGED tables \/ \E t \in Txns : Write(t)
  BY DEF Next, Environment, Tick, Revoke, Restore, Begin, Lock, LockParent, Check, Abort,
     vars, scopeVars, tables

\* A revocation never slips between the check of the authority and the commit.
THEOREM AuthorityHoldsUntilCommit == Spec => AuthorizedUntilCommit
  <1> DEFINE Authorized == \A t \in Txns : Commits(t) /\ SharesAuthority(cmd[t]) =>
        /\ cmd[t].actor \in members
        /\ cmd[t].op = "assign" => cmd[t].arg \in members \cup {None}
  <1>1. IInv => Authorized
    <2> SUFFICES ASSUME IInv, NEW t \in Txns, Commits(t), SharesAuthority(cmd[t])
                 PROVE  /\ cmd[t].actor \in members
                        /\ cmd[t].op = "assign" => cmd[t].arg \in members \cup {None}
      OBVIOUS
    <2>1. phase[t] = "checked" /\ Shared(t) \subseteq members \cup {None}
          /\ cmd[t] \in Command
      BY DEF Commits, IInv, Claims
    <2>2. cmd[t].actor # None
      BY <2>1, CommandFields, ScopeAssumption
    <2> QED
      BY <2>1, <2>2 DEF Shared, Holds
  <1>2. IInv /\ [Next]_vars => [Authorized]_vars
    BY <1>1
  <1> QED
    BY <1>2, Invariance, PTL DEF Spec, AuthorizedUntilCommit

\* Archiving a row finds no active attempt below it and ends none.
THEOREM ArchivingIsSafe == Spec => ArchivingSparesActiveWork
  <1> DEFINE Spares == \A n \in Nodes :
        status[n] # "archived" /\ status'[n] = "archived" =>
          \A p \in ProcessesUnder(n) : ActiveOn(p) = {} /\ ActiveOn(p)' = {}
  <1>1. ASSUME IInv, [Next]_vars PROVE Spares
    <2> SUFFICES ASSUME NEW n \in Nodes, status[n] # "archived", status'[n] = "archived",
                        NEW p \in ProcessesUnder(n)
                 PROVE  ActiveOn(p) = {} /\ ActiveOn(p)' = {}
      OBVIOUS
    <2>1. PICK t \in Txns : Write(t)
      BY <1>1, OnlyWritesChange DEF tables
    <2>2. UpdateStatus(t)
      BY <2>1 DEF Write, InsertExecution, TransitionExecution, InsertSession,
         CloseSession, AssignProcess
    <2>3. /\ cmd[t].scope = n /\ cmd[t].arg = "archived" /\ UNCHANGED execution
          /\ CanSetStatus(cmd[t].scope, cmd[t].arg)
      BY <1>1, <2>2, UpdateStatusEffect DEF IInv, TypeOK
    <2> QED
      BY <2>3 DEF CanSetStatus, ActiveUnder, ActiveOn, AttemptsOf
  <1> HIDE DEF Spares
  <1>2. IInv /\ [Next]_vars => [Spares]_vars
    BY <1>1
  <1> USE DEF Spares
  <1> QED
    BY <1>2, Invariance, PTL DEF Spec, ArchivingSparesActiveWork

\* A new attempt records the assignee its process has at the commit: no
\* assignment comes between the start's read and its insert.
THEOREM SnapshotNeverStale == Spec => SnapshotIsCurrent
  <1> DEFINE Current == \A e \in ExecutionIds :
        execution[e].status = "absent" /\ execution'[e].status = "active" =>
          execution'[e].assignee = assignee'[execution'[e].process]
  <1>1. ASSUME IInv, [Next]_vars PROVE Current
    <2> SUFFICES ASSUME NEW e \in ExecutionIds,
                        execution[e].status = "absent", execution'[e].status = "active"
                 PROVE  execution'[e].assignee = assignee'[execution'[e].process]
      OBVIOUS
    <2>1. PICK t \in Txns : Write(t)
      BY <1>1, OnlyWritesChange DEF tables
    <2>2. ~TransitionExecution(t)
      BY <1>1, TransitionExecutionEffect DEF IInv
    <2>3. InsertExecution(t)
      BY <2>1, <2>2 DEF Write, InsertSession, CloseSession, AssignProcess, UpdateStatus
    <2> DEFINE row == [process |-> cmd[t].scope, no |-> seen[t].no, status |-> "active",
                       startedAt |-> began[t], endedAt |-> 0, assignee |-> seen[t].assignee]
    <2>4. assignee' = assignee /\ \E f \in ExecutionIds : execution' = [execution EXCEPT ![f] = row]
      BY <2>3 DEF InsertExecution
    <2> HIDE DEF row
    <2>5. execution'[e] = row
      BY <1>1, <2>4 DEF IInv, TypeOK
    <2>6. cmd[t].op = "start" /\ seen[t] \in Reads(cmd[t])
      BY <1>1, <2>3, WriterRuns DEF InsertExecution, Writes, IInv, Claims, StillTrue
    <2>7. seen[t].assignee = assignee[cmd[t].scope]
      BY <2>6 DEF Reads
    <2> QED
      BY <2>4, <2>5, <2>7 DEF row
  <1> HIDE DEF Current
  <1>2. IInv /\ [Next]_vars => [Current]_vars
    BY <1>1
  <1> USE DEF Current
  <1> QED
    BY <1>2, Invariance, PTL DEF Spec, SnapshotIsCurrent

\* Ended attempts and closed sessions are immutable, and stored ones keep
\* everything but their end.
THEOREM HistoryNeverChanges == Spec => HistoryIsFinal
  <1> DEFINE Attempts == \A e \in ExecutionIds : execution[e].status # "absent" =>
          \/ execution'[e] = execution[e]
          \/ /\ execution[e].status = "active"
             /\ execution'[e] = [execution[e] EXCEPT
                  !.status = execution'[e].status, !.endedAt = execution'[e].endedAt]
             Sessions == \A s \in SessionIds : session[s].execution # None =>
          \/ session'[s] = session[s]
          \/ /\ IsOpen(s)
             /\ session'[s] = [session[s] EXCEPT !.endedAt = session'[s].endedAt]
  <1>1. ASSUME IInv, NEW t \in Txns, TransitionExecution(t)
        PROVE  Attempts /\ Sessions
    <2> DEFINE e == cmd[t].row
               end == IF cmd[t].op = "complete" THEN "completed" ELSE "cancelled"
    <2>1. \/ UNCHANGED <<execution, session>>
          \/ /\ execution[e].status = "active"
             /\ execution' = [execution EXCEPT ![e] =
                                [execution[e] EXCEPT !.status = end, !.endedAt = began[t]]]
             /\ session' = SessionsClosed(e, t)
      BY <1>1 DEF TransitionExecution
    <2>2. e \in ExecutionIds
      BY <1>1, TransitionExecutionEffect DEF IInv
    <2> HIDE DEF end
    <2>3. Attempts
      <3> DEFINE ended == [execution[e] EXCEPT !.status = end, !.endedAt = began[t]]
      <3>1. ended.status = end /\ ended.endedAt = began[t]
        BY <1>1, <2>2 DEF IInv, TypeOK, ExecutionRow
      <3>2. ended = [execution[e] EXCEPT !.status = ended.status, !.endedAt = ended.endedAt]
        BY <3>1
      <3> HIDE DEF ended
      <3>3. \/ execution' = execution
            \/ execution[e].status = "active" /\ execution' = [execution EXCEPT ![e] = ended]
        BY <2>1 DEF ended
      <3>4. \A f \in ExecutionIds :
              \/ execution'[f] = execution[f]
              \/ f = e /\ execution[f].status = "active" /\ execution'[f] = ended
        BY <1>1, <2>2, <3>3 DEF IInv, TypeOK
      <3> QED
        BY <3>2, <3>4
    <2>4. Sessions
      BY <1>1, <2>1 DEF SessionsClosed, OpenOn, IInv, TypeOK, SessionRow
    <2> QED
      BY <2>3, <2>4
  <1>2. ASSUME IInv, NEW t \in Txns, InsertExecution(t)
        PROVE  Attempts /\ Sessions
    BY <1>2, InsertExecutionEffect DEF IInv
  <1>3. ASSUME IInv, NEW t \in Txns, InsertSession(t)
        PROVE  Attempts /\ Sessions
    BY <1>3, InsertSessionEffect DEF IInv
  <1>4. ASSUME IInv, NEW t \in Txns, CloseSession(t)
        PROVE  Attempts /\ Sessions
    <2>1. \/ session' = session
          \/ /\ IsOpen(cmd[t].row)
             /\ session' = [session EXCEPT ![cmd[t].row] =
                              [session[cmd[t].row] EXCEPT !.endedAt = began[t]]]
      BY <1>4 DEF CloseSession
    <2>2. cmd[t].row \in SessionIds /\ UNCHANGED execution
      BY <1>4, CloseSessionEffect DEF IInv
    <2> QED
      BY <1>4, <2>1, <2>2 DEF IInv, TypeOK, SessionRow
  <1>5. ASSUME IInv, UNCHANGED <<execution, session>>
        PROVE  Attempts /\ Sessions
    BY <1>5
  <1>6. ASSUME IInv, [Next]_vars
        PROVE  Attempts /\ Sessions
    BY <1>1, <1>2, <1>3, <1>4, <1>5, <1>6, OnlyWritesChange
    DEF Write, AssignProcess, UpdateStatus, tables
  <1> HIDE DEF Attempts, Sessions
  <1>7. IInv /\ [Next]_vars => [Attempts /\ Sessions]_vars
    BY <1>6
  <1> USE DEF Attempts, Sessions
  <1> QED
    BY <1>7, Invariance, PTL DEF Spec, HistoryIsFinal

-----------------------------------------------------------------------------
(* The refinement of Admission. *)

\* Every step treats members and transactions in one of the ways of WorkScope.
LEMMA StepsAreScopeSteps ==
  ASSUME IInv, [Next]_vars
  PROVE  ScopeStep
  <1>1. ASSUME NEW t \in Txns, NEW c \in Commands, Begin(t, c) PROVE ScopeStep
    <2>1. c.scope \in Nodes
      BY CommandFields, ExecutionAssumption
    <2> QED
      BY <1>1, <2>1 DEF Begin, ScopeStep
  <1>2. ASSUME NEW t \in Txns, Lock(t) PROVE ScopeStep
    BY <1>2 DEF Lock, ScopeStep
  <1>3. ASSUME NEW t \in Txns, Check(t) PROVE ScopeStep
    BY <1>3 DEF Check, Passes, ScopeStep
  <1>4. ASSUME NEW t \in Txns, Write(t) \/ Abort(t) PROVE ScopeStep
    <2>1. UNCHANGED members /\ EndTx(t)
      BY <1>4 DEF Write, Writes, InsertExecution, TransitionExecution, InsertSession,
         CloseSession, AssignProcess, UpdateStatus, Abort
    <2> QED
      BY <2>1 DEF ScopeStep
  <1>5. CASE Environment
    BY <1>5 DEF Environment, Tick, ScopeStep
  <1>6. CASE UNCHANGED vars
    BY <1>6 DEF vars, scopeVars, ScopeStep
  <1> QED
    BY <1>1, <1>2, <1>3, <1>4, <1>5, <1>6 DEF Next

\* The transactions of Executions implement Admission: a write is alone in its
\* project and authorized by active members from its admission to its commit.
THEOREM WritesAreAdmitted == Spec => ImplementsAdmission
  <1>1. Init => Admissions!Init /\ Sheltered
    BY ScopeInitRefines, ScopeInitShelters DEF Init
  <1>2. IInv /\ Sheltered /\ [Next]_vars => Sheltered'
    BY StepsAreScopeSteps, StepsShelter
  <1>3. IInv /\ Sheltered /\ [Next]_vars => [Admissions!Next]_<<members, Place, Relied>>
    BY StepsAreScopeSteps, ScopeStepsRefine
  <1> QED
    BY <1>1, <1>2, <1>3, Invariance, PTL
    DEF Spec, ImplementsAdmission, Admissions!Spec, Place, Relied

=============================================================================
