--------------------------- MODULE HistoryProofs ---------------------------
(***************************************************************************)
(* Proofs about the history that attempts and sessions leave, and about    *)
(* the figures derived from it, for every number of rows, users and        *)
(* transactions: attempts are numbered without gaps, the times of an       *)
(* attempt and of its sessions are ordered although they are taken before  *)
(* the lock is granted, a session is closed by its worker or with its      *)
(* attempt, no work in progress drops out of the figures, and the          *)
(* transactions implement AttemptLifecycle.                                *)
(*                                                                         *)
(* Each invariant here is inductive once the one of ExecutionProofs holds  *)
(* before and after the step.                                              *)
(***************************************************************************)
EXTENDS ExecutionProofs, Progress, FiniteSetTheorems

\* The values a step may put into a row of an attempt.
LEMMA InsertedRow ==
  ASSUME IInv, NEW t \in Txns, InsertExecution(t)
  PROVE  LET p == cmd[t].scope IN
         /\ p \in Processes /\ UNCHANGED <<clock, session>>
         /\ \/ execution' = execution
            \/ \E e \in ExecutionIds :
                 /\ execution[e].status = "absent" /\ execution[e].process = None
                 /\ ActiveOn(p) = {} /\ IsNextAttempt(seen[t].no, p) /\ seen[t].no \in 1..MaxAttempt
                 /\ execution'[e].process = p /\ execution'[e].no = seen[t].no
                 /\ execution'[e].status = "active" /\ execution'[e].startedAt = began[t]
                 /\ \A f \in ExecutionIds : f # e => execution'[f] = execution[f]
  <1>1. cmd[t] \in Command /\ cmd[t].op = "start"
    BY WriterRuns DEF InsertExecution, IInv
  <1>2. cmd[t].scope \in Processes
    BY <1>1, CommandFields
  <1>3. clock' = clock /\ session' = session
    BY DEF InsertExecution, Writes
  <1>4. IsNextAttempt(seen[t].no, cmd[t].scope) /\ seen[t].no \in 1..MaxAttempt
        /\ ActiveOn(cmd[t].scope) = {}
    <2>1. Passes(cmd[t]) /\ seen[t] \in Reads(cmd[t])
      BY <1>1 DEF InsertExecution, Writes, IInv, Claims, StillTrue
    <2>2. PICK m \in AttemptNumbers :
            /\ IsNextAttempt(m, cmd[t].scope)
            /\ seen[t] = [no |-> m, assignee |-> assignee[cmd[t].scope]]
      BY <1>1, <2>1 DEF Reads
    <2>3. seen[t].no = m
      BY <2>2
    <2> QED
      BY <1>1, <2>1, <2>2, <2>3 DEF Passes, AttemptNumbers
  <1> DEFINE row == [process |-> cmd[t].scope, no |-> seen[t].no, status |-> "active",
                     startedAt |-> began[t], endedAt |-> 0, assignee |-> seen[t].assignee]
  <1>5. \/ execution' = execution
        \/ \E e \in ExecutionIds :
             execution[e].status = "absent" /\ execution' = [execution EXCEPT ![e] = row]
    BY DEF InsertExecution
  <1>6. /\ row.process = cmd[t].scope /\ row.no = seen[t].no /\ row.status = "active"
        /\ row.startedAt = began[t]
    OBVIOUS
  <1> HIDE DEF row
  <1>7. \A e \in ExecutionIds : execution[e].status = "absent" => execution[e].process = None
    BY DEF IInv, TablesOK, RowsLinked
  <1> QED
    BY <1>2, <1>3, <1>4, <1>5, <1>6, <1>7 DEF IInv, TypeOK

\* What the end of an attempt writes.
LEMMA EndedRow ==
  ASSUME IInv, NEW t \in Txns, TransitionExecution(t)
  PROVE  LET e == cmd[t].row IN
         /\ e \in ExecutionIds /\ clock' = clock /\ cmd[t].op \in AttemptOps
         /\ \/ UNCHANGED <<execution, session>>
            \/ /\ execution[e].status = "active" /\ TimesAllow(e, began[t])
               /\ execution'[e].status \in {"completed", "cancelled"}
               /\ execution'[e].process = execution[e].process
               /\ execution'[e].no = execution[e].no
               /\ execution'[e].startedAt = execution[e].startedAt
               /\ execution'[e].endedAt = began[t]
               /\ \A f \in ExecutionIds : f # e => execution'[f] = execution[f]
               /\ session' = SessionsClosed(e, t)
  <1>1. cmd[t] \in Command /\ cmd[t].op \in {"complete", "cancel"} /\ clock' = clock
    BY WriterRuns DEF TransitionExecution, IInv
  <1>2. cmd[t].row \in ExecutionIds /\ cmd[t].op \in AttemptOps
    BY <1>1, CommandFields DEF AttemptOps
  <1> DEFINE e == cmd[t].row
             end == IF cmd[t].op = "complete" THEN "completed" ELSE "cancelled"
             row == [execution[e] EXCEPT !.status = end, !.endedAt = began[t]]
  <1>3. \/ UNCHANGED <<execution, session>>
        \/ /\ execution[e].status = "active" /\ TimesAllow(e, began[t])
           /\ execution' = [execution EXCEPT ![e] = row]
           /\ session' = SessionsClosed(e, t)
    BY DEF TransitionExecution
  <1>4. /\ row.status = end /\ row.process = execution[e].process /\ row.no = execution[e].no
        /\ row.startedAt = execution[e].startedAt /\ row.endedAt = began[t]
    BY <1>2 DEF IInv, TypeOK, ExecutionRow
  <1>5. end \in {"completed", "cancelled"}
    OBVIOUS
  <1> HIDE DEF end, row
  <1> QED
    BY <1>1, <1>2, <1>3, <1>4, <1>5 DEF IInv, TypeOK

\* The attempts change by the insert or by the end of one only.
LEMMA OnlyTwoWriteAttempts ==
  ASSUME [Next]_vars
  PROVE  \/ execution' = execution
         \/ \E t \in Txns : InsertExecution(t) \/ TransitionExecution(t)
  BY OnlyWritesChange DEF Write, InsertSession, CloseSession, AssignProcess, UpdateStatus, tables

-----------------------------------------------------------------------------
(* Numbers. *)

\* The number that is inserted is the next one, and nobody can be inserted or
\* be active meanwhile.
LEMMA NumbersKept ==
  ASSUME IInv, IInv', AttemptsNumbered, [Next]_vars
  PROVE  AttemptsNumbered'
  <1>0. /\ \A e \in ExecutionIds : execution[e].no \in Nat /\ execution'[e].no \in Nat
        /\ None \notin Processes
    BY ExecutionAssumption, ScopeAssumption DEF IInv, TypeOK, ExecutionRow, Nodes
  <1>1. CASE execution' = execution
    BY <1>1 DEF AttemptsNumbered, AttemptsOf
  <1>2. ASSUME NEW t \in Txns, TransitionExecution(t) PROVE AttemptsNumbered'
    <2>1. /\ \A f \in ExecutionIds : execution'[f].process = execution[f].process
                                     /\ execution'[f].no = execution[f].no
          /\ \A f \in ExecutionIds :
               execution'[f].status = "active" => execution[f].status = "active"
      BY <1>2, EndedRow
    <2>2. \A p \in Processes : AttemptsOf(p)' = AttemptsOf(p)
      BY <2>1 DEF AttemptsOf
    <2> QED
      BY <2>1, <2>2 DEF AttemptsNumbered, AttemptsOf
  <1>3. ASSUME NEW t \in Txns, InsertExecution(t), execution' # execution PROVE AttemptsNumbered'
    <2>1. PICK q \in Processes, n \in 1..MaxAttempt, d \in ExecutionIds :
            /\ execution[d].process = None
            /\ ActiveOn(q) = {} /\ IsNextAttempt(n, q)
            /\ execution'[d].process = q /\ execution'[d].no = n
            /\ \A f \in ExecutionIds : f # d => execution'[f] = execution[f]
      BY <1>3, InsertedRow
    <2>2. n \in Nat /\ n >= 1
      BY <2>1, ExecutionAssumption
    <2>3. \A p \in Processes : p # q => AttemptsOf(p)' = AttemptsOf(p)
                                        /\ d \notin AttemptsOf(p)
      BY <1>0, <2>1 DEF AttemptsOf
    <2>4. AttemptsOf(q)' = AttemptsOf(q) \cup {d} /\ d \notin AttemptsOf(q)
      <3>1. q # None /\ execution[d].process # q
        BY <1>0, <2>1
      <3>2. \A f \in ExecutionIds : execution'[f].process = q <=> f = d \/ execution[f].process = q
        BY <2>1
      <3> QED
        BY <2>1, <3>1, <3>2 DEF AttemptsOf
    <2>5. \A f \in AttemptsOf(q) : /\ execution[f].no < n /\ execution[f].status # "active"
                                   /\ execution'[f] = execution[f] /\ f \in ExecutionIds
      <3> SUFFICES ASSUME NEW f \in AttemptsOf(q)
                   PROVE  /\ execution[f].no < n /\ execution[f].status # "active"
                          /\ execution'[f] = execution[f] /\ f \in ExecutionIds
        OBVIOUS
      <3>1. f \in ExecutionIds /\ f # d
        BY <2>4 DEF AttemptsOf
      <3> QED
        BY <2>1, <3>1 DEF IsNextAttempt, ActiveOn
    <2> SUFFICES ASSUME NEW p \in Processes, NEW e \in AttemptsOf(p)'
                 PROVE  /\ execution'[e].no >= 1
                        /\ execution'[e].no > 1 =>
                             \E f \in AttemptsOf(p)' : execution'[f].no = execution'[e].no - 1
                        /\ \A f \in AttemptsOf(p)' :
                             /\ execution'[f].no = execution'[e].no => f = e
                             /\ execution'[e].status = "active" =>
                                  execution'[f].no <= execution'[e].no
      BY DEF AttemptsNumbered
    <2>6. CASE p # q
      <3>1. \A f \in AttemptsOf(p) : execution'[f] = execution[f]
        BY <2>1, <2>3, <2>6 DEF AttemptsOf
      <3> QED
        BY <2>3, <2>6, <3>1 DEF AttemptsNumbered
    <2>7. CASE p = q /\ e = d
      <3>1. n > 1 => \E f \in AttemptsOf(q) : execution'[f].no = n - 1
        BY <2>1, <2>5 DEF IsNextAttempt
      <3>2. \A f \in AttemptsOf(q) : execution'[f].no \in Nat /\ execution'[f].no < n
        BY <1>0, <2>5
      <3>3. \A f \in AttemptsOf(q)' : f = d \/ f \in AttemptsOf(q)
        BY <2>4
      <3>4. execution'[e].no = n /\ d \in AttemptsOf(q)'
        BY <2>1, <2>4, <2>7
      <3>5. \A f \in AttemptsOf(p)' : /\ execution'[f].no = n => f = e
                                      /\ execution'[f].no <= n
        BY <2>2, <2>7, <3>2, <3>3, <3>4 DEF AttemptsOf
      <3>6. n > 1 => \E f \in AttemptsOf(p)' : execution'[f].no = n - 1
        BY <2>4, <2>5, <2>7, <3>1 DEF AttemptsOf
      <3> QED
        BY <2>2, <3>4, <3>5, <3>6
    <2>8. CASE p = q /\ e # d
      <3>0. e \in AttemptsOf(q)
        BY <2>1, <2>8 DEF AttemptsOf
      <3>1. execution'[e] = execution[e] /\ execution[e].status # "active"
            /\ execution[e].no < n /\ execution[e].no \in Nat
        BY <1>0, <2>5, <3>0
      <3>2. /\ execution[e].no >= 1
            /\ execution[e].no > 1 => \E f \in AttemptsOf(q) : execution[f].no = execution[e].no - 1
            /\ \A f \in AttemptsOf(q) : execution[f].no = execution[e].no => f = e
        BY <2>1, <3>0, <3>1 DEF AttemptsNumbered
      <3>3. \A f \in AttemptsOf(q)' : f = d \/ f \in AttemptsOf(q)
        BY <2>4
      <3>4. execution[e].no > 1 => \E f \in AttemptsOf(p)' : execution'[f].no = execution[e].no - 1
        BY <2>4, <2>5, <2>8, <3>2 DEF AttemptsOf
      <3>5. \A f \in AttemptsOf(p)' : execution'[f].no = execution[e].no => f = e
        BY <2>1, <2>5, <2>8, <3>1, <3>2, <3>3 DEF AttemptsOf
      <3>6. execution'[e].no = execution[e].no /\ execution'[e].status # "active"
        BY <3>1
      <3> QED
        BY <3>2, <3>4, <3>5, <3>6
    <2> QED
      BY <2>6, <2>7, <2>8
  <1> QED
    BY <1>1, <1>2, <1>3, OnlyTwoWriteAttempts, Zenon

\* However starts race with each other and with the end of an attempt, the
\* attempts of a process are numbered 1, 2, ... and only the last can be active.
THEOREM AttemptsAreNumbered == Spec => []AttemptsNumbered
  <1>1. Init => AttemptsNumbered
    BY ScopeAssumption DEF Init, NoExecution, AttemptsNumbered, AttemptsOf, Nodes
  <1>2. IInv /\ IInv' /\ AttemptsNumbered /\ [Next]_vars => AttemptsNumbered'
    BY NumbersKept
  <1> QED
    BY <1>1, <1>2, Invariance, PTL DEF Spec

-----------------------------------------------------------------------------
(* Times. *)

\* No time is taken from the future.
Dated ==
  /\ \A t \in Txns : phase[t] # "idle" => began[t] <= clock
  /\ \A e \in ExecutionIds : execution[e].startedAt <= clock
  /\ \A s \in SessionIds : session[s].startedAt <= clock

\* The parts of TimesOrdered: the requests on their way, and the rows.
RequestsFollow ==
  \A t \in Txns : phase[t] # "idle" =>
    /\ cmd[t].op \in AttemptOps => execution[cmd[t].row].startedAt <= began[t]
    /\ cmd[t].op = "stop_session" => session[cmd[t].row].startedAt <= began[t]

RowsFollow ==
  /\ \A e \in ExecutionIds : execution[e].status \in {"completed", "cancelled"} =>
       execution[e].startedAt <= execution[e].endedAt
  /\ \A s \in SessionIds : session[s].execution # None =>
       execution[session[s].execution].startedAt <= session[s].startedAt

TimesInv == Dated /\ RequestsFollow /\ RowsFollow

\* A used row keeps its start, a used session its attempt and its worker.
StartsKept ==
  /\ \A e \in ExecutionIds : execution[e].process # None =>
       execution'[e].startedAt = execution[e].startedAt
  /\ \A s \in SessionIds : session[s].execution # None =>
       /\ session'[s].startedAt = session[s].startedAt
       /\ session'[s].execution = session[s].execution

\* Only the transaction that begins names new rows, so what the requests found
\* still precedes them when the rows they name keep their starts.
LEMMA RequestsKept ==
  ASSUME IInv, RequestsFollow, StartsKept,
         \A u \in Txns : phase'[u] # "idle" =>
           phase[u] # "idle" /\ cmd'[u] = cmd[u] /\ began'[u] = began[u]
  PROVE  RequestsFollow'
  <1> SUFFICES ASSUME NEW u \in Txns, phase'[u] # "idle"
               PROVE  /\ cmd[u].op \in AttemptOps => execution'[cmd[u].row].startedAt <= began[u]
                      /\ cmd[u].op = "stop_session" => session'[cmd[u].row].startedAt <= began[u]
    BY DEF RequestsFollow
  <1>1. phase[u] # "idle" /\ cmd[u] \in Command /\ RowInScope(cmd[u])
    BY DEF IInv, Claims
  <1>2. cmd[u].op \in AttemptOps => /\ cmd[u].row \in ExecutionIds
                                    /\ execution[cmd[u].row].process # None
    BY <1>1, CommandFields, ScopeAssumption DEF RowInScope, AttemptOps, Nodes
  <1>3. cmd[u].op = "stop_session" => /\ cmd[u].row \in SessionIds
                                      /\ session[cmd[u].row].execution # None
    BY <1>1, CommandFields, ExecutionAssumption DEF RowInScope
  <1> QED
    BY <1>1, <1>2, <1>3 DEF RequestsFollow, StartsKept

\* The insert of a session dates it with its transaction.
LEMMA InsertedSession ==
  ASSUME IInv, NEW t \in Txns, InsertSession(t)
  PROVE  LET c == cmd[t] IN
         /\ c.op = "start_session" /\ c.row \in ExecutionIds
         /\ UNCHANGED <<clock, execution>>
         /\ \/ session' = session
            \/ \E s \in SessionIds :
                 /\ session[s].execution = None
                 /\ session'[s].execution = c.row /\ session'[s].startedAt = began[t]
                 /\ \A r \in SessionIds : r # s => session'[r] = session[r]
  <1>1. cmd[t] \in Command /\ cmd[t].op = "start_session" /\ clock' = clock
    BY WriterRuns DEF InsertSession, IInv
  <1>2. cmd[t].row \in ExecutionIds
    BY <1>1, CommandFields DEF AttemptOps
  <1> QED
    BY <1>1, <1>2 DEF InsertSession, IInv, TypeOK

\* The stop of a session sets its end.
LEMMA ClosedSession ==
  ASSUME IInv, NEW t \in Txns, CloseSession(t)
  PROVE  LET s == cmd[t].row IN
         /\ s \in SessionIds /\ cmd[t].op = "stop_session" /\ CanStop(cmd[t])
         /\ UNCHANGED <<clock, execution>>
         /\ session'[s].execution = session[s].execution
         /\ session'[s].startedAt = session[s].startedAt
         /\ \A r \in SessionIds : r # s => session'[r] = session[r]
  <1>1. cmd[t] \in Command /\ cmd[t].op = "stop_session" /\ clock' = clock
    BY WriterRuns DEF CloseSession, IInv
  <1>2. cmd[t].row \in SessionIds
    BY <1>1, CommandFields
  <1>3. CanStop(cmd[t])
    BY <1>1 DEF CloseSession, Writes, IInv, Claims, StillTrue, Passes
  <1> DEFINE s == cmd[t].row
             row == [session[s] EXCEPT !.endedAt = began[t]]
  <1>4. session' = session \/ session' = [session EXCEPT ![s] = row]
    BY DEF CloseSession
  <1>5. row.execution = session[s].execution /\ row.startedAt = session[s].startedAt
    BY <1>2 DEF IInv, TypeOK, SessionRow
  <1> HIDE DEF row
  <1> QED
    BY <1>1, <1>2, <1>3, <1>4, <1>5 DEF CloseSession, IInv, TypeOK

\* Closing the sessions of an attempt leaves their starts alone.
LEMMA ClosedTogether ==
  ASSUME IInv, NEW t \in Txns, NEW e \in ExecutionIds, session' = SessionsClosed(e, t)
  PROVE  \A s \in SessionIds :
           /\ session'[s].execution = session[s].execution
           /\ session'[s].startedAt = session[s].startedAt
           /\ session'[s] # session[s] => session[s].execution = e /\ session'[s].endedAt = began[t]
  BY DEF SessionsClosed, OpenOn, IsOpen, IInv, TypeOK, SessionRow

\* The write of an attempt dates its rows with its transaction.
LEMMA WriteKeepsTimes ==
  ASSUME IInv, TimesInv, NEW t \in Txns, Write(t)
  PROVE  TimesInv'
  <1>0. /\ clock \in Nat /\ began[t] \in Nat /\ began[t] <= clock /\ None \notin Processes
        /\ \A e \in ExecutionIds : execution[e].startedAt \in Nat
        /\ \A s \in SessionIds : /\ session[s].startedAt \in Nat
                                 /\ session[s].execution \in ExecutionIds \cup {None}
        /\ None \notin ExecutionIds
    BY WriterEnds, ScopeAssumption, ExecutionAssumption
    DEF IInv, TypeOK, ExecutionRow, SessionRow, TimesInv, Dated, Nodes
  <1>1. /\ phase[t] = "checked" /\ phase'[t] = "idle"
        /\ \A u \in Txns : phase'[u] # "idle" =>
             phase[u] # "idle" /\ cmd'[u] = cmd[u] /\ began'[u] = began[u]
    BY WriterEnds DEF IInv
  <1>2. CASE InsertExecution(t)
    <2>1. /\ UNCHANGED <<clock, session>>
          /\ \/ execution' = execution
             \/ \E e \in ExecutionIds :
                  /\ execution[e].status = "absent" /\ execution[e].process = None
                  /\ execution'[e].status = "active" /\ execution'[e].startedAt = began[t]
                  /\ \A f \in ExecutionIds : f # e => execution'[f] = execution[f]
      BY <1>2, InsertedRow
    <2>2. \A s \in SessionIds : session[s].execution # None =>
            execution'[session[s].execution] = execution[session[s].execution]
      BY <1>0, <2>1 DEF IInv, TablesOK, RowsLinked
    <2>3. StartsKept
      BY <2>1 DEF StartsKept
    <2>4. RowsFollow'
      BY <2>1, <2>2 DEF TimesInv, RowsFollow
    <2>5. Dated'
      BY <1>0, <1>1, <2>1 DEF TimesInv, Dated
    <2> QED
      BY <1>1, <2>3, <2>4, <2>5, RequestsKept DEF TimesInv
  <1>3. CASE TransitionExecution(t)
    <2> DEFINE e == cmd[t].row
    <2>1. /\ e \in ExecutionIds /\ clock' = clock
          /\ \/ UNCHANGED <<execution, session>>
             \/ /\ TimesAllow(e, began[t])
                /\ execution'[e].process = execution[e].process
                /\ execution'[e].startedAt = execution[e].startedAt
                /\ execution'[e].endedAt = began[t]
                /\ \A f \in ExecutionIds : f # e => execution'[f] = execution[f]
                /\ session' = SessionsClosed(e, t)
      BY <1>3, EndedRow
    <2>2. /\ \A s \in SessionIds : /\ session'[s].execution = session[s].execution
                                   /\ session'[s].startedAt = session[s].startedAt
          /\ \A f \in ExecutionIds : execution'[f].startedAt = execution[f].startedAt
      BY <2>1, ClosedTogether
    <2>3. StartsKept
      BY <2>2 DEF StartsKept
    <2>4. RowsFollow'
      <3>1. ASSUME NEW f \in ExecutionIds, execution'[f].status \in {"completed", "cancelled"}
            PROVE  execution'[f].startedAt <= execution'[f].endedAt
        BY <2>1, <3>1 DEF TimesInv, RowsFollow, TimesAllow
      <3>2. ASSUME NEW s \in SessionIds, session'[s].execution # None
            PROVE  execution'[session'[s].execution].startedAt <= session'[s].startedAt
        BY <1>0, <2>2, <3>2 DEF TimesInv, RowsFollow
      <3> QED
        BY <3>1, <3>2 DEF RowsFollow
    <2>5. Dated'
      BY <1>1, <2>1, <2>2 DEF TimesInv, Dated
    <2> QED
      BY <1>1, <2>3, <2>4, <2>5, RequestsKept DEF TimesInv
  <1>4. CASE InsertSession(t)
    <2> DEFINE e == cmd[t].row
    <2>1. /\ cmd[t].op = "start_session" /\ e \in ExecutionIds
          /\ UNCHANGED <<clock, execution>>
          /\ \/ session' = session
             \/ \E s \in SessionIds :
                  /\ session[s].execution = None
                  /\ session'[s].execution = e /\ session'[s].startedAt = began[t]
                  /\ \A r \in SessionIds : r # s => session'[r] = session[r]
      BY <1>4, InsertedSession
    <2>2. execution[e].startedAt <= began[t]
      BY <1>1, <2>1 DEF TimesInv, RequestsFollow, AttemptOps
    <2>3. StartsKept
      BY <2>1 DEF StartsKept
    <2> HIDE DEF e
    <2>4. RowsFollow'
      BY <2>1, <2>2 DEF TimesInv, RowsFollow
    <2>5. Dated'
      BY <1>0, <1>1, <2>1 DEF TimesInv, Dated
    <2> QED
      BY <1>1, <2>3, <2>4, <2>5, RequestsKept DEF TimesInv
  <1>5. CASE CloseSession(t)
    <2>1. /\ UNCHANGED <<clock, execution>>
          /\ \A s \in SessionIds : /\ session'[s].execution = session[s].execution
                                   /\ session'[s].startedAt = session[s].startedAt
      BY <1>5, ClosedSession
    <2>2. StartsKept
      BY <2>1 DEF StartsKept
    <2>3. RowsFollow' /\ Dated'
      BY <1>1, <2>1 DEF TimesInv, RowsFollow, Dated
    <2> QED
      BY <1>1, <2>2, <2>3, RequestsKept DEF TimesInv
  <1>6. CASE AssignProcess(t) \/ UpdateStatus(t)
    <2>1. UNCHANGED <<clock, execution, session>>
      BY <1>6 DEF AssignProcess, UpdateStatus, Writes
    <2>2. StartsKept
      BY <2>1 DEF StartsKept
    <2>3. RowsFollow' /\ Dated'
      BY <1>1, <2>1 DEF TimesInv, RowsFollow, Dated
    <2> QED
      BY <1>1, <2>2, <2>3, RequestsKept DEF TimesInv
  <1> QED
    BY <1>2, <1>3, <1>4, <1>5, <1>6 DEF Write

\* A request takes its time when it begins, after it has resolved its row.
LEMMA TimesKept ==
  ASSUME IInv, TimesInv, [Next]_vars
  PROVE  TimesInv'
  <1>0. /\ clock \in Nat
        /\ \A e \in ExecutionIds : execution[e].startedAt \in Nat
        /\ \A s \in SessionIds : session[s].startedAt \in Nat
        /\ \A t \in Txns : began[t] \in Nat
    BY ScopeAssumption DEF IInv, TypeOK, ExecutionRow, SessionRow
  <1>1. CASE Environment \/ UNCHANGED vars
    <2>1. /\ UNCHANGED <<phase, cmd, began, execution, session>>
          /\ clock' \in Nat /\ clock <= clock'
      BY <1>0, <1>1 DEF Environment, Tick, Revoke, Restore, vars, scopeVars
    <2>2. Dated'
      BY <1>0, <2>1 DEF TimesInv, Dated
    <2> QED
      BY <2>1, <2>2 DEF TimesInv, RequestsFollow, RowsFollow
  <1>2. ASSUME NEW t \in Txns, NEW c \in Commands, Begin(t, c) PROVE TimesInv'
    <2>1. /\ UNCHANGED <<clock, execution, session>> /\ RowInScope(c)
          /\ cmd'[t] = c /\ began'[t] = clock
          /\ \A u \in Txns : u # t => UNCHANGED <<phase[u], cmd[u], began[u]>>
      BY <1>2 DEF Begin, BeginTx, IInv, TypeOK, tables
    <2>2. c \in Command
      BY ExecutionAssumption
    <2>3. /\ c.op \in AttemptOps => c.row \in ExecutionIds
          /\ c.op = "stop_session" => c.row \in SessionIds
      BY <2>2, CommandFields
    <2>4. Dated' /\ RowsFollow'
      BY <1>0, <2>1 DEF TimesInv, Dated, RowsFollow
    <2>5. RequestsFollow'
      BY <2>1, <2>3 DEF TimesInv, Dated, RequestsFollow
    <2> QED
      BY <2>4, <2>5 DEF TimesInv
  <1>3. ASSUME NEW t \in Txns, Lock(t) \/ Check(t) \/ Abort(t) PROVE TimesInv'
    <2>1. /\ UNCHANGED <<clock, execution, session>>
          /\ \A u \in Txns : phase'[u] # "idle" =>
               phase[u] # "idle" /\ cmd'[u] = cmd[u] /\ began'[u] = began[u]
      BY <1>3 DEF Lock, LockParent, Check, Abort, EndTx, MoveTo, IInv, TypeOK, tables
    <2>2. StartsKept
      BY <2>1 DEF StartsKept
    <2>3. Dated' /\ RowsFollow'
      BY <2>1 DEF TimesInv, Dated, RowsFollow
    <2> QED
      BY <2>1, <2>2, <2>3, RequestsKept DEF TimesInv
  <1>4. ASSUME NEW t \in Txns, Write(t) PROVE TimesInv'
    BY <1>4, WriteKeepsTimes
  <1> QED
    BY <1>1, <1>2, <1>3, <1>4 DEF Next

\* A request that waited long for its lock still carries a later time than the
\* attempt or the session it names, so no interval of the history is negative.
THEOREM TimesStayOrdered == Spec => []TimesOrdered
  <1>1. Init => TimesInv
    BY ExecutionAssumption, ScopeAssumption
    DEF Init, ScopeInit, NoExecution, NoSession, TimesInv, Dated, RequestsFollow, RowsFollow
  <1>2. IInv /\ TimesInv /\ [Next]_vars => TimesInv'
    BY TimesKept
  <1>3. TimesInv => TimesOrdered
    BY DEF TimesInv, RequestsFollow, RowsFollow, TimesOrdered
  <1> QED
    BY <1>1, <1>2, <1>3, Invariance, PTL DEF Spec

-----------------------------------------------------------------------------
(* Ends of sessions. *)

\* A session is closed by a stop of its own worker, or by the end of its
\* attempt and at that time; no other command closes one.
THEOREM SessionsEndForAReason == Spec => SessionsCloseForAReason
  <1> DEFINE Reason(s) ==
        LET e == session[s].execution IN
        \/ /\ execution'[e] = execution[e]
           /\ \E t \in Txns : /\ Commits(t)
                              /\ cmd[t].op = "stop_session" /\ cmd[t].row = s
                              /\ cmd[t].actor = session[s].worker
        \/ /\ execution'[e].status \in {"completed", "cancelled"}
           /\ session'[s].endedAt = execution'[e].endedAt
             Closes(s) == IsOpen(s) /\ ~IsOpen(s)'
  <1>1. ASSUME IInv, [Next]_vars, NEW s \in SessionIds, Closes(s) PROVE Reason(s)
    <2>0. session'[s] # session[s] /\ session' # session
      BY <1>1 DEF IsOpen
    <2>1. PICK t \in Txns : Write(t)
      BY <1>1, <2>0, OnlyWritesChange DEF tables
    <2>2. CASE InsertExecution(t) \/ AssignProcess(t) \/ UpdateStatus(t)
      BY <2>0, <2>2 DEF InsertExecution, AssignProcess, UpdateStatus
    <2>3. CASE TransitionExecution(t)
      BY <1>1, <2>0, <2>3, EndedRow, ClosedTogether
    <2>4. CASE InsertSession(t)
      BY <1>1, <2>0, <2>4, InsertedSession DEF IsOpen
    <2>5. CASE CloseSession(t)
      <3>1. /\ s = cmd[t].row /\ cmd[t].op = "stop_session" /\ CanStop(cmd[t])
            /\ execution' = execution
        BY <1>1, <2>0, <2>5, ClosedSession
      <3>2. Commits(t)
        BY <1>1, <2>0, <2>1, WriterEnds DEF Commits, tables, IInv
      <3> QED
        BY <3>1, <3>2 DEF CanStop
    <2> QED
      BY <2>1, <2>2, <2>3, <2>4, <2>5 DEF Write
  <1> HIDE DEF Reason
  <1>2. IInv /\ [Next]_vars => [\A s \in SessionIds : Closes(s) => Reason(s)]_vars
    BY <1>1
  <1> USE DEF Reason
  <1> QED
    BY <1>2, Invariance, PTL DEF Spec, SessionsCloseForAReason

-----------------------------------------------------------------------------
(* Figures. *)

\* A figure over a set with a process that runs has an active count.
LEMMA FigureShows ==
  ASSUME NEW S \in SUBSET Processes, NEW p \in S, Running(p)
  PROVE  Aggregate(S).active > 0
  <1> DEFINE R == {q \in S : Running(q)}
  <1>1. IsFiniteSet(R)
    BY ProgressAssumption, FS_Subset
  <1>2. R # {}
    OBVIOUS
  <1>3. Cardinality(R) \in Nat /\ Cardinality(R) # 0
    BY <1>1, <1>2, FS_CardinalityType, FS_EmptySet
  <1>4. Aggregate(S).active = Cardinality(R)
    BY DEF Aggregate
  <1> HIDE DEF R
  <1> QED
    BY <1>3, <1>4

\* Work in progress is counted at each level, whatever races with it.
THEOREM RunningWorkIsShown == Spec => []RunningWorkShows
  <1>1. ASSUME IInv PROVE RunningWorkShows
    <2> SUFFICES ASSUME NEW p \in Processes, ActiveOn(p) # {}
                 PROVE  /\ ForItem(ItemOf[p]).active > 0
                        /\ \A tree \in Trees, s \in Sections :
                             <<s, SectionAbove(p)>> \in tree.single =>
                               ForSection(tree, s).active > 0
                        /\ ForProject(ProjectAbove(p)).active > 0
      BY DEF RunningWorkShows
    <2>1. Running(p)
      BY DEF ActiveOn, Running
    <2>2. ProcessOpen(p)
      BY <1>1 DEF ActiveOn, AttemptsOf, IInv, TablesOK, ActiveWorkIsReachable
    <2>3. Counted(p)
      BY <2>2, ChainTypes DEF Counted, ProcessOpen, ItemOpen, SectionOpen
    <2>4. ForItem(ItemOf[p]).active > 0
      BY <2>1, <2>3, FigureShows DEF ForItem, ItemScope
    <2>5. ASSUME NEW tree \in Trees, NEW s \in Sections, <<s, SectionAbove(p)>> \in tree.single
          PROVE  ForSection(tree, s).active > 0
      BY <2>1, <2>3, <2>5, FigureShows DEF ForSection, SectionScope
    <2>6. ForProject(ProjectAbove(p)).active > 0
      BY <2>1, <2>3, FigureShows DEF ForProject, ProjectScope
    <2> QED
      BY <2>4, <2>5, <2>6
  <1> QED
    BY <1>1, Invariance, PTL

-----------------------------------------------------------------------------
(* Refinement: every write is one step of AttemptLifecycle or none.        *)

\* The numbers below that of an attempt are taken as well.  (AttemptsNumbered
\* says it of the next one only, which is as much by induction.)
NumbersDense ==
  \A p \in Processes : \A e \in AttemptsOf(p) : \A m \in 1..execution[e].no :
    \E f \in AttemptsOf(p) : execution[f].no = m

HInv == IInv /\ AttemptsNumbered /\ NumbersDense

LEMMA DensityKept ==
  ASSUME IInv, NumbersDense, [Next]_vars
  PROVE  NumbersDense'
  <1>0. /\ \A e \in ExecutionIds : execution[e].no \in Nat
        /\ None \notin Processes
    BY ExecutionAssumption, ScopeAssumption DEF IInv, TypeOK, ExecutionRow, Nodes
  <1>1. CASE execution' = execution
    BY <1>1 DEF NumbersDense, AttemptsOf
  <1>2. ASSUME NEW t \in Txns, TransitionExecution(t) PROVE NumbersDense'
    <2>1. \A f \in ExecutionIds : execution'[f].process = execution[f].process
                                  /\ execution'[f].no = execution[f].no
      BY <1>2, EndedRow
    <2> QED
      BY <2>1 DEF NumbersDense, AttemptsOf
  <1>3. ASSUME NEW t \in Txns, InsertExecution(t), execution' # execution PROVE NumbersDense'
    <2>1. PICK q \in Processes, n \in 1..MaxAttempt, d \in ExecutionIds :
            /\ execution[d].process = None /\ IsNextAttempt(n, q)
            /\ execution'[d].process = q /\ execution'[d].no = n
            /\ \A f \in ExecutionIds : f # d => execution'[f] = execution[f]
      BY <1>3, InsertedRow
    <2> SUFFICES ASSUME NEW p \in Processes, NEW e \in AttemptsOf(p)', NEW m \in 1..execution'[e].no
                 PROVE  \E f \in AttemptsOf(p)' : execution'[f].no = m
      BY DEF NumbersDense
    <2>2. \A f \in AttemptsOf(p) : f \in AttemptsOf(p)' /\ execution'[f] = execution[f]
      BY <1>0, <2>1 DEF AttemptsOf
    <2>3. CASE e # d
      <3>1. e \in AttemptsOf(p) /\ execution'[e] = execution[e]
        BY <2>1, <2>3 DEF AttemptsOf
      <3> QED
        BY <2>2, <3>1 DEF NumbersDense
    <2>4. CASE e = d /\ m = n
      BY <2>1, <2>4 DEF AttemptsOf
    <2>5. CASE e = d /\ m # n
      <3>1. p = q /\ m \in 1..(n - 1) /\ n > 1
        BY <2>1, <2>5, ExecutionAssumption DEF AttemptsOf
      <3>2. PICK f \in AttemptsOf(q) : execution[f].no = n - 1
        BY <2>1, <3>1 DEF IsNextAttempt
      <3>3. \E g \in AttemptsOf(q) : execution[g].no = m
        BY <3>1, <3>2 DEF NumbersDense
      <3> QED
        BY <2>2, <3>1, <3>3
    <2> QED
      BY <2>3, <2>4, <2>5
  <1> QED
    BY <1>1, <1>2, <1>3, OnlyTwoWriteAttempts

\* The number of an attempt finds it, in this state and in the next.
LEMMA StateIs ==
  ASSUME IInv, AttemptsNumbered, NEW p \in Processes
  PROVE  /\ \A e \in AttemptsOf(p) :
              /\ execution[e].no \in 1..MaxAttempt
              /\ AttemptState(p, execution[e].no) = execution[e].status
              /\ execution[e].status \in {"active", "completed", "cancelled"}
         /\ \A m : (\A e \in AttemptsOf(p) : execution[e].no # m) => AttemptState(p, m) = "none"
  <1>1. ASSUME NEW e \in AttemptsOf(p)
        PROVE  /\ execution[e].no \in 1..MaxAttempt
               /\ AttemptState(p, execution[e].no) = execution[e].status
               /\ execution[e].status \in {"active", "completed", "cancelled"}
    <2>1. e \in ExecutionIds /\ execution[e].process = p /\ p # None
      BY ScopeAssumption DEF AttemptsOf, Nodes
    <2>2. execution[e].no \in 1..MaxAttempt
          /\ \A f \in AttemptsOf(p) : execution[f].no = execution[e].no => f = e
      BY <2>1, ExecutionAssumption DEF AttemptsNumbered, IInv, TypeOK, ExecutionRow
    <2>3. (CHOOSE f \in AttemptsOf(p) : execution[f].no = execution[e].no) = e
      BY <2>2
    <2>4. execution[e].status \in {"active", "completed", "cancelled"}
      BY <2>1 DEF IInv, TypeOK, ExecutionRow, TablesOK, RowsLinked
    <2> QED
      BY <2>2, <2>3, <2>4 DEF AttemptState
  <1>2. \A m : (\A e \in AttemptsOf(p) : execution[e].no # m) => AttemptState(p, m) = "none"
    BY DEF AttemptState
  <1> QED
    BY <1>1, <1>2

LEMMA StateIsNext ==
  ASSUME IInv', AttemptsNumbered', NEW p \in Processes
  PROVE  /\ \A e \in AttemptsOf(p)' : AttemptState(p, execution[e].no)' = execution'[e].status
         /\ \A m \in Nat : (\A e \in AttemptsOf(p)' : execution'[e].no # m) =>
              AttemptState(p, m)' = "none"
  <1>1. ASSUME NEW e \in AttemptsOf(p)'
        PROVE  AttemptState(p, execution[e].no)' = execution'[e].status
    <2>1. \A f \in AttemptsOf(p)' : execution'[f].no = execution'[e].no => f = e
      BY DEF AttemptsNumbered
    <2>2. (CHOOSE f \in AttemptsOf(p)' : execution'[f].no = execution'[e].no) = e
      BY <2>1
    <2> QED
      BY <2>2 DEF AttemptState
  <1>2. \A m \in Nat : (\A e \in AttemptsOf(p)' : execution'[e].no # m) =>
          AttemptState(p, m)' = "none"
    BY DEF AttemptState
  <1> QED
    BY <1>1, <1>2

\* The one open session of a worker tells the process of the work.
LEMMA WorkIs ==
  ASSUME IInv, NEW u \in Users
  PROVE  /\ OpenOf(u) = {} => WorkingOn(u) = None
         /\ \A s \in OpenOf(u) : /\ WorkingOn(u) = execution[session[s].execution].process
                                 /\ WorkingOn(u) \in Processes
                                 /\ \A r \in OpenOf(u) : r = s
  <1>1. ASSUME NEW s \in OpenOf(u)
        PROVE  /\ WorkingOn(u) = execution[session[s].execution].process
               /\ WorkingOn(u) \in Processes
               /\ \A r \in OpenOf(u) : r = s
    <2>1. \A r \in OpenOf(u) : r = s
      BY DEF IInv, TablesOK, OneOpenSessionPerWorker
    <2>2. (CHOOSE r \in OpenOf(u) : TRUE) = s
      BY <2>1
    <2>3. s \in SessionIds /\ IsOpen(s)
      BY DEF OpenOf
    <2>4. session[s].execution \in ExecutionIds
      BY <2>3 DEF IsOpen, IInv, TypeOK, SessionRow
    <2>5. execution[session[s].execution].status # "absent"
      BY <2>3 DEF IsOpen, IInv, TablesOK, RowsLinked
    <2>6. execution[session[s].execution].process \in Processes
      BY <2>4, <2>5 DEF IInv, TypeOK, ExecutionRow, TablesOK, RowsLinked
    <2> QED
      BY <2>1, <2>2, <2>6 DEF WorkingOn
  <1>2. OpenOf(u) = {} => WorkingOn(u) = None
    BY DEF WorkingOn
  <1> QED
    BY <1>1, <1>2

LEMMA WorkIsNext ==
  ASSUME IInv', NEW u \in Users
  PROVE  /\ OpenOf(u)' = {} => WorkingOn(u)' = None
         /\ \A s \in OpenOf(u)' : WorkingOn(u)' = execution'[session'[s].execution].process
  <1>1. ASSUME NEW s \in OpenOf(u)'
        PROVE  WorkingOn(u)' = execution'[session'[s].execution].process
    <2>1. \A r \in OpenOf(u)' : r = s
      BY DEF IInv, TablesOK, OneOpenSessionPerWorker
    <2>2. (CHOOSE r \in OpenOf(u)' : TRUE) = s
      BY <2>1
    <2> QED
      BY <2>2 DEF WorkingOn
  <1>2. OpenOf(u)' = {} => WorkingOn(u)' = None
    BY DEF WorkingOn
  <1> QED
    BY <1>1, <1>2

\* What no row shows does not change, nor does anybody's work when sessions
\* stay and attempts keep their process.
LEMMA HistoriesKept ==
  ASSUME HInv, HInv',
         \A e \in ExecutionIds : /\ execution'[e].process = execution[e].process
                                 /\ execution'[e].no = execution[e].no
                                 /\ execution'[e].status = execution[e].status
  PROVE  Histories' = Histories
  <1> SUFFICES ASSUME NEW p \in Processes, NEW m \in 1..MaxAttempt
               PROVE  AttemptState(p, m)' = AttemptState(p, m)
    BY DEF Histories
  <1>1. AttemptsOf(p)' = AttemptsOf(p) /\ AttemptsOf(p) \subseteq ExecutionIds
    BY DEF AttemptsOf
  <1>2. CASE \E e \in AttemptsOf(p) : execution[e].no = m
    BY <1>1, <1>2, StateIs, StateIsNext DEF HInv
  <1>3. CASE \A e \in AttemptsOf(p) : execution[e].no # m
    BY <1>1, <1>3, StateIs, StateIsNext, ExecutionAssumption DEF HInv
  <1> QED
    BY <1>2, <1>3

\* Work stays where it is as long as the sessions stay open and the attempts
\* keep their process.
LEMMA WorkKept ==
  ASSUME IInv, IInv', NEW u \in Users, OpenOf(u)' = OpenOf(u),
         \A s \in OpenOf(u) : /\ session'[s].execution = session[s].execution
                              /\ execution'[session[s].execution].process
                                   = execution[session[s].execution].process
  PROVE  WorkingOn(u)' = WorkingOn(u)
  <1>1. CASE OpenOf(u) = {}
    BY <1>1, WorkIs, WorkIsNext
  <1>2. CASE OpenOf(u) # {}
    <2>1. PICK s \in OpenOf(u) : TRUE
      BY <1>2
    <2>2. WorkingOn(u)' = execution'[session'[s].execution].process
      BY <2>1, WorkIsNext
    <2>3. WorkingOn(u) = execution[session[s].execution].process
      BY <2>1, WorkIs
    <2> QED
      BY <2>1, <2>2, <2>3
  <1> QED
    BY <1>1, <1>2

\* The insert of an attempt is Start, or nothing is seen.
LEMMA InsertStarts ==
  ASSUME HInv, HInv', NEW t \in Txns, InsertExecution(t), execution' # execution
  PROVE  \E p \in Processes : Lifecycle!Start(p)
  <1>1. PICK q \in Processes, n \in 1..MaxAttempt, d \in ExecutionIds :
          /\ execution[d].status = "absent" /\ execution[d].process = None
          /\ ActiveOn(q) = {} /\ IsNextAttempt(n, q)
          /\ execution'[d].process = q /\ execution'[d].no = n
          /\ execution'[d].status = "active"
          /\ \A f \in ExecutionIds : f # d => execution'[f] = execution[f]
          /\ session' = session
    BY InsertedRow DEF HInv
  <1>2. None \notin Processes /\ q # None /\ n \in Nat
    BY ScopeAssumption, ExecutionAssumption DEF Nodes
  <1>3. /\ d \in AttemptsOf(q)'
        /\ \A p \in Processes : \A f \in AttemptsOf(p) :
             f \in AttemptsOf(p)' /\ f # d /\ execution'[f] = execution[f]
        /\ \A p \in Processes : \A f \in AttemptsOf(p)' :
             f \in AttemptsOf(p) \/ (p = q /\ f = d)
    BY <1>1, <1>2 DEF AttemptsOf
  <1>4. ASSUME NEW p \in Processes, NEW m \in 1..MaxAttempt
        PROVE  AttemptState(p, m)' = IF p = q /\ m = n THEN "active" ELSE AttemptState(p, m)
    <2>1. CASE p = q /\ m = n
      BY <1>1, <1>3, <2>1, StateIsNext DEF HInv
    <2>2. CASE ~(p = q /\ m = n) /\ \E e \in AttemptsOf(p) : execution[e].no = m
      <3>1. PICK e \in AttemptsOf(p) : execution[e].no = m
        BY <2>2
      <3>2. e \in AttemptsOf(p)' /\ execution'[e] = execution[e]
        BY <1>3
      <3> QED
        BY <2>2, <3>1, <3>2, StateIs, StateIsNext DEF HInv
    <2>3. CASE ~(p = q /\ m = n) /\ \A e \in AttemptsOf(p) : execution[e].no # m
      <3>1. \A e \in AttemptsOf(p)' : execution'[e].no # m
        BY <1>1, <1>3, <2>3
      <3> QED
        BY <2>3, <3>1, StateIs, StateIsNext, ExecutionAssumption DEF HInv
    <2> QED
      BY <2>1, <2>2, <2>3
  <1>5. Histories[q][n] = "none"
    <2>1. \A f \in AttemptsOf(q) : execution[f].no # n
      BY <1>1, <1>2 DEF IsNextAttempt, AttemptsOf, HInv, IInv, TypeOK, ExecutionRow
    <2> QED
      BY <2>1, StateIs DEF Histories, HInv
  <1>6. ASSUME NEW m \in 1..MaxAttempt, m < n PROVE Histories[q][m] \in {"completed", "cancelled"}
    <2>1. PICK f \in AttemptsOf(q) : execution[f].no = n - 1
      BY <1>1, <1>2, <1>6, ExecutionAssumption DEF IsNextAttempt
    <2>2. PICK g \in AttemptsOf(q) : execution[g].no = m
      BY <1>2, <1>6, <2>1, ExecutionAssumption DEF HInv, NumbersDense
    <2>3. execution[g].status # "active"
      BY <1>1 DEF ActiveOn
    <2> QED
      BY <2>2, <2>3, StateIs DEF Histories, HInv
  <1>7. Histories' = [Histories EXCEPT ![q][n] = "active"]
    BY <1>4 DEF Histories
  <1>8. Workplaces' = Workplaces
    <2>1. ASSUME NEW u \in Users PROVE WorkingOn(u)' = WorkingOn(u)
      <3>1. OpenOf(u)' = OpenOf(u)
        BY <1>1 DEF OpenOf, IsOpen
      <3>2. \A s \in OpenOf(u) : /\ session[s].execution \in ExecutionIds
                                 /\ execution[session[s].execution].status = "active"
        BY DEF OpenOf, IsOpen, HInv, IInv, TypeOK, SessionRow, TablesOK, OpenWorkIsOnActiveAttempt
      <3>3. \A s \in OpenOf(u) : execution'[session[s].execution] = execution[session[s].execution]
        BY <1>1, <3>2
      <3> QED
        BY <1>1, <3>1, <3>3, WorkKept DEF HInv
    <2> QED
      BY <2>1 DEF Workplaces
  <1> QED
    BY <1>5, <1>6, <1>7, <1>8 DEF Lifecycle!Start, Lifecycle!Ended

\* The end of an attempt is End, sessions included, or nothing is seen.
LEMMA TransitionEnds ==
  ASSUME HInv, HInv', NEW t \in Txns, TransitionExecution(t),
         ~UNCHANGED <<execution, session>>
  PROVE  \E p \in Processes : \E outcome \in Lifecycle!Ended : Lifecycle!End(p, outcome)
  <1>1. PICK e \in ExecutionIds :
          /\ execution[e].status = "active"
          /\ execution'[e].status \in {"completed", "cancelled"}
          /\ execution'[e].process = execution[e].process
          /\ execution'[e].no = execution[e].no
          /\ \A f \in ExecutionIds : f # e => execution'[f] = execution[f]
          /\ session' = SessionsClosed(e, t)
    BY EndedRow DEF HInv
  <1>2. PICK q \in Processes : execution[e].process = q
    BY <1>1 DEF HInv, IInv, TypeOK, ExecutionRow, TablesOK, RowsLinked
  <1>3. PICK n \in 1..MaxAttempt : execution[e].no = n
    BY <1>2, StateIs DEF HInv, AttemptsOf
  <1>4. PICK outcome \in {"completed", "cancelled"} : execution'[e].status = outcome
    BY <1>1
  <1>5. /\ e \in AttemptsOf(q)
        /\ \A p \in Processes : /\ AttemptsOf(p)' = AttemptsOf(p)
                                 /\ AttemptsOf(p) \subseteq ExecutionIds
    BY <1>1, <1>2 DEF AttemptsOf
  <1>6. ASSUME NEW p \in Processes, NEW m \in 1..MaxAttempt
        PROVE  AttemptState(p, m)' = IF p = q /\ m = n THEN outcome ELSE AttemptState(p, m)
    <2>1. CASE p = q /\ m = n
      BY <1>1, <1>3, <1>4, <1>5, <2>1, StateIsNext DEF HInv
    <2>2. CASE ~(p = q /\ m = n) /\ \E f \in AttemptsOf(p) : execution[f].no = m
      <3>1. PICK f \in AttemptsOf(p) : execution[f].no = m
        BY <2>2
      <3>2. f # e /\ f \in AttemptsOf(p)' /\ execution'[f] = execution[f]
        BY <1>1, <1>2, <1>3, <1>5, <2>2, <3>1 DEF AttemptsOf
      <3> QED
        BY <2>2, <3>1, <3>2, StateIs, StateIsNext DEF HInv
    <2>3. CASE ~(p = q /\ m = n) /\ \A f \in AttemptsOf(p) : execution[f].no # m
      <3>1. \A f \in AttemptsOf(p)' : execution'[f].no # m
        BY <1>1, <1>5, <2>3
      <3> QED
        BY <2>3, <3>1, StateIs, StateIsNext, ExecutionAssumption DEF HInv
    <2> QED
      BY <2>1, <2>2, <2>3
  <1>7. Histories[q][n] = "active"
    BY <1>1, <1>3, <1>5, StateIs DEF Histories, HInv
  <1>8. Histories' = [Histories EXCEPT ![q][n] = outcome]
    BY <1>6 DEF Histories
  <1>9. ASSUME NEW u \in Users
        PROVE  WorkingOn(u)' = IF WorkingOn(u) = q THEN None ELSE WorkingOn(u)
    <2>0. began[t] # 0
      BY DEF TransitionExecution, Writes, HInv, IInv, Claims
    <2>1. \A s \in SessionIds :
            /\ session'[s].execution = session[s].execution
            /\ session'[s].worker = session[s].worker
            /\ IsOpen(s)' <=> IsOpen(s) /\ session[s].execution # e
      BY <1>1, <2>0 DEF SessionsClosed, OpenOn, IsOpen, HInv, IInv, TypeOK, SessionRow
    <2>2. \A s \in SessionIds : s \in OpenOf(u)' <=> s \in OpenOf(u) /\ session[s].execution # e
      BY <2>1 DEF OpenOf
    <2>3. \A s \in OpenOf(u) : s \in SessionIds /\ session[s].execution \in ExecutionIds
                               /\ execution[session[s].execution].status = "active"
      BY DEF OpenOf, IsOpen, HInv, IInv, TypeOK, SessionRow, TablesOK, OpenWorkIsOnActiveAttempt
    <2>4. CASE WorkingOn(u) = q
      <3>1. PICK s \in OpenOf(u) : execution[session[s].execution].process = q
        BY <1>2, <2>4, WorkIs, ScopeAssumption DEF HInv, Nodes
      <3>2. session[s].execution = e
        BY <1>1, <1>2, <2>3, <3>1 DEF HInv, IInv, TablesOK, OneActiveAttempt
      <3>3. OpenOf(u)' = {}
        <4>1. \A r \in OpenOf(u)' : r \in SessionIds
          BY DEF OpenOf
        <4>2. \A r \in OpenOf(u) : r = s
          BY <3>1, WorkIs DEF HInv
        <4> QED
          BY <2>2, <3>2, <4>1, <4>2
      <3> QED
        BY <2>4, <3>3, WorkIsNext DEF HInv
    <2>5. CASE WorkingOn(u) # q
      <3>1. \A s \in OpenOf(u) : session[s].execution # e
        BY <1>2, <2>5, WorkIs DEF HInv
      <3>2. OpenOf(u)' = OpenOf(u)
        <4>1. OpenOf(u)' \subseteq SessionIds /\ OpenOf(u) \subseteq SessionIds
          BY DEF OpenOf
        <4> QED
          BY <2>2, <3>1, <4>1
      <3>3. \A s \in OpenOf(u) : /\ session'[s].execution = session[s].execution
                                 /\ execution'[session[s].execution].process
                                      = execution[session[s].execution].process
        BY <1>1, <2>1, <2>3, <3>1
      <3> QED
        BY <2>5, <3>2, <3>3, WorkKept DEF HInv
    <2> QED
      BY <2>4, <2>5
  <1>10. Workplaces' = [u \in Users |-> IF Workplaces[u] = q THEN None ELSE Workplaces[u]]
    BY <1>9 DEF Workplaces
  <1>11. Lifecycle!End(q, outcome)
    BY <1>7, <1>8, <1>10 DEF Lifecycle!End
  <1> QED
    BY <1>11 DEF Lifecycle!Ended

\* The insert of a session is BeginWork, or nothing is seen.
LEMMA SessionBegins ==
  ASSUME HInv, HInv', NEW t \in Txns, InsertSession(t), session' # session
  PROVE  \E p \in Processes : \E u \in Users : Lifecycle!BeginWork(u, p)
  <1>1. PICK e \in ExecutionIds, w \in Users, q \in Processes, d \in SessionIds :
          /\ execution[e].process = q /\ execution[e].status = "active"
          /\ execution' = execution
          /\ OpenOf(w) = {} /\ session[d].execution = None
          /\ session'[d].execution = e /\ session'[d].worker = w
          /\ \A r \in SessionIds : r # d => session'[r] = session[r]
    BY InsertSessionEffect DEF HInv, IInv
  <1>2. session'[d].endedAt = 0
    <2>1. \E s \in SessionIds : session[s].execution = None /\ session'[s].endedAt = 0
                                /\ \A r \in SessionIds : r # s => session'[r] = session[r]
      BY DEF InsertSession, HInv, IInv, TypeOK
    <2>2. e # None
      BY ExecutionAssumption
    <2> QED
      BY <1>1, <2>1, <2>2
  <1>3. e # None /\ q # None
    BY ExecutionAssumption, ScopeAssumption DEF Nodes
  <1>4. Histories' = Histories
    BY <1>1, HistoriesKept
  <1>5. WorkingOn(w) = None
    BY <1>1, WorkIs DEF HInv
  <1>6. WorkingOn(w)' = q
    <2>1. d \in OpenOf(w)'
      BY <1>1, <1>2, <1>3 DEF OpenOf, IsOpen
    <2> QED
      BY <1>1, <2>1, WorkIsNext DEF HInv
  <1>7. ASSUME NEW u \in Users, u # w PROVE WorkingOn(u)' = WorkingOn(u)
    <2>1. \A s \in SessionIds : s \in OpenOf(u)' <=> s \in OpenOf(u)
      BY <1>1, <1>7 DEF OpenOf, IsOpen
    <2>2. OpenOf(u)' = OpenOf(u)
      <3>1. OpenOf(u)' \subseteq SessionIds /\ OpenOf(u) \subseteq SessionIds
        BY DEF OpenOf
      <3> QED
        BY <2>1, <3>1
    <2>3. \A s \in OpenOf(u) : session'[s] = session[s]
      BY <1>1 DEF OpenOf, IsOpen
    <2> QED
      BY <1>1, <2>2, <2>3, WorkKept DEF HInv
  <1>8. Workplaces' = [Workplaces EXCEPT ![w] = q]
    BY <1>6, <1>7 DEF Workplaces
  <1>9. Lifecycle!Ongoing(q)
    <2>1. e \in AttemptsOf(q)
      BY <1>1 DEF AttemptsOf
    <2>2. execution[e].no \in 1..MaxAttempt /\ AttemptState(q, execution[e].no) = "active"
      BY <1>1, <2>1, StateIs DEF HInv
    <2> QED
      BY <2>2 DEF Lifecycle!Ongoing, Histories
  <1>10. Lifecycle!BeginWork(w, q)
    BY <1>4, <1>5, <1>8, <1>9 DEF Lifecycle!BeginWork, Workplaces
  <1> QED
    BY <1>10

\* The stop of a session is EndWork, or nothing is seen.
LEMMA SessionEnds ==
  ASSUME HInv, HInv', NEW t \in Txns, CloseSession(t), session' # session
  PROVE  \E u \in Users : Lifecycle!EndWork(u)
  <1>0. cmd[t].row \in SessionIds /\ execution' = execution
    BY ClosedSession, CloseSessionEffect DEF HInv, IInv
  <1>1. PICK d \in SessionIds, w \in Users :
          /\ IsOpen(d) /\ session[d].worker = w
          /\ session' = [session EXCEPT ![d] = [session[d] EXCEPT !.endedAt = began[t]]]
    <2>1. cmd[t].actor \in Users /\ session[cmd[t].row].worker = cmd[t].actor
      BY ClosedSession, CloseSessionEffect, CommandFields DEF CanStop, HInv, IInv
    <2> QED
      BY <1>0, <2>1 DEF CloseSession
  <1>2. began[t] # 0
    BY DEF CloseSession, Writes, HInv, IInv, Claims
  <1>3. /\ ~IsOpen(d)' /\ session'[d].worker = session[d].worker
        /\ \A r \in SessionIds : r # d => session'[r] = session[r]
    BY <1>1, <1>2 DEF IsOpen, HInv, IInv, TypeOK, SessionRow
  <1>4. d \in OpenOf(w)
    BY <1>1 DEF OpenOf
  <1>5. Histories' = Histories
    BY <1>0, HistoriesKept
  <1>6. WorkingOn(w) # None
    BY <1>4, WorkIs, ScopeAssumption DEF HInv, Nodes
  <1>7. WorkingOn(w)' = None
    <2>1. \A r \in OpenOf(w) : r = d
      BY <1>4, WorkIs DEF HInv
    <2>2. OpenOf(w)' = {}
      BY <1>3, <2>1 DEF OpenOf, IsOpen
    <2> QED
      BY <2>2, WorkIsNext DEF HInv
  <1>8. ASSUME NEW u \in Users, u # w PROVE WorkingOn(u)' = WorkingOn(u)
    <2>1. d \notin OpenOf(u) /\ d \notin OpenOf(u)'
      BY <1>3, <1>4, <1>8 DEF OpenOf
    <2>2. \A s \in SessionIds : s # d => (s \in OpenOf(u)' <=> s \in OpenOf(u))
      BY <1>3 DEF OpenOf, IsOpen
    <2>3. OpenOf(u)' = OpenOf(u)
      <3>1. OpenOf(u)' \subseteq SessionIds /\ OpenOf(u) \subseteq SessionIds
        BY DEF OpenOf
      <3> QED
        BY <2>1, <2>2, <3>1
    <2>4. \A s \in OpenOf(u) : session'[s] = session[s]
      BY <1>3, <2>1 DEF OpenOf
    <2> QED
      BY <1>0, <2>3, <2>4, WorkKept DEF HInv
  <1>9. Workplaces' = [Workplaces EXCEPT ![w] = None]
    BY <1>7, <1>8 DEF Workplaces
  <1>10. Lifecycle!EndWork(w)
    BY <1>5, <1>6, <1>9 DEF Lifecycle!EndWork, Workplaces
  <1> QED
    BY <1>10

\* A step of the transactions is a step of the life cycle or a stutter.
LEMMA StepsOfLife ==
  ASSUME HInv, HInv', [Next]_vars
  PROVE  [Lifecycle!Next]_<<Histories, Workplaces>>
  <1>1. CASE UNCHANGED <<execution, session>>
    <2>1. Histories' = Histories
      BY <1>1, HistoriesKept
    <2>2. ASSUME NEW u \in Users PROVE WorkingOn(u)' = WorkingOn(u)
      <3>1. OpenOf(u)' = OpenOf(u)
        BY <1>1 DEF OpenOf, IsOpen
      <3> QED
        BY <1>1, <3>1, WorkKept DEF HInv
    <2>3. Workplaces' = Workplaces
      BY <2>2 DEF Workplaces
    <2> QED
      BY <2>1, <2>3
  <1>2. ASSUME NEW t \in Txns, Write(t), ~UNCHANGED <<execution, session>>
        PROVE  Lifecycle!Next
    <2>1. CASE InsertExecution(t)
      <3>1. execution' # execution
        BY <1>2, <2>1 DEF InsertExecution
      <3> QED
        BY <2>1, <3>1, InsertStarts DEF Lifecycle!Next
    <2>2. CASE TransitionExecution(t)
      BY <1>2, <2>2, TransitionEnds DEF Lifecycle!Next
    <2>3. CASE InsertSession(t)
      <3>1. session' # session
        BY <1>2, <2>3 DEF InsertSession
      <3> QED
        BY <2>3, <3>1, SessionBegins DEF Lifecycle!Next
    <2>4. CASE CloseSession(t)
      <3>1. session' # session
        BY <1>2, <2>4 DEF CloseSession
      <3> QED
        BY <2>4, <3>1, SessionEnds DEF Lifecycle!Next
    <2>5. CASE AssignProcess(t) \/ UpdateStatus(t)
      BY <1>2, <2>5 DEF AssignProcess, UpdateStatus
    <2> QED
      BY <1>2, <2>1, <2>2, <2>3, <2>4, <2>5 DEF Write
  <1> QED
    BY <1>1, <1>2, OnlyWritesChange DEF tables

\* The transactions implement the life cycle: whatever interleaves, attempts
\* follow each other and an end sends everybody home in the same step.
THEOREM RefinesLifecycle == Spec => ImplementsLifecycle
  <1>1. Init => Lifecycle!Init
    <2> SUFFICES ASSUME Init PROVE Lifecycle!Init
      OBVIOUS
    <2>1. \A p \in Processes : AttemptsOf(p) = {}
      BY ScopeAssumption DEF Init, NoExecution, AttemptsOf, Nodes
    <2>2. \A u \in Users : OpenOf(u) = {}
      BY DEF Init, NoSession, OpenOf, IsOpen
    <2>3. \A p \in Processes : \A m \in 1..MaxAttempt : AttemptState(p, m) = "none"
      BY <2>1 DEF AttemptState
    <2>4. \A u \in Users : WorkingOn(u) = None
      BY <2>2 DEF WorkingOn
    <2> QED
      BY <2>3, <2>4 DEF Lifecycle!Init, Histories, Workplaces
  <1>2. Init => NumbersDense
    BY ScopeAssumption DEF Init, NoExecution, NumbersDense, AttemptsOf, Nodes
  <1>3. IInv /\ NumbersDense /\ [Next]_vars => NumbersDense'
    BY DensityKept
  <1>4. /\ IInv /\ AttemptsNumbered /\ NumbersDense
        /\ IInv' /\ AttemptsNumbered' /\ NumbersDense' /\ [Next]_vars
        => [Lifecycle!Next]_<<Histories, Workplaces>>
    BY StepsOfLife DEF HInv
  <1> QED
    BY <1>1, <1>2, <1>3, <1>4, Invariance, AttemptsAreNumbered, PTL
    DEF Spec, ImplementsLifecycle, Lifecycle!Spec

=============================================================================
