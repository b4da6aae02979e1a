# A formal model of surec_takip

surec_takip tracks work in projects: a tenant (organization) has workspaces, a
workspace has projects, a project has a tree of sections, a section has work
items, a work item has processes. A process is executed in numbered attempts,
and workers record time sessions on the active attempt. The server is stateless
Rust (axum, sqlx) over one PostgreSQL database; all state is in its tables, and
all concurrency is between database transactions at READ COMMITTED.

## Inventory

| Component | State | Operations | What makes it correct |
|---|---|---|---|
| process executions (`process_executions.rs`) | attempts: number, status, times, assignee snapshot | start, complete, cancel, list; four archive guards | one active attempt per process, numbers 1, 2, ... , ended attempts immutable, an active attempt reachable |
| time sessions (`time_sessions.rs`) | sessions: worker, start, end | start, stop, close with the attempt | one open session per worker in the tenant, open only on an active attempt, recorded time immutable |
| sections (`sections.rs`) | parent, position, status | create; update (move, position, status); list | a forest within the project, hung under active sections, archived only without active work below |
| processes (`processes.rs`) | position, status, required flag, assignee | create, update, reorder, assign | positions of active processes distinct, assignee a current member |
| work items (`work_items.rs`) | position, status | create, update | archived only without active work |
| projects (`projects.rs`) | status | create, update | `archived` never becomes `completed`, archived only without active work |
| request contexts (`context.rs`) | none | resolve organization, workspace, ..., attempt, session of a path | nothing is reachable outside the caller's memberships and the open parent chain |
| membership and roles (`rbac.rs`, `permissions.rs`) | memberships, roles, grants | authorise (with and without row locks), deactivate, reactivate, grant owner | no write after a revocation, no privilege survives a deactivation |
| invitations (`invitations.rs`) | invitation rows | create (replaces), revoke, accept | one live token per address, consumed once together with the membership |
| organizations, workspaces | rows with a first membership and built-in roles | create, list | created whole |
| authentication (`auth.rs`, `users.rs`) | users, login sessions | login, logout, resolve | a revoked or expired session resolves nobody |
| progress (`progress.rs`) | none | aggregates for work items, sections, projects, one by one and in lists | the surfaces agree, no work in progress drops out |
| HTTP, configuration, command line, migrations | none shared | start-up, routing, errors, one-shot tools | - |
| web client (`apps/web`) | none durable | pages over the API, pure tree helpers | helpers never loop and never invent parents |

How they interact. A request first resolves its path (contexts: autocommit
reads), then opens a transaction. Every write at or below a project locks the
project row `FOR UPDATE`; writes below a section also verify the chain and lock
the section and the caller's membership and role rows `FOR SHARE`
(`work_items::lock_parent`, `processes::lock_parent`,
`process_executions::lock_parent`, `rbac::lock_workspace_permission_in_tx`).
Archiving calls the guards of `process_executions`; a terminal transition calls
`time_sessions::close_open_sessions_in_tx`. Deactivating a membership shares no
lock with project and section updates, and meets everybody else at the
membership row.

What is hard: the interleaving of transactions between resolution, lock, checks
and commit; `now()`, which is the time of BEGIN and is not ordered like the
commits; one rule (a worker's single open session) that crosses project locks;
tree rearrangements that are only wrong together; revocation racing a write;
integer columns at their limit; rollback at any point. PROJECT.json lists each
hazard at its line with the properties that would notice it going wrong.

## Modules

| Module | Models |
|---|---|
| `WorkScope` | what all levels share: rows with status, the parent chain, members, transactions and the project lock, revocation, the clock |
| `Executions` | attempts, time sessions, assignment and status changes as concurrent transactions |
| `ExecutionProperties` | the properties of `Executions` and the refinement mapping |
| `Admission` | the abstract promise of the locks: an admitted write is alone in its project, and the rights it was admitted by stay in force |
| `ScopeProofs` | TLAPS lemmas about the transactions of `WorkScope`, for every module that extends it: they implement `Admission` |
| `AttemptLifecycle` | the abstract promise: attempts follow each other, a user works on at most one ongoing process |
| `Progress` | the progress figures as operators on the rows of `Executions`, and their properties |
| `ExecutionProofs`, `HistoryProofs` | TLAPS proofs about `Executions`; the second about what attempts and sessions leave behind and the refinement of `AttemptLifecycle` |
| `ProgressProofs` | TLAPS proof that the figures of `Progress` add up |
| `MCExecutions` | instances for TLC |
| `ProcessOrder` | positions: work items and processes are created, updated and archived, and a reorder renumbers the processes of an item row by row |
| `OrderedSteps` | the abstract promise: one ordered list per work item |
| `ProcessOrderProofs` | TLAPS proofs about `ProcessOrder` |
| `MCProcessOrder` | the instance for TLC |
| `SectionTree` | the section forest: create, move, position, archive, with attempts starting and ending on the items in it |
| `SectionForest` | the abstract promise: requests on the tree happen one by one, and a subtree is read upwards |
| `SectionTreeProofs` | TLAPS proofs about `SectionTree` |
| `MCSectionTree` | instances for TLC |
| `Membership` | invitations, memberships and role assignments of one organization, statement by statement |
| `InvitationBook` | the abstract promise: invitations and memberships change by whole requests, one by one |
| `MembershipProofs` | TLAPS proofs about `Membership` |
| `MCMembership` | the instance for TLC |
| `RowLocks` | the row locks of writes below a project, of the administration of members and of acceptances, one row at a time |
| `RowLockProofs` | TLAPS proofs about `RowLocks` |
| `MCRowLocks` | the instance for TLC |

### Transactions under a project lock (`WorkScope`, `Executions`, `SectionTree`, `ProcessOrder`)

A transaction is a command in one of the phases `idle`, `begun`, `locked`,
`checked`.

* `Begin` is the context: membership and an open chain at that moment, the row of
  the path exists, `now()` is fixed (`began`).
* `Lock` is the statement that gets the project row, together with the
  verification of the chain and of the permission that follow it under the lock.
  A transaction that is not admitted rolls back. `Admitted` follows the code: a
  section update authorises after the lock, a project update before it and not
  again.
* `Check` is everything a command reads and every early return. What it will
  write later is remembered (`seen`, `plan`): the attempt number and the assignee
  snapshot, or the section's row.
* The writes apply the statement and commit. Nothing is visible to others before
  a commit, so a write and its commit are one step; several statements of one
  write (the transition and the close of its sessions) are one step for the same
  reason. A constraint that rejects a statement rolls everything back.
* `Abort` is a lost connection, a dropped request or a crash, at any point.

Splitting `Check` from the write is what lets other transactions in between and
makes the properties about stale reads meaningful. Reads of rows that the project
lock does not protect (the worker's sessions in other projects) may change there,
and the unique index decides at the write (`SessionIsUnique`).

Membership is one fact per user: active in organization and workspace, with the
permissions of the role. `Shared` names the users whose rows a transaction holds
`FOR SHARE`; `Revoke` waits for it. Reasons, names, slugs, descriptions and the
user who ended an attempt are left out: no property depends on them.

In `Executions` the section tree is fixed (`Subtree`, any relation that stays in
a project); `SectionTree` changes it, with attempts reduced to "work item i has
active work". Rows exist from the start in `Executions`, since creating projects,
work items and processes adds rows nobody refers to yet; `ProcessOrder` creates work
items and processes, with attempts reduced to "process p has active work".

What the lock and the shared rows are for is stated once, as `Admission`: a writer is
admitted to one project by rights in force, is alone there until it finishes, and a
change of rights spares those an admitted writer relies on. `WorkScope` implements it
with the holder of a project lock as the admitted writer and the members it shares as
its rights. `RowLocks` implements the same module row by row. So the step in which
`WorkScope` revokes a user, waiting for whoever shares the user's rows, is what the
statements of `RowLocks` come to.

### Sections (`SectionTree`, `SectionForest`)

`SectionForest` has no transactions: create, update, start and end of work are one
step each, and the sections below s are those from which s is reached by going from
parent to parent. `SectionTree` implements it with its committed rows, so a commit
does what its request may do at that moment, although its checks were made earlier
and went down the tree (`Descendants`, the recursive query of the guards). A create
is at its commit active and hung under an active section, an archive finds no work
below, and no parent link leaves the project.

### Positions (`ProcessOrder`, `OrderedSteps`)

The transactions are those of `WorkScope`. What is new is the position column. The
active processes of a work item are kept distinct by a partial unique index that
PostgreSQL checks row by row, inside the statement. So a reorder is not one step: it
is two UPDATE statements (`round` 1 and 2), and `MoveRow` writes one row of the
current statement, in any order, into the transaction's `draft`. `IndexAccepts` is
the index as the transaction sees it, its own written rows included. `CommitReorder`
publishes the draft. The other writes are one statement on one row each.

The code lifts the rows above the maximum first and then writes the ordinals.
`ReorderDrafts` has its refusal when the lifted range does not fit the column;
creation has one when the next position does not fit.

`OrderedSteps` is what a client may rely on: a process is appended to the list of
its item, removed from it, or the list is permuted as a whole. The refinement maps
an active process to a listed one and "has the lower position" to "comes before".

### Progress (`Progress`)

Each figure of `progress.rs` is one SQL statement, so an operator on one committed
state: the detail queries (`ForItem`, `ForSection`, `ForProject`) and the list
queries (`ForItems`, `ForSections`, `ForProjects`) with their different joins. Two of
them are recursive. `Walk` is the walk from one section (`SUBTREE_CTE`), `PairWalk` the
walk from all sections of a project at once that carries pairs of a root and a node; a
recursive query adds rows until nothing is new, so its result is the least set closed
under its step. The links between sections are no variable here: a figure depends on
the tree of its own moment only, so the properties quantify over every forest the
sections can form (`Forests`: links stay in the project and close no cycle). However
sections were moved, the tree that results is among them. `Trees` tabulates what the two walks
find in each forest. The list and detail queries are compared with each other in every
reachable state of the run `scope`.
`Percent` rounds half up as the code does: 199 of 200 shows 100.

### Transactions without a common lock (`Membership`)

Invitations, memberships and roles have no project row to meet at, so `Membership`
is finer: a step is one SQL statement, in the order of the handler (`stage` is the
next one).

* `row` is what is committed. `writes[t]` are the uncommitted rows of transaction
  t, visible to itself only (`View`) and each locked (`Free`). `Commit` publishes
  them, `Abort` drops them.
* A statement that waits for a row reads it again when it gets the lock (the rule
  of READ COMMITTED), so it is one step at that moment. A statement over several
  rows finds them first and then locks them one after the other: for the DELETE of
  a user's assignments this is visible and is two steps, `Clear` and `Delete`. For
  the revocation of the older invitations (`Replace`) it is one: an invitation
  opened while the statement waits, and missed by it, makes the unique index
  reject the `Insert`, which is `Abort`.
* `assign_owner`, `reactivate_membership` and the revocation of an invitation are
  single statements without a transaction (`Autocommit`). `assign_owner` checks the
  membership by a statement of its own before (`CheckMember`, `Assign`).
* `late` is whether the invitation had expired at BEGIN: the acceptance compares
  `expires_at` with `now()`.
* `InvitationBook` is what the statements of invitations and memberships come to: an
  invitation is issued (and every other open one to the user closed), withdrawn or
  accepted, and a member leaves or returns, each in one step. The mapping takes the
  committed rows. Roles are not part of it: an owner assignment is not one step of
  anything (finding 4).

Who makes these requests: owners invite and revoke, invitees accept, over HTTP.
The owner role is assigned by the command line tool `user-admin`. Deactivation and
reactivation are functions of the server that only its tests call so far; they are
modelled because their comments define what the other operations must cope with.
The secret of a token, the organization's own creation and end, and roles in a
workspace are left out; the two built-in roles stand for all.

### Row locks (`RowLocks`)

`WorkScope` reduces a revocation to one step that waits for the users whose rows are
shared. `RowLocks` is the justification of that step (both implement `Admission`; here
the rights are pairs of a command and a user who is entitled to it), and answers what the coarser
modules cannot ask: who may wait for whom. Its state is the rows that are in force
(`live`) and, per transaction, its command, the statement it is at (`stage`), the rows
that statement has still to lock (`left`), the next of them (`aim`), and what it holds
shared and exclusively. A write below a project locks the project, the actor's two
memberships, a role that grants the command and, for an assignment, the assignee's
memberships; a start of work then takes the worker's slot in the index of open
sessions. A deactivation locks the membership and then the roles it deletes. An
acceptance reads without a lock whether the user is a member and, if not, deletes
the old roles first.

Assumed of PostgreSQL, which is not in the repository: a statement finds its rows
when it starts and locks them in no particular order; a row that changed while the
statement waited is checked again; a share lock joins other share locks; locks are
kept to the end; a circle of waiting transactions is found and one of them is rolled
back (`Detect`).

Some definitions are marked "Defect". They are plausible mistakes in the
definition that follows; with one of them in place of the original, TLC must find
the property named in PROJECT.json violated.

## Runs

| Run | Instance | Shows |
|---|---|---|
| `work` | 1 process, 2 workers (one runs the attempts, both record sessions), 2 connections, 2 attempts, 2 sessions, clock 2 | types, one active attempt, open work on active attempts, ordered times, checks that hold until the write, immutable history, sessions closed for a reason |
| `scope` | section with subsection, 2 users, 2 connections, status changes at every level, a process given to the colleague or to nobody | reachable work, safe archiving, current snapshots, authority until the commit, running work in the figures, figures that add up, refinement of `Admission` |
| `rivals` | 2 projects with a process each, 1 worker, 2 connections, fairness | one open session across locks, numbering, every transaction ends, refinement of `AttemptLifecycle` |
| `order` | 2 work items, 4 processes, 2 connections, positions up to 6 | types, the index never rejects, reorders as requested, appended last, open parents, archiving final, refinement of `OrderedSteps` |
| `locks` | 2 projects, 2 workers, 3 connections; assignments across each other, a start of work, every way to leave and to join | types, circles of waiting, authority in force at the commit, refinement of `Admission` |
| `moves` | 3 sections of one project, 2 connections, positions up to 2 | types, forest, hung under active sections, appended last |
| `subtree` | a chain of 3 sections and a section of another project, 1 item | archiving finds the work below, refinement of `SectionForest` |
| `members` | founder and guest, 2 invitations, 3 connections | types, no member role without membership, one live token, acceptance joins, refinement of `InvitationBook` |
| `autoclose` | violation | see findings |
| `interval` | violation | see findings |
| `revoke` | violation | see findings |
| `resurrect` | violation, 2 connections | see findings |

The bounds. Every race of this code is between the holder of a project lock and
one other transaction, a revocation or the clock, so two connections are enough
to show it; the proofs cover any number. Two attempts give a retry, two sessions
a colleague or a second session. `MaxAttempt` and `MaxPosition` stand for the
largest value of an integer column and are reached, so that the refusal past them
is exercised; the numbers of `ExecutionIds` and `SessionIds` only bound the
tables (an insert that finds no free id is a failed insert). `MaxClock` is 2
where times matter: an order of BEGINs opposite to the order of commits needs two
instants. Three sections are the smallest tree in which two moves that are
acyclic alone close a cycle with something in between. Attempts, sessions and
connections are interchangeable in `work`, `scope` (symmetry); runs with liveness
use none. `members` has two invitations, so that one is used, revoked or replaced
while another is created, and three connections, so that an acceptance, a
deactivation and an operator (or a second acceptance) are under way together; no
rule relates two invitees, so one is enough. Its connections and invitations are
interchangeable. `order` has four processes and the reorders of two and of three of
them, so that a reorder follows an append, an archiving and another reorder, and the
position column (0 to 6) is too narrow for some of these sequences: a creation and
the first statement of a reorder are both refused in it. Duplicates in a request and
a request that no longer names all active processes are among the commands. `locks`
has three connections, the fewest with which two assignments across each other and a
departure of one of the two users are under way together. The largest runs are
`locks` (about 950,000 distinct states), `work` (650,000) and `order`
(390,000); `scope` has about 270,000. The two sections of `scope` form three forests;
that the walks agree in larger ones is proved (`JointWalkAgrees`).

Deadlock is checked in every run: an idle connection can always begin something
in these instances, and a transaction can always abort.

Fairness (`FairSpec`). Weak fairness of `Check \/ Write`: a connection that holds
the lock is running its next statements; nothing in the code waits for anything
else there. Strong fairness of `Lock`: PostgreSQL queues the waiters of a row
lock, so a waiter that is overtaken again and again is still served. No fairness
of `Begin`, `Abort` or the environment: nobody has to issue requests, and
liveness must not depend on crashes.

## Findings

1. **A transition can be rejected by the sessions it should close** (`autoclose`).
   `close_open_sessions_in_tx` writes `ended_at = now()`, the time the transition
   began. A COMPLETE that began before a START WORK but got the project lock after
   it would write an end before the start; the check constraint of the session
   table rejects it, and the request fails with an internal error. A retry
   succeeds. `TimesOrdered` shows the opposite order to be harmless: a worker's
   own stop always began after the session it names.
2. **A session may end after its attempt** (`interval`). A stop that began later
   but got the lock earlier than the transition is stamped with the later time.
   ADR 0019 says a session never exceeds the life of its execution.
3. **A project update is authorised before it waits for the lock** (`revoke`). A
   revocation that commits in between does not stop it, contrary to the comments
   in `projects.rs`. Updates of sections read the authority after the lock but
   without a row lock; everything below a section shares the rows, and
   `AuthorizedUntilCommit` holds there.
4. **An owner assignment can outlive the membership it was checked against**
   (`resurrect`). `assign_owner` reads the active membership and writes the role
   with two independent statements. A deactivation committed in between leaves the
   owner role on a deleted membership, and a reactivation makes it effective:
   `rbac.rs` says that a reactivation starts with no old privileges. The member
   role has no such path (`MemberRoleEndsWithMembership`): it is only granted
   under the lock on the membership row.

Some more behaviours of the model contradict no statement of the repository and are
recorded as hazards with a note: an acceptance may clear an owner role assigned
while it runs; a deactivation that meets no active membership still deletes the
assignments it finds; and the two of them can wait for each other, because the
acceptance of somebody who is not a member locks the roles before the membership.
The documents exclude a deadlock for the write paths below a project (ADR 0015,
ADR 0016, `time_sessions.rs`), and `CircleNeedsNonmember` confirms that: every circle
contains a transaction that found no active membership. PostgreSQL ends such a
circle by rolling one of its transactions back.

## Proofs

Each component's proofs are built around one inductive invariant (`HistoryProofs` adds
to that of `ExecutionProofs`, `ScopeProofs` and `ProgressProofs` need none of their
own), and all are checked by tlapm for every value of the constants. They assume what
the modules assume of their constants: `ScopeAssumption` and `ExecutionAssumption`,
`TreeAssumption` or `OrderAssumption` (the parent chain is a function, the four
levels are disjoint, `None` is no id, commands are well-formed, a subtree stays in
its project), `ProgressAssumption` (finitely many processes and work items,
since figures count and add them up), `MembershipAssumption` (the founder is a user, an invitation names one) and
`LockAssumption` (commands are well-formed, `None` is no row).

`ExecutionProofs`. `IInv` = types, consistent tables (`TablesOK`), an exclusive
lock, and per transaction its `Claims`: the row of its path is in scope; while it
holds the lock the chain is open and the members it shares are active; once
checked, its reads are still true (`StillTrue`). None of the parts is inductive
alone: that an attempt can be inserted without breaking `OneActiveAttempt` needs
the inserter's claim that no attempt is active, that claim survives the writes of
others because they hold other projects' locks (`Untouched`, `ClaimsKept`), and
that rests on the exclusive lock. The single open session per worker is not
protected by that argument: its proof uses the unique index at the write only.

That the transactions implement `Admission` is proved in `ScopeProofs`, once for the
three modules that extend `WorkScope`. `ScopeStep` lists what a step may do to members
and transactions; `Sheltered` (whoever a transaction shares is a member) is inductive
under it; and every such step is a step of `Admission` or none. Each module has to show
only that its steps are `ScopeStep`s (`StepsAreScopeSteps`), whatever they write.

Proved: `TypeOK`, `ProjectLockIsExclusive`, `OneActiveAttempt`,
`OpenWorkIsOnActiveAttempt`, `OneOpenSessionPerWorker`, `ActiveWorkIsReachable`,
`ChecksStillHold`, and the action properties `AuthorizedUntilCommit`,
`ArchivingSparesActiveWork`, `SnapshotIsCurrent`, `HistoryIsFinal`, and the refinement
`ImplementsAdmission`.

`HistoryProofs` adds what is inductive once `IInv` holds before and after a step.

* `AttemptsNumbered`: the number inserted is the next one, since the reads of the
  inserter are still true (`InsertedRow`), and its predecessors have ended.
* `TimesOrdered` needs `Dated`: no time is later than the clock. A request takes its
  time after it resolved its row, so the row's start cannot be later, however long
  the lock takes (`RequestsKept`). A row that is inserted meanwhile is not the one
  another request names, which belongs to a process already.
* `SessionsCloseForAReason`: only the stop of the worker and the end of the attempt
  write the end of a session.
* `RunningWorkShows`: an active attempt is reachable (`ActiveWorkIsReachable`), and
  reachable is more than what the figures ask for.
* `ImplementsLifecycle`: an insert of an attempt is `Start`, a transition with the
  sessions it closes is `End`, an insert of a session `BeginWork`, a stop `EndWork`;
  everything else is a stutter. `Start` asks that all lower numbers have ended; that
  they exist is `NumbersDense`, kept as an invariant because it follows from
  `AttemptsNumbered` only by induction. That an end sends home exactly the workers of
  the process needs `OneActiveAttempt` and `OneOpenSessionPerWorker` together.

Proved: `AttemptsNumbered`, `TimesOrdered`, `RunningWorkShows`, the action property
`SessionsCloseForAReason` and the refinement `ImplementsLifecycle`.

`ProgressProofs`. `FiguresAddUp` compares definitions with each other, so it holds in
every state the rows can be in, and its proof needs no invariant. That the walk over
pairs finds under each root what the walk from that root finds is `JointWalkAgrees`: the
nodes that a closed set of pairs has under one root are a closed set, and the other way
round a closed set spread over all roots is a closed set of pairs. It also needs what
sums do over any number of rows: the sum over the items of their processes is the number of
processes of the items. The sum is a fold, defined by recursion over the subsets of a
finite set, and the library's induction rules take a predicate, which the provers
cannot instantiate. `SubsetInduction` therefore says the same of a set of subsets: among
finite sets, strict inclusion is well founded, so a nonempty set of counterexamples
would have a smallest one. From it follow counting (`CountingUp`), that the recursive
definition defines a function (`SumUnfolds`), and the sums.

Proved: `FiguresAddUp`.

`SectionTreeProofs`. `TInv` = types, `Forest` and `ParentsInProject`, an exclusive
lock, and per transaction what it is about to write (`Fits`). The heart is
`MoveKeepsForest`: hanging s under a section that is not below s closes no cycle;
otherwise take what lies on the cycle and is not below s, it would have been
closed under parents before. "Below" is the least set closed under children, as
the recursive query computes it, so no induction is needed. `Fits` survives the
writes of others because no parent link leaves a project. That archiving finds
the work below is proved twice: for `AtOrAbove` at the commit
(`ArchivedWithoutWork`), and as a step of `SectionForest`.

The refinement needs one more invariant, `WorkClaim`: what a transaction found about
the work item of its path is still so. `WalksAgree` ties the two readings of the tree
together. A section that the walk down does not collect is outside a set closed under
children, and the complement of that set is closed under parents; the other direction
takes the complement of a set closed under parents. It needs that parents exist,
`ParentsInProject`. `WriteIsRequest` then shows that every commit is the request it
carries out; an update of the position alone is a request that changes nothing here.

Proved: `TypeOK`, `Forest`, `ParentsInProject`, the action properties
`HungUnderActive`, `AppendedLast`, `ArchivedWithoutWork`, and the refinements
`ImplementsAdmission`, `ImplementsSectionForest`.

`MembershipProofs`. `IInv` = types, no row held twice (`LocksExclusive`), the two
invariants, and per transaction what it may count on (`Sound`). Two of its parts
carry the argument. `MembershipsHeld`: whoever has granted the member role holds
the membership as active. `RoleGoesWithMembership`: a deactivation that holds the
membership as deleted has seen every member role by the time it deletes. Both need
the membership row, so they exclude each other, and the order of their commits
does not matter. `CreationIsAlone` does the same for the unique index: between the
insert of an invitation and its commit no other to the address is opened. The
steps fall in two kinds, so the preservation has two lemmas: a statement changes
only its own transaction's rows (`PrivateStep`), and an end publishes or drops
them (`EndStep`).

That a commit is one whole request of `InvitationBook` needs `HoldsItsOwn`: the
uncommitted rows of a transaction are those its request names, in the states the request
gives them, and the committed rows under them are still what the statement that locked
them found, since nobody else can write a locked row. With `CreationIsAlone` it follows
that the insert of an invitation leaves none open that its `Replace` did not see.

Proved: `TypeOK`, `MemberRoleEndsWithMembership`, `OneLiveToken`, the action properties
`TokensAreFinal`, `AcceptedWithMembership`, and the refinement
`ImplementsInvitationBook`.

`ProcessOrderProofs`. `OInv` = types, `DistinctPositions`, an exclusive lock, and per
transaction what it counts on (`InProgress`): a checked creation comes after all rows
beside it, and a reorder has its visited rows where the current statement puts them
and the others where the last one left them (`Reordering`). These claims survive the
writes of other lock holders, which are in other projects. That the index accepts
every row in every order needs two ranges that do not meet: the first statement
writes base + 1 to base + n, above every stored position, the second 0 to n - 1.
They do not meet because n rows with distinct positions below base imply n <= base,
a pigeonhole argument on the cardinality of the set of positions. So distinctness is
needed to show that the index is never hit, and is kept without using the index.

Proved: `TypeOK`, `IndexNeverRejects`, the action properties `ReorderedAsRequested`,
`AppendedLast`, `WrittenUnderOpenParent`, `ArchivedIsFinal`, and the refinements
`ImplementsOrderedList`, `ImplementsAdmission`.

`RowLockProofs`. `IInv` says what a transaction has locked at each statement of its
command (`WritePlan`, `MemberPlan`), and that locks exclude each other. For the
circles no order on the rows is used, since a statement locks its rows in any order.
Take a circle without anybody who deletes the roles of a user whose membership it has
not locked (`FoundNoMember`). Whoever holds a membership or a role exclusively in it
has locked the membership of that user first and waits for a role of the same user
(`Anchored`): a deactivation, or an acceptance past its INSERT of the membership. A
writer that shares such a role shares the membership too (`SharersAreMembers`), so it
cannot be the holder, and two anchored transactions of one user exclude each other
(`AnchorsMeetOrgAnchors`, `OrgAnchorsAreFree`). Hence nobody anchored waits in the
circle, then no writer waits, and then nobody does. The exemption is needed for
deactivations as well as for acceptances: two deactivations that both found no active
membership can meet the roles of a new acceptance in opposite orders.

For `Admission`, a write is admitted once it is past the last statement that asks for
the actor's authority, and it is alone because it holds its project's row exclusively
from its first statement on. A right ends only when a deactivation commits that holds a
row of it exclusively, which excludes everybody who shares that row.

Proved: `TypeOK`, `AuthorityHolds`, `CircleNeedsNonmember`, and the refinement
`ImplementsAdmission`.

Three proved properties are in no run, because a refinement that a run checks implies
them: `ProjectLockIsExclusive` (`ImplementsAdmission`), `ParentsInProject`
(`ImplementsSectionForest`) and `TokensAreFinal` (`ImplementsInvitationBook`).

Only model-checked: liveness (`TransactionsEnd`), since liveness under fairness and
ENABLED are out of the prover's reach; and what the violation runs refute, since a proof
cannot show it. Recursive operators cannot be used below a proof; the modules have none.

## Not modelled

* Login sessions (`auth.rs`, `users.rs`): every operation is one statement on the one
  row its token digest selects; no request keeps a session across two statements of
  another, so a property would repeat a WHERE clause.
* Creation of organizations, workspaces and projects, and the list queries: new rows
  nobody refers to yet, and reads without a later write. What the creation of an
  organization commits is the initial state of `Membership`.
* Names, slugs, descriptions, reasons, the required flag: a taken slug is a rollback
  (`Abort`); nothing else depends on them.
* A list handler reads its rows and their figures in two statements, so the figures
  may be newer than the rows; no document promises more.
* Routing, formatting of errors, configuration, password hashing, migrations, the
  command line tools and the web pages: no state that two requests share.
* PostgreSQL itself is assumed: row locks, read committed visibility, `now()`,
  unique indexes and check constraints behave as documented. Its deadlock
  detection is `Detect` in `RowLocks` and part of `Abort` elsewhere.

## Plan

1. (done) `WorkScope`, `Executions`, `AttemptLifecycle`, `ExecutionProofs`: the
   behaviour the product is about.
2. (done) `SectionTree` and its proofs: the data structure under concurrent change.
3. (done) `Membership` and its proofs: the requests that share no lock.
4. (done) `ProcessOrder`, `OrderedSteps` and their proofs: positions under an index.
5. (done) `Progress`: the figures over the reachable states of `Executions` and every
   forest of sections.
6. (done) `RowLocks` and its proofs: the lock order between the writes below a
   project and the administration of members.
7. (done) `HistoryProofs`: numbering, times, ends of sessions, the refinement.
8. (done) `Admission`, `SectionForest`, `InvitationBook`: what the transactions come
   to, as refinements with proofs; `ProgressProofs`.
9. Open: one module in which rows are created and moved, as in `SectionTree` and
   `ProcessOrder`, while attempts run, as in `Executions`. Today each of them reduces
   the other to a fact per row ("has active work", a fixed tree).
