------------------------------ MODULE Progress ------------------------------
(***************************************************************************)
(* The progress figures of a work item, a section and a project, derived   *)
(* from the attempts whenever somebody asks.  Every figure is one SQL      *)
(* statement, so it is a function of one committed state and of the links  *)
(* between the sections, which may form any forest.                        *)
(***************************************************************************)
EXTENDS ExecutionProperties, Functions

\* Figures count and add up rows.
ASSUME ProgressAssumption == IsFiniteSet(Processes) /\ IsFiniteSet(Items)

\* Defect: the processes of items that are labelled completed are left out.
CountsOpenItems(p) ==
  status[p] = "active" /\ status[ItemOf[p]] = "active" /\ status[SectionAbove(p)] = "active"

\* A process counts while it, its item and its own section can be reached.
Counted(p) ==
  /\ status[p] = "active"
  /\ status[ItemOf[p]] # "archived"
  /\ status[SectionAbove(p)] = "active"

Completed(p) == \E e \in AttemptsOf(p) : execution[e].status = "completed"
Running(p)   == \E e \in AttemptsOf(p) : execution[e].status = "active"
Done(p)      == Completed(p) /\ ~Running(p)

\* Half of the total is added before the division, which rounds half up.
Percent(completed, total) ==
  IF total = 0 THEN None ELSE (100 * completed + total \div 2) \div total

\* The three counts of a set of processes, each process once.
Aggregate(S) ==
  LET completed == Cardinality({p \in S : Done(p)})
      total     == Cardinality(S)
  IN  [completed |-> completed,
       active    |-> Cardinality({p \in S : Running(p)}),
       total     |-> total,
       percent   |-> Percent(completed, total)]

-----------------------------------------------------------------------------
(* Walking down the sections: each section is linked to its parent or to None. *)

SectionsIn(x) == {s \in Sections : ProjectOf[s] = x}

\* No link leaves its project, and no set of sections is without a way out.
Forests ==
  {f \in [Sections -> Sections \cup {None}] :
     /\ \A s \in Sections : f[s] # None => ProjectOf[f[s]] = ProjectOf[s]
     /\ \A S \in SUBSET Sections : S # {} => \E s \in S : f[s] \notin S}

\* The walk from section s: the least set that holds it and the children of its
\* members.
Walk(f, s) ==
  LET P == SectionsIn(ProjectOf[s])
      Closed(S) == s \in S /\ \A q \in P : f[q] \in S => q \in S
  IN  {r \in P : \A S \in SUBSET P : Closed(S) => r \in S}

\* Defect: only the sections without a parent are walked from.
WalkFromRoots(f, x) ==
  LET P == SectionsIn(x) IN {w \in P \X P : f[w[1]] = None /\ w[2] \in Walk(f, w[1])}

\* The walk from every section of project x at once: the least set of pairs
\* that holds <<s, s>> for each and, with a pair, the children of its second
\* section under the same first.
PairWalk(f, x) ==
  LET P == SectionsIn(x)
      Closed(W) == /\ \A s \in P : <<s, s>> \in W
                   /\ \A s, r, q \in P : <<s, r>> \in W /\ f[q] = r => <<s, q>> \in W
  IN  {w \in P \X P : \A W \in SUBSET (P \X P) : Closed(W) => w \in W}

\* What the two walks find in each forest, as pairs of a section and one below.
Trees ==
  LET pairs == {<<s, r>> : s \in Sections, r \in Sections} IN
  {[single |-> {w \in pairs : w[2] \in Walk(f, w[1])},
    joint  |-> {w \in pairs : w \in PairWalk(f, ProjectOf[w[1]])}] : f \in Forests}

-----------------------------------------------------------------------------
(* The figures of one row. *)

ItemScope(i) == {p \in Processes : ItemOf[p] = i /\ Counted(p)}

\* The walk goes through archived sections as well.
SectionScope(tree, s) ==
  {p \in Processes : <<s, SectionAbove(p)>> \in tree.single /\ Counted(p)}

ProjectScope(x) == {p \in Processes : ProjectAbove(p) = x /\ Counted(p)}

ForItem(i)          == Aggregate(ItemScope(i))
ForSection(tree, s) == Aggregate(SectionScope(tree, s))
ForProject(x)       == Aggregate(ProjectScope(x))

\* The lists group one statement's processes; a row without a group shows the
\* default.
Shown(groups, n) == IF n \in DOMAIN groups THEN groups[n] ELSE Aggregate({})

ForItems(s) ==
  LET found == {p \in Processes : SectionAbove(p) = s /\ Counted(p)} IN
  [i \in {ItemOf[p] : p \in found} |-> Aggregate({p \in found : ItemOf[p] = i})]

ForSections(tree, x) ==
  LET found == {r \in Sections \X Processes :
                  /\ ProjectOf[r[1]] = x /\ <<r[1], SectionAbove(r[2])>> \in tree.joint
                  /\ Counted(r[2])}
  IN [s \in {r[1] : r \in found} |-> Aggregate({p \in Processes : <<s, p>> \in found})]

ForProjects ==
  LET found == {p \in Processes : Counted(p)} IN
  [x \in {ProjectAbove(p) : p \in found} |-> Aggregate({p \in found : ProjectAbove(p) = x})]

-----------------------------------------------------------------------------
(* Properties. *)

\* Work in progress shows at every level: a process with an active attempt is
\* among the active ones of its item, of every section at or above its own, and
\* of its project, whatever was archived or completed around it and however the
\* sections hang below each other.
RunningWorkShows ==
  \A p \in Processes : ActiveOn(p) # {} =>
    /\ ForItem(ItemOf[p]).active > 0
    /\ \A tree \in Trees, s \in Sections :
         <<s, SectionAbove(p)>> \in tree.single => ForSection(tree, s).active > 0
    /\ ForProject(ProjectAbove(p)).active > 0

\* figure is the sum of the figures of the work items in I.
SumsUp(figure, I) ==
  /\ figure.completed = SumFunction([i \in I |-> ForItem(i).completed])
  /\ figure.active = SumFunction([i \in I |-> ForItem(i).active])
  /\ figure.total = SumFunction([i \in I |-> ForItem(i).total])
  /\ figure.completed + figure.active <= figure.total
  /\ figure.percent \in IF figure.total = 0 THEN {None} ELSE 0..100

\* No two surfaces disagree: a list shows what the detail view shows, although
\* the list of sections is computed by another walk, and the figures of a
\* section, of a project are the sums over the work items below, however the
\* sections hang below each other.
FiguresAddUp ==
  /\ \A i \in Items : Shown(ForItems(SectionOf[i]), i) = ForItem(i)
  /\ \A tree \in Trees, x \in Projects :
       LET list == ForSections(tree, x) IN
       \A s \in SectionsIn(x) :
         /\ Shown(list, s) = ForSection(tree, s)
         /\ SumsUp(Shown(list, s), {i \in Items : <<s, SectionOf[i]>> \in tree.single})
  /\ \A x \in Projects : /\ Shown(ForProjects, x) = ForProject(x)
                         /\ SumsUp(ForProject(x), {i \in Items : ProjectAbove(i) = x})
=============================================================================
