---------------------------- MODULE SectionForest ----------------------------
(***************************************************************************)
(* What a client may rely on when sections are created, moved and archived *)
(* while work starts and ends in them: requests happen one after the       *)
(* other, each in one step.  There are no transactions here, and the       *)
(* subtree of a section is read upwards, from parent to parent.            *)
(***************************************************************************)
CONSTANTS Sections, ProjectOf, Items, SectionOf, None

VARIABLES
  sections,  \* the sections that exist
  parent,    \* the section above a section; None for a root
  status,    \* "active" or "archived", per section
  working    \* the work items in which an attempt is active

vars == <<sections, parent, status, working>>

Init ==
  /\ sections = {}
  /\ parent = [s \in Sections |-> None]
  /\ status = [s \in Sections |-> "active"]
  /\ working = {}

\* The sets that lead nowhere else when they are followed upwards.
UpwardClosed ==
  {S \in SUBSET sections : \A x \in S : parent[x] # None => parent[x] \in S}

\* Section s and every section from which s is found on the way up.
Below(s) == {r \in sections : \A S \in UpwardClosed : r \in S => s \in S}

MayHang(s, p) ==
  p # None => /\ p \in sections /\ ProjectOf[p] = ProjectOf[s]
              /\ status[p] = "active" /\ p \notin Below(s)

MayArchive(s) == \A i \in working : SectionOf[i] \notin Below(s)

Create(s, p) ==
  /\ s \notin sections /\ MayHang(s, p)
  /\ sections' = sections \cup {s}
  /\ parent' = [parent EXCEPT ![s] = p]
  /\ status' = [status EXCEPT ![s] = "active"]
  /\ UNCHANGED working

\* One request may move a section and change its status.
Update(s, p, to) ==
  /\ s \in sections
  /\ p = parent[s] \/ MayHang(s, p)
  /\ to = "archived" /\ status[s] # "archived" => MayArchive(s)
  /\ parent' = [parent EXCEPT ![s] = p]
  /\ status' = [status EXCEPT ![s] = to]
  /\ UNCHANGED <<sections, working>>

\* Work starts only in an active section.
Start(i) ==
  /\ i \notin working
  /\ SectionOf[i] \in sections /\ status[SectionOf[i]] = "active"
  /\ working' = working \cup {i}
  /\ UNCHANGED <<sections, parent, status>>

End(i) ==
  /\ i \in working
  /\ working' = working \ {i}
  /\ UNCHANGED <<sections, parent, status>>

Next ==
  \/ \E s \in Sections, p \in Sections \cup {None} :
       Create(s, p) \/ \E to \in {"active", "archived"} : Update(s, p, to)
  \/ \E i \in Items : Start(i) \/ End(i)

Spec == Init /\ [][Next]_vars

=============================================================================
