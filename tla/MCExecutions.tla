---------------------------- MODULE MCExecutions ----------------------------
(* Instances of Executions for TLC. *)
EXTENDS Progress, TLC

CONSTANTS prj, prj2, sec, sec2, sub, itm, itm2, prc, prc2, u1, u2

\* One project with one process.
OneProjectOf == (sec :> prj)
OneSectionOf == (itm :> sec)
OneItemOf == (prc :> itm)
OneSubtree == (sec :> {sec})

\* A section with a subsection.  The commands are about the work in the
\* subsection; other work lies in the section itself.
TreeProjectOf == (sec :> prj) @@ (sub :> prj)
TreeSectionOf == (itm :> sub) @@ (itm2 :> sec)
TreeItemOf == (prc :> itm) @@ (prc2 :> itm2)
TreeSubtree == (sec :> {sec, sub}) @@ (sub :> {sub})

\* Two projects of the tenant with one process each.
TwoProjectOf == (sec :> prj) @@ (sec2 :> prj2)
TwoSectionOf == (itm :> sec) @@ (itm2 :> sec2)
TwoItemOf == (prc :> itm) @@ (prc2 :> itm2)
TwoSubtree == (sec :> {sec}) @@ (sec2 :> {sec2})

Issued(ops, actors) == {c \in Command : c.op \in ops /\ c.actor \in actors}

\* Attempts on one process by one worker, sessions by both.
WorkCommands ==
  Issued({"start", "complete"}, {u1})
  \cup Issued({"start_session", "stop_session"}, Users)

\* The life of an attempt and the responsibility for its process, given to a
\* colleague or to nobody, against status changes at every level.
ScopeCommands ==
  {c \in Issued({"start", "complete", "assign"}, {u1}) : c.scope = prc /\ c.arg # u1}
  \cup {c \in Issued({"set_status"}, {u1}) :
          \/ c.arg \in {"active", "archived"} /\ c.scope \in {prc, sec, sub}
          \/ c.arg = "archived" /\ c.scope = prj
          \/ c.arg \in {"completed", "archived"} /\ c.scope = itm}

\* One worker in two projects, whose rows are locked independently.  The
\* attempts on one process are completed, those on the other cancelled.
RivalCommands ==
  Issued({"start", "start_session", "stop_session"}, {u1})
  \cup {c \in Issued({"complete"}, {u1}) : c.scope = prc}
  \cup {c \in Issued({"cancel"}, {u1}) : c.scope = prc2}

StatusCommands == Issued({"set_status"}, {u1})

IdSymmetry == Permutations(ExecutionIds) \cup Permutations(SessionIds)
              \cup Permutations(Txns)
=============================================================================
