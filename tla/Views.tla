------------------------------- MODULE Views --------------------------------
(***************************************************************************)
(* Operational views and the daily brief (views/service.py): snapshots     *)
(* that read the audit ledger, the projection in several queries, and the  *)
(* documents themselves, and are stamped with the revision at the head of  *)
(* the ledger.  A view is rebuilt under the context lock, a brief is not.  *)
(***************************************************************************)
EXTENDS Projection

CONSTANT Brief   \* the viewers that ask for a brief

VARIABLES
  head,    \* audit events at the start of each snapshot
  shown,   \* the versions it has read: two queries, then the documents
  sound    \* the index and the files were what the ledger says

viewVars == <<head, shown, sound>>
viewsVars == <<projectionVars, viewVars>>

Builder == Viewer \ Brief

ViewsInit ==
  /\ ProjectionInit
  /\ head = [v \in Viewer |-> 0]
  /\ shown = [v \in Viewer |-> <<>>]
  /\ sound = [v \in Viewer |-> FALSE]

(* _snapshot begins with the head of the ledger. *)
Open(v) ==
  /\ Start(v, job' = [job EXCEPT ![v] = [Idle EXCEPT !.at = "ask"]])
  /\ head' = [head EXCEPT ![v] = Len(ledger)]
  /\ shown' = [shown EXCEPT ![v] = <<>>]
  /\ sound' = [sound EXCEPT ![v] = db = Newest /\ tree = Newest]
  /\ UNCHANGED <<files, db, spoiled, latches>>

OpenBrief(v) == v \in Brief /\ Open(v) /\ UNCHANGED <<writer, crossed>>

(* Fault of OpenView: views are rebuilt without the context lock. *)
OpenViewUnlocked(v) == v \in Builder /\ Open(v) /\ UNCHANGED <<writer, crossed>>

OpenView(v) == v \in Builder /\ LockContext(v) /\ Open(v)

(* Each query makes sure first that there is an index: ensure_ready.       *)
Ask(v) ==
  /\ job[v].at = "ask" /\ ~Shut(v)
  /\ IF db # None THEN Goto(v, "query") ELSE AskFor(v, "ready")
  /\ UNCHANGED <<files, index, latches, writer, spent, viewVars>>

Query(v) ==
  /\ job[v].at = "query" /\ ~Shut(v)
  /\ IF db = None
     THEN Goto(v, "failed") /\ UNCHANGED shown
     ELSE /\ shown' = [shown EXCEPT ![v] = Append(@, db)]
          /\ Goto(v, IF Len(shown'[v]) < 2 THEN "ask"
                     ELSE IF v \in Brief THEN "compare" ELSE "documents")
  /\ UNCHANGED <<files, index, latches, writer, spent, head, sound>>

(* Resources, people and the glossary are read from the documents; a brief *)
(* does not show them.                                                     *)
ReadDocuments(v) ==
  /\ job[v].at = "documents"
  /\ shown' = [shown EXCEPT ![v] = Append(@, tree)]
  /\ Goto(v, "compare")
  /\ UNCHANGED <<files, index, latches, writer, spent, head, sound>>

(* Fault of Compare: the first head is not compared with the last.         *)
CompareNothing(v) ==
  /\ job[v].at = "compare"
  /\ job' = [job EXCEPT ![v].at = "done", ![v].told = "shown"]
  /\ UNCHANGED <<files, index, latches, writer, spent, viewVars>>

(* ViewSourceChangedError, or a snapshot stamped with the head.            *)
Compare(v) ==
  /\ job[v].at = "compare"
  /\ job' = [job EXCEPT ![v].at = "done",
               ![v].told = IF head[v] = Len(ledger) THEN "shown" ELSE "changed"]
  /\ UNCHANGED <<files, index, latches, writer, spent, viewVars>>

EndView(v) ==
  /\ job[v].at \in {"done", "failed"}
  /\ writer' = IF writer = v THEN None ELSE writer
  /\ job' = [job EXCEPT ![v] = Idle]
  /\ head' = [head EXCEPT ![v] = 0]
  /\ shown' = [shown EXCEPT ![v] = <<>>]
  /\ sound' = [sound EXCEPT ![v] = FALSE]
  /\ UNCHANGED <<files, index, latches, spent>>

Show(v) == Ask(v) \/ Query(v) \/ ReadDocuments(v) \/ Compare(v) \/ EndView(v)

ViewsNext ==
  \/ ProjectionNext /\ UNCHANGED viewVars
  \/ \E v \in Viewer : OpenBrief(v) \/ OpenView(v) \/ Show(v)

(* Threads that apply or rebuild go on once they were started. *)
ViewsFairness ==
  /\ WF_viewsVars(Transact /\ UNCHANGED viewVars)
  /\ \A a \in {Engine} \cup Indexer : WF_viewsVars(Rebuild(a) /\ UNCHANGED viewVars)

ViewsSpec     == ViewsInit /\ [][ViewsNext]_viewsVars
FairViewsSpec == ViewsSpec /\ ViewsFairness
-----------------------------------------------------------------------------
Shown(v) == job[v].told = "shown"

(* No snapshot shows what was committed after the revision it is stamped   *)
(* with, unless an index was built from files no event had recorded yet.   *)
NotAhead ==
  \A v \in Viewer : Shown(v) /\ ~spoiled =>
    \A i \in 1..2, d \in Doc : shown[v][i][d] <= ledger[head[v]][d]

(* A view that is rebuilt under the lock, when index and files are those   *)
(* of the ledger, shows its revision and nothing else, whatever is asked   *)
(* for at the same time (ViewService._rebuild), unless files are edited    *)
(* by hand or another process replaces the index meanwhile.                *)
LockedViewsAreExact ==
  \A v \in Builder :
    Shown(v) /\ sound[v] /\ ~crossed /\ ~spoiled /\ spent["edits"] = 0 =>
      \A i \in 1..Len(shown[v]) : shown[v][i] = ledger[head[v]]

ViewsShowTheirRevision == NotAhead /\ LockedViewsAreExact

(* views/service.py, rebuild_views: "Rebuild all derived Markdown views    *)
(* from one consistent snapshot".                                          *)
OneConsistentSnapshot ==
  \A v \in Builder : Shown(v) => shown[v][1] = shown[v][2]
=============================================================================
