----------------------------- MODULE Checkpoints -----------------------------
(***************************************************************************)
(* Session checkpoints: the items a session relied on, with the path, the  *)
(* hash and the revision each of them had, saved in one transaction; and   *)
(* the check that tells later which of them changed.                       *)
(*                                                                         *)
(* Either takes paths and revisions from the index and hashes from the     *)
(* disk, one item after the other, while documents are edited, moved,      *)
(* superseded and deleted, and the index is brought up to date.            *)
(***************************************************************************)
EXTENDS Naturals, Sequences, FiniteSets, SequencesExt

CONSTANTS
  Item,        \* what is recorded, as a sequence
  Successor,   \* the document that supersedes an item
  Body,
  MaxChanges,
  None

VARIABLES
  disk,        \* the documents
  known,       \* what the index has of them
  revision,    \* the number of events in the ledger
  changes,
  saver, checker,       \* where a save is, and a check
  taken,       \* what the save has read so far
  checkpoint,  \* the checkpoint that was committed
  looked,      \* what the check has found in the index, about one item
  verdict,     \* what it says about the items it is done with
  sighted      \* the hashes each item has had during the save, and the check

checkpointVars == <<disk, known, revision, changes, saver, checker, taken,
                    checkpoint, looked, verdict, sighted>>

Doc == ToSet(Item) \cup {Successor}

(* A document at one of two paths, its text, when it was updated, which     *)
(* document it names as its successor (a claim does), and which one it says *)
(* that it supersedes (a relation does).  Its hash covers all but the path. *)
Document(b) == [path |-> "here", body |-> b, updated |-> 0, by |-> None, over |-> None]
Hash(d) == [body |-> d.body, updated |-> d.updated, by |-> d.by, over |-> d.over]

First == CHOOSE b \in Body : TRUE
Phase == {"save", "check"}

Sighted(phases) ==
  sighted' = [p \in Phase |-> [d \in Doc |->
    sighted[p][d] \cup IF p \in phases /\ disk'[d] # None
                       THEN {[path |-> disk'[d].path, hash |-> Hash(disk'[d])]} ELSE {}]]

Underway == (IF saver \in 1..2*Len(Item) THEN {"save"} ELSE {})
            \cup (IF checker \in 1..3*Len(Item) THEN {"check"} ELSE {})

CheckpointsInit ==
  /\ disk = [d \in Doc |-> IF d = Successor THEN None ELSE Document(First)]
  /\ known = disk /\ revision = 0 /\ changes = 0
  /\ saver = 0 /\ checker = 0
  /\ taken = <<>> /\ checkpoint = None /\ looked = None /\ verdict = <<>>
  /\ sighted = [p \in Phase |-> [d \in Doc |-> {}]]
-----------------------------------------------------------------------------
(* What others do with the documents, by hand or in a transaction. *)

Change(d, new) ==
  /\ changes < MaxChanges /\ changes' = changes + 1
  /\ disk[d] # None
  /\ disk' = [disk EXCEPT ![d] = new]
  /\ revision' \in {revision, revision + 1}
  /\ Sighted(Underway)
  /\ UNCHANGED <<known, saver, checker, taken, checkpoint, looked, verdict>>

Edit(d) ==
  \E b \in Body, n \in {0, 1} :
     disk[d] # None /\ Change(d, [disk[d] EXCEPT !.body = b, !.updated = @ + n])

Move(d) ==
  disk[d] # None /\ Change(d, [disk[d] EXCEPT
                                 !.path = IF @ = "here" THEN "there" ELSE "here"])

Delete(d) == Change(d, None)

Supersede(d) ==
  /\ changes < MaxChanges /\ changes' = changes + 1
  /\ disk[d] # None /\ d # Successor /\ disk[Successor] = None
  /\ \/ disk' = [disk EXCEPT ![d].by = Successor, ![Successor] = Document(First)]
     \/ disk' = [disk EXCEPT ![Successor] = [Document(First) EXCEPT !.over = d]]
  /\ revision' = revision + 1
  /\ Sighted(Underway)
  /\ UNCHANGED <<known, saver, checker, taken, checkpoint, looked, verdict>>

(* The refresh after a transaction, or a rebuild. *)
Refresh ==
  /\ known' = disk
  /\ UNCHANGED <<disk, revision, changes, saver, checker, taken, checkpoint, looked,
                 verdict, sighted>>
-----------------------------------------------------------------------------
(* The hash of a document is read where the index says that it is. *)
Readable(d, record) == disk[d] # None /\ disk[d].path = record.path

(* The save takes two steps for each item, then reads the revision, and     *)
(* then commits.  A save that is refused ends at once.                      *)
Refused == 3*Len(Item) + 3

SaveLook(i) ==
  /\ saver = 2*i - 2 /\ i \in DOMAIN Item
  /\ IF known[Item[i]] # None
     THEN /\ saver' = saver + 1
          /\ taken' = Append(taken, [path |-> known[Item[i]].path, hash |-> None,
                                     updated |-> known[Item[i]].updated])
     ELSE saver' = Refused /\ UNCHANGED taken
  /\ UNCHANGED disk
  /\ Sighted(IF i = 1 THEN {"save"} ELSE {})
  /\ UNCHANGED <<known, revision, changes, checker, checkpoint, looked, verdict>>

SaveHash(i) ==
  /\ saver = 2*i - 1 /\ i \in DOMAIN Item
  /\ IF Readable(Item[i], taken[i])
     THEN saver' = saver + 1 /\ taken' = [taken EXCEPT ![i].hash = Hash(disk[Item[i]])]
     ELSE saver' = Refused /\ UNCHANGED taken
  /\ UNCHANGED <<disk, known, revision, changes, checker, checkpoint, looked, verdict,
                 sighted>>

SaveHead ==
  /\ saver = 2*Len(Item)
  /\ saver' = saver + 1 /\ taken' = Append(taken, [base |-> revision])
  /\ UNCHANGED <<disk, known, revision, changes, checker, checkpoint, looked, verdict,
                 sighted>>

SaveApply ==
  /\ saver = 2*Len(Item) + 1
  /\ \/ /\ Last(taken).base = revision
        /\ checkpoint' = [i \in DOMAIN Item |-> taken[i]]
        /\ saver' = saver + 1 /\ revision' = revision + 1
     \/ saver' = Refused /\ UNCHANGED <<checkpoint, revision>>
  /\ UNCHANGED <<disk, known, changes, checker, taken, looked, verdict, sighted>>

Save == \/ \E i \in DOMAIN Item : SaveLook(i) \/ SaveHash(i)
        \/ SaveHead \/ SaveApply
-----------------------------------------------------------------------------
(* The check takes three steps for each item: what the index knows of it,   *)
(* what supersedes it, and what it looks like.                              *)

CheckLook(i) ==
  /\ checkpoint # None /\ checker = 3*i - 3 /\ i \in DOMAIN Item
  /\ checker' = checker + 1
  /\ looked' = [record |-> known[Item[i]], by |-> {}]
  /\ UNCHANGED disk
  /\ Sighted(IF i = 1 THEN {"check"} ELSE {})
  /\ UNCHANGED <<known, revision, changes, saver, taken, checkpoint, verdict>>

(* A successor counts if it is itself in the index, and must be readable.   *)
CheckSuccessors(i) ==
  /\ checker = 3*i - 2 /\ i \in DOMAIN Item
  /\ LET named == IF looked.record = None THEN {} ELSE {looked.record.by}
         by    == {s \in Doc : known[s] # None /\ (s \in named \/ known[s].over = Item[i])}
     IN IF \A s \in by : Readable(s, known[s])
        THEN checker' = checker + 1 /\ looked' = [looked EXCEPT !.by = by]
        ELSE checker' = Refused /\ UNCHANGED looked
  /\ UNCHANGED <<disk, known, revision, changes, saver, taken, checkpoint, verdict, sighted>>

DiffersByRevision(saved, hash, updated) == updated # saved.updated

Differs(saved, hash, updated) == hash # saved.hash \/ updated # saved.updated

Judge(saved, record, by, hash) ==
  CASE by # {} -> "superseded"
    [] by = {} /\ record = None -> "deleted"
    [] by = {} /\ record # None /\ record.path # saved.path -> "moved"
    [] by = {} /\ record # None /\ record.path = saved.path ->
         IF Differs(saved, hash, record.updated) THEN "changed" ELSE "unchanged"

CheckHash(i) ==
  /\ checker = 3*i - 1 /\ i \in DOMAIN Item
  /\ LET r == looked.record IN
     IF r = None \/ Readable(Item[i], r)
     THEN /\ checker' = checker + 1
          /\ verdict' = Append(verdict, Judge(checkpoint[i], r, looked.by,
                                              IF r = None THEN None ELSE Hash(disk[Item[i]])))
     ELSE checker' = Refused /\ UNCHANGED verdict
  /\ looked' = None
  /\ UNCHANGED <<disk, known, revision, changes, saver, taken, checkpoint, sighted>>

Check == \E i \in DOMAIN Item : CheckLook(i) \/ CheckSuccessors(i) \/ CheckHash(i)

CheckpointsNext ==
  \/ Save \/ Check \/ Refresh
  \/ \E d \in Doc : Edit(d) \/ Move(d) \/ Delete(d) \/ Supersede(d)

CheckpointsSpec == CheckpointsInit /\ [][CheckpointsNext]_checkpointVars
-----------------------------------------------------------------------------
CheckpointsTypeOK ==
  /\ saver \in 0..2*Len(Item) + 2 \cup {Refused}
  /\ checker \in 0..3*Len(Item) \cup {Refused}
  /\ \A i \in DOMAIN verdict :
       verdict[i] \in {"unchanged", "changed", "moved", "deleted", "superseded"}

(* docs/guides/topics.md, "Session checkpoints": green is for unchanged     *)
(* items.  What is called unchanged had the same bytes at the same path at  *)
(* some moment of the save and at some moment of the check, however stale   *)
(* the index was and whatever happened in between the readings of either    *)
(* (checkpoints/service.py, save and _check_item).                          *)
UnchangedIsTheSame ==
  \A i \in DOMAIN verdict : verdict[i] = "unchanged" =>
    \E s \in sighted["save"][Item[i]] \cap sighted["check"][Item[i]] :
       s.path = checkpoint[i].path /\ s.hash = checkpoint[i].hash
=============================================================================
