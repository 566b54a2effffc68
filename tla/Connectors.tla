----------------------------- MODULE Connectors -----------------------------
(***************************************************************************)
(* Connectors fetch the snapshots of their manifests into raw files, hand  *)
(* these to ingestion as one batch and note when each snapshot last        *)
(* succeeded.  A run is one call of sync_all, which goes through all the   *)
(* connectors and may skip what is not due, or of sync, which names one.   *)
(* Runs share the raw directory and the last-sync file without a lock.     *)
(*                                                                         *)
(* A raw file is named by its snapshot and the time of its retrieval, and  *)
(* has a sidecar.  Ingestion is external here: of a batch it registers the *)
(* files in order and may fail at any of them.                             *)
(***************************************************************************)
EXTENDS Naturals, Sequences, FiniteSets, SequencesExt

CONSTANTS Run, Scope,    \* the connectors of each run: all, or the one it names
          DueOnly,      \* the runs that leave alone what is not due
          Connector, Snapshot, Response,
          SnapshotsOf,  \* of each connector, the sequence of its snapshots
          Interval,     \* hours between two syncs of a snapshot, 0: manual
          MaxTime,      \* bound on the clock, in hours
          MaxCrashes    \* bound on runs that die

VARIABLES
  clock,
  files,       \* raw files: name, part, content and the run that made it
  registered,  \* what ingestion has registered: names, and whether the
               \* sync had itself made the files
  handed,      \* names of the files handed to ingestion
  succeeded,   \* snapshots and times for which a sync was successful
  lastSync,    \* last-sync.json
  stage,       \* where each run is
  queue,       \* its connectors still to do
  todo,        \* the snapshots still to fetch of the first of them
  fetched,     \* the name and the content of the last snapshot fetched
  written,     \* the names it has written or matched, in order
  known,       \* the last-sync values it has read and means to extend
  outcome      \* what it has reported of each connector

connectorVars == <<clock, files, registered, handed, succeeded, lastSync, stage,
                   queue, todo, fetched, written, known, outcome>>

Key  == {<<c, s>> : c \in Connector, s \in Snapshot}
Name(c, s, t) == [connector |-> c, snapshot |-> s, time |-> t]

Never == 0
Now == clock
Nothing == [name |-> Never, body |-> Never]

At(r, l) == stage' = [stage EXCEPT ![r] = l]

ConnectorsInit ==
  /\ clock = 1
  /\ files = {} /\ registered = {} /\ handed = {} /\ succeeded = {}
  /\ lastSync = [k \in Key |-> Never]
  /\ stage = [r \in Run |-> "idle"]
  /\ queue = [r \in Run |-> <<>>]
  /\ todo = [r \in Run |-> <<>>]
  /\ written = [r \in Run |-> <<>>]
  /\ fetched = [r \in Run |-> Nothing]
  /\ known = [r \in Run |-> lastSync]
  /\ outcome = [r \in Run |-> [c \in Connector |-> "none"]]
-----------------------------------------------------------------------------
(* Due evaluation: of the values read when the run began, at that time. *)

Due(c, s, last, now) ==
  /\ Interval[c][s] # 0
  /\ \/ last[<<c, s>>] = Never
     \/ now - last[<<c, s>>] >= Interval[c][s]

Selected(r, c, last, now) ==
  IF c \notin Scope[r] THEN <<>>
  ELSE SelectSeq(SnapshotsOf[c], LAMBDA s : r \in DueOnly => Due(c, s, last, now))

(* Manifests are loaded in the order of their names.  The snapshots a run   *)
(* selects are fixed here: the values and the time are those of its start.  *)
SyncAll(r) ==
  /\ stage[r] = "idle"
  /\ LET due(c) == Selected(r, c, lastSync, Now)
         order  == SetToSeq({c \in Connector : due(c) # <<>>})
     IN /\ queue' = [queue EXCEPT ![r] =
              [i \in DOMAIN order |-> [connector |-> order[i], snapshots |-> due(order[i])]]]
        /\ outcome' = [outcome EXCEPT ![r] =
              [c \in Connector |-> IF due(c) = <<>> THEN "skipped" ELSE "due"]]
  /\ At(r, "next")
  /\ UNCHANGED <<clock, files, registered, handed, succeeded, lastSync, todo, fetched,
                 written, known>>

Current(r) == Head(queue[r]).connector

(* _run_sync up to the first request; manifests, secret or client may fail. *)
RunSync(r) ==
  /\ stage[r] = "next"
  /\ IF queue[r] = <<>> THEN At(r, "done") /\ UNCHANGED todo
     ELSE /\ todo' = [todo EXCEPT ![r] = Head(queue[r]).snapshots]
          /\ At(r, "fetch") \/ At(r, "cleanup")
  /\ UNCHANGED <<clock, files, registered, handed, succeeded, lastSync, queue, fetched,
                 written, known, outcome>>

(* A request with at most three redirects on its own host, a good status,   *)
(* a body that is not too large and does not echo the credentials.          *)
Fetch(r) ==
  /\ stage[r] = "fetch"
  /\ \/ /\ \E b \in Response : fetched' = [fetched EXCEPT ![r] =
              [name |-> Name(Current(r), Head(todo[r]), Now), body |-> b]]
        /\ At(r, "primary")
     \/ At(r, "cleanup") /\ UNCHANGED fetched
  /\ UNCHANGED <<clock, files, registered, handed, succeeded, lastSync, queue, todo,
                 written, known, outcome>>

DropShared(names, r) == {f \in files : f.name \notin names}
Drop(names, r) == {f \in files : f.name \notin names \/ f.by # r}

(* _write_or_match of one of the two files: create it, find it as it should *)
(* be, or fail.  When the sidecar fails, a primary made here is removed.    *)
Found(r, part) == {f \in files : f.name = fetched[r].name /\ f.part = part}
Made(r, part)  == [name |-> fetched[r].name, part |-> part, body |-> fetched[r].body, by |-> r]

WriteOrFail(r, part) ==
  /\ files' = Drop({fetched[r].name}, r)
  /\ At(r, "cleanup")

WriteOrMatch(r, part, next) ==
  /\ \A f \in Found(r, part) : f.body = fetched[r].body
  /\ files' = IF Found(r, part) = {} THEN files \cup {Made(r, part)} ELSE files
  /\ At(r, next)

WritePrimary(r) ==
  /\ stage[r] = "primary"
  /\ WriteOrMatch(r, "primary", "sidecar") \/ WriteOrFail(r, "primary")
  /\ UNCHANGED <<clock, registered, handed, succeeded, lastSync, queue, todo, fetched,
                 written, known, outcome>>

WriteSidecar(r) ==
  /\ stage[r] = "sidecar"
  /\ \/ /\ WriteOrMatch(r, "sidecar", IF Len(todo[r]) = 1 THEN "register" ELSE "fetch")
        /\ written' = [written EXCEPT ![r] = Append(@, fetched[r].name)]
        /\ todo' = [todo EXCEPT ![r] = Tail(@)]
     \/ WriteOrFail(r, "sidecar") /\ UNCHANGED <<written, todo>>
  /\ UNCHANGED <<clock, registered, handed, succeeded, lastSync, queue, fetched, known, outcome>>

Report(r, o) ==
  /\ outcome' = [outcome EXCEPT ![r][Current(r)] = o]
  /\ queue' = [queue EXCEPT ![r] = Tail(@)]
  /\ written' = [written EXCEPT ![r] = <<>>]
  /\ todo' = [todo EXCEPT ![r] = <<>>]
  /\ fetched' = [fetched EXCEPT ![r] = Nothing]
  /\ known' = [known EXCEPT ![r] = [k \in Key |-> Never]]
  /\ At(r, "next")

(* Only what this sync has created is removed, never what it found. *)
Cleanup(r) ==
  /\ stage[r] = "cleanup"
  /\ files' = Drop(Range(written[r]), r)
  /\ Report(r, "failed")
  /\ UNCHANGED <<clock, registered, handed, succeeded, lastSync>>

OwnFiles(r, name) == Cardinality({f \in files : f.name = name /\ f.by = r}) = 2

OnDisk(name) == {"primary", "sidecar"} \subseteq {f.part : f \in {g \in files : g.name = name}}

(* register_batch, all or a prefix; a duplicate is an outcome like others.  *)
(* After a failure here the files stay, as some of them may be registered.  *)
RegisterSnapshots(r) ==
  /\ stage[r] = "register"
  /\ handed' = handed \cup Range(written[r])
  /\ \E n \in 0..Len(written[r]) :
        /\ \A i \in 1..n : OnDisk(written[r][i])
        /\ registered' = registered \cup {[name |-> written[r][i], own |-> OwnFiles(r, written[r][i])] : i \in 1..n}
        /\ IF n = Len(written[r])
           THEN /\ succeeded' = succeeded \cup Range(written[r])
                /\ At(r, "load")
                /\ UNCHANGED <<queue, todo, fetched, written, known, outcome>>
           ELSE Report(r, "failed") /\ UNCHANGED succeeded
  /\ UNCHANGED <<clock, files, lastSync>>
-----------------------------------------------------------------------------
(* record_last_sync: a file that cannot be read counts as empty, and one    *)
(* that cannot be written stays as it is.                                   *)

Load(r) ==
  /\ stage[r] = "load"
  /\ known' = [known EXCEPT ![r] = lastSync]
  /\ At(r, "save")
  /\ UNCHANGED <<clock, files, registered, handed, succeeded, lastSync, queue, todo,
                 fetched, written, outcome>>

UpdatedNow(r) ==
  [k \in Key |->
     IF \E n \in Range(written[r]) : k = <<n.connector, n.snapshot>>
     THEN Now ELSE known[r][k]]

Updated(r) ==
  [k \in Key |->
     IF \E n \in Range(written[r]) : k = <<n.connector, n.snapshot>>
     THEN (CHOOSE n \in Range(written[r]) : k = <<n.connector, n.snapshot>>).time
     ELSE known[r][k]]

Save(r) ==
  /\ stage[r] = "save"
  /\ lastSync' \in {lastSync, Updated(r)}
  /\ Report(r, "synced")
  /\ UNCHANGED <<clock, files, registered, handed, succeeded>>

Spoil ==
  /\ \E k \in Key : lastSync[k] # Never
  /\ lastSync' = [k \in Key |-> Never]
  /\ UNCHANGED <<clock, files, registered, handed, succeeded, stage, queue, todo,
                 fetched, written, known, outcome>>

Tick ==
  /\ clock < MaxTime /\ clock' = clock + 1
  /\ UNCHANGED <<files, registered, handed, succeeded, lastSync, stage, queue, todo,
                 fetched, written, known, outcome>>

Die(r) ==
  /\ stage[r] \notin {"idle", "done", "dead"}
  /\ Cardinality({q \in Run : stage[q] = "dead"}) < MaxCrashes
  /\ At(r, "dead")
  /\ UNCHANGED <<clock, files, registered, handed, succeeded, lastSync, queue, todo,
                 fetched, written, known, outcome>>

SyncStep(r) ==
  \/ SyncAll(r) \/ RunSync(r) \/ Fetch(r) \/ WritePrimary(r) \/ WriteSidecar(r)
  \/ Cleanup(r) \/ RegisterSnapshots(r) \/ Load(r) \/ Save(r)

ConnectorsNext == Spoil \/ Tick \/ \E r \in Run : SyncStep(r) \/ Die(r)

ConnectorsSpec == ConnectorsInit /\ [][ConnectorsNext]_connectorVars
-----------------------------------------------------------------------------
(* Types, and a run's queue holds what it has not reported yet: one         *)
(* connector's failure does not keep the others from their turn.            *)
ConnectorsTypeOK ==
  /\ lastSync \in [Key -> 0..MaxTime]
  /\ \A f \in files : f.part \in {"primary", "sidecar"} /\ f.by \in Run
  /\ \A r \in Run :
        /\ \A q \in Range(queue[r]) : /\ q.connector \in Scope[r]
                                       /\ outcome[r][q.connector] = "due"
        /\ stage[r] \in {"primary", "sidecar"} => todo[r] # <<>>
        /\ \A c \in Connector : stage[r] = "done" => outcome[r][c] # "due"
        /\ stage[r] \in {"register", "load", "save"} => written[r] # <<>>

(* A time in last-sync.json is the time of a sync of that snapshot that was *)
(* registered: however runs overwrite each other's times, a snapshot is     *)
(* fetched too often and never too seldom (state.py, record_last_sync).     *)
LastSyncTruthful ==
  \A k \in Key : lastSync[k] # Never => Name(k[1], k[2], lastSync[k]) \in succeeded

(* Files a sync made and had registered are not taken away again by a sync  *)
(* that fails, its own or another's that found them (_cleanup_created); one *)
(* that registers files it only found relies on the sync that made them.    *)
(* And a failure before registration leaves no file behind: every file was  *)
(* handed to ingestion, or is of a sync under way or killed.                *)
FilesFollowRegistration ==
  /\ \A g \in registered : g.own => OnDisk(g.name)
  /\ \A f \in files : \/ f.name \in handed
                      \/ stage[f.by] = "dead"
                      \/ f.name \in Range(written[f.by])
                      \/ stage[f.by] = "sidecar" /\ f.name = fetched[f.by].name

(* What the last-sync file, the raw directory and ingestion tell of past    *)
(* syncs agrees (state.py, runner.py).                                      *)
SyncsTold == LastSyncTruthful /\ FilesFollowRegistration
=============================================================================
