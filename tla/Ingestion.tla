----------------------------- MODULE Ingestion -----------------------------
(***************************************************************************)
(* The inbox: raw files are registered by a manifest, which the engine     *)
(* commits, and leave the raw zone later by a staged move of their own: a  *)
(* suspicious one to quarantine as part of its registration, any other one *)
(* to the archive once a committed transaction refers to it.               *)
(*                                                                         *)
(* A manifest commit is one step here (TransactionEngine shows why); a     *)
(* stale base revision is retried with the same manifest.  A move is not:  *)
(* its intent, and each of its two files, may be as far as a crash left    *)
(* it.  A session is a plain caller of register and archive_after, or a    *)
(* batch, which keeps the context lock from its first file to its last.    *)
(***************************************************************************)
EXTENDS Naturals, FiniteSets, Absent

CONSTANTS Session, Batch,      \* all sessions, and those that are batches
          Path, Stem,          \* raw paths, and what their IDs are made of
          Content, Suspicious, \* contents, and those a scan would flag
          MaxSeq,              \* bound on the numbers of the IDs of a stem
          MaxPuts,             \* bound on files the operator puts
          MaxFalls             \* bound on sessions that crash

VARIABLES
  raw,       \* the files at each raw path
  kept,      \* the files at each artifact's quarantine or archive path
  manifest,
  intent,    \* the artifact whose move is staged
  cited,     \* artifacts that a committed receipt refers to
  holder,    \* who has the context lock beyond one commit
  task,      \* what each session is doing
  puts,      \* raw paths at which the operator has put other files
  falls

ingestionVars == <<raw, kept, manifest, intent, cited, holder, task, puts, falls>>

Part == {"primary", "sidecar"}
Id   == {Stem[p] : p \in Path} \X (1..MaxSeq)

Nowhere == [part \in Part |-> None]
Both(c) == [part \in Part |-> c]

Idle == [step |-> "idle", path |-> None, id |-> None, status |-> None, content |-> None]

IngestionInit ==
  /\ raw \in [Path -> {Both(c) : c \in Content}]
  /\ kept = [i \in Id |-> Nowhere]
  /\ manifest = [i \in Id |-> None]
  /\ intent = None /\ cited = {} /\ holder = None
  /\ task = [s \in Session |-> Idle]
  /\ puts = {} /\ falls = 0

Known == {i \in Id : manifest[i] # None}
-----------------------------------------------------------------------------
(* How a call goes on or ends.  A batch goes on to its next file after a    *)
(* success and ends with its first failure.                                 *)

Begin(s, next) == task' = [task EXCEPT ![s] = next]

Succeed(s) ==
  IF s \in Batch THEN Begin(s, [Idle EXCEPT !.step = "open"]) /\ UNCHANGED holder
  ELSE Begin(s, Idle) /\ holder' = IF holder = s THEN None ELSE holder

Fail(s) == Begin(s, Idle) /\ holder' = IF holder = s THEN None ELSE holder

Ready(s) == task[s].step = IF s \in Batch THEN "open" ELSE "idle"

OpenUnlocked(s) ==
  /\ s \in Batch /\ task[s].step = "idle" /\ intent = None
  /\ Begin(s, [Idle EXCEPT !.step = "open"])
  /\ UNCHANGED <<raw, kept, manifest, intent, cited, holder, puts, falls>>

(* _BatchTransactionOperation: the lock, and no intent of anybody's.        *)
OpenBatch(s) ==
  /\ s \in Batch /\ task[s].step = "idle" /\ holder = None /\ intent = None
  /\ holder' = s
  /\ Begin(s, [Idle EXCEPT !.step = "open"])
  /\ UNCHANGED <<raw, kept, manifest, intent, cited, puts, falls>>

CloseBatch(s) ==
  /\ task[s].step = "open"
  /\ Fail(s)
  /\ UNCHANGED <<raw, kept, manifest, intent, cited, puts, falls>>
-----------------------------------------------------------------------------
(* register *)

Newest(ids) == CHOOSE i \in ids : \A j \in ids : j[2] <= i[2]

(* A manifest of this path that still speaks for what is, or was, there.    *)
Replayable(i, p) ==
  /\ manifest[i] # None /\ manifest[i].path = p
  /\ IF raw[p]["primary"] = None
     THEN /\ manifest[i].status \in {"quarantined", "processed"}
          /\ kept[i]["primary"] # None \/ intent # None
     ELSE manifest[i].status \in {"pending", "duplicate"} \/ kept[i]["primary"] = None

Replay(p) == {i \in Id : Replayable(i, p)}

Changed(i, p) == raw[p]["primary"] # None /\ raw[p] # Both(manifest[i].content)

(* An interrupted quarantine is taken up where it is; without a receipt of  *)
(* its own in the manifest it needs a new one first.                        *)
Resume(s, i) ==
  IF Changed(i, manifest[i].path) THEN Fail(s)
  ELSE IF manifest[i].status # "quarantined" THEN Succeed(s)
  ELSE IF manifest[i].receipt
       THEN Begin(s, [Idle EXCEPT !.step = "move", !.id = i]) /\ UNCHANGED holder
  ELSE IF intent # None THEN Fail(s)
       ELSE Begin(s, [Idle EXCEPT !.step = "receipt", !.id = i]) /\ UNCHANGED holder

Free(p) == {n \in 1..MaxSeq : manifest[<<Stem[p], n>>] = None}

(* Duplicates are refused or linked, whichever the caller asks for; a       *)
(* suspicious file is quarantined, whether it is a duplicate or not.        *)
RegisterNew(s, p) ==
  LET c      == raw[p]["primary"]
      copies == {i \in Known : manifest[i].content = c}
      n      == CHOOSE k \in Free(p) : \A m \in Free(p) : k <= m
      plan(status) == Begin(s, [step |-> "create", path |-> p, id |-> <<Stem[p], n>>,
                                status |-> status, content |-> c]) /\ UNCHANGED holder
  IN IF c \in Suspicious THEN Free(p) # {} /\ plan("quarantined")
     ELSE IF copies = {} THEN Free(p) # {} /\ plan("pending")
     ELSE Succeed(s) \/ (Free(p) # {} /\ plan("duplicate"))

Register(s, p) ==
  /\ Ready(s)
  /\ IF Replay(p) # {} THEN Resume(s, Newest(Replay(p)))
     ELSE IF \E part \in Part : raw[p][part] = None THEN Fail(s)
     ELSE RegisterNew(s, p)
  /\ UNCHANGED <<raw, kept, manifest, intent, cited, puts, falls>>

(* The engine commits behind the lock and refuses while an intent is there. *)
Commits(s) == holder \in {None, s} /\ intent = None

Created(s, t) ==
  /\ manifest' = [manifest EXCEPT ![t.id] =
        [path |-> t.path, content |-> t.content, status |-> t.status,
         receipt |-> FALSE, batch |-> s \in Batch]]
  /\ IF t.status = "quarantined"
     THEN Begin(s, [Idle EXCEPT !.step = "receipt", !.id = t.id]) /\ UNCHANGED holder
     ELSE Succeed(s)

CreateManifest(s) ==
  /\ task[s].step = "create"
  /\ IF Commits(s) /\ manifest[task[s].id] = None
     THEN Created(s, task[s]) ELSE Fail(s) /\ UNCHANGED manifest
  /\ UNCHANGED <<raw, kept, intent, cited, puts, falls>>

PersistLater(s) ==
  /\ task[s].step = "receipt"
  /\ manifest' \in {manifest, [manifest EXCEPT ![task[s].id].receipt = Commits(s)]}
  /\ Begin(s, [task[s] EXCEPT !.step = "move"]) /\ UNCHANGED holder
  /\ UNCHANGED <<raw, kept, intent, cited, puts, falls>>

(* A second commit keeps the receipt of the first in the manifest.          *)
PersistReceipt(s) ==
  /\ task[s].step = "receipt"
  /\ IF Commits(s)
     THEN /\ manifest' = [manifest EXCEPT ![task[s].id].receipt = TRUE]
          /\ Begin(s, [task[s] EXCEPT !.step = "move"]) /\ UNCHANGED holder
     ELSE Fail(s) /\ UNCHANGED manifest
  /\ UNCHANGED <<raw, kept, intent, cited, puts, falls>>
-----------------------------------------------------------------------------
(* archive_after *)

Archive(s, i) ==
  /\ s \notin Batch /\ task[s].step = "idle"
  /\ i \in Known \cap cited
  /\ \/ /\ manifest[i].status = "pending" /\ raw[manifest[i].path] = Both(manifest[i].content)
        /\ Begin(s, [Idle EXCEPT !.step = "process", !.id = i])
     \/ /\ manifest[i].status = "processed"
        /\ Begin(s, [Idle EXCEPT !.step = "move", !.id = i])
  /\ UNCHANGED <<raw, kept, manifest, intent, cited, holder, puts, falls>>

Process(s) ==
  /\ task[s].step = "process"
  /\ IF Commits(s)
     THEN /\ manifest' = [manifest EXCEPT ![task[s].id].status = "processed"]
          /\ Begin(s, [task[s] EXCEPT !.step = "move"]) /\ UNCHANGED holder
     ELSE Fail(s) /\ UNCHANGED manifest
  /\ UNCHANGED <<raw, kept, intent, cited, puts, falls>>
-----------------------------------------------------------------------------
(* _move_with_receipt: under the lock, by a receipt that is authenticated.  *)

InRaw(i, part)  == raw[manifest[i].path][part] = manifest[i].content /\ kept[i][part] = None
InKept(i, part) == raw[manifest[i].path][part] = None /\ kept[i][part] = manifest[i].content

AdoptableUnmoved(i) == intent = i /\ \A part \in Part : InRaw(i, part)
Adoptable(i)        == intent = i /\ \A part \in Part : InRaw(i, part) \/ InKept(i, part)

EnterMoveUnlocked(s) ==
  /\ task[s].step = "move"
  /\ IF Adoptable(task[s].id) \/ \A part \in Part : InRaw(task[s].id, part)
     THEN /\ intent' = task[s].id
          /\ Begin(s, [task[s] EXCEPT !.step = "moving"]) /\ UNCHANGED holder
     ELSE Fail(s) /\ UNCHANGED intent
  /\ UNCHANGED <<raw, kept, manifest, cited, puts, falls>>

EnterMove(s) ==
  /\ task[s].step = "move"
  /\ LET i == task[s].id
         go == Begin(s, [task[s] EXCEPT !.step = "moving"]) /\ holder' = s
     IN IF holder \notin {None, s} THEN Fail(s) /\ UNCHANGED intent
        ELSE IF intent = None
        THEN IF \A part \in Part : InKept(i, part) THEN Succeed(s) /\ UNCHANGED intent
             ELSE IF \A part \in Part : InRaw(i, part) THEN intent' = i /\ go
             ELSE Fail(s) /\ UNCHANGED intent
        ELSE IF Adoptable(i) THEN UNCHANGED intent /\ go
        ELSE Fail(s) /\ UNCHANGED intent
  /\ UNCHANGED <<raw, kept, manifest, cited, puts, falls>>

MoveUnlinkFirst(s) ==
  /\ task[s].step = "moving"
  /\ \E part \in Part : /\ InRaw(task[s].id, part)
                         /\ raw' = [raw EXCEPT ![manifest[task[s].id].path][part] = None]
  /\ UNCHANGED <<kept, manifest, intent, cited, holder, task, puts, falls>>

(* One file after the other; a file that is not what it should be ends the  *)
(* call and leaves the intent.                                              *)
MoveFile(s) ==
  LET i == task[s].id
      left == {part \in Part : ~InKept(i, part)}
      part == IF "primary" \in left THEN "primary" ELSE "sidecar"
  IN /\ task[s].step = "moving" /\ left # {}
     /\ IF InRaw(i, part)
        THEN /\ kept' = [kept EXCEPT ![i][part] = manifest[i].content]
             /\ raw' = [raw EXCEPT ![manifest[i].path][part] = None]
             /\ UNCHANGED <<task, holder>>
        ELSE Fail(s) /\ UNCHANGED <<raw, kept>>
     /\ UNCHANGED <<manifest, intent, cited, puts, falls>>

FinishMove(s) ==
  /\ task[s].step = "moving" /\ \A part \in Part : InKept(task[s].id, part)
  /\ intent' = None
  /\ Succeed(s)
  /\ UNCHANGED <<raw, kept, manifest, cited, puts, falls>>
-----------------------------------------------------------------------------
(* The rest of the world: a transaction refers to an artifact, the operator *)
(* puts files at a raw path, a session dies and its lock is taken over.     *)

Cite(i) ==
  /\ i \in Known \ cited /\ manifest[i].status = "pending"
  /\ cited' = cited \cup {i}
  /\ UNCHANGED <<raw, kept, manifest, intent, holder, task, puts, falls>>

Put(p, c) ==
  /\ Cardinality(puts \cup {p}) <= MaxPuts /\ puts' = puts \cup {p}
  /\ raw' = [raw EXCEPT ![p] = Both(c)]
  /\ UNCHANGED <<kept, manifest, intent, cited, holder, task, falls>>

Fall(s) ==
  /\ task[s].step \notin {"idle", "open"}
  /\ falls < MaxFalls /\ falls' = falls + 1
  /\ Fail(s)
  /\ UNCHANGED <<raw, kept, manifest, intent, cited, puts>>

Work(s) ==
  \/ CreateManifest(s) \/ PersistReceipt(s) \/ Process(s)
  \/ EnterMove(s) \/ MoveFile(s) \/ FinishMove(s)

IngestionNext ==
  \/ \E s \in Session :
        \/ OpenBatch(s) \/ CloseBatch(s) \/ Work(s) \/ Fall(s)
        \/ \E p \in Path : Register(s, p)
        \/ \E i \in Id : Archive(s, i)
  \/ \E i \in Id : Cite(i)
  \/ \E p \in Path, c \in Content : Put(p, c)

(* Sessions go on, batches end, and whoever was interrupted tries again, as *)
(* docs/reference/inbox.md tells him to.                                    *)
Retry(s) ==
  /\ intent # None
  /\ IF manifest[intent].status = "processed" THEN Archive(s, intent)
     ELSE Register(s, manifest[intent].path)

IngestionFairness ==
  \A s \in Session : WF_ingestionVars(Work(s) \/ CloseBatch(s)) /\ SF_ingestionVars(Retry(s))

IngestionSpec     == IngestionInit /\ [][IngestionNext]_ingestionVars
FairIngestionSpec == IngestionSpec /\ IngestionFairness
-----------------------------------------------------------------------------
(* Types, and whoever moves files holds the lock and has a manifest for it. *)
IngestionTypeOK ==
  /\ raw \in [Path -> [Part -> Content \cup {None}]]
  /\ kept \in [Id -> [Part -> Content \cup {None}]]
  /\ intent \in Known \cup {None} /\ cited \subseteq Known
  /\ \A s \in Session : /\ task[s].step = "moving" => holder = s /\ intent = task[s].id
                        /\ task[s].step \in {"receipt", "move"} => task[s].id \in Known

(* Registered bytes are never lost: at every moment, also halfway through a *)
(* move, each file of an artifact is in the raw zone or where its manifest  *)
(* says it is kept, unless the operator has put another file in its place.  *)
(* Between moves what is kept of an artifact is the whole of it or nothing. *)
EvidenceKept ==
  \A i \in Known :
     /\ \A part \in Part : \/ manifest[i].path \in puts
                            \/ raw[manifest[i].path][part] = manifest[i].content
                            \/ kept[i][part] = manifest[i].content
     /\ intent # i => kept[i] \in {Nowhere, Both(manifest[i].content)}

(* A file leaves the raw zone only behind a committed manifest that says    *)
(* so, and an authenticated receipt: its own for a quarantine, that of a    *)
(* transaction which refers to it for the archive.                          *)
MovesAreAuthorized ==
  \A i \in Id, part \in Part : kept[i][part] # None =>
     /\ i \in Known
     /\ \/ manifest[i].status = "quarantined" /\ manifest[i].receipt
        \/ manifest[i].status = "processed" /\ i \in cited

(* Batches never register the same content twice; a plain register decides  *)
(* on what it read before it had the lock.                                  *)
BatchesRefuseDuplicates ==
  \A i, j \in Known :
     /\ manifest[i].batch /\ manifest[j].batch /\ i # j
     /\ manifest[i].status \in {"pending", "processed"}
     /\ manifest[j].status \in {"pending", "processed"}
     => manifest[i].content # manifest[j].content

(* Evidence is never lost, moved without authority, moved in half or        *)
(* registered twice by batches.                                             *)
EvidenceIsKept == EvidenceKept /\ MovesAreAuthorized /\ BatchesRefuseDuplicates

(* docs/reference/inbox.md: "If interruption leaves a WP310-quarantine-...  *)
(* or WP310-archive-... intent, retry the same ingestion operation": no    *)
(* intent stays for good, unless somebody put other files in its way.       *)
InterruptedMovesEnd == []<>(intent = None \/ puts # {})
=============================================================================
