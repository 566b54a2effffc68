------------------------- MODULE StagedReplacement -------------------------
(***************************************************************************)
(* The data of a staged multi-file replacement: operations on files, the   *)
(* recorded images of an intent, and the classification by which apply,    *)
(* rollback, finalisation and recovery decide what each target is.         *)
(*                                                                         *)
(* A content stands for the bytes and for their SHA-256 hash at once.  An  *)
(* intent target keeps two partial maps from paths to contents, its        *)
(* preimage and its postimage, which is all that the three kinds of        *)
(* operation differ in: a replacement touches one path, a move two, and a  *)
(* deletion has an absent postimage.                                       *)
(***************************************************************************)
EXTENDS Naturals, Sequences

CONSTANTS Path,      \* context-relative paths of canonical files
          Content,   \* file contents, told apart by their hash
          Absent     \* the path names no file

ASSUME AbsentAssumption == Absent \notin Content

Image == Content \cup {Absent}

(***************************************************************************)
(* What a proposal asks for: a StagedWrite, StagedMove or StagedDelete.    *)
(***************************************************************************)
Op == [kind : {"replace"}, target : Path, content : Content]
        \cup [kind : {"move"}, target : Path, destination : Path]
        \cup [kind : {"delete"}, target : Path]

Touched(op) ==
  IF op.kind = "move" THEN {op.target, op.destination} ELSE {op.target}

(* Two operations of one proposal may not claim the same path. *)
Collide(ops) ==
  \/ \E i, j \in DOMAIN ops : i # j /\ Touched(ops[i]) \cap Touched(ops[j]) # {}
  \/ \E i \in DOMAIN ops : ops[i].kind = "move" /\ ops[i].target = ops[i].destination

(* A move or a deletion needs its source, a move a free destination. *)
Possible(op, files) ==
  /\ op.kind # "replace" => files[op.target] # Absent
  /\ op.kind = "move" => files[op.destination] = Absent

(* The intent target prepared for an operation against the files it finds. *)
Snapshot(op, files) ==
  [kind |-> op.kind,
   pre  |-> [p \in Touched(op) |-> files[p]],
   post |-> [p \in Touched(op) |->
               IF op.kind = "replace" THEN op.content
               ELSE IF op.kind = "move" /\ p = op.destination
                    THEN files[op.target] ELSE Absent]]

(* What an intent records of one operation; a move names a path it empties  *)
(* and one it found empty.                                                 *)
TargetOn(S) ==
  {tg \in [kind : {"replace", "move", "delete"}, pre : [S -> Image], post : [S -> Image]] :
     tg.kind = "move" => \E p, q \in S : tg.pre[p] = Absent /\ tg.post[q] = Absent}

IntentTarget == UNION {TargetOn(S) : S \in SUBSET Path}

(* An update whose postimage equals the bytes already there. *)
NoOp(tg) == tg.pre = tg.post

-----------------------------------------------------------------------------
(***************************************************************************)
(* Where a target stands against its recorded images.  The postimage is    *)
(* tried first, so an operation that changes nothing always counts as      *)
(* applied; a replacement still pending needs its staged file.             *)
(***************************************************************************)
Shows(files, image) == \A p \in DOMAIN image : files[p] = image[p]

Applied(tg, files) == Shows(files, tg.post)

(* Fault of Pending: the preimage hash is not compared. *)
PendingUnchecked(tg, files, hasStage) ==
  ~Applied(tg, files) /\ (tg.kind = "replace" => hasStage)

Pending(tg, files, hasStage) ==
  /\ ~Applied(tg, files)
  /\ Shows(files, tg.pre)
  /\ tg.kind = "replace" => hasStage

Conflict(tg, files, hasStage) ==
  ~Applied(tg, files) /\ ~Pending(tg, files, hasStage)

(* Every path of the image takes its recorded content. *)
Put(files, image) ==
  [p \in DOMAIN files |-> IF p \in DOMAIN image THEN image[p] ELSE files[p]]

(***************************************************************************)
(* One os.replace or unlink towards an image.  A replacement and a         *)
(* deletion end in the recorded content whatever they overwrite; a rename  *)
(* carries the content its origin has at that moment, and needs one.       *)
(***************************************************************************)
Origin(image) == CHOOSE p \in DOMAIN image : image[p] = Absent

Renamed(files, image) ==
  [p \in DOMAIN files |->
     IF p \in DOMAIN image /\ image[p] # Absent THEN files[Origin(image)]
     ELSE IF p \in DOMAIN image THEN Absent ELSE files[p]]

CanMutate(tg, files, image) == tg.kind = "move" => files[Origin(image)] # Absent

Mutated(tg, files, image) ==
  IF tg.kind = "move" THEN Renamed(files, image) ELSE Put(files, image)

(* The indices of the targets that own a staged postimage file. *)
StagedFiles(targets) == {i \in DOMAIN targets : targets[i].kind = "replace"}

(***************************************************************************)
(* inspect_recovery's verdict on a whole intent, given the staged files    *)
(* that are left of its transaction directory.                             *)
(***************************************************************************)
SomeConflict(targets, files, stages) ==
  \E i \in DOMAIN targets : Conflict(targets[i], files, i \in stages)

AllApplied(targets, files) == \A i \in DOMAIN targets : Applied(targets[i], files)

AllPending(targets, files, stages) ==
  \A i \in DOMAIN targets : Pending(targets[i], files, i \in stages)

(* finalize_rollback_after_audit: preimages are back, postimages are kept. *)
RolledBack(targets, files, stages) ==
  \A i \in DOMAIN targets :
    /\ Shows(files, targets[i].pre)
    /\ targets[i].kind = "replace" => i \in stages
=============================================================================
