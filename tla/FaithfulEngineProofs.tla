------------------------ MODULE FaithfulEngineProofs ------------------------
(***************************************************************************)
(* Theorems about what the transaction engine makes of the files, while    *)
(* every lease is kept up and nobody edits a canonical file by hand.  The  *)
(* images of an intent, the staged files and the ledger then always tell   *)
(* together what the files are, and the engine implements the atomic store *)
(* whose proposals commit or abort in one step.                            *)
(***************************************************************************)
EXTENDS TransactionEngineProofs

Undisturbed == Steady /\ spent["edits"] = 0
-----------------------------------------------------------------------------
(***************************************************************************)
(* The targets of an intent: what prepare records of operations that do    *)
(* not collide.  A move empties one path and fills another with what the   *)
(* first one held; no path belongs to two targets.                         *)
(***************************************************************************)
MovesAcross(tg, p, q) ==
  /\ p # q /\ DOMAIN tg.pre = {p, q}
  /\ tg.pre[p] # Absent /\ tg.pre[q] = Absent
  /\ tg.post[p] = Absent /\ tg.post[q] = tg.pre[p]

Clear(tg) ==
  /\ DOMAIN tg.pre = DOMAIN tg.post
  /\ tg.kind = "move" => \E p, q \in DOMAIN tg.pre : MovesAcross(tg, p, q)

Apart(targets) ==
  \A i, j \in DOMAIN targets :
    i # j => DOMAIN targets[i].pre \cap DOMAIN targets[j].pre = {}

Sound(targets) == Apart(targets) /\ \A i \in DOMAIN targets : Clear(targets[i])

(* A target that was not touched, or was put back. *)
Back(tg, fs, staged) == Shows(fs, tg.pre) /\ (tg.kind = "replace" => staged)

LEMMA SnapshotClear ==
  ASSUME NEW fs \in [Path -> Image], NEW op \in Op, Possible(op, fs),
         op.kind = "move" => op.target # op.destination
  PROVE  /\ Clear(Snapshot(op, fs))
         /\ DOMAIN Snapshot(op, fs).pre = Touched(op)
         /\ Shows(fs, Snapshot(op, fs).pre)
<1> DEFINE tg == Snapshot(op, fs)
<1>1. DOMAIN tg.pre = Touched(op) /\ DOMAIN tg.post = Touched(op) /\ tg.kind = op.kind
  BY DEF Snapshot
<1>2. Shows(fs, tg.pre)
  BY DEF Snapshot, Shows
<1>3. CASE op.kind = "move"
  <2>1. MovesAcross(tg, op.target, op.destination)
    BY <1>3 DEF Snapshot, Touched, MovesAcross, Possible
  <2> QED BY <1>1, <1>2, <1>3, <2>1 DEF Clear, Touched
<1> HIDE DEF tg
<1>4. CASE op.kind # "move"
  BY <1>1, <1>2, <1>4 DEF Clear, tg
<1> QED BY <1>3, <1>4

LEMMA TargetFields ==
  ASSUME NEW tg \in IntentTarget
  PROVE  /\ DOMAIN tg.pre \subseteq Path /\ DOMAIN tg.post \subseteq Path
         /\ tg.pre \in [DOMAIN tg.pre -> Image] /\ tg.post \in [DOMAIN tg.pre -> Image]
         /\ tg.kind \in {"replace", "move", "delete"}
<1>1. PICK S \in SUBSET Path : tg \in TargetOn(S)
  BY DEF IntentTarget
<1> QED BY <1>1 DEF TargetOn

(* Replacing a file that is still as recorded yields its postimage and      *)
(* leaves every other path alone; putting it back yields its preimage.     *)
LEMMA MutatedForward ==
  ASSUME NEW fs \in [Path -> Image], NEW tg \in IntentTarget, Clear(tg),
         Shows(fs, tg.pre)
  PROVE  /\ Shows(Mutated(tg, fs, tg.post), tg.post)
         /\ \A p \in Path \ DOMAIN tg.pre : Mutated(tg, fs, tg.post)[p] = fs[p]
<1>1. /\ DOMAIN tg.pre \subseteq Path /\ DOMAIN tg.post = DOMAIN tg.pre
      /\ DOMAIN fs = Path
  BY TargetFields DEF Clear
<1>2. CASE tg.kind = "move"
  <2>1. PICK p, q \in DOMAIN tg.pre : MovesAcross(tg, p, q)
    BY <1>2 DEF Clear
  <2>2. Origin(tg.post) = p
    BY <1>1, <2>1 DEF MovesAcross, Origin
  <2>3. Mutated(tg, fs, tg.post)
          = [r \in Path |-> IF r \in DOMAIN tg.post /\ tg.post[r] # Absent THEN fs[p]
                            ELSE IF r \in DOMAIN tg.post THEN Absent ELSE fs[r]]
    BY <1>1, <1>2, <2>2 DEF Mutated, Renamed
  <2> QED BY <1>1, <2>1, <2>3 DEF MovesAcross, Shows
<1>3. CASE tg.kind # "move"
  BY <1>1, <1>3 DEF Mutated, Put, Shows
<1> QED BY <1>2, <1>3

LEMMA MutatedBack ==
  ASSUME NEW fs \in [Path -> Image], NEW tg \in IntentTarget, Clear(tg),
         Shows(fs, tg.post)
  PROVE  /\ Shows(Mutated(tg, fs, tg.pre), tg.pre)
         /\ \A p \in Path \ DOMAIN tg.pre : Mutated(tg, fs, tg.pre)[p] = fs[p]
<1>1. /\ DOMAIN tg.pre \subseteq Path /\ DOMAIN tg.post = DOMAIN tg.pre
      /\ DOMAIN fs = Path
  BY TargetFields DEF Clear
<1>2. CASE tg.kind = "move"
  <2>1. PICK p, q \in DOMAIN tg.pre : MovesAcross(tg, p, q)
    BY <1>2 DEF Clear
  <2>2. Origin(tg.pre) = q
    BY <1>1, <2>1 DEF MovesAcross, Origin
  <2>3. Mutated(tg, fs, tg.pre)
          = [r \in Path |-> IF r \in DOMAIN tg.pre /\ tg.pre[r] # Absent THEN fs[q]
                            ELSE IF r \in DOMAIN tg.pre THEN Absent ELSE fs[r]]
    BY <1>1, <1>2, <2>2 DEF Mutated, Renamed
  <2> QED BY <1>1, <2>1, <2>3 DEF MovesAcross, Shows
<1>3. CASE tg.kind # "move"
  BY <1>1, <1>3 DEF Mutated, Put, Shows
<1> QED BY <1>2, <1>3

(* What happens on the paths of one target does not concern another one.    *)
LEMMA OtherTargetsStay ==
  ASSUME NEW targets \in Seq(IntentTarget), Sound(targets),
         NEW i \in DOMAIN targets, NEW j \in DOMAIN targets, i # j,
         NEW fs \in [Path -> Image], NEW gs \in [Path -> Image],
         \A p \in Path \ DOMAIN targets[i].pre : gs[p] = fs[p]
  PROVE  /\ Shows(gs, targets[j].pre) <=> Shows(fs, targets[j].pre)
         /\ Shows(gs, targets[j].post) <=> Shows(fs, targets[j].post)
<1>1. targets[j] \in IntentTarget
  BY ElementOfSeq, LenProperties
<1>2. /\ DOMAIN targets[j].pre \subseteq Path
      /\ DOMAIN targets[j].post = DOMAIN targets[j].pre
      /\ DOMAIN targets[i].pre \cap DOMAIN targets[j].pre = {}
  BY <1>1, TargetFields DEF Sound, Clear, Apart
<1> QED BY <1>2 DEF Shows
-----------------------------------------------------------------------------
(***************************************************************************)
(* The images of all the targets, put together.                            *)
(***************************************************************************)
LEMMA CombinedPre ==
  ASSUME NEW targets \in Seq(IntentTarget), Sound(targets)
  PROVE  /\ DOMAIN Combine(targets, Pre)
              = UNION {DOMAIN targets[i].pre : i \in DOMAIN targets}
         /\ \A i \in DOMAIN targets : \A p \in DOMAIN targets[i].pre :
              Combine(targets, Pre)[p] = targets[i].pre[p]
<1>1. Combine(targets, Pre)
        = [p \in UNION {DOMAIN targets[i].pre : i \in DOMAIN targets} |->
             targets[CHOOSE j \in DOMAIN targets : p \in DOMAIN targets[j].pre].pre[p]]
  BY DEF Combine, Pre
<1>2. ASSUME NEW i \in DOMAIN targets, NEW p \in DOMAIN targets[i].pre
      PROVE  (CHOOSE j \in DOMAIN targets : p \in DOMAIN targets[j].pre) = i
  BY DEF Sound, Apart
<1> QED BY <1>1, <1>2

LEMMA CombinedPost ==
  ASSUME NEW targets \in Seq(IntentTarget), Sound(targets)
  PROVE  /\ DOMAIN Combine(targets, Post)
              = UNION {DOMAIN targets[i].pre : i \in DOMAIN targets}
         /\ \A i \in DOMAIN targets : \A p \in DOMAIN targets[i].pre :
              Combine(targets, Post)[p] = targets[i].post[p]
<1>1. \A i \in DOMAIN targets : DOMAIN targets[i].post = DOMAIN targets[i].pre
  BY DEF Sound, Clear
<1>2. Combine(targets, Post)
        = [p \in UNION {DOMAIN targets[i].post : i \in DOMAIN targets} |->
             targets[CHOOSE j \in DOMAIN targets : p \in DOMAIN targets[j].post].post[p]]
  BY DEF Combine, Post
<1>3. UNION {DOMAIN targets[i].post : i \in DOMAIN targets}
        = UNION {DOMAIN targets[i].pre : i \in DOMAIN targets}
  BY <1>1
<1>4. ASSUME NEW i \in DOMAIN targets, NEW p \in DOMAIN targets[i].pre
      PROVE  (CHOOSE j \in DOMAIN targets : p \in DOMAIN targets[j].post) = i
  <2>1. \A j \in DOMAIN targets : p \in DOMAIN targets[j].post <=> j = i
    BY <1>1 DEF Sound, Apart
  <2> QED BY <2>1
<1> QED BY <1>1, <1>2, <1>3, <1>4

(* Putting every preimage back. *)
LEMMA PutBack ==
  ASSUME NEW fs \in [Path -> Image], NEW targets \in Seq(IntentTarget), Sound(targets)
  PROVE  /\ DOMAIN Put(fs, Combine(targets, Pre)) = Path
         /\ \A i \in DOMAIN targets : \A p \in DOMAIN targets[i].pre :
              Put(fs, Combine(targets, Pre))[p] = targets[i].pre[p]
         /\ \A p \in Path : (\A i \in DOMAIN targets : p \notin DOMAIN targets[i].pre) =>
              Put(fs, Combine(targets, Pre))[p] = fs[p]
<1>1. \A i \in DOMAIN targets : DOMAIN targets[i].pre \subseteq Path
  BY ElementOfSeq, LenProperties, TargetFields
<1> DEFINE image == Combine(targets, Pre)
<1>2. /\ DOMAIN image = UNION {DOMAIN targets[i].pre : i \in DOMAIN targets}
      /\ \A i \in DOMAIN targets : \A p \in DOMAIN targets[i].pre :
           image[p] = targets[i].pre[p]
  BY CombinedPre
<1> HIDE DEF image
<1>3. Put(fs, image) = [p \in Path |-> IF p \in DOMAIN image THEN image[p] ELSE fs[p]]
  BY DEF Put
<1>4. /\ \A i \in DOMAIN targets : \A p \in DOMAIN targets[i].pre :
           p \in Path /\ p \in DOMAIN image
      /\ \A p \in DOMAIN image : \E i \in DOMAIN targets : p \in DOMAIN targets[i].pre
  BY <1>1, <1>2
<1>5. /\ DOMAIN Put(fs, image) = Path
      /\ \A i \in DOMAIN targets : \A p \in DOMAIN targets[i].pre :
           Put(fs, image)[p] = targets[i].pre[p]
      /\ \A p \in Path : (\A i \in DOMAIN targets : p \notin DOMAIN targets[i].pre) =>
           Put(fs, image)[p] = fs[p]
  BY <1>2, <1>3, <1>4
<1> QED BY <1>5 DEF image

LEMMA PutBackAgrees ==
  ASSUME NEW fs \in [Path -> Image], NEW gs \in [Path -> Image],
         NEW targets \in Seq(IntentTarget), Sound(targets),
         NEW i \in DOMAIN targets,
         \A p \in Path \ DOMAIN targets[i].pre : gs[p] = fs[p]
  PROVE  Put(gs, Combine(targets, Pre)) = Put(fs, Combine(targets, Pre))
<1>1. i \in DOMAIN targets /\ DOMAIN targets[i].pre
        \subseteq UNION {DOMAIN targets[j].pre : j \in DOMAIN targets}
  OBVIOUS
<1>2. DOMAIN Combine(targets, Pre) = UNION {DOMAIN targets[j].pre : j \in DOMAIN targets}
  BY CombinedPre
<1> QED BY <1>1, <1>2 DEF Put

LEMMA PutBackShown ==
  ASSUME NEW fs \in [Path -> Image], NEW targets \in Seq(IntentTarget), Sound(targets),
         \A i \in DOMAIN targets : Shows(fs, targets[i].pre)
  PROVE  Put(fs, Combine(targets, Pre)) = fs
<1> DEFINE image == Combine(targets, Pre)
<1>1. \A p \in DOMAIN image : image[p] = fs[p]
  <2>1. /\ DOMAIN image = UNION {DOMAIN targets[i].pre : i \in DOMAIN targets}
        /\ \A i \in DOMAIN targets : \A p \in DOMAIN targets[i].pre :
             image[p] = targets[i].pre[p]
    BY CombinedPre
  <2> HIDE DEF image
  <2> QED BY <2>1 DEF Shows
<1> HIDE DEF image
<1>2. Put(fs, image) = fs
  BY <1>1 DEF Put
<1> QED BY <1>2 DEF image
-----------------------------------------------------------------------------
(***************************************************************************)
(* What the disk tells, and what the run that works on it relies on.       *)
(***************************************************************************)
Intact ==
  /\ Whole => Sound(intent.targets)
  /\ Whole /\ ~Recorded(ledger, intent.txn) => ~Conflicted
  /\ EventTellsTruth

Filling == {"publish", "create", "fill"}
Sealing == {"append", "extend"}
Undecided == Applying \cup {"rescan", "rollback", "restore"}

Kept(s) ==
  /\ pc[s] \in Filling => Sound(Targets(s))
  /\ pc[s] \in Filling \cup {"prepared"} => RolledBack(Targets(s), files, Stages(s))
  /\ pc[s] \in Undecided => run[s].verdict = "rolled_back"
  /\ pc[s] \in {"apply", "mutate"} =>
       \A i \in DOMAIN Targets(s) : i < run[s].cursor => Applied(Targets(s)[i], files)
  /\ pc[s] = "mutate" => Pending(Current(s), files, HasStage(s))
  /\ pc[s] = "validate" => AllApplied(Targets(s), files)
  /\ pc[s] \in {"rollback", "restore"} =>
       \A i \in DOMAIN Targets(s) : i > run[s].cursor =>
         Back(Targets(s)[i], files, i \in Stages(s))
  /\ pc[s] = "restore" => Applied(Current(s), files) /\ ~StageLost(s)
  /\ pc[s] \in Sealing =>
       IF run[s].verdict = "committed" THEN AllApplied(Targets(s), files)
       ELSE RolledBack(Targets(s), files, Stages(s))
  /\ pc[s] \in Applying => Targets(s) = proposal[run[s].job].targets
  /\ pc[s] \in Sealing /\ run[s].verdict = "committed" =>
       Targets(s) = proposal[run[s].job].targets

(* Of the events that write a path one is the last. *)
IsLastWrite(n, events, p) ==
  /\ Writes(events[n], p)
  /\ \A m \in DOMAIN events : Writes(events[m], p) => m <= n

Traceable(events) ==
  \A p \in Path :
    (\E n \in DOMAIN events : Writes(events[n], p)) =>
      \E n \in DOMAIN events : IsLastWrite(n, events, p)

Faithful ==
  /\ Exclusive
  /\ Intact
  /\ Traceable(ledger)
  /\ Reliable = Replay(ledger)
  /\ \A s \in Session : Kept(s)

(* A session at rest relies on nothing. *)
Resting == {"idle", "inspect", "prepare", "finalize", "remove", "release"}

LEMMA RestingKept ==
  ASSUME NEW s \in Session, pc'[s] \in Resting
  PROVE  Kept(s)'
<1>1. /\ pc'[s] \notin Filling /\ pc'[s] \notin Unaudited /\ pc'[s] \notin Sealing
      /\ pc'[s] \notin Applying
      /\ pc'[s] \notin {"prepared", "apply", "mutate", "validate", "rescan", "rollback",
                        "restore"}
  BY DEF Resting, Filling, Sealing, Unaudited, Applying
<1>2. pc'[s] \notin Filling \cup {"prepared"} /\ pc'[s] \notin {"apply", "mutate"}
      /\ pc'[s] \notin {"rollback", "restore"} /\ pc'[s] \notin Undecided
      /\ pc'[s] # "mutate" /\ pc'[s] # "validate" /\ pc'[s] # "restore"
  BY <1>1 DEF Undecided
<1> QED BY <1>1, <1>2 DEF Kept

LEMMA TargetsType ==
  ASSUME Shape, NEW s \in Session, pc[s] \notin {"idle", "inspect", "prepare", "release"}
  PROVE  /\ run[s].plan \in Intent /\ Targets(s) \in Seq(IntentTarget)
         /\ Len(Targets(s)) \in Nat /\ DOMAIN Targets(s) = 1..Len(Targets(s))
         /\ run[s].cursor \in Nat
BY LenProperties DEF Shape, TypeOK, Run, Aware, PlanKnown, Targets, Intent

LEMMA DiskSame ==
  ASSUME Intact, UNCHANGED <<files, intent, stages, ledger>>
  PROVE  Intact' /\ Reliable' = Reliable
BY DEF Intact, EventTellsTruth, Whole, Conflicted, Reliable, Committed

(* Without a whole intent no staged file matters. *)
LEMMA DiskBare ==
  ASSUME ~Whole, UNCHANGED <<files, intent, ledger>>
  PROVE  Intact' /\ Reliable' = Reliable
BY DEF Intact, EventTellsTruth, Whole, Reliable

(* The steps that look at the disk and write nothing to it. *)
LEMMA LookingKept ==
  ASSUME Faithful, NEW s \in Session,
         \/ Compare(s) \/ ScanApply(s) \/ ApplyNext(s) \/ ApplyDone(s) \/ Validate(s)
         \/ ScanRollback(s) \/ RollbackDone(s) \/ CheckAppend(s) \/ CheckFinalize(s)
  PROVE  /\ UNCHANGED <<files, intent, stages, ledger>>
         /\ Kept(s)'
<1> USE DEF Goto, Raise, End, disk, Filling, Sealing, Undecided, Applying
<1>0. /\ Shape /\ pc \in [Session -> Label] /\ run \in [Session -> Run] /\ Kept(s)
  BY DEF Faithful, Exclusive, Attributed, Shape, TypeOK
<1>1. UNCHANGED <<files, intent, stages, ledger, proposal>>
  BY DEF Compare, ScanApply, ApplyNext, ApplyDone, Validate, ScanRollback, RollbackDone,
         CheckAppend, CheckFinalize
<1>2. /\ run[s].plan \in Intent /\ Targets(s) \in Seq(IntentTarget)
      /\ Len(Targets(s)) \in Nat /\ DOMAIN Targets(s) = 1..Len(Targets(s))
      /\ run[s].cursor \in Nat
  BY <1>0, TargetsType DEF Compare, ScanApply, ApplyNext, ApplyDone, Validate, ScanRollback,
                           RollbackDone, CheckAppend, CheckFinalize
<1>3. run'[s].plan = run[s].plan /\ run'[s].job = run[s].job
  BY <1>0, SteadyStep
<1>4. Targets(s)' = Targets(s) /\ Stages(s)' = Stages(s)
  BY <1>1, <1>3 DEF Targets, Stages
<1>5. CASE pc'[s] \in {"release", "remove"}
  <2>1. pc'[s] \in Resting
    BY <1>5 DEF Resting
  <2> QED BY <1>1, <2>1, RestingKept
<1>6. CASE Compare(s)
  <2>1. /\ pc[s] = "prepared" /\ run'[s].verdict = "rolled_back"
        /\ pc'[s] = IF Targets(s) = proposal[run[s].job].targets THEN "scan" ELSE "append"
    BY <1>0, <1>6 DEF Compare, Run
  <2> QED BY <1>0, <1>1, <1>3, <1>4, <2>1 DEF Kept
<1>7. CASE ScanApply(s) /\ pc'[s] # "release"
  <2>1. /\ pc[s] = "scan" /\ pc'[s] = "apply" /\ run'[s].cursor = 1
        /\ run'[s].verdict = run[s].verdict
    BY <1>0, <1>7 DEF ScanApply, Run
  <2> QED BY <1>0, <1>1, <1>2, <1>3, <1>4, <2>1 DEF Kept
<1>8. CASE ApplyNext(s) /\ pc'[s] # "release"
  <2>1. /\ pc[s] = "apply" /\ run'[s].verdict = run[s].verdict
        /\ \/ /\ pc'[s] = "apply" /\ run'[s].cursor = run[s].cursor + 1
              /\ Applied(Current(s), files)
           \/ /\ pc'[s] = "mutate" /\ run' = run
              /\ Pending(Current(s), files, HasStage(s))
    BY <1>0, <1>8 DEF ApplyNext, Run
  <2>2. CASE pc'[s] = "mutate"
    BY <1>0, <1>1, <1>3, <1>4, <2>1, <2>2 DEF Kept, Current, HasStage
  <2>3. CASE pc'[s] = "apply"
    <3>1. \A i \in DOMAIN Targets(s) : i < run[s].cursor + 1 => Applied(Targets(s)[i], files)
      <4>1. \A i \in DOMAIN Targets(s) : i < run[s].cursor + 1 =>
              i < run[s].cursor \/ i = run[s].cursor
        BY <1>2
      <4> QED BY <1>0, <2>1, <2>3, <4>1 DEF Kept, Current
    <3> QED BY <1>0, <1>1, <1>3, <1>4, <2>1, <2>3, <3>1 DEF Kept
  <2> QED BY <2>1, <2>2, <2>3
<1>9. CASE ApplyDone(s)
  <2>1. pc[s] = "apply" /\ pc'[s] = "validate" /\ run' = run
    BY <1>0, <1>9 DEF ApplyDone
  <2>2. \A i \in DOMAIN Targets(s) : i < run[s].cursor
    BY <1>2, <1>9 DEF ApplyDone
  <2>3. AllApplied(Targets(s), files)
    BY <1>0, <2>1, <2>2 DEF Kept, AllApplied
  <2> QED BY <1>0, <1>1, <1>3, <1>4, <2>1, <2>3 DEF Kept
<1>10. CASE Validate(s)
  <2>1. /\ pc[s] = "validate"
        /\ \/ pc'[s] = "append" /\ run'[s].verdict = "committed"
           \/ pc'[s] = "rescan" /\ run'[s].verdict = run[s].verdict
    BY <1>0, <1>10 DEF Validate, Run
  <2> QED BY <1>0, <1>1, <1>3, <1>4, <2>1 DEF Kept
<1>11. CASE ScanRollback(s) /\ pc'[s] # "release"
  <2>1. /\ pc[s] = "rescan" /\ pc'[s] = "rollback" /\ run'[s].cursor = Len(Targets(s))
        /\ run'[s].verdict = run[s].verdict
    BY <1>0, <1>11 DEF ScanRollback, Run
  <2> QED BY <1>0, <1>1, <1>2, <1>3, <1>4, <2>1 DEF Kept
<1>12. CASE RollbackDone(s)
  <2>1. pc[s] = "rollback" /\ pc'[s] = "append" /\ run' = run /\ run[s].cursor = 0
    BY <1>0, <1>12 DEF RollbackDone
  <2>2. RolledBack(Targets(s), files, Stages(s))
    <3>1. \A i \in DOMAIN Targets(s) : i > run[s].cursor
      BY <1>2, <2>1
    <3> QED BY <1>0, <2>1, <3>1 DEF Kept, RolledBack, Back
  <2> QED BY <1>0, <1>1, <1>3, <1>4, <2>1, <2>2 DEF Kept
<1>13. CASE CheckAppend(s) /\ pc'[s] # "release"
  <2>1. pc[s] = "append" /\ pc'[s] = "extend" /\ run' = run
    BY <1>0, <1>13 DEF CheckAppend
  <2> QED BY <1>0, <1>1, <1>3, <1>4, <2>1 DEF Kept
<1>14. CASE CheckFinalize(s)
  BY <1>0, <1>5, <1>14 DEF CheckFinalize
<1> QED BY <1>1, <1>5, <1>6, <1>7, <1>8, <1>9, <1>10, <1>11, <1>12, <1>13, <1>14

(* What prepare records of the files is sound, and what it finds there.     *)
LEMMA PreparedTargets ==
  ASSUME Shape, NEW t \in Txn, ~Collide(Ops[t]),
         \A i \in DOMAIN Ops[t] : Possible(Ops[t][i], files)
  PROVE  LET targets == [i \in DOMAIN Ops[t] |-> Snapshot(Ops[t][i], files)]
         IN Sound(targets) /\ RolledBack(targets, files, StagedFiles(targets))
<1> DEFINE targets == [i \in DOMAIN Ops[t] |-> Snapshot(Ops[t][i], files)]
<1>1. \A i \in DOMAIN Ops[t] : Ops[t][i] \in Op
  BY OpsAssumption, LenProperties, ElementOfSeq
<1>2. ASSUME NEW i \in DOMAIN targets
      PROVE  /\ Clear(targets[i]) /\ DOMAIN targets[i].pre = Touched(Ops[t][i])
             /\ Shows(files, targets[i].pre)
  <2>1. Ops[t][i].kind = "move" => Ops[t][i].target # Ops[t][i].destination
    BY DEF Collide
  <2>2. Ops[t][i] \in Op /\ Possible(Ops[t][i], files) /\ files \in [Path -> Image]
    BY <1>1 DEF Shape, TypeOK
  <2>3. targets[i] = Snapshot(Ops[t][i], files)
    OBVIOUS
  <2> QED BY <2>1, <2>2, <2>3, SnapshotClear
<1>3. DOMAIN targets = DOMAIN Ops[t]
  OBVIOUS
<1> HIDE DEF targets
<1>4. Apart(targets)
  BY <1>2, <1>3 DEF Apart, Collide
<1>5. RolledBack(targets, files, StagedFiles(targets))
  BY <1>2 DEF RolledBack, StagedFiles
<1> QED BY <1>2, <1>4, <1>5 DEF Sound, targets

(* The steps that lead a proposal to its whole intent. *)
LEMMA PublishingKept ==
  ASSUME Faithful, Shape', NEW s \in Session,
         PrepareAssets(s) \/ FencePublish(s) \/ CreateIntent(s) \/ FillIntent(s)
  PROVE  Kept(s)' /\ Intact' /\ Reliable' = Reliable /\ UNCHANGED ledger
<1> USE DEF Goto, Raise, End
<1>0. /\ Shape /\ pc \in [Session -> Label] /\ run \in [Session -> Run] /\ Kept(s)
      /\ Anchored(s) /\ Intact /\ files \in [Path -> Image]
      /\ stages \in [Session -> SUBSET Nat]
  BY DEF Faithful, Exclusive, Attributed, Shape, TypeOK
<1>1. UNCHANGED <<files, ledger, proposal>>
  BY DEF PrepareAssets, FencePublish, CreateIntent, FillIntent
<1>2. CASE PrepareAssets(s)
  <2> DEFINE t == run[s].job
             targets == [i \in DOMAIN Ops[t] |-> Snapshot(Ops[t][i], files)]
             plan == [txn |-> t, owner |-> s, targets |-> targets]
  <2>1. pc[s] = "prepare" /\ ~Whole /\ UNCHANGED intent /\ t \in Txn
    BY <1>0, <1>2 DEF PrepareAssets, Anchored, Unpublished, Whole, Aware, JobKnown,
                      Preparing, Shape, Run
  <2>2. Intact' /\ Reliable' = Reliable
    BY <1>1, <2>1, DiskBare
  <2>3. CASE Preparable(t) /\ pc'[s] # "release"
    <3>1. Sound(targets) /\ RolledBack(targets, files, StagedFiles(targets))
      BY <1>0, <2>1, <2>3, PreparedTargets DEF Preparable
    <3>2. /\ run' = [run EXCEPT ![s].plan = plan]
          /\ stages' = [stages EXCEPT ![s] = StagedFiles(targets)] /\ pc'[s] = "publish"
      BY <1>0, <1>2, <2>3 DEF PrepareAssets
    <3>3. plan.targets = targets /\ plan.owner = s
      OBVIOUS
    <3> HIDE DEF plan, targets
    <3>4. run'[s].plan = plan
      BY <1>0, <3>2 DEF Run
    <3>5. Targets(s)' = targets /\ Stages(s)' = StagedFiles(targets)
      BY <1>0, <3>2, <3>3, <3>4 DEF Targets, Stages
    <3> QED BY <1>1, <2>2, <3>1, <3>2, <3>5
            DEF Kept, Filling, Sealing, Undecided, Applying
  <2>4. CASE pc'[s] = "release"
    <3>1. Kept(s)'
      BY <2>4, RestingKept DEF Resting
    <3> QED BY <1>1, <2>2, <3>1
  <2> QED BY <1>0, <1>2, <2>3, <2>4 DEF PrepareAssets
<1>3. CASE FencePublish(s) \/ CreateIntent(s) \/ FillIntent(s)
  <2>1. /\ pc[s] \in Filling /\ UNCHANGED run
        /\ Targets(s)' = Targets(s)
    BY <1>3 DEF FencePublish, CreateIntent, FillIntent, Filling, Targets
  <2>2. ~Whole
    BY <1>0, <1>3 DEF FencePublish, CreateIntent, FillIntent, Anchored, Unpublished, Whole
  <2>3. Sound(Targets(s)) /\ RolledBack(Targets(s), files, Stages(s))
    BY <1>0, <2>1 DEF Kept
  <2>4. CASE FencePublish(s)
    <3>1. Intact' /\ Reliable' = Reliable
      BY <1>1, <2>2, <2>4, DiskBare DEF FencePublish
    <3>2. CASE pc'[s] = "release"
      BY <1>1, <3>1, <3>2, RestingKept DEF Resting
    <3>3. CASE pc'[s] = "create" /\ UNCHANGED stages
      <4>1. Stages(s)' = Stages(s)
        BY <2>1, <3>3 DEF Stages
      <4> QED BY <1>1, <2>1, <2>3, <3>1, <3>3, <4>1
              DEF Kept, Filling, Sealing, Undecided, Applying
    <3> QED BY <1>0, <2>4, <3>2, <3>3 DEF FencePublish
  <2>5. CASE CreateIntent(s)
    <3>1. ~Whole' /\ UNCHANGED stages
      BY <2>2, <2>5 DEF CreateIntent, Whole
    <3>2. Intact' /\ Reliable' = Reliable
      BY <1>1, <2>2, <3>1 DEF Intact, EventTellsTruth, Reliable
    <3>3. CASE pc'[s] = "release"
      BY <1>1, <3>2, <3>3, RestingKept DEF Resting
    <3>4. CASE pc'[s] = "fill"
      <4>1. Stages(s)' = Stages(s)
        BY <2>1, <3>1 DEF Stages
      <4> QED BY <1>1, <2>1, <2>3, <3>2, <3>4, <4>1
              DEF Kept, Filling, Sealing, Undecided, Applying
    <3> QED BY <1>0, <2>5, <3>3, <3>4 DEF CreateIntent
  <2>6. CASE FillIntent(s)
    <3>1. /\ pc[s] = "fill" /\ pc'[s] = "prepared" /\ intent' = run[s].plan
          /\ UNCHANGED stages /\ run[s].plan \in Intent
      BY <1>0, <2>6 DEF FillIntent, Shape, Aware, PlanKnown
    <3>2. /\ intent'.targets = Targets(s) /\ stages'[intent'.owner] = Stages(s)
          /\ intent' \in Intent /\ Stages(s)' = Stages(s)
          /\ Targets(s) \in Seq(IntentTarget)
      BY <2>1, <3>1 DEF Targets, Stages, Intent
    <3>3. ~Recorded(ledger, intent'.txn)
      BY <1>0, <3>1 DEF Anchored
    <3>4. ~Conflicted'
      BY <1>1, <2>3, <3>2 DEF Conflicted, SomeConflict, Conflict, Pending, RolledBack
    <3>5. Intact'
      BY <1>1, <2>3, <3>2, <3>3, <3>4 DEF Intact, EventTellsTruth
    <3>6. Put(files, Combine(Targets(s), Pre)) = files
      BY <1>0, <2>3, <3>2, PutBackShown DEF RolledBack
    <3>7. Reliable' = Reliable
      BY <1>1, <2>2, <3>2, <3>6 DEF Reliable
    <3> QED BY <1>1, <2>1, <2>3, <3>1, <3>2, <3>5, <3>7
            DEF Kept, Filling, Sealing, Undecided, Applying
  <2> QED BY <1>3, <2>4, <2>5, <2>6
<1> QED BY <1>2, <1>3

(* While targets are replaced or put back, the run has the whole, unaudited *)
(* intent to itself.                                                       *)
LEMMA AtWork ==
  ASSUME Faithful, NEW s \in Session, pc[s] \in Unaudited
  PROVE  /\ Whole /\ intent = run[s].plan /\ intent \in Intent
         /\ intent.targets = Targets(s) /\ stages[intent.owner] = Stages(s)
         /\ ~Recorded(ledger, intent.txn)
         /\ Sound(Targets(s)) /\ ~SomeConflict(Targets(s), files, Stages(s))
         /\ Targets(s) \in Seq(IntentTarget)
         /\ Len(Targets(s)) \in Nat /\ DOMAIN Targets(s) = 1..Len(Targets(s))
         /\ run[s].cursor \in Nat
<1>1. Shape /\ Anchored(s) /\ Intact
  BY DEF Faithful, Exclusive, Attributed
<1>2. /\ run[s].plan \in Intent /\ Targets(s) \in Seq(IntentTarget)
      /\ Len(Targets(s)) \in Nat /\ DOMAIN Targets(s) = 1..Len(Targets(s))
      /\ run[s].cursor \in Nat
  BY <1>1, TargetsType DEF Unaudited
<1>3. intent = run[s].plan /\ ~Recorded(ledger, intent.txn) /\ Whole
  BY <1>1, <1>2, NoneAssumption DEF Anchored, Published, Whole
<1> QED BY <1>1, <1>2, <1>3 DEF Intact, Conflicted, Targets, Stages

(* One target is replaced, or put back; the others and what its preimages   *)
(* say of the files stay.                                                  *)
LEMMA TargetMoves ==
  ASSUME Faithful, NEW s \in Session, pc[s] \in Unaudited,
         files' \in [Path -> Image],
         \A p \in Path \ DOMAIN Current(s).pre : files'[p] = files[p],
         run[s].cursor \in DOMAIN Targets(s),
         UNCHANGED <<intent, ledger>>,
         \A i \in DOMAIN Targets(s) \ {run[s].cursor} : i \in Stages(s)' <=> i \in Stages(s),
         Stages(s)' = stages'[intent.owner],
         \/ Applied(Current(s), files')
         \/ Back(Current(s), files', run[s].cursor \in Stages(s)')
  PROVE  /\ Intact' /\ Reliable' = Reliable
         /\ \A i \in DOMAIN Targets(s) \ {run[s].cursor} :
              /\ Shows(files', Targets(s)[i].pre) <=> Shows(files, Targets(s)[i].pre)
              /\ Applied(Targets(s)[i], files') <=> Applied(Targets(s)[i], files)
<1> DEFINE c == run[s].cursor
           targets == Targets(s)
<1>1. /\ Whole /\ intent.targets = targets /\ stages[intent.owner] = Stages(s)
      /\ ~Recorded(ledger, intent.txn)
      /\ Sound(targets) /\ ~SomeConflict(targets, files, Stages(s))
      /\ targets \in Seq(IntentTarget) /\ files \in [Path -> Image]
  BY AtWork DEF Faithful, Exclusive, Attributed, Shape, TypeOK
<1>2. Current(s) = targets[c]
  BY DEF Current
<1>3. ASSUME NEW i \in DOMAIN targets \ {c}
      PROVE  /\ Shows(files', targets[i].pre) <=> Shows(files, targets[i].pre)
             /\ Applied(targets[i], files') <=> Applied(targets[i], files)
  <2> HIDE DEF targets, c
  <2>1. c \in DOMAIN targets /\ i \in DOMAIN targets /\ c # i
    BY DEF targets, c
  <2>2. \A p \in Path \ DOMAIN targets[c].pre : files'[p] = files[p]
    BY <1>2
  <2> QED BY <1>1, <2>1, <2>2, OtherTargetsStay DEF Applied
<1>4. ASSUME NEW i \in DOMAIN targets PROVE ~Conflict(targets[i], files', i \in Stages(s)')
  <2>1. CASE i = c
    BY <1>2, <2>1 DEF Conflict, Pending, Back
  <2>2. CASE i # c
    BY <1>1, <1>3, <2>2 DEF SomeConflict, Conflict, Pending
  <2> QED BY <2>1, <2>2
<1>5. ~Conflicted'
  BY <1>1, <1>4 DEF Conflicted, SomeConflict
<1>6. Intact'
  BY <1>1, <1>5 DEF Intact, EventTellsTruth, Whole
<1>7. Put(files', Combine(targets, Pre)) = Put(files, Combine(targets, Pre))
  <2> HIDE DEF targets, c
  <2>1. c \in DOMAIN targets
    BY DEF targets, c
  <2>2. \A p \in Path \ DOMAIN targets[c].pre : files'[p] = files[p]
    BY <1>2
  <2> QED BY <1>1, <2>1, <2>2, PutBackAgrees
<1>8. Reliable' = Reliable
  BY <1>1, <1>7 DEF Reliable, Committed, Whole
<1> QED BY <1>3, <1>6, <1>8

LEMMA MutateKept ==
  ASSUME Faithful, Shape', NEW s \in Session, MutateTarget(s)
  PROVE  Kept(s)' /\ Intact' /\ Reliable' = Reliable /\ UNCHANGED ledger
<1> USE DEF Goto, Raise, End
<1>0. /\ Shape /\ pc \in [Session -> Label] /\ run \in [Session -> Run] /\ Kept(s)
      /\ Intact /\ files \in [Path -> Image] /\ stages \in [Session -> SUBSET Nat]
      /\ CursorInRange(s)
  BY DEF Faithful, Exclusive, Attributed, Shape, TypeOK, Aware
<1>1. UNCHANGED <<ledger, intent, proposal>> /\ pc[s] = "mutate" /\ pc[s] \in Unaudited
  BY DEF MutateTarget, Unaudited
<1>2. CASE /\ UNCHANGED <<files, stages, run>> /\ pc'[s] = "release"
  BY <1>0, <1>1, <1>2, DiskSame, RestingKept DEF Resting
<1> DEFINE c == run[s].cursor
           tg == Current(s)
<1>3. CASE /\ files' = Mutated(tg, files, tg.post)
           /\ stages' = [stages EXCEPT ![run[s].plan.owner] = @ \ {c}]
           /\ run' = [run EXCEPT ![s].cursor = @ + 1]
           /\ pc'[s] = "apply"
  <2>1. /\ Whole /\ intent = run[s].plan /\ intent \in Intent
        /\ Sound(Targets(s)) /\ Targets(s) \in Seq(IntentTarget)
        /\ Len(Targets(s)) \in Nat /\ DOMAIN Targets(s) = 1..Len(Targets(s)) /\ c \in Nat
    BY <1>1, AtWork
  <2>2. c \in DOMAIN Targets(s)
    BY <1>0, <1>1, <2>1 DEF CursorInRange
  <2>3. tg \in IntentTarget /\ Clear(tg) /\ Shows(files, tg.pre)
    <3>1. Pending(Current(s), files, HasStage(s))
      BY <1>0, <1>1 DEF Kept
    <3> QED BY <1>0, <1>1, <2>1, <2>2, <3>1, CurrentType DEF Sound, Current, Pending
  <2>4. /\ files' \in [Path -> Image]
        /\ Applied(tg, files')
        /\ \A p \in Path \ DOMAIN tg.pre : files'[p] = files[p]
    <3>1. files' \in [Path -> Image]
      BY DEF Shape, TypeOK
    <3> HIDE DEF tg
    <3> QED BY <1>0, <1>3, <2>3, <3>1, MutatedForward DEF Applied
  <2>5. /\ run'[s].cursor = c + 1 /\ run'[s].plan = run[s].plan
        /\ run'[s].job = run[s].job /\ run'[s].verdict = run[s].verdict
    BY <1>0, <1>3 DEF Run
  <2>6. Stages(s)' = stages'[intent.owner] /\ Stages(s)' = Stages(s) \ {c}
    BY <1>0, <1>3, <2>1, <2>5 DEF Stages, Intent
  <2>7. /\ Intact' /\ Reliable' = Reliable
        /\ \A i \in DOMAIN Targets(s) \ {c} :
             Applied(Targets(s)[i], files') <=> Applied(Targets(s)[i], files)
    BY <1>1, <2>2, <2>4, <2>6, TargetMoves
  <2>8. Targets(s)' = Targets(s)
    BY <2>5 DEF Targets
  <2>9. \A i \in DOMAIN Targets(s) : i < c + 1 => Applied(Targets(s)[i], files')
    <3>1. \A i \in DOMAIN Targets(s) : i < c => Applied(Targets(s)[i], files)
      BY <1>0, <1>1 DEF Kept
    <3>2. \A i \in DOMAIN Targets(s) : i < c + 1 => i < c \/ i = c
      BY <2>1
    <3>3. \A i \in DOMAIN Targets(s) : i < c => i # c
      BY <2>1
    <3>4. Applied(Targets(s)[c], files')
      BY <2>4 DEF Current
    <3> QED BY <2>7, <3>1, <3>2, <3>3, <3>4
  <2>10. run[s].verdict = "rolled_back" /\ Targets(s) = proposal[run[s].job].targets
    BY <1>0, <1>1 DEF Kept, Undecided, Applying
  <2>11. Kept(s)'
    BY <1>1, <1>3, <2>5, <2>8, <2>9, <2>10 DEF Kept, Filling, Sealing, Undecided, Applying
  <2> QED BY <1>1, <2>7, <2>11
<1> QED BY <1>0, <1>2, <1>3 DEF MutateTarget

LEMMA RollbackKept ==
  ASSUME Faithful, Shape', NEW s \in Session, RollbackNext(s)
  PROVE  Kept(s)' /\ Intact' /\ Reliable' = Reliable /\ UNCHANGED ledger
<1> USE DEF Goto, Raise, End
<1> DEFINE c == run[s].cursor
<1>0. /\ Shape /\ pc \in [Session -> Label] /\ run \in [Session -> Run] /\ Kept(s)
      /\ Intact /\ files \in [Path -> Image] /\ stages \in [Session -> SUBSET Nat]
      /\ CursorInRange(s)
  BY DEF Faithful, Exclusive, Attributed, Shape, TypeOK, Aware
<1>1. /\ UNCHANGED <<files, ledger, intent, proposal>>
      /\ pc[s] = "rollback" /\ pc[s] \in Unaudited /\ c > 0
  BY DEF RollbackNext, Unaudited
<1>2. /\ Whole /\ intent = run[s].plan /\ intent \in Intent
      /\ Len(Targets(s)) \in Nat /\ DOMAIN Targets(s) = 1..Len(Targets(s)) /\ c \in Nat
  BY <1>1, AtWork
<1>3. c \in DOMAIN Targets(s)
  BY <1>0, <1>1, <1>2 DEF CursorInRange
<1>4. /\ run[s].verdict = "rolled_back"
      /\ \A i \in DOMAIN Targets(s) : i > c => Back(Targets(s)[i], files, i \in Stages(s))
  BY <1>0, <1>1 DEF Kept, Undecided
<1>5. CASE UNCHANGED <<run, stages>> /\ pc'[s] = "release"
  BY <1>0, <1>1, <1>5, DiskSame, RestingKept DEF Resting
<1>6. CASE /\ Pending(Current(s), files, HasStage(s))
           /\ run' = [run EXCEPT ![s].cursor = @ - 1]
           /\ UNCHANGED <<pc, stages>>
  <2>1. /\ run'[s].cursor = c - 1 /\ run'[s].plan = run[s].plan
        /\ run'[s].job = run[s].job /\ run'[s].verdict = run[s].verdict
    BY <1>0, <1>6 DEF Run
  <2>2. Targets(s)' = Targets(s) /\ Stages(s)' = Stages(s)
    BY <1>6, <2>1 DEF Targets, Stages
  <2>3. \A i \in DOMAIN Targets(s) : i > c - 1 => Back(Targets(s)[i], files, i \in Stages(s))
    <3>1. \A i \in DOMAIN Targets(s) : i > c - 1 => i > c \/ i = c
      BY <1>2
    <3>2. Back(Targets(s)[c], files, c \in Stages(s))
      BY <1>6 DEF Pending, Back, Current, HasStage
    <3> QED BY <1>4, <3>1, <3>2
  <2>4. Kept(s)'
    BY <1>1, <1>4, <1>6, <2>1, <2>2, <2>3 DEF Kept, Filling, Sealing, Undecided, Applying
  <2> QED BY <1>0, <1>1, <1>6, <2>4, DiskSame
<1>7. CASE /\ Applied(Current(s), files)
           /\ stages' = [stages EXCEPT ![run[s].plan.owner] = @ \cup {c}]
           /\ UNCHANGED <<pc, run>>
  <2>1. Targets(s)' = Targets(s)
    BY <1>7 DEF Targets
  <2>2. Stages(s)' = stages'[intent.owner] /\ Stages(s)' = Stages(s) \cup {c}
    BY <1>0, <1>2, <1>7 DEF Stages, Intent
  <2>3. Intact' /\ Reliable' = Reliable
    BY <1>0, <1>1, <1>3, <1>7, <2>2, TargetMoves
  <2>4. \A i \in DOMAIN Targets(s) : i > c => Back(Targets(s)[i], files, i \in Stages(s)')
    BY <1>4, <2>2 DEF Back
  <2>5. Kept(s)'
    BY <1>1, <1>4, <1>7, <2>1, <2>4 DEF Kept, Filling, Sealing, Undecided, Applying
  <2> QED BY <1>1, <2>3, <2>5
<1>8. CASE /\ Applied(Current(s), files) /\ ~StageLost(s)
           /\ pc'[s] = "restore"
           /\ UNCHANGED <<run, stages>>
  <2>1. /\ Targets(s)' = Targets(s) /\ Stages(s)' = Stages(s)
        /\ Current(s)' = Current(s) /\ StageLost(s)' = StageLost(s)
    BY <1>8 DEF Targets, Stages, Current, StageLost, HasStage
  <2>2. Kept(s)'
    BY <1>1, <1>4, <1>8, <2>1 DEF Kept, Filling, Sealing, Undecided, Applying
  <2> QED BY <1>0, <1>1, <1>8, <2>2, DiskSame
<1> QED BY <1>0, <1>5, <1>6, <1>7, <1>8 DEF RollbackNext

LEMMA RestoreKept ==
  ASSUME Faithful, Shape', NEW s \in Session, RestoreTarget(s)
  PROVE  Kept(s)' /\ Intact' /\ Reliable' = Reliable /\ UNCHANGED ledger
<1> USE DEF Goto, Raise, End
<1> DEFINE c == run[s].cursor
           tg == Current(s)
<1>0. /\ Shape /\ pc \in [Session -> Label] /\ run \in [Session -> Run] /\ Kept(s)
      /\ Intact /\ files \in [Path -> Image] /\ CursorInRange(s)
  BY DEF Faithful, Exclusive, Attributed, Shape, TypeOK, Aware
<1>1. /\ UNCHANGED <<ledger, intent, proposal, stages>>
      /\ pc[s] = "restore" /\ pc[s] \in Unaudited
  BY DEF RestoreTarget, Unaudited
<1>2. CASE UNCHANGED <<files, run>> /\ pc'[s] = "release"
  BY <1>0, <1>1, <1>2, DiskSame, RestingKept DEF Resting
<1>3. CASE /\ files' = Mutated(tg, files, tg.pre)
           /\ run' = [run EXCEPT ![s].cursor = @ - 1]
           /\ pc'[s] = "rollback"
  <2>1. /\ Whole /\ intent = run[s].plan /\ stages[intent.owner] = Stages(s)
        /\ Sound(Targets(s)) /\ Targets(s) \in Seq(IntentTarget)
        /\ Len(Targets(s)) \in Nat /\ DOMAIN Targets(s) = 1..Len(Targets(s)) /\ c \in Nat
    BY <1>1, AtWork
  <2>2. c \in DOMAIN Targets(s)
    BY <1>0, <1>1, <2>1 DEF CursorInRange
  <2>3. /\ tg \in IntentTarget /\ Clear(tg) /\ Shows(files, tg.post) /\ ~StageLost(s)
        /\ run[s].verdict = "rolled_back"
        /\ \A i \in DOMAIN Targets(s) : i > c => Back(Targets(s)[i], files, i \in Stages(s))
    BY <1>0, <1>1, <2>1, <2>2, CurrentType DEF Sound, Current, Kept, Applied, Undecided
  <2>4. /\ files' \in [Path -> Image]
        /\ Shows(files', tg.pre)
        /\ \A p \in Path \ DOMAIN tg.pre : files'[p] = files[p]
    <3>1. files' \in [Path -> Image]
      BY DEF Shape, TypeOK
    <3> HIDE DEF tg
    <3> QED BY <1>0, <1>3, <2>3, <3>1, MutatedBack
  <2>5. Back(tg, files', c \in Stages(s))
    BY <2>3, <2>4 DEF Back, StageLost, HasStage
  <2>6. /\ run'[s].cursor = c - 1 /\ run'[s].plan = run[s].plan
        /\ run'[s].job = run[s].job /\ run'[s].verdict = run[s].verdict
    BY <1>0, <1>3 DEF Run
  <2>7. /\ Stages(s)' = Stages(s) /\ Targets(s)' = Targets(s)
        /\ Stages(s)' = stages'[intent.owner]
    BY <1>1, <2>1, <2>6 DEF Stages, Targets
  <2>8. /\ Intact' /\ Reliable' = Reliable
        /\ \A i \in DOMAIN Targets(s) \ {c} :
             Shows(files', Targets(s)[i].pre) <=> Shows(files, Targets(s)[i].pre)
    BY <1>1, <2>2, <2>4, <2>5, <2>7, TargetMoves
  <2>9. \A i \in DOMAIN Targets(s) : i > c - 1 => Back(Targets(s)[i], files', i \in Stages(s))
    <3>1. \A i \in DOMAIN Targets(s) : i > c - 1 => i > c \/ i = c
      BY <2>1
    <3>2. \A i \in DOMAIN Targets(s) : i > c => i # c
      BY <2>1
    <3>3. Back(Targets(s)[c], files', c \in Stages(s))
      BY <2>5 DEF Current
    <3> QED BY <2>3, <2>8, <3>1, <3>2, <3>3 DEF Back
  <2>10. Kept(s)'
    BY <1>1, <1>3, <2>3, <2>6, <2>7, <2>9 DEF Kept, Filling, Sealing, Undecided, Applying
  <2> QED BY <1>1, <2>8, <2>10
<1> QED BY <1>0, <1>2, <1>3 DEF RestoreTarget
-----------------------------------------------------------------------------
(***************************************************************************)
(* The commit point.                                                       *)
(***************************************************************************)
LEMMA EventOfAppend ==
  ASSUME NEW events \in Seq(Event), NEW e \in Event, ~Recorded(events, e.txn)
  PROVE  EventOf(Append(events, e), e.txn) = e
<1> DEFINE new == Append(events, e)
<1>1. /\ Len(events) \in Nat /\ DOMAIN events = 1..Len(events)
      /\ DOMAIN new = 1..(Len(events) + 1)
      /\ \A k \in 1..Len(events) : new[k] = events[k]
      /\ new[Len(events) + 1] = e
  BY AppendProperties, LenProperties
<1> HIDE DEF new
<1>2. \A k \in 1..Len(events) : events[k].txn # e.txn
  BY <1>1 DEF Recorded, EventsOf
<1>3. \A k \in DOMAIN new : new[k].txn = e.txn <=> k = Len(events) + 1
  BY <1>1, <1>2
<1>4. (CHOOSE k \in DOMAIN new : new[k].txn = e.txn) = Len(events) + 1
  BY <1>1, <1>3
<1>5. EventOf(new, e.txn) = e
  BY <1>1, <1>4 DEF EventOf
<1> QED BY <1>5 DEF new

(* A path that some event writes keeps its last writer, or gets a new one.  *)
LEMMA TraceableAppend ==
  ASSUME NEW events \in Seq(Event), NEW e \in Event, Traceable(events)
  PROVE  Traceable(Append(events, e))
<1> DEFINE new == Append(events, e)
           N == Len(events) + 1
<1>1. /\ N \in Nat /\ N >= 1 /\ DOMAIN events = 1..(N - 1) /\ DOMAIN new = 1..N
      /\ \A k \in 1..(N - 1) : new[k] = events[k]
      /\ new[N] = e
  BY AppendProperties, LenProperties
<1> HIDE DEF new, N
<1>2. ASSUME NEW p \in Path, \E n \in DOMAIN new : Writes(new[n], p)
      PROVE  \E n \in DOMAIN new : IsLastWrite(n, new, p)
  <2>1. CASE Writes(e, p)
    <3>1. N \in DOMAIN new /\ \A m \in DOMAIN new : m <= N
      BY <1>1
    <3>2. IsLastWrite(N, new, p)
      BY <1>1, <2>1, <3>1 DEF IsLastWrite
    <3> QED BY <3>1, <3>2
  <2>2. CASE ~Writes(e, p)
    <3>1. PICK k \in DOMAIN new : Writes(new[k], p)
      BY <1>2
    <3>2. k # N
      BY <1>1, <2>2, <3>1
    <3>3. k \in DOMAIN events /\ Writes(events[k], p)
      BY <1>1, <3>1, <3>2
    <3>4. PICK n \in DOMAIN events : IsLastWrite(n, events, p)
      BY <3>3 DEF Traceable
    <3>5. n \in DOMAIN new /\ new[n] = events[n]
      BY <1>1
    <3>6. \A m \in DOMAIN new : Writes(new[m], p) => m \in DOMAIN events /\ new[m] = events[m]
      <4>1. \A m \in DOMAIN new : m \in 1..(N - 1) \/ m = N
        BY <1>1
      <4> QED BY <1>1, <2>2, <4>1
    <3> QED BY <3>4, <3>5, <3>6 DEF IsLastWrite
  <2> QED BY <2>1, <2>2
<1>3. Traceable(new)
  BY <1>2 DEF Traceable
<1> QED BY <1>3 DEF new

LEMMA LastWriteIs ==
  ASSUME NEW events \in Seq(Event), Traceable(events), NEW p \in Path,
         \E n \in DOMAIN events : Writes(events[n], p)
  PROVE  LastWrite(events, p) \in DOMAIN events
BY DEF Traceable, IsLastWrite, LastWrite

(* An event that does not write a path leaves its replayed content alone. *)
LEMMA ReplayUnwritten ==
  ASSUME NEW events \in Seq(Event), NEW e \in Event, Traceable(events),
         NEW p \in Path, ~Writes(e, p)
  PROVE  Replay(Append(events, e))[p] = Replay(events)[p]
<1> DEFINE new == Append(events, e)
<1>1. /\ Len(events) \in Nat /\ DOMAIN events = 1..Len(events)
      /\ DOMAIN new = 1..(Len(events) + 1)
      /\ \A k \in 1..Len(events) : new[k] = events[k]
      /\ new[Len(events) + 1] = e
  BY AppendProperties, LenProperties
<1> HIDE DEF new
<1> DEFINE P(n) == n \in DOMAIN events /\ Writes(events[n], p)
           Q(n) == n \in DOMAIN new /\ Writes(new[n], p)
<1>2. \A n : P(n) <=> Q(n)
  BY <1>1
<1> DEFINE L(n) == n \in DOMAIN events /\ Writes(events[n], p)
                     /\ \A m \in DOMAIN events : Writes(events[m], p) => m <= n
           M(n) == n \in DOMAIN new /\ Writes(new[n], p)
                     /\ \A m \in DOMAIN new : Writes(new[m], p) => m <= n
<1>3. \A n : L(n) <=> M(n)
  BY <1>2
<1>4. LastWrite(events, p) = (CHOOSE n : L(n)) /\ LastWrite(new, p) = (CHOOSE n : M(n))
  BY DEF LastWrite
<1>5. (CHOOSE n : L(n)) = (CHOOSE n : M(n))
  <2> HIDE DEF L, M
  <2> QED BY <1>3
<1>6. LastWrite(new, p) = LastWrite(events, p)
  BY <1>4, <1>5
<1> HIDE DEF P, Q, L, M
<1>7. CASE \E n \in DOMAIN events : Writes(events[n], p)
  <2>1. new[LastWrite(events, p)] = events[LastWrite(events, p)]
    BY <1>1, <1>7, LastWriteIs
  <2>2. \E n \in DOMAIN new : Writes(new[n], p)
    BY <1>1, <1>7
  <2>3. Replay(new)[p] = Replay(events)[p]
    BY <1>6, <1>7, <2>1, <2>2 DEF Replay
  <2> QED BY <2>3 DEF new
<1>8. CASE ~\E n \in DOMAIN events : Writes(events[n], p)
  <2>1. ~\E n \in DOMAIN new : Writes(new[n], p)
    BY <1>1, <1>8
  <2>2. Replay(new)[p] = Replay(events)[p]
    BY <1>8, <2>1 DEF Replay
  <2> QED BY <2>2 DEF new
<1> QED BY <1>7, <1>8

(* One that does write it decides what it holds. *)
LEMMA ReplayWritten ==
  ASSUME NEW events \in Seq(Event), NEW e \in Event, NEW p \in Path, Writes(e, p)
  PROVE  Replay(Append(events, e))[p] = Written(e, p)
<1> DEFINE new == Append(events, e)
           N == Len(events) + 1
<1>1. /\ N \in Nat /\ DOMAIN new = 1..N /\ N \in DOMAIN new
      /\ new[N] = e
  BY AppendProperties, LenProperties
<1> HIDE DEF new, N
<1>2. \A n \in DOMAIN new :
        (Writes(new[n], p) /\ \A m \in DOMAIN new : Writes(new[m], p) => m <= n) <=> n = N
  <2>1. \A m \in DOMAIN new : m <= N
    BY <1>1
  <2>2. \A n \in DOMAIN new : N <= n => n = N
    BY <1>1
  <2> QED BY <1>1, <2>1, <2>2
<1>3. LastWrite(new, p) = N
  BY <1>1, <1>2 DEF LastWrite
<1>4. Replay(new)[p] = Written(e, p)
  BY <1>1, <1>3 DEF Replay
<1> QED BY <1>4 DEF new

(* A sealed event writes the paths of its targets, if it is a commit.       *)
LEMMA SealedWrites ==
  ASSUME NEW e \in Event, Sound(e.targets), NEW p
  PROVE  /\ Writes(e, p) <=>
              /\ e.result = "committed"
              /\ \E i \in DOMAIN e.targets : p \in DOMAIN e.targets[i].pre
         /\ \A i \in DOMAIN e.targets : p \in DOMAIN e.targets[i].pre =>
              Written(e, p) = e.targets[i].post[p]
<1>1. \A i \in DOMAIN e.targets : DOMAIN e.targets[i].post = DOMAIN e.targets[i].pre
  BY DEF Sound, Clear
<1>2. ASSUME NEW i \in DOMAIN e.targets, p \in DOMAIN e.targets[i].pre
      PROVE  (CHOOSE j \in DOMAIN e.targets : p \in DOMAIN e.targets[j].post) = i
  <2>1. \A j \in DOMAIN e.targets : p \in DOMAIN e.targets[j].post <=> j = i
    BY <1>1, <1>2 DEF Sound, Apart
  <2> QED BY <2>1
<1> QED BY <1>1, <1>2 DEF Writes, Written

(* The event that is appended says what the files are at that moment.       *)
LEMMA ExtendKept ==
  ASSUME Faithful, NEW s \in Session, ExtendLedger(s)
  PROVE  /\ Kept(s)' /\ Intact' /\ Traceable(ledger)' /\ (Reliable = Replay(ledger))'
         /\ SealedEvent(s) \in Event /\ ledger' = Append(ledger, SealedEvent(s))
         /\ run[s].verdict = "committed" =>
              Reliable' = files /\ AllApplied(Targets(s), files)
         /\ run[s].verdict = "rolled_back" => Reliable' = Reliable
<1> DEFINE e == SealedEvent(s)
<1>0. /\ Shape /\ pc \in [Session -> Label] /\ Kept(s) /\ Anchored(s)
      /\ Intact /\ Traceable(ledger) /\ Reliable = Replay(ledger)
      /\ files \in [Path -> Image] /\ ledger \in Seq(Event)
  BY DEF Faithful, Exclusive, Attributed, Shape, TypeOK
<1>1. /\ pc[s] = "extend" /\ pc[s] \in Unaudited /\ pc'[s] = "finalize"
      /\ UNCHANGED <<files, intent, stages, proposal, run>>
      /\ run[s].base = ledger /\ ledger' = Append(ledger, e)
  BY <1>0 DEF ExtendLedger, Goto, Unaudited, Anchored
<1>2. /\ Whole /\ intent = run[s].plan /\ intent.targets = Targets(s)
      /\ stages[intent.owner] = Stages(s) /\ ~Recorded(ledger, intent.txn)
      /\ Sound(Targets(s)) /\ Targets(s) \in Seq(IntentTarget)
  BY <1>1, AtWork
<1>3. /\ e \in Event /\ e.txn = intent.txn /\ e.result = run[s].verdict
      /\ e.targets = Targets(s) /\ e.result \in {"committed", "rolled_back"}
  <2>1. e \in Event
    BY <1>0, <1>1, SealedEventType
  <2> QED BY <1>2, <2>1 DEF SealedEvent, Event
<1>4. IF e.result = "committed" THEN AllApplied(Targets(s), files)
      ELSE RolledBack(Targets(s), files, Stages(s))
  BY <1>0, <1>1, <1>3 DEF Kept, Sealing
<1>5. Kept(s)'
  BY <1>1, RestingKept DEF Resting
<1> HIDE DEF e
<1>6. Recorded(ledger', intent.txn) /\ EventOf(ledger', intent.txn) = e
  BY <1>0, <1>1, <1>2, <1>3, RecordedAppend, EventOfAppend
<1>7. Intact'
  BY <1>1, <1>2, <1>4, <1>6 DEF Intact, EventTellsTruth, Whole
<1>8. Traceable(ledger)'
  BY <1>0, <1>1, <1>3, TraceableAppend
<1>9. Reliable = Put(files, Combine(Targets(s), Pre))
  BY <1>2 DEF Reliable, Committed
<1>10. CASE e.result = "committed"
  <2>1. Reliable' = files
    BY <1>1, <1>6, <1>10 DEF Reliable, Committed
  <2>2. ASSUME NEW p \in Path PROVE Replay(ledger')[p] = files[p]
    <3>1. CASE \E i \in DOMAIN Targets(s) : p \in DOMAIN Targets(s)[i].pre
      <4>1. PICK i \in DOMAIN Targets(s) : p \in DOMAIN Targets(s)[i].pre
        BY <3>1
      <4>2. Writes(e, p) /\ Written(e, p) = Targets(s)[i].post[p]
        BY <1>2, <1>3, <1>10, <4>1, SealedWrites
      <4>3. Targets(s)[i].post[p] = files[p]
        BY <1>2, <1>4, <1>10, <4>1 DEF AllApplied, Applied, Shows, Sound, Clear
      <4> QED BY <1>0, <1>1, <1>3, <4>2, <4>3, ReplayWritten
    <3>2. CASE ~\E i \in DOMAIN Targets(s) : p \in DOMAIN Targets(s)[i].pre
      <4>1. ~Writes(e, p)
        BY <1>2, <1>3, <3>2, SealedWrites
      <4>2. Replay(ledger')[p] = Replay(ledger)[p]
        BY <1>0, <1>1, <1>3, <4>1, ReplayUnwritten
      <4>3. Reliable[p] = files[p]
        BY <1>0, <1>2, <1>9, <3>2, PutBack
      <4> QED BY <1>0, <4>2, <4>3
    <3> QED BY <3>1, <3>2
  <2>3. Replay(ledger') = [p \in Path |-> Replay(ledger')[p]]
    BY DEF Replay
  <2>4. files = [p \in Path |-> files[p]]
    BY <1>0
  <2>5. Replay(ledger') = files
    BY <2>2, <2>3, <2>4
  <2> QED BY <1>1, <1>3, <1>4, <1>5, <1>7, <1>8, <1>10, <2>1, <2>5 DEF e
<1>11. CASE e.result = "rolled_back"
  <2>1. Reliable' = Reliable
    BY <1>1, <1>2, <1>6, <1>9, <1>11 DEF Reliable, Committed, Whole
  <2>2. ASSUME NEW p \in Path PROVE Replay(ledger')[p] = Replay(ledger)[p]
    BY <1>0, <1>1, <1>3, <1>11, ReplayUnwritten DEF Writes
  <2>3. /\ Replay(ledger') = [p \in Path |-> Replay(ledger')[p]]
        /\ Replay(ledger) = [p \in Path |-> Replay(ledger)[p]]
    BY DEF Replay
  <2>4. Replay(ledger') = Replay(ledger)
    BY <2>2, <2>3
  <2> QED BY <1>0, <1>1, <1>3, <1>5, <1>7, <1>8, <1>11, <2>1, <2>4 DEF e
<1> QED BY <1>3, <1>10, <1>11

(* An intent goes when the files are what its event says they are.          *)
LEMMA RemoveKept ==
  ASSUME Faithful, NEW s \in Session, RemoveIntent(s)
  PROVE  Kept(s)' /\ Intact' /\ Reliable' = Reliable /\ UNCHANGED ledger
<1>0. /\ Shape /\ pc \in [Session -> Label] /\ Anchored(s) /\ Intact
      /\ files \in [Path -> Image]
  BY DEF Faithful, Exclusive, Attributed, Shape, TypeOK
<1>1. /\ pc[s] = "remove" /\ UNCHANGED <<files, ledger>> /\ pc'[s] = "release"
  BY <1>0 DEF RemoveIntent, Goto, Raise, End
<1>2. /\ run[s].plan \in Intent /\ intent = run[s].plan /\ Recorded(ledger, intent.txn)
  BY <1>0, <1>1 DEF Anchored, Published, Shape, Aware, PlanKnown
<1>3. Whole /\ intent' = None
  BY <1>2, NoneAssumption DEF Whole, RemoveIntent
<1>4. ~Whole' /\ Reliable' = files
  BY <1>1, <1>3 DEF Whole, Reliable
<1>5. Reliable = files
  <2>1. CASE Committed(intent.txn)
    BY <2>1 DEF Reliable
  <2>2. CASE ~Committed(intent.txn)
    <3>1. RolledBack(intent.targets, files, stages[intent.owner]) /\ Sound(intent.targets)
      BY <1>0, <1>2, <1>3, <2>2 DEF Intact, EventTellsTruth, Committed
    <3>2. Put(files, Combine(intent.targets, Pre)) = files
      BY <1>0, <1>2, <3>1, PutBackShown DEF RolledBack, Intent
    <3> QED BY <3>2 DEF Reliable
  <2> QED BY <2>1, <2>2
<1>6. Intact'
  BY <1>4 DEF Intact, EventTellsTruth
<1>7. Kept(s)'
  BY <1>1, RestingKept DEF Resting
<1> QED BY <1>1, <1>4, <1>5, <1>6, <1>7

(* Where a run begins, and where it ends, it relies on nothing yet.         *)
LEMMA InspectingKept ==
  ASSUME Faithful, NEW s \in Session, InspectApply(s) \/ InspectRecover(s) \/ Release(s)
  PROVE  Kept(s)' /\ UNCHANGED disk
<1>0. pc \in [Session -> Label] /\ run \in [Session -> Run]
  BY DEF Faithful, Exclusive, Attributed, Shape, TypeOK
<1>1. CASE pc'[s] \in Resting
  BY <1>1, RestingKept DEF InspectApply, InspectRecover, Release
<1>2. CASE InspectRecover(s) /\ pc'[s] = "rescan"
  <2>1. run' = [run EXCEPT ![s] = [@ EXCEPT !.plan = intent, !.base = ledger,
                                            !.verdict = "rolled_back"]]
    BY <1>0, <1>2 DEF InspectRecover, Goto, End
  <2>2. run'[s].verdict = "rolled_back"
    BY <1>0, <2>1 DEF Run
  <2> QED BY <1>2, <2>2 DEF InspectRecover, Kept, Filling, Sealing, Undecided, Applying
<1>3. pc'[s] \in Resting \/ (InspectRecover(s) /\ pc'[s] = "rescan")
  BY <1>0 DEF InspectApply, InspectRecover, Release, Goto, End, Resting
<1> QED BY <1>1, <1>2, <1>3
-----------------------------------------------------------------------------
(***************************************************************************)
(* Every step keeps the invariant.                                         *)
(***************************************************************************)
(* What a session relies on is its own, and the others are idle.            *)
LEMMA FrameFaithful ==
  ASSUME Faithful, Exclusive', NEW s \in Session, Kept(s)', Intact',
         Traceable(ledger)', (Reliable = Replay(ledger))',
         \A r \in Session \ {s} : pc'[r] = pc[r],
         pc[s] # "idle" \/ \A r \in Session : pc[r] = "idle"
  PROVE  Faithful'
<1>1. ASSUME NEW r \in Session \ {s} PROVE Kept(r)'
  <2>1. pc'[r] = "idle"
    BY OthersIdle DEF Faithful, Exclusive
  <2> QED BY <2>1, RestingKept DEF Resting
<1> QED BY <1>1 DEF Faithful

(* Only the commit point changes the ledger, or the files it stands for.    *)
LEMMA QuietStep ==
  ASSUME Faithful, Shape', NEW s \in Session, Step(s), ~ExtendLedger(s)
  PROVE  Kept(s)' /\ Intact' /\ Reliable' = Reliable /\ UNCHANGED ledger
<1>1. ASSUME Kept(s)', UNCHANGED <<files, intent, stages, ledger>>
      PROVE  Kept(s)' /\ Intact' /\ Reliable' = Reliable /\ UNCHANGED ledger
  BY <1>1, DiskSame DEF Faithful
<1>2. CASE InspectApply(s) \/ InspectRecover(s) \/ Release(s)
  BY <1>1, <1>2, InspectingKept DEF disk
<1>3. CASE PrepareAssets(s) \/ FencePublish(s) \/ CreateIntent(s) \/ FillIntent(s)
  BY <1>3, PublishingKept
<1>4. CASE \/ Compare(s) \/ ScanApply(s) \/ ApplyNext(s) \/ ApplyDone(s) \/ Validate(s)
           \/ ScanRollback(s) \/ RollbackDone(s) \/ CheckAppend(s) \/ CheckFinalize(s)
  BY <1>1, <1>4, LookingKept
<1>5. CASE MutateTarget(s)
  BY <1>5, MutateKept
<1>6. CASE RollbackNext(s)
  BY <1>6, RollbackKept
<1>7. CASE RestoreTarget(s)
  BY <1>7, RestoreKept
<1>8. CASE RemoveIntent(s)
  BY <1>8, RemoveKept
<1> QED BY <1>2, <1>3, <1>4, <1>5, <1>6, <1>7, <1>8 DEF Step

(* A run that starts, fails or dies relies on nothing; what it leaves on    *)
(* disk is as intact as it found it.                                       *)
LEMMA QuietAround ==
  ASSUME Faithful, NEW s \in Session, (\E job : Begin(s, job)) \/ Fail(s) \/ Crash(s)
  PROVE  /\ Kept(s)' /\ Intact' /\ Reliable' = Reliable /\ UNCHANGED <<ledger, proposal>>
         /\ \A r \in Session \ {s} : pc'[r] = pc[r]
         /\ pc[s] # "idle" \/ \A r \in Session : pc[r] = "idle"
<1>0. /\ Shape /\ pc \in [Session -> Label] /\ OneAtATime /\ Anchored(s) /\ Intact
  BY DEF Faithful, Exclusive, Attributed, Shape, TypeOK
<1>1. /\ UNCHANGED <<files, ledger, intent, proposal>>
      /\ UNCHANGED stages \/ ~Whole
      /\ pc'[s] \in {"inspect", "release", "idle"}
      /\ \A r \in Session \ {s} : pc'[r] = pc[r]
      /\ pc[s] # "idle" \/ \A r \in Session : pc[r] = "idle"
  <2>1. ASSUME NEW job, Begin(s, job)
        PROVE  /\ UNCHANGED <<disk, proposal>> /\ pc' = [pc EXCEPT ![s] = "inspect"]
               /\ \A r \in Session : pc[r] = "idle"
    BY <1>0, <2>1, NoneAssumption DEF Begin, Goto, OneAtATime
  <2>2. CASE Fail(s)
    <3>1. /\ UNCHANGED <<files, ledger, intent, proposal>>
          /\ pc' = [pc EXCEPT ![s] = "release"] /\ pc[s] # "idle"
      BY <2>2 DEF Fail, Raise, End, Goto, Spend
    <3>2. pc[s] \in {"publish", "create"} => ~Whole
      BY <1>0 DEF Anchored, Unpublished, Whole
    <3>3. UNCHANGED stages \/ ~Whole
      BY <2>2, <3>2 DEF Fail
    <3> QED BY <1>0, <3>1, <3>3
  <2>3. CASE Crash(s)
    BY <1>0, <2>3 DEF Crash, Goto, disk
  <2> QED BY <1>0, <2>1, <2>2, <2>3 DEF disk
<1>2. Intact' /\ Reliable' = Reliable
  BY <1>0, <1>1, DiskSame, DiskBare
<1>3. Kept(s)'
  BY <1>1, RestingKept DEF Resting
<1> QED BY <1>1, <1>2, <1>3

LEMMA SessionFaithful ==
  ASSUME Faithful, Exclusive', NEW s \in Session,
         Step(s) \/ (\E job : Begin(s, job)) \/ Fail(s) \/ Crash(s)
  PROVE  Faithful'
<1>0. /\ Shape /\ Shape' /\ Traceable(ledger) /\ Reliable = Replay(ledger)
  BY DEF Faithful, Exclusive, Attributed
<1>1. /\ \A r \in Session \ {s} : pc'[r] = pc[r]
      /\ pc[s] # "idle" \/ \A r \in Session : pc[r] = "idle"
  BY <1>0, OwnStep, QuietAround
<1>2. CASE Step(s) /\ ExtendLedger(s)
  BY <1>1, <1>2, ExtendKept, FrameFaithful
<1>3. CASE ~(Step(s) /\ ExtendLedger(s))
  <2>1. Kept(s)' /\ Intact' /\ Reliable' = Reliable /\ UNCHANGED ledger
    BY <1>0, <1>3, QuietStep, QuietAround
  <2>2. Traceable(ledger)' /\ (Reliable = Replay(ledger))'
    BY <1>0, <2>1 DEF Traceable, Replay
  <2> QED BY <1>1, <2>1, <2>2, FrameFaithful
<1> QED BY <1>2, <1>3

(* A new proposal is none that a run applies. *)
LEMMA DraftFaithful ==
  ASSUME Faithful, Exclusive', NEW t \in Txn, Draft(t)
  PROVE  Faithful'
<1>0. /\ Shape /\ Intact /\ Traceable(ledger) /\ Reliable = Replay(ledger)
  BY DEF Faithful, Exclusive, Attributed
<1>1. /\ UNCHANGED <<files, intent, stages, ledger, pc, run>> /\ proposal[t] = None
      /\ \A u \in Txn \ {t} : proposal'[u] = proposal[u]
  BY <1>0 DEF Draft, disk, Shape, TypeOK
<1>2. ASSUME NEW s \in Session PROVE Kept(s)'
  <2>1. Kept(s) /\ OwnProposal(s) /\ JobKnown(s) /\ run[s].job \in Txn \cup {None}
    BY DEF Faithful, Exclusive, Attributed, Bearings, Shape, TypeOK, Run, Aware
  <2>2. /\ pc[s] \in Applying => run[s].job # None
        /\ pc[s] \in Sealing /\ run[s].verdict = "committed" => run[s].job # None
        /\ pc[s] \in Applying \cup Sealing /\ run[s].job # None =>
             proposal[run[s].job] # None
    BY <2>1 DEF JobKnown, OwnProposal, Applying, Sealing, Ended
  <2>3. /\ pc[s] \in Applying => proposal'[run[s].job] = proposal[run[s].job]
        /\ pc[s] \in Sealing /\ run[s].verdict = "committed" =>
             proposal'[run[s].job] = proposal[run[s].job]
    BY <1>1, <2>1, <2>2
  <2>4. /\ Targets(s)' = Targets(s) /\ Stages(s)' = Stages(s) /\ Current(s)' = Current(s)
        /\ HasStage(s)' = HasStage(s) /\ StageLost(s)' = StageLost(s)
    BY <1>1 DEF Targets, Stages, Current, HasStage, StageLost
  <2> QED BY <1>1, <2>1, <2>3, <2>4 DEF Kept
<1>3. Intact' /\ Reliable' = Reliable
  BY <1>0, <1>1, DiskSame
<1>4. Traceable(ledger)' /\ (Reliable = Replay(ledger))'
  BY <1>0, <1>1, <1>3 DEF Traceable, Replay
<1> QED BY <1>2, <1>3, <1>4 DEF Faithful

LEMMA NextFaithful ==
  ASSUME Faithful, Undisturbed', [Next]_vars
  PROVE  Faithful'
<1>0. /\ Exclusive /\ Shape /\ OneAtATime /\ spent \in [DOMAIN Budget -> Nat]
  BY DEF Faithful, Exclusive, Attributed, Shape, TypeOK
<1>1. Exclusive'
  BY <1>0, NextExclusive DEF Undisturbed
<1>2. CASE UNCHANGED vars
  <2>1. ASSUME NEW s \in Session PROVE Kept(s)'
    <3>1. Kept(s)
      BY DEF Faithful
    <3> QED BY <1>2, <3>1 DEF vars, Kept, Targets, Stages, Current, HasStage, StageLost
  <2>2. Intact' /\ Reliable' = Reliable
    BY <1>2, DiskSame DEF vars, Faithful
  <2> QED BY <1>1, <1>2, <2>1, <2>2 DEF vars, Faithful, Traceable, Replay
<1>3. ASSUME NEW s \in Session, Stall(s) PROVE FALSE
  BY <1>0, <1>3 DEF Stall, Spend, Undisturbed, Steady, Budget
<1>4. ASSUME NEW s \in Session, Heartbeat(s) PROVE FALSE
  BY <1>0, <1>4, OthersIdle DEF Heartbeat
<1>5. ASSUME NEW p \in Path, NEW c \in Image, Edit(p, c) PROVE FALSE
  BY <1>0, <1>5 DEF Edit, Spend, Undisturbed, Budget
<1> QED BY <1>1, <1>2, <1>3, <1>4, <1>5, SessionFaithful, DraftFaithful
       DEF Next, BeginApply, BeginRecover

LEMMA InitFaithful == Init => Faithful
<1> SUFFICES ASSUME Init PROVE Faithful
  OBVIOUS
<1>1. ~Whole /\ ledger = <<>> /\ files = Seed
  BY DEF Init, Whole
<1>2. Intact
  BY <1>1 DEF Intact, EventTellsTruth
<1>3. Traceable(ledger)
  BY <1>1 DEF Traceable
<1>4. Reliable = Replay(ledger)
  BY <1>1, SeedAssumption DEF Reliable, Replay
<1>5. ASSUME NEW s \in Session PROVE Kept(s)
  BY DEF Init, Kept, Filling, Sealing, Undecided, Applying
<1> QED BY <1>2, <1>3, <1>4, <1>5, InitExclusive DEF Faithful

LEMMA FaithfulHolds == Spec /\ []Undisturbed => []Faithful
<1>1. Faithful /\ Undisturbed' /\ [Next]_vars => Faithful'
  BY NextFaithful
<1> QED BY <1>1, InitFaithful, PTL DEF Spec

(* Where the bounds allow neither stalls nor edits nothing disturbs a run.  *)
LEMMA BoundsSuffice ==
  ASSUME MaxStalls = 0, MaxEdits = 0
  PROVE  Spec => []Undisturbed
<1>1. Init => Undisturbed
  BY DEF Init, Undisturbed, Steady, Budget
<1>2. ASSUME TypeOK, Undisturbed, [Next]_vars PROVE Undisturbed'
  <2>1. spent \in [DOMAIN Budget -> Nat] /\ Budget.stalls = 0 /\ Budget.edits = 0
    BY <1>2 DEF TypeOK, Budget
  <2>2. ASSUME NEW b \in {"crashes", "failures"}, Spend(b) PROVE Undisturbed'
    BY <1>2, <2>1, <2>2 DEF Spend, Undisturbed, Steady
  <2>3. ~Spend("stalls") /\ ~Spend("edits")
    BY <1>2, <2>1 DEF Spend, Undisturbed, Steady
  <2>4. CASE UNCHANGED spent
    BY <1>2, <2>4 DEF Undisturbed, Steady
  <2>5. UNCHANGED spent \/ \E b \in {"crashes", "failures", "stalls", "edits"} : Spend(b)
    BY <1>2 DEF Next, vars, Draft, BeginApply, BeginRecover, Begin, Fail, Crash, Stall,
            Heartbeat, Edit, Step, InspectApply, PrepareAssets, FencePublish, CreateIntent,
            FillIntent, Compare, ScanApply, ApplyNext, MutateTarget, ApplyDone, Validate,
            ScanRollback, RollbackNext, RestoreTarget, RollbackDone, CheckAppend,
            ExtendLedger, CheckFinalize, RemoveIntent, InspectRecover, Release
  <2> QED BY <2>2, <2>3, <2>4, <2>5
<1> QED BY <1>1, <1>2, TypeCorrect, PTL DEF Spec

(* From the commit point until its intent is gone, the event in the ledger  *)
(* tells the truth about the files: a committed proposal's postimages are   *)
(* on disk, a rolled-back one's preimages are (engine.py _finalize).        *)
THEOREM EventsTellTruth == Spec /\ []Undisturbed => []EventTellsTruth
<1>1. Faithful => EventTellsTruth
  BY DEF Faithful, Intact
<1> QED BY <1>1, FaithfulHolds, PTL

(* A tree without an intent is the one its ledger describes: replaying the  *)
(* committed events over the seed gives every canonical file.               *)
THEOREM CleanTreesFollowLedger == Spec /\ []Undisturbed => []CleanTreeFollowsLedger
<1>1. Faithful => CleanTreeFollowsLedger
  BY DEF Faithful, CleanTreeFollowsLedger, Reliable, Whole
<1> QED BY <1>1, FaithfulHolds, PTL
-----------------------------------------------------------------------------
(***************************************************************************)
(* The refinement: the files a reader may rely on, the receipts of the     *)
(* ledger and the proposals are the state of an atomic store.              *)
(***************************************************************************)
LEMMA CombinedType ==
  ASSUME NEW targets \in Seq(IntentTarget)
  PROVE  Combine(targets, Pre) \in PartialFiles /\ Combine(targets, Post) \in PartialFiles
<1>1. ASSUME NEW i \in DOMAIN targets
      PROVE  /\ DOMAIN targets[i].pre \subseteq Path /\ DOMAIN targets[i].post \subseteq Path
             /\ \A p \in DOMAIN targets[i].pre : targets[i].pre[p] \in Image
             /\ \A p \in DOMAIN targets[i].post : targets[i].post[p] \in Image
  <2>1. targets[i] \in IntentTarget
    BY ElementOfSeq, LenProperties
  <2>2. PICK S \in SUBSET Path : targets[i] \in TargetOn(S)
    BY <2>1 DEF IntentTarget
  <2> QED BY <2>2 DEF TargetOn
<1> DEFINE Before == UNION {DOMAIN targets[i].pre : i \in DOMAIN targets}
           After == UNION {DOMAIN targets[i].post : i \in DOMAIN targets}
<1>2. Combine(targets, Pre) \in [Before -> Image]
  <2>1. Combine(targets, Pre)
          = [p \in Before |->
               targets[CHOOSE j \in DOMAIN targets : p \in DOMAIN targets[j].pre].pre[p]]
    BY DEF Combine, Pre
  <2>2. ASSUME NEW p \in Before, NEW j, j = CHOOSE i \in DOMAIN targets : p \in DOMAIN targets[i].pre
        PROVE  targets[j].pre[p] \in Image
    <3>1. j \in DOMAIN targets /\ p \in DOMAIN targets[j].pre
      BY <2>2
    <3> QED BY <1>1, <3>1
  <2> QED BY <2>1, <2>2
<1>3. Combine(targets, Post) \in [After -> Image]
  <2>1. Combine(targets, Post)
          = [p \in After |->
               targets[CHOOSE j \in DOMAIN targets : p \in DOMAIN targets[j].post].post[p]]
    BY DEF Combine, Post
  <2>2. ASSUME NEW p \in After, NEW j, j = CHOOSE i \in DOMAIN targets : p \in DOMAIN targets[i].post
        PROVE  targets[j].post[p] \in Image
    <3>1. j \in DOMAIN targets /\ p \in DOMAIN targets[j].post
      BY <2>2
    <3> QED BY <1>1, <3>1
  <2> QED BY <2>1, <2>2
<1>4. Before \subseteq Path /\ After \subseteq Path
  BY <1>1
<1> QED BY <1>2, <1>3, <1>4 DEF PartialFiles

LEMMA ReceiptsType ==
  ASSUME NEW events \in Seq(Event)
  PROVE  /\ Receipts(events) \in Seq(Receipt)
         /\ DOMAIN Receipts(events) = DOMAIN events
         /\ \A k \in DOMAIN events :
              Receipts(events)[k] = [txn |-> events[k].txn, result |-> events[k].result]
<1>1. /\ Len(events) \in Nat /\ DOMAIN events = 1..Len(events)
      /\ \A k \in DOMAIN events : events[k] \in Event
  BY LenProperties
<1>2. Receipts(events) \in [1..Len(events) -> Receipt]
  BY <1>1 DEF Receipts, Event, Receipt
<1> QED BY <1>1, <1>2, FunctionIsSeq DEF Receipts

LEMMA ReceiptsAppend ==
  ASSUME NEW events \in Seq(Event), NEW e \in Event
  PROVE  Receipts(Append(events, e))
           = Append(Receipts(events), [txn |-> e.txn, result |-> e.result])
<1> DEFINE new == Append(events, e)
           r == [txn |-> e.txn, result |-> e.result]
           N == Len(events)
<1>1. /\ N \in Nat /\ DOMAIN events = 1..N /\ DOMAIN new = 1..(N + 1)
      /\ \A k \in 1..N : new[k] = events[k]
      /\ new[N + 1] = e /\ new \in Seq(Event)
  BY AppendProperties, LenProperties
<1>2. /\ Receipts(events) \in Seq(Receipt) /\ DOMAIN Receipts(events) = 1..N
      /\ \A k \in 1..N : Receipts(events)[k]
                          = [txn |-> events[k].txn, result |-> events[k].result]
  BY <1>1, ReceiptsType
<1>3. r \in Receipt
  BY DEF Event, Receipt
<1> HIDE DEF new, r, N
<1>4. Len(Receipts(events)) = N
  BY <1>1, <1>2, LenProperties
<1>5. /\ DOMAIN Append(Receipts(events), r) = 1..(N + 1)
      /\ \A k \in 1..N : Append(Receipts(events), r)[k] = Receipts(events)[k]
      /\ Append(Receipts(events), r)[N + 1] = r
      /\ Append(Receipts(events), r) \in Seq(Receipt)
  BY <1>1, <1>2, <1>3, <1>4, AppendProperties, LenProperties
<1>6. /\ Receipts(new) \in Seq(Receipt) /\ DOMAIN Receipts(new) = 1..(N + 1)
      /\ \A k \in 1..(N + 1) : Receipts(new)[k]
                                = [txn |-> new[k].txn, result |-> new[k].result]
  BY <1>1, ReceiptsType
<1>7. ASSUME NEW k \in 1..(N + 1) PROVE Receipts(new)[k] = Append(Receipts(events), r)[k]
  <2>1. CASE k = N + 1
    BY <1>1, <1>5, <1>6, <2>1 DEF r
  <2>2. CASE k \in 1..N
    BY <1>1, <1>2, <1>5, <1>6, <2>2
  <2>3. N \in Nat
    BY <1>1
  <2>4. k = N + 1 \/ k \in 1..N
    BY <2>3
  <2> QED BY <2>1, <2>2, <2>4
<1>8. /\ Len(Receipts(new)) = N + 1 /\ Len(Append(Receipts(events), r)) = N + 1
  BY <1>1, <1>5, <1>6, LenProperties
<1>9. Receipts(new) = Append(Receipts(events), r)
  BY <1>5, <1>6, <1>7, <1>8, SeqEqual
<1> QED BY <1>9 DEF new, r

(* A proposal that was made is one to the store as well. *)
LEMMA AbstractKnown ==
  ASSUME NEW p \in Proposal
  PROVE  /\ p # None /\ Abstract(p) # None
         /\ Abstract(p) = [base |-> Receipts(p.base),
                           expect |-> Combine(p.targets, Pre),
                           change |-> Combine(p.targets, Post)]
<1>1. p # None
  BY NoneAssumption
<1>2. p.base \in Seq(Event) /\ p.targets \in Seq(IntentTarget)
  BY DEF Proposal
<1>3. [base |-> Receipts(p.base), expect |-> Combine(p.targets, Pre),
       change |-> Combine(p.targets, Post)] \in Request
  BY <1>2, ReceiptsType, CombinedType DEF Request
<1>4. Abstract(p) = [base |-> Receipts(p.base), expect |-> Combine(p.targets, Pre),
                     change |-> Combine(p.targets, Post)]
  BY <1>1 DEF Abstract
<1> QED BY <1>1, <1>3, <1>4, NoneAssumption

LEMMA InitStore == Init => Store!Init
<1> SUFFICES ASSUME Init PROVE Store!Init
  OBVIOUS
<1>1. Reliable = Seed
  BY DEF Init, Reliable, Whole
<1>2. Receipts(ledger) = <<>>
  <2>1. ledger \in Seq(Event) /\ DOMAIN ledger = {}
    BY EmptySeq DEF Init
  <2>2. Receipts(ledger) \in Seq(Receipt) /\ DOMAIN Receipts(ledger) = {}
    BY <2>1, ReceiptsType
  <2>3. Len(Receipts(ledger)) = 0
    BY <2>2, LenProperties
  <2> QED BY <2>2, <2>3, EmptySeq
<1>3. [t \in Txn |-> Abstract(proposal[t])] = [t \in Txn |-> None]
  BY DEF Init, Abstract
<1> QED BY <1>1, <1>2, <1>3 DEF Store!Init

(* The commit point is the store's whole step, committed or not.            *)
LEMMA ExtendImplements ==
  ASSUME Faithful, NEW s \in Session, ExtendLedger(s)
  PROVE  \E t \in Txn : Store!Commit(t) \/ Store!Abort(t)
<1> DEFINE e == SealedEvent(s)
           t == run[s].plan.txn
           props == [u \in Txn |-> Abstract(proposal[u])]
<1>0. /\ Shape /\ Anchored(s) /\ Bearings(s) /\ Kept(s)
      /\ Whole => proposal[intent.txn] # None
      /\ files \in [Path -> Image] /\ ledger \in Seq(Event)
      /\ proposal \in [Txn -> Proposal \cup {None}] /\ run[s].verdict \in {"committed", "rolled_back"}
  BY DEF Faithful, Exclusive, Attributed, Shape, TypeOK, Run
<1>1. /\ pc[s] = "extend" /\ pc[s] \in Unaudited /\ UNCHANGED proposal
      /\ run[s].base = ledger
  BY <1>0 DEF ExtendLedger, Unaudited, Anchored
<1>2. /\ Whole /\ intent = run[s].plan /\ intent \in Intent
      /\ ~Recorded(ledger, t) /\ t \in Txn
      /\ Sound(Targets(s)) /\ Targets(s) \in Seq(IntentTarget)
      /\ intent.targets = Targets(s)
  BY <1>1, AtWork DEF Intent
<1>3. /\ e \in Event /\ ledger' = Append(ledger, e)
      /\ e.txn = t /\ e.result = run[s].verdict
  BY ExtendKept DEF SealedEvent
<1>4. Receipts(ledger') = Append(Receipts(ledger), [txn |-> t, result |-> run[s].verdict])
  BY <1>0, <1>3, ReceiptsAppend
<1>5. proposal[t] \in Proposal /\ props[t] = Abstract(proposal[t]) /\ props[t] # None
  BY <1>0, <1>2, AbstractKnown
<1>6. Store!New(t)
  <2>1. \A k \in DOMAIN ledger : ledger[k].txn # t
    BY <1>2 DEF Recorded, EventsOf
  <2>2. /\ DOMAIN Receipts(ledger) = DOMAIN ledger
        /\ \A k \in DOMAIN ledger :
             Receipts(ledger)[k] = [txn |-> ledger[k].txn, result |-> ledger[k].result]
    BY <1>0, ReceiptsType
  <2> QED BY <2>1, <2>2 DEF Store!New
<1>7. UNCHANGED props
  BY <1>1 DEF Abstract
<1>8. CASE run[s].verdict = "rolled_back"
  <2>1. Reliable' = Reliable
    BY <1>8, ExtendKept
  <2>2. Store!Abort(t)
    BY <1>4, <1>5, <1>6, <1>7, <1>8, <2>1 DEF Store!Abort
  <2> QED BY <1>2, <2>2
<1>9. CASE run[s].verdict = "committed"
  <2>1. /\ run[s].job = t /\ proposal[t].base = ledger /\ proposal[t].targets = Targets(s)
    BY <1>0, <1>1, <1>9 DEF Bearings, OwnProposal, Ended, Kept, Sealing
  <2> DEFINE expect == Combine(Targets(s), Pre)
             change == Combine(Targets(s), Post)
  <2>2. props[t] = [base |-> Receipts(ledger), expect |-> expect, change |-> change]
    BY <1>5, <2>1, AbstractKnown
  <2>3. /\ props[t].base = Receipts(ledger) /\ props[t].expect = expect
        /\ props[t].change = change
    BY <2>2
  <2>4. Reliable = Put(files, expect)
    BY <1>2 DEF Reliable, Committed
  <2>5. Reliable' = files /\ AllApplied(Targets(s), files)
    BY <1>9, ExtendKept
  <2> DEFINE Touches(p) == \E i \in DOMAIN Targets(s) : p \in DOMAIN Targets(s)[i].pre
  <2>6. /\ DOMAIN Reliable = Path
        /\ \A i \in DOMAIN Targets(s) : \A p \in DOMAIN Targets(s)[i].pre :
             Reliable[p] = Targets(s)[i].pre[p]
        /\ \A p \in Path : ~Touches(p) => Reliable[p] = files[p]
    BY <1>0, <1>2, <2>4, PutBack
  <2>7. /\ DOMAIN expect = UNION {DOMAIN Targets(s)[i].pre : i \in DOMAIN Targets(s)}
        /\ DOMAIN change = UNION {DOMAIN Targets(s)[i].pre : i \in DOMAIN Targets(s)}
        /\ \A i \in DOMAIN Targets(s) : \A p \in DOMAIN Targets(s)[i].pre :
             expect[p] = Targets(s)[i].pre[p] /\ change[p] = Targets(s)[i].post[p]
    BY <1>2, CombinedPre, CombinedPost
  <2>8. \A i \in DOMAIN Targets(s) : \A p \in DOMAIN Targets(s)[i].pre :
          files[p] = Targets(s)[i].post[p]
    BY <1>2, <2>5 DEF AllApplied, Applied, Shows, Sound, Clear
  <2> HIDE DEF expect, change, props
  <2>9. /\ \A p : p \in DOMAIN expect <=> Touches(p)
        /\ \A p : p \in DOMAIN change <=> Touches(p)
    BY <2>7
  <2>10. ASSUME NEW p \in DOMAIN expect PROVE Reliable[p] = expect[p]
    <3>1. PICK i \in DOMAIN Targets(s) : p \in DOMAIN Targets(s)[i].pre
      BY <2>9
    <3>2. Reliable[p] = Targets(s)[i].pre[p] /\ expect[p] = Targets(s)[i].pre[p]
      BY <2>6, <2>7, <3>1
    <3> QED BY <3>2
  <2>11. ASSUME NEW p \in Path
         PROVE  files[p] = IF p \in DOMAIN change THEN change[p] ELSE Reliable[p]
    BY <2>6, <2>7, <2>8, <2>9
  <2>12. files = [p \in DOMAIN Reliable |-> IF p \in DOMAIN change THEN change[p]
                                            ELSE Reliable[p]]
    BY <1>0, <2>6, <2>11
  <2> USE DEF props
  <2>13. Store!Commit(t)
    BY <1>4, <1>5, <1>6, <1>7, <1>9, <2>3, <2>5, <2>10, <2>12 DEF Store!Commit
  <2> QED BY <1>2, <2>13
<1> QED BY <1>0, <1>8, <1>9

LEMMA NextStore ==
  ASSUME Faithful, Undisturbed', [Next]_vars
  PROVE  [Store!Next]_(Store!vars)
<1> DEFINE props == [u \in Txn |-> Abstract(proposal[u])]
<1>0. /\ Exclusive /\ Shape /\ Shape' /\ OneAtATime /\ Intact
      /\ spent \in [DOMAIN Budget -> Nat]
  BY NextExclusive DEF Undisturbed, Faithful, Exclusive, Attributed, Shape, TypeOK
<1>1. ASSUME Reliable' = Reliable, UNCHANGED <<ledger, proposal>>
      PROVE  UNCHANGED Store!vars
  BY <1>1 DEF Store!vars, Receipts, Abstract
<1>2. CASE UNCHANGED vars
  BY <1>0, <1>1, <1>2, DiskSame DEF vars
<1>3. ASSUME NEW s \in Session, Step(s) PROVE [Store!Next]_(Store!vars)
  <2>1. CASE ExtendLedger(s)
    BY <2>1, ExtendImplements DEF Store!Next
  <2>2. CASE ~ExtendLedger(s)
    BY <1>0, <1>1, <1>3, <2>2, QuietStep, OwnStep
  <2> QED BY <2>1, <2>2
<1>4. ASSUME NEW s \in Session, (\E job : Begin(s, job)) \/ Fail(s) \/ Crash(s)
      PROVE  UNCHANGED Store!vars
  BY <1>1, <1>4, QuietAround
<1>5. ASSUME NEW t \in Txn, Draft(t) PROVE Store!Propose(t)
  <2>1. /\ UNCHANGED <<files, intent, stages, ledger>> /\ proposal[t] = None
        /\ proposal'[t] \in Proposal /\ proposal'[t].base = ledger
        /\ \A u \in Txn \ {t} : proposal'[u] = proposal[u]
    BY <1>0, <1>5, DraftedProposal DEF Draft, disk
  <2>2. Reliable' = Reliable /\ UNCHANGED ledger
    BY <1>0, <2>1, DiskSame
  <2>3. /\ Abstract(proposal'[t]) # None
        /\ Abstract(proposal'[t]).base = Receipts(ledger)
    BY <2>1, AbstractKnown
  <2>4. Abstract(proposal[t]) = None /\ \A u \in Txn \ {t} :
          Abstract(proposal'[u]) = Abstract(proposal[u])
    BY <2>1 DEF Abstract
  <2>5. props'[t] = Abstract(proposal'[t]) /\ \A u \in Txn \ {t} : props'[u] = props[u]
    BY <2>4 DEF Abstract
  <2> QED BY <2>2, <2>3, <2>4, <2>5 DEF Store!Propose
<1>6. ASSUME NEW s \in Session, Stall(s) PROVE FALSE
  BY <1>0, <1>6 DEF Stall, Spend, Undisturbed, Steady, Budget
<1>7. ASSUME NEW s \in Session, Heartbeat(s) PROVE FALSE
  BY <1>0, <1>7, OthersIdle DEF Heartbeat
<1>8. ASSUME NEW p \in Path, NEW c \in Image, Edit(p, c) PROVE FALSE
  BY <1>0, <1>8 DEF Edit, Spend, Undisturbed, Budget
<1> QED BY <1>2, <1>3, <1>4, <1>5, <1>6, <1>7, <1>8
       DEF Next, BeginApply, BeginRecover, Store!Next

(* The engine is an atomic store: however its sessions crash, fail and      *)
(* recover, a reader who trusts an intent's preimages until its event is in *)
(* the ledger sees every proposal commit, or abort, in one step at the      *)
(* revision it was written against (engine.py apply, recover).              *)
THEOREM ImplementsStore == Spec /\ []Undisturbed => ImplementsAtomicStore
<1>1. Faithful /\ Undisturbed' /\ [Next]_vars => [Store!Next]_(Store!vars)
  BY NextStore
<1> QED BY <1>1, InitStore, FaithfulHolds, PTL DEF Spec, ImplementsAtomicStore, Store!Spec
-----------------------------------------------------------------------------
(***************************************************************************)
(* Edits by hand.  They spoil what the ledger tells of the files, but not  *)
(* what a run has just checked: unless an edit falls between a check and   *)
(* the mutation it protects, no edit is overwritten unseen.                *)
(***************************************************************************)
Checked(s) ==
  /\ pc[s] \in Filling => Sound(Targets(s))
  /\ pc[s] = "mutate" => Shows(files, Current(s).pre)
  /\ pc[s] = "restore" => Shows(files, Current(s).post)

Watchful ==
  /\ Exclusive
  /\ Whole => Sound(intent.targets)
  /\ \A s \in Session : Checked(s)

LEMMA UnwatchedChecked ==
  ASSUME NEW s \in Session, pc'[s] \notin Filling \cup {"mutate", "restore"}
  PROVE  Checked(s)'
<1>1. pc'[s] \notin Filling /\ pc'[s] # "mutate" /\ pc'[s] # "restore"
  OBVIOUS
<1> QED BY <1>1 DEF Checked

LEMMA IntentStays ==
  ASSUME Whole => Sound(intent.targets), UNCHANGED intent
  PROVE  (Whole => Sound(intent.targets))'
BY DEF Whole

(* A step of one session, the others being idle. *)
LEMMA FrameWatchful ==
  ASSUME Watchful, Exclusive', NEW s \in Session, Checked(s)',
         (Whole => Sound(intent.targets))',
         \A r \in Session \ {s} : pc'[r] = pc[r],
         pc[s] # "idle" \/ \A r \in Session : pc[r] = "idle"
  PROVE  Watchful'
<1>1. ASSUME NEW r \in Session \ {s} PROVE Checked(r)'
  <2>1. pc'[r] = "idle"
    BY OthersIdle DEF Watchful, Exclusive
  <2> QED BY <2>1 DEF Checked, Filling
<1> QED BY <1>1 DEF Watchful

LEMMA StepWatchful ==
  ASSUME Watchful, Exclusive', NEW s \in Session, Step(s)
  PROVE  Watchful'
<1> USE DEF Goto, Raise, End
<1>0. /\ Shape /\ Shape' /\ pc \in [Session -> Label] /\ run \in [Session -> Run]
      /\ Checked(s) /\ Anchored(s)
      /\ Whole => Sound(intent.targets)
      /\ PlanKnown(s) /\ JobKnown(s)
  BY DEF Watchful, Exclusive, Attributed, Shape, TypeOK, Aware
<1>1. pc[s] # "idle" /\ \A r \in Session \ {s} : pc'[r] = pc[r]
  BY <1>0, OwnStep
<1>2. ASSUME UNCHANGED intent, pc'[s] \notin Filling \cup {"mutate", "restore"}
      PROVE  Watchful'
  <2>1. Checked(s)' /\ (Whole => Sound(intent.targets))'
    BY <1>0, <1>2, UnwatchedChecked, IntentStays
  <2> QED BY <1>1, <2>1, FrameWatchful
<1>3. CASE PrepareAssets(s)
  <2> DEFINE t == run[s].job
             targets == [i \in DOMAIN Ops[t] |-> Snapshot(Ops[t][i], files)]
             plan == [txn |-> t, owner |-> s, targets |-> targets]
  <2>1. CASE pc'[s] = "release"
    BY <1>2, <1>3, <2>1 DEF PrepareAssets, Filling
  <2>2. CASE pc'[s] # "release"
    <3>1. Preparable(t) /\ run' = [run EXCEPT ![s].plan = plan] /\ pc'[s] = "publish"
          /\ UNCHANGED intent /\ t \in Txn
      BY <1>0, <1>3, <2>2 DEF PrepareAssets, JobKnown, Preparing, Run
    <3>2. Sound(targets)
      BY <1>0, <3>1, PreparedTargets DEF Preparable
    <3>3. plan.targets = targets
      OBVIOUS
    <3> HIDE DEF plan, targets
    <3>4. Targets(s)' = targets
      BY <1>0, <3>1, <3>3 DEF Targets, Run
    <3>5. Checked(s)'
      BY <3>1, <3>2, <3>4 DEF Checked
    <3> QED BY <1>0, <1>1, <3>1, <3>5, IntentStays, FrameWatchful
  <2> QED BY <2>1, <2>2
<1>4. CASE FencePublish(s) \/ CreateIntent(s) \/ FillIntent(s)
  <2>1. /\ pc[s] \in Filling /\ Targets(s)' = Targets(s)
        /\ pc'[s] \in {"create", "fill", "prepared", "release"}
    BY <1>0, <1>4 DEF FencePublish, CreateIntent, FillIntent, Filling, Targets
  <2>2. Sound(Targets(s))
    BY <1>0, <2>1 DEF Checked
  <2>3. Checked(s)'
    BY <2>1, <2>2 DEF Checked
  <2>4. UNCHANGED intent \/ intent' = Torn \/ intent' = run[s].plan
    BY <1>4 DEF FencePublish, CreateIntent, FillIntent
  <2>5. (Whole => Sound(intent.targets))'
    BY <1>0, <2>2, <2>4, IntentStays DEF Whole, Targets
  <2> QED BY <1>1, <2>3, <2>5, FrameWatchful
<1>5. CASE ApplyNext(s) \/ RollbackNext(s)
  <2>1. /\ UNCHANGED <<files, intent>>
        /\ pc'[s] \notin Filling
        /\ pc'[s] = "mutate" => Pending(Current(s), files, HasStage(s)) /\ UNCHANGED run
        /\ pc'[s] = "restore" => Applied(Current(s), files) /\ UNCHANGED run
    BY <1>0, <1>5 DEF ApplyNext, RollbackNext, Filling, disk
  <2>2. Checked(s)'
    BY <2>1 DEF Checked, Pending, Applied, Current, Targets
  <2> QED BY <1>0, <1>1, <2>1, <2>2, IntentStays, FrameWatchful
<1>6. CASE RemoveIntent(s)
  <2>1. Checked(s)' /\ (Whole => Sound(intent.targets))'
    BY <1>0, <1>6 DEF RemoveIntent, Checked, Whole, Filling
  <2> QED BY <1>1, <2>1, FrameWatchful
<1>7. CASE \/ InspectApply(s) \/ InspectRecover(s) \/ Release(s) \/ ExtendLedger(s)
           \/ Compare(s) \/ ScanApply(s) \/ MutateTarget(s) \/ ApplyDone(s) \/ Validate(s)
           \/ ScanRollback(s) \/ RestoreTarget(s) \/ RollbackDone(s) \/ CheckAppend(s)
           \/ CheckFinalize(s)
  <2>1. UNCHANGED intent
    BY <1>7 DEF InspectApply, InspectRecover, Release, ExtendLedger, Compare, ScanApply,
         MutateTarget, ApplyDone, Validate, ScanRollback, RestoreTarget, RollbackDone,
         CheckAppend, CheckFinalize, disk
  <2>2. pc'[s] \notin Filling \cup {"mutate", "restore"}
    BY <1>0, <1>7 DEF InspectApply, InspectRecover, Release, ExtendLedger, Compare,
         ScanApply, MutateTarget, ApplyDone, Validate, ScanRollback, RestoreTarget,
         RollbackDone, CheckAppend, CheckFinalize, Filling
  <2> QED BY <1>2, <2>1, <2>2
<1> QED BY <1>3, <1>4, <1>5, <1>6, <1>7 DEF Step

LEMMA NextWatchful ==
  ASSUME ~EditInWindow, Watchful, Steady', [Next]_vars
  PROVE  Watchful'
<1>0. /\ Exclusive /\ Shape /\ OneAtATime /\ pc \in [Session -> Label]
      /\ spent \in [DOMAIN Budget -> Nat]
      /\ Whole => Sound(intent.targets)
      /\ \A s \in Session : Checked(s)
  BY DEF Watchful, Exclusive, Attributed, Shape, TypeOK
<1>1. Exclusive'
  BY <1>0, NextExclusive
<1>2. CASE UNCHANGED <<files, intent, pc, run>>
  BY <1>0, <1>1, <1>2 DEF Watchful, Checked, Whole, Current, Targets
<1>3. ASSUME NEW s \in Session, (\E job : Begin(s, job)) \/ Fail(s) \/ Crash(s)
      PROVE  Watchful'
  <2>1. /\ UNCHANGED intent /\ pc'[s] \in {"inspect", "release", "idle"}
        /\ \A r \in Session \ {s} : pc'[r] = pc[r]
        /\ pc[s] # "idle" \/ \A r \in Session : pc[r] = "idle"
    BY <1>0, <1>3, NoneAssumption
       DEF Begin, Fail, Crash, Raise, End, Goto, disk, OneAtATime
  <2>2. Checked(s)' /\ (Whole => Sound(intent.targets))'
    BY <1>0, <2>1, UnwatchedChecked, IntentStays DEF Filling
  <2> QED BY <1>1, <2>1, <2>2, FrameWatchful
<1>4. ASSUME NEW p \in Path, NEW c \in Image, Edit(p, c) PROVE Watchful'
  <2>1. /\ UNCHANGED <<intent, pc, run>>
        /\ \A s \in Session : pc[s] \notin {"mutate", "restore"}
    BY <1>4 DEF Edit
  <2> QED BY <1>0, <1>1, <2>1 DEF Watchful, Checked, Whole, Targets
<1>5. ASSUME NEW s \in Session, Stall(s) PROVE FALSE
  BY <1>0, <1>5 DEF Stall, Spend, Steady, Budget
<1>6. ASSUME NEW s \in Session, Heartbeat(s) PROVE FALSE
  BY <1>0, <1>6, OthersIdle DEF Heartbeat
<1>7. ASSUME NEW t \in Txn, Draft(t) PROVE UNCHANGED <<files, intent, pc, run>>
  BY <1>7 DEF Draft, disk
<1> QED BY <1>1, <1>2, <1>3, <1>4, <1>5, <1>6, <1>7, StepWatchful
       DEF Next, vars, BeginApply, BeginRecover

(* A lease that went stale stays lost: what is steady has always been.      *)
LEMMA SteadyBefore ==
  ASSUME Shape, [Next]_vars, Steady'
  PROVE  Steady
<1>1. spent \in [DOMAIN Budget -> Nat]
  BY DEF Shape, TypeOK
<1>2. ASSUME NEW b \in DOMAIN Budget, Spend(b) PROVE Steady
  BY <1>1, <1>2 DEF Spend, Steady, Budget
<1>3. CASE UNCHANGED spent
  BY <1>3 DEF Steady
<1>4. UNCHANGED spent \/ \E b \in DOMAIN Budget : Spend(b)
  <2>1. {"crashes", "failures", "edits", "stalls"} = DOMAIN Budget
    BY DEF Budget
  <2> QED BY <2>1, OwnStep
          DEF Next, vars, Draft, BeginApply, BeginRecover, Begin, Fail, Crash, Stall,
              Heartbeat, Edit
<1> QED BY <1>2, <1>3, <1>4

(* A path that nobody edits by hand in a step only ever moves between the   *)
(* two images that the intent on disk recorded for it: no edit made before  *)
(* a check is overwritten unseen (engine.py _apply_target, staging.py).     *)
THEOREM HandEditsAreKept == ASSUME ~EditInWindow PROVE Spec => EditsAreKept
<1>1. ASSUME Watchful, Shape', Next, files' # files, spent'["edits"] = spent["edits"],
             NEW p \in Path, files'[p] # files[p]
      PROVE  /\ Whole
             /\ \E i \in DOMAIN intent.targets :
                  /\ p \in DOMAIN intent.targets[i].pre
                  /\ {files[p], files'[p]} =
                       {intent.targets[i].pre[p], intent.targets[i].post[p]}
  <2>0. /\ Shape /\ spent \in [DOMAIN Budget -> Nat] /\ files \in [Path -> Image]
        /\ \A s \in Session : Anchored(s) /\ Checked(s) /\ CursorInRange(s) /\ PlanKnown(s)
        /\ Whole => Sound(intent.targets)
    BY <1>1 DEF Watchful, Exclusive, Attributed, Shape, TypeOK, Aware
  <2>1. PICK s \in Session : MutateTarget(s) \/ RestoreTarget(s)
    <3>1. ASSUME NEW q \in Path, NEW c \in Image, Edit(q, c) PROVE FALSE
      BY <1>1, <2>0, <3>1 DEF Edit, Spend, Budget
    <3> QED BY <1>1, <3>1
        DEF Next, Draft, BeginApply, BeginRecover, Begin, Fail, Crash, Stall, Heartbeat,
            disk, Step, InspectApply, PrepareAssets, FencePublish, CreateIntent,
            FillIntent, Compare, ScanApply, ApplyNext, ApplyDone, Validate, ScanRollback,
            RollbackNext, RollbackDone, CheckAppend, ExtendLedger, CheckFinalize,
            RemoveIntent, InspectRecover, Release
  <2> DEFINE tg == Current(s)
             c == run[s].cursor
  <2>2. pc[s] \in {"mutate", "restore"} /\ pc[s] \in Published
    BY <2>1 DEF MutateTarget, RestoreTarget, Published, Unaudited
  <2>3. intent = run[s].plan /\ run[s].plan \in Intent /\ Whole
    BY <2>0, <2>2, NoneAssumption DEF Anchored, PlanKnown, Whole
  <2>4. c \in DOMAIN intent.targets /\ tg = intent.targets[c]
    <3>1. c \in 1..Len(Targets(s)) /\ Targets(s) \in Seq(IntentTarget)
      BY <2>0, <2>2, <2>3 DEF Shape, TypeOK, Run, CursorInRange, Targets, Intent
    <3> QED BY <2>3, <3>1, LenProperties DEF Current, Targets
  <2>5. Clear(tg) /\ tg \in IntentTarget
    BY <2>0, <2>2, <2>3, <2>4, CurrentType DEF Sound
  <2> HIDE DEF tg, c
  <2>6. CASE MutateTarget(s)
    <3>1. files' = Mutated(tg, files, tg.post) /\ Shows(files, tg.pre)
      BY <1>1, <2>0, <2>6 DEF MutateTarget, Checked, tg
    <3>2. /\ Shows(files', tg.post)
          /\ \A q \in Path \ DOMAIN tg.pre : files'[q] = files[q]
      BY <2>0, <2>5, <3>1, MutatedForward
    <3>3. p \in DOMAIN tg.pre /\ p \in DOMAIN tg.post
      BY <1>1, <2>5, <3>2 DEF Clear
    <3>4. files[p] = tg.pre[p] /\ files'[p] = tg.post[p]
      BY <3>1, <3>2, <3>3 DEF Shows
    <3> QED BY <2>3, <2>4, <3>3, <3>4
  <2>7. CASE RestoreTarget(s)
    <3>1. files' = Mutated(tg, files, tg.pre) /\ Shows(files, tg.post)
      BY <1>1, <2>0, <2>7 DEF RestoreTarget, Checked, tg
    <3>2. /\ Shows(files', tg.pre)
          /\ \A q \in Path \ DOMAIN tg.pre : files'[q] = files[q]
      BY <2>0, <2>5, <3>1, MutatedBack
    <3>3. p \in DOMAIN tg.pre /\ p \in DOMAIN tg.post
      BY <1>1, <2>5, <3>2 DEF Clear
    <3>4. files[p] = tg.post[p] /\ files'[p] = tg.pre[p]
      BY <3>1, <3>2, <3>3 DEF Shows
    <3> QED BY <2>3, <2>4, <3>3, <3>4
  <2> QED BY <2>1, <2>6, <2>7
<1>2. Init => (Steady => Watchful)
  <2> SUFFICES ASSUME Init PROVE Watchful
    OBVIOUS
  <2>1. ~Whole /\ \A s \in Session : Checked(s)
    BY DEF Init, Whole, Checked, Filling
  <2> QED BY <2>1, InitExclusive DEF Watchful
<1>3. Shape /\ (Steady => Watchful) /\ [Next]_vars => (Steady => Watchful)'
  BY SteadyBefore, NextWatchful
<1>4. Shape' /\ (Steady => Watchful) /\ [Next]_vars => [Steady => OverwritesOnlyRecorded]_files
  BY <1>1 DEF OverwritesOnlyRecorded, vars
<1> QED BY <1>2, <1>3, <1>4, InitShape, NextShape, PTL DEF Spec, EditsAreKept
=============================================================================
