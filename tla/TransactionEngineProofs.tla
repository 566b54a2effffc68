---------------------- MODULE TransactionEngineProofs ----------------------
(***************************************************************************)
(* Theorems about the transaction engine, for every set of sessions,       *)
(* proposals, paths and contents, every seed and every bound: any number   *)
(* of crashes, failures, hand edits and leases that go stale under a       *)
(* session that works on.                                                  *)
(***************************************************************************)
EXTENDS TransactionEngine, SequenceTheorems, TLAPS

(***************************************************************************)
(* The inductive invariant, in named parts.                                *)
(***************************************************************************)
Preparing == {"prepare", "publish", "create", "fill", "prepared"}
Applying  == {"scan", "apply", "mutate", "validate"}

(* A run past its inspection works on a recorded intent; only a run that    *)
(* applies a proposal prepares and replaces files; and the cursor points at *)
(* a target whenever one is mutated.                                        *)
PlanKnown(s) ==
  pc[s] \notin {"idle", "inspect", "prepare", "release"} => run[s].plan \in Intent

JobKnown(s) == pc[s] \in Preparing \cup Applying => run[s].job # None

CursorInRange(s) ==
  /\ pc[s] \in {"apply", "mutate", "restore"} => run[s].cursor >= 1
  /\ pc[s] \in {"mutate", "rollback", "restore"} => run[s].cursor <= Len(Targets(s))

Aware(s) == PlanKnown(s) /\ JobKnown(s) /\ CursorInRange(s)

Shape == TypeOK /\ \A s \in Session : Aware(s)
-----------------------------------------------------------------------------
(***************************************************************************)
(* The data: snapshots, mutations and events have their types.             *)
(***************************************************************************)
LEMMA SnapshotType ==
  ASSUME NEW fs \in [Path -> Image], NEW op \in Op, Possible(op, fs)
  PROVE  Snapshot(op, fs) \in IntentTarget
<1> DEFINE tg == Snapshot(op, fs)
           S == Touched(op)
<1>1. /\ S \in SUBSET Path
      /\ op.kind \in {"replace", "move", "delete"}
      /\ op.kind = "replace" => op.content \in Image
      /\ op.kind = "move" => op.destination \in Path /\ op.destination \in S
      /\ op.target \in Path /\ op.target \in S
  BY DEF Op, Touched, Image
<1>2. /\ tg.pre \in [S -> Image] /\ tg.post \in [S -> Image]
      /\ tg \in [kind : {"replace", "move", "delete"}, pre : [S -> Image], post : [S -> Image]]
  BY <1>1 DEF Snapshot, Image
<1>3. ASSUME tg.kind = "move"
      PROVE  \E p, q \in S : tg.pre[p] = Absent /\ tg.post[q] = Absent
  <2>1. op.kind = "move" /\ fs[op.destination] = Absent /\ fs[op.target] # Absent
    BY <1>3 DEF Snapshot, Possible
  <2>2. tg.pre[op.destination] = Absent /\ tg.post[op.target] = Absent
    BY <1>1, <2>1 DEF Snapshot
  <2> QED BY <1>1, <2>1, <2>2
<1>4. tg \in TargetOn(S)
  BY <1>2, <1>3 DEF TargetOn
<1> QED BY <1>1, <1>4 DEF IntentTarget

LEMMA PutType ==
  ASSUME NEW fs \in [Path -> Image], NEW S \in SUBSET Path, NEW image \in [S -> Image]
  PROVE  Put(fs, image) \in [Path -> Image]
BY DEF Put

LEMMA MutatedType ==
  ASSUME NEW fs \in [Path -> Image], NEW tg \in IntentTarget,
         NEW image \in {tg.pre, tg.post}
  PROVE  Mutated(tg, fs, image) \in [Path -> Image]
<1>1. PICK S \in SUBSET Path : tg \in TargetOn(S)
  BY DEF IntentTarget
<1>2. image \in [S -> Image]
  BY <1>1 DEF TargetOn
<1>3. CASE tg.kind = "move"
  <2>1. \E p \in DOMAIN image : image[p] = Absent
    BY <1>1, <1>3 DEF TargetOn
  <2>2. Origin(image) \in Path
    BY <1>2, <2>1 DEF Origin
  <2>3. Renamed(fs, image) \in [Path -> Image]
    BY <1>2, <2>2 DEF Renamed, Image
  <2> QED BY <1>3, <2>3 DEF Mutated
<1>4. CASE tg.kind # "move"
  BY <1>2, <1>4, PutType DEF Mutated
<1> QED BY <1>3, <1>4

LEMMA CurrentType ==
  ASSUME Shape, NEW s \in Session, pc[s] \in {"mutate", "restore"}
  PROVE  Current(s) \in IntentTarget /\ run[s].plan.owner \in Session
<1>1. run[s].plan \in Intent
  BY DEF Shape, Aware, PlanKnown
<1>2. run[s].cursor \in 1..Len(Targets(s))
  BY <1>1 DEF Shape, TypeOK, Run, Aware, CursorInRange, Targets, Intent
<1> QED BY <1>1, <1>2, ElementOfSeq DEF Current, Targets, Intent

LEMMA SealedEventType ==
  ASSUME Shape, NEW s \in Session, pc[s] = "extend"
  PROVE  SealedEvent(s) \in Event
<1>1. run[s].plan \in Intent /\ run[s] \in Run
  BY DEF Shape, TypeOK, Aware, PlanKnown
<1>2. Len(run[s].base) \in Nat
  BY <1>1, LenProperties DEF Run
<1> QED BY <1>1, <1>2 DEF SealedEvent, Event, Intent, Run, Targets

LEMMA EventOfType ==
  ASSUME Shape, NEW t \in Txn, Recorded(ledger, t)
  PROVE  EventOf(ledger, t) \in Event
<1>1. ledger \in [1..Len(ledger) -> Event] /\ DOMAIN ledger = 1..Len(ledger)
  BY LenProperties DEF Shape, TypeOK
<1>2. \E k \in DOMAIN ledger : ledger[k].txn = t
  BY DEF Recorded, EventsOf
<1> QED BY <1>1, <1>2 DEF EventOf

LEMMA FunctionIsSeq ==
  ASSUME NEW S, NEW n \in Nat, NEW f \in [1..n -> S]
  PROVE  f \in Seq(S)
BY SeqDef

-----------------------------------------------------------------------------
(***************************************************************************)
(* Every step keeps the shape.                                             *)
(***************************************************************************)
LEMMA InitShape == Init => Shape
<1> SUFFICES ASSUME Init PROVE Shape
  OBVIOUS
<1>1. TypeOK
  BY SeedAssumption DEF Init, TypeOK, Idle, Run, Label, Budget
<1>2. ASSUME NEW s \in Session PROVE Aware(s)
  BY DEF Init, Aware, PlanKnown, JobKnown, CursorInRange, Preparing, Applying
<1> QED BY <1>1, <1>2 DEF Shape

(* A step of one session leaves the others as aware as they were. *)
LEMMA FrameShape ==
  ASSUME Shape, TypeOK', NEW s \in Session, Aware(s)',
         \A r \in Session \ {s} : pc'[r] = pc[r] /\ run'[r] = run[r]
  PROVE  Shape'
<1>1. ASSUME NEW r \in Session \ {s} PROVE Aware(r)'
  BY DEF Shape, Aware, PlanKnown, JobKnown, CursorInRange, Targets
<1> QED BY <1>1 DEF Shape

(* A run that only moves on, remembering what it knew, stays in shape.      *)
LEMMA MoveShape ==
  ASSUME Shape, NEW s \in Session, NEW l \in Label, Goto(s, l),
         UNCHANGED <<files, ledger, lock, proposal, run, spent>>,
         intent' \in Intent \cup {None, Torn},
         stages' \in [Session -> SUBSET Nat], assets' \subseteq Session,
         outcome' \in [Session -> {"none", "committed", "rolled_back", "refused",
                                   "clean", "pending", "error", "crashed"}],
         l \notin {"idle", "inspect", "prepare", "release"} => run[s].plan \in Intent,
         l \in Preparing \cup Applying => run[s].job # None,
         l \notin {"apply", "mutate", "rollback", "restore"}
  PROVE  Shape'
<1>1. pc' = [pc EXCEPT ![s] = l] /\ pc \in [Session -> Label]
  BY DEF Goto, Shape, TypeOK
<1>2. TypeOK'
  BY <1>1 DEF Shape, TypeOK
<1>3. Aware(s)'
  BY <1>1 DEF Aware, PlanKnown, JobKnown, CursorInRange, Targets
<1> QED BY <1>1, <1>2, <1>3, FrameShape DEF Shape, TypeOK

(* Where a run ends, its outcome is reported and the rest stays.           *)
LEMMA EndShape ==
  ASSUME Shape, NEW s \in Session,
         NEW o \in {"committed", "rolled_back", "refused", "clean", "pending", "error"},
         End(s, o),
         UNCHANGED <<files, ledger, lock, proposal, run, spent>>,
         intent' \in Intent \cup {None, Torn},
         stages' \in [Session -> SUBSET Nat], assets' \subseteq Session
  PROVE  Shape'
<1>1. outcome' \in [Session -> {"none", "committed", "rolled_back", "refused",
                                "clean", "pending", "error", "crashed"}]
  BY DEF End, Shape, TypeOK
<1>2. "release" \in Label
  BY DEF Label
<1>3. "release" \notin Preparing \cup Applying
  BY DEF Preparing, Applying
<1> QED BY <1>1, <1>2, <1>3, MoveShape DEF End

LEMMA RaiseShape ==
  ASSUME Shape, NEW s \in Session, Raise(s),
         UNCHANGED <<files, ledger, lock, proposal, run, spent>>,
         intent' \in Intent \cup {None, Torn},
         stages' \in [Session -> SUBSET Nat], assets' \subseteq Session
  PROVE  Shape'
<1>1. PICK o \in {"pending", "error"} : End(s, o)
  BY DEF Raise
<1> QED BY <1>1, EndShape

(* The steps that only read, or write nothing but a bookkeeping mark.       *)
LEMMA PlainStepShape ==
  ASSUME Shape, NEW s \in Session,
         \/ FencePublish(s) \/ CreateIntent(s) \/ FillIntent(s)
         \/ ApplyDone(s) \/ RollbackDone(s) \/ CheckAppend(s) \/ CheckFinalize(s)
         \/ RemoveIntent(s)
  PROVE  Shape'
<1> USE DEF Label, Preparing, Applying, disk
<1>0. /\ pc[s] \in Label
      /\ intent \in Intent \cup {None, Torn}
      /\ stages \in [Session -> SUBSET Nat] /\ assets \subseteq Session
      /\ outcome \in [Session -> {"none", "committed", "rolled_back", "refused",
                                  "clean", "pending", "error", "crashed"}]
      /\ PlanKnown(s) /\ JobKnown(s)
      /\ run[s].verdict \in {"committed", "rolled_back"}
  BY DEF Shape, TypeOK, Aware, Run
<1>1. CASE FencePublish(s)
  <2>1. stages' \in [Session -> SUBSET Nat] /\ assets' \subseteq Session
    BY <1>0, <1>1 DEF FencePublish, Discard
  <2>2. CASE Raise(s)
    BY <1>0, <1>1, <2>1, <2>2, RaiseShape DEF FencePublish
  <2>3. CASE Goto(s, "create") /\ UNCHANGED outcome
    BY <1>0, <1>1, <2>1, <2>3, MoveShape DEF FencePublish, PlanKnown, JobKnown
  <2> QED BY <1>1, <2>2, <2>3 DEF FencePublish
<1>2. CASE CreateIntent(s)
  <2>1. CASE Raise(s)
    BY <1>0, <1>2, <2>1, RaiseShape DEF CreateIntent
  <2>2. CASE Goto(s, "fill") /\ UNCHANGED <<outcome, stages, assets>>
    BY <1>0, <1>2, <2>2, MoveShape DEF CreateIntent, PlanKnown, JobKnown
  <2> QED BY <1>2, <2>1, <2>2 DEF CreateIntent
<1>3. CASE FillIntent(s)
  BY <1>0, <1>3, MoveShape DEF FillIntent, PlanKnown, JobKnown
<1>4. CASE ApplyDone(s)
  BY <1>0, <1>4, MoveShape DEF ApplyDone, PlanKnown, JobKnown
<1>5. CASE RollbackDone(s)
  BY <1>0, <1>5, MoveShape DEF RollbackDone, PlanKnown, JobKnown
<1>6. CASE CheckAppend(s)
  <2>1. CASE Raise(s)
    BY <1>0, <1>6, <2>1, RaiseShape DEF CheckAppend
  <2>2. CASE Goto(s, "extend") /\ UNCHANGED outcome
    BY <1>0, <1>6, <2>2, MoveShape DEF CheckAppend, PlanKnown
  <2> QED BY <1>6, <2>1, <2>2 DEF CheckAppend
<1>7. CASE CheckFinalize(s)
  <2>1. CASE Raise(s)
    BY <1>0, <1>7, <2>1, RaiseShape DEF CheckFinalize
  <2>2. CASE Goto(s, "remove") /\ UNCHANGED outcome
    BY <1>0, <1>7, <2>2, MoveShape DEF CheckFinalize, PlanKnown
  <2> QED BY <1>7, <2>1, <2>2 DEF CheckFinalize
<1>8. CASE RemoveIntent(s)
  <2>1. CASE Raise(s) /\ UNCHANGED <<intent, stages, assets>>
    BY <1>0, <1>8, <2>1, RaiseShape DEF RemoveIntent
  <2>2. CASE /\ intent' = None
             /\ stages' = [stages EXCEPT ![run[s].plan.owner] = {}]
             /\ assets' = assets \ {run[s].plan.owner}
             /\ End(s, run[s].verdict)
    <3>1. stages' \in [Session -> SUBSET Nat] /\ assets' \subseteq Session
      BY <1>0, <2>2
    <3> QED BY <1>0, <1>8, <2>2, <3>1, EndShape DEF RemoveIntent
  <2> QED BY <1>8, <2>1, <2>2 DEF RemoveIntent
<1> QED BY <1>1, <1>2, <1>3, <1>4, <1>5, <1>6, <1>7, <1>8

(* The steps that change what the session remembers. *)
LEMMA ChangeShape ==
  ASSUME Shape, NEW s \in Session,
         pc' \in [Session -> Label], run' \in [Session -> Run],
         \A r \in Session \ {s} : pc'[r] = pc[r] /\ run'[r] = run[r],
         UNCHANGED <<ledger, intent, lock, proposal, spent>>,
         files' \in [Path -> Image],
         stages' \in [Session -> SUBSET Nat], assets' \subseteq Session,
         outcome' \in [Session -> {"none", "committed", "rolled_back", "refused",
                                   "clean", "pending", "error", "crashed"}],
         Aware(s)'
  PROVE  Shape'
<1>1. TypeOK'
  BY DEF Shape, TypeOK
<1> QED BY <1>1, FrameShape

(* What a run remembers when only its cursor, or only its verdict, moves.   *)
LEMMA CursorMoves ==
  ASSUME Shape, NEW s \in Session, NEW n \in Nat,
         run' = [run EXCEPT ![s].cursor = n]
  PROVE  /\ run' \in [Session -> Run] /\ run'[s].cursor = n
         /\ run'[s].job = run[s].job /\ run'[s].plan = run[s].plan
         /\ run'[s].base = run[s].base /\ run'[s].verdict = run[s].verdict
         /\ \A r \in Session \ {s} : run'[r] = run[r]
<1>1. run \in [Session -> Run]
  BY DEF Shape, TypeOK
<1> QED BY <1>1 DEF Run

LEMMA VerdictMoves ==
  ASSUME Shape, NEW s \in Session, NEW v \in {"committed", "rolled_back"},
         run' = [run EXCEPT ![s].verdict = v]
  PROVE  /\ run' \in [Session -> Run] /\ run'[s].verdict = v
         /\ run'[s].job = run[s].job /\ run'[s].plan = run[s].plan
         /\ run'[s].base = run[s].base /\ run'[s].cursor = run[s].cursor
         /\ \A r \in Session \ {s} : run'[r] = run[r]
<1>1. run \in [Session -> Run]
  BY DEF Shape, TypeOK
<1> QED BY <1>1 DEF Run

LEMMA BaseMoves ==
  ASSUME Shape, NEW s \in Session, NEW b \in Seq(Event),
         run' = [run EXCEPT ![s].base = b]
  PROVE  /\ run' \in [Session -> Run] /\ run'[s].base = b
         /\ run'[s].job = run[s].job /\ run'[s].plan = run[s].plan
         /\ \A r \in Session \ {s} : run'[r] = run[r]
<1>1. run \in [Session -> Run]
  BY DEF Shape, TypeOK
<1> QED BY <1>1 DEF Run

LEMMA PlanMoves ==
  ASSUME Shape, NEW s \in Session, NEW p \in Intent,
         run' = [run EXCEPT ![s].plan = p]
  PROVE  /\ run' \in [Session -> Run] /\ run'[s].plan = p
         /\ run'[s].job = run[s].job
         /\ \A r \in Session \ {s} : run'[r] = run[r]
<1>1. run \in [Session -> Run]
  BY DEF Shape, TypeOK
<1> QED BY <1>1 DEF Run

LEMMA ResolutionMoves ==
  ASSUME Shape, NEW s \in Session, NEW p \in Intent, NEW b \in Seq(Event),
         NEW v \in {"committed", "rolled_back"},
         \/ run' = [run EXCEPT ![s] = [@ EXCEPT !.plan = p, !.base = b, !.verdict = v]]
         \/ run' = [run EXCEPT ![s] = [@ EXCEPT !.plan = p, !.verdict = v]]
  PROVE  /\ run' \in [Session -> Run] /\ run'[s].plan = p
         /\ \A r \in Session \ {s} : run'[r] = run[r]
<1>1. run \in [Session -> Run]
  BY DEF Shape, TypeOK
<1>2. run[s] \in [job : Txn \cup {None}, plan : Intent \cup {None}, base : Seq(Event),
                   cursor : Nat, verdict : {"committed", "rolled_back"}]
  BY <1>1 DEF Run
<1>3. CASE run' = [run EXCEPT ![s] = [@ EXCEPT !.plan = p, !.base = b, !.verdict = v]]
  <2> DEFINE new == [run[s] EXCEPT !.plan = p, !.base = b, !.verdict = v]
  <2>1. new \in Run /\ new.plan = p
    BY <1>2 DEF Run
  <2>2. run' = [run EXCEPT ![s] = new]
    BY <1>3
  <2> HIDE DEF new
  <2> QED BY <1>1, <2>1, <2>2
<1>4. CASE run' = [run EXCEPT ![s] = [@ EXCEPT !.plan = p, !.verdict = v]]
  <2> DEFINE new == [run[s] EXCEPT !.plan = p, !.verdict = v]
  <2>1. new \in Run /\ new.plan = p
    BY <1>2 DEF Run
  <2>2. run' = [run EXCEPT ![s] = new]
    BY <1>4
  <2> HIDE DEF new
  <2> QED BY <1>1, <2>1, <2>2
<1> QED BY <1>3, <1>4

LEMMA InspectApplyShape ==
  ASSUME Shape, NEW s \in Session, InspectApply(s)
  PROVE  Shape'
<1>1. CASE End(s, "refused") /\ UNCHANGED run
  BY <1>1, EndShape DEF InspectApply, disk, Shape, TypeOK
<1>2. CASE /\ run' = [run EXCEPT ![s].base = ledger]
           /\ Goto(s, "prepare")
           /\ UNCHANGED outcome
  <2>1. run' \in [Session -> Run] /\ run'[s].job = run[s].job
        /\ \A r \in Session \ {s} : run'[r] = run[r]
    <3>1. ledger \in Seq(Event)
      BY DEF Shape, TypeOK
    <3> QED BY <1>2, <3>1, BaseMoves
  <2>2. pc' \in [Session -> Label] /\ pc'[s] = "prepare"
        /\ \A r \in Session \ {s} : pc'[r] = pc[r]
    BY <1>2 DEF Goto, Shape, TypeOK, Label
  <2>3. Aware(s)'
    BY <2>1, <2>2 DEF InspectApply, Aware, PlanKnown, JobKnown, CursorInRange,
                      Preparing, Applying
  <2> QED BY <1>2, <2>1, <2>2, <2>3, ChangeShape DEF InspectApply, disk, Shape, TypeOK
<1> QED BY <1>1, <1>2 DEF InspectApply

LEMMA PrepareAssetsShape ==
  ASSUME Shape, NEW s \in Session, PrepareAssets(s)
  PROVE  Shape'
<1> DEFINE t == run[s].job
           targets == [i \in DOMAIN Ops[t] |-> Snapshot(Ops[t][i], files)]
<1>1. CASE Raise(s) /\ UNCHANGED <<run, stages, assets>>
  BY <1>1, RaiseShape DEF PrepareAssets, Shape, TypeOK
<1>2. CASE /\ Preparable(t)
           /\ run' = [run EXCEPT ![s].plan = [txn |-> t, owner |-> s, targets |-> targets]]
           /\ stages' = [stages EXCEPT ![s] = StagedFiles(targets)]
           /\ assets' = assets \cup {s}
           /\ Goto(s, "publish")
           /\ UNCHANGED outcome
  <2>1. t \in Txn
    BY DEF PrepareAssets, Shape, TypeOK, Run, Aware, JobKnown, Preparing
  <2>2. Ops[t] \in Seq(Op) /\ Len(Ops[t]) \in Nat /\ DOMAIN Ops[t] = 1..Len(Ops[t])
        /\ \A i \in DOMAIN Ops[t] : Ops[t][i] \in Op
    BY <2>1, OpsAssumption, LenProperties, ElementOfSeq
  <2>3. \A i \in DOMAIN Ops[t] : targets[i] \in IntentTarget
    BY <1>2, <2>2, SnapshotType DEF Preparable, Shape, TypeOK
  <2>4. targets \in Seq(IntentTarget)
    <3>1. targets \in [1..Len(Ops[t]) -> IntentTarget]
      BY <2>2, <2>3
    <3> QED BY <2>2, <3>1, FunctionIsSeq
  <2>5. [txn |-> t, owner |-> s, targets |-> targets] \in Intent
    BY <2>1, <2>4 DEF Intent
  <2>6. run' \in [Session -> Run] /\ run'[s].job = run[s].job /\ run'[s].plan \in Intent
        /\ \A r \in Session \ {s} : run'[r] = run[r]
    BY <1>2, <2>5, PlanMoves
  <2>7. pc' \in [Session -> Label] /\ pc'[s] = "publish"
        /\ \A r \in Session \ {s} : pc'[r] = pc[r]
    BY <1>2 DEF Goto, Shape, TypeOK, Label
  <2>8. StagedFiles(targets) \subseteq Nat
    BY <2>2 DEF StagedFiles
  <2>9. stages' \in [Session -> SUBSET Nat]
    BY <1>2, <2>8 DEF Shape, TypeOK
  <2>10. Aware(s)'
    BY <2>1, <2>6, <2>7, NoneAssumption
       DEF Aware, PlanKnown, JobKnown, CursorInRange, Preparing, Applying
  <2> QED BY <1>2, <2>6, <2>7, <2>9, <2>10, ChangeShape DEF PrepareAssets, Shape, TypeOK
<1> QED BY <1>1, <1>2 DEF PrepareAssets

LEMMA CompareShape ==
  ASSUME Shape, NEW s \in Session, Compare(s)
  PROVE  Shape'
<1>1. run' \in [Session -> Run]
      /\ run'[s].job = run[s].job /\ run'[s].plan = run[s].plan
      /\ \A r \in Session \ {s} : run'[r] = run[r]
  <2>1. run' = [run EXCEPT ![s].verdict = "rolled_back"]
    BY DEF Compare
  <2> QED BY <2>1, VerdictMoves
<1>2. pc' \in [Session -> Label] /\ pc'[s] \in {"scan", "append"}
      /\ \A r \in Session \ {s} : pc'[r] = pc[r]
  BY DEF Compare, Goto, Shape, TypeOK, Label
<1>3. run[s].plan \in Intent /\ run[s].job # None
  BY DEF Compare, Shape, Aware, PlanKnown, JobKnown, Preparing
<1>4. Aware(s)'
  BY <1>1, <1>2, <1>3 DEF Aware, PlanKnown, JobKnown, CursorInRange, Preparing, Applying
<1> QED BY <1>1, <1>2, <1>4, ChangeShape DEF Compare, disk, Shape, TypeOK

LEMMA ScanApplyShape ==
  ASSUME Shape, NEW s \in Session, ScanApply(s)
  PROVE  Shape'
<1>1. CASE Raise(s) /\ UNCHANGED run
  BY <1>1, RaiseShape DEF ScanApply, disk, Shape, TypeOK
<1>2. CASE /\ run' = [run EXCEPT ![s].cursor = 1]
           /\ Goto(s, "apply")
           /\ UNCHANGED outcome
  <2>1. run' \in [Session -> Run] /\ run'[s].cursor = 1
        /\ run'[s].job = run[s].job /\ run'[s].plan = run[s].plan
        /\ \A r \in Session \ {s} : run'[r] = run[r]
    BY <1>2, CursorMoves
  <2>2. pc' \in [Session -> Label] /\ pc'[s] = "apply"
        /\ \A r \in Session \ {s} : pc'[r] = pc[r]
    BY <1>2 DEF Goto, Shape, TypeOK, Label
  <2>3. run[s].plan \in Intent /\ run[s].job # None
    BY DEF ScanApply, Shape, Aware, PlanKnown, JobKnown, Applying
  <2>4. Aware(s)'
    BY <2>1, <2>2, <2>3 DEF Aware, PlanKnown, JobKnown, CursorInRange, Preparing, Applying
  <2> QED BY <1>2, <2>1, <2>2, <2>4, ChangeShape DEF ScanApply, disk, Shape, TypeOK
<1> QED BY <1>1, <1>2 DEF ScanApply

LEMMA ApplyNextShape ==
  ASSUME Shape, NEW s \in Session, ApplyNext(s)
  PROVE  Shape'
<1>0. /\ pc[s] = "apply" /\ run[s].cursor \in Nat /\ run[s].cursor >= 1
      /\ run[s].cursor <= Len(Targets(s))
      /\ run[s].plan \in Intent /\ run[s].job # None
  BY DEF ApplyNext, Shape, TypeOK, Run, Aware, PlanKnown, JobKnown, CursorInRange, Applying
<1>1. CASE Raise(s) /\ UNCHANGED run
  BY <1>1, RaiseShape DEF ApplyNext, disk, Shape, TypeOK
<1>2. CASE run' = [run EXCEPT ![s].cursor = @ + 1] /\ UNCHANGED <<pc, outcome>>
  <2>1. run' \in [Session -> Run] /\ run'[s].cursor = run[s].cursor + 1
        /\ run'[s].job = run[s].job /\ run'[s].plan = run[s].plan
        /\ \A r \in Session \ {s} : run'[r] = run[r]
    <3>1. run[s].cursor + 1 \in Nat
      BY <1>0
    <3> QED BY <1>2, <3>1, CursorMoves
  <2>2. Aware(s)'
    BY <1>0, <1>2, <2>1 DEF Aware, PlanKnown, JobKnown, CursorInRange, Preparing, Applying
  <2> QED BY <1>2, <2>1, <2>2, ChangeShape DEF ApplyNext, disk, Shape, TypeOK
<1>3. CASE Goto(s, "mutate") /\ UNCHANGED <<run, outcome>>
  <2>1. pc' \in [Session -> Label] /\ pc'[s] = "mutate"
        /\ \A r \in Session \ {s} : pc'[r] = pc[r]
    BY <1>3 DEF Goto, Shape, TypeOK, Label
  <2>2. Aware(s)'
    BY <1>0, <1>3, <2>1
       DEF Aware, PlanKnown, JobKnown, CursorInRange, Preparing, Applying, Targets
  <2> QED BY <1>3, <2>1, <2>2, ChangeShape DEF ApplyNext, disk, Shape, TypeOK
<1> QED BY <1>1, <1>2, <1>3 DEF ApplyNext

LEMMA MutateTargetShape ==
  ASSUME Shape, NEW s \in Session, MutateTarget(s)
  PROVE  Shape'
<1> DEFINE tg == Current(s)
<1>0. /\ pc[s] = "mutate" /\ run[s].cursor \in Nat /\ run[s].cursor >= 1
      /\ run[s].plan \in Intent /\ run[s].job # None
      /\ tg \in IntentTarget /\ run[s].plan.owner \in Session
  BY CurrentType
     DEF MutateTarget, Shape, TypeOK, Run, Aware, PlanKnown, JobKnown, CursorInRange, Applying
<1>1. CASE Raise(s) /\ UNCHANGED <<files, stages, run>>
  BY <1>1, RaiseShape DEF MutateTarget, Shape, TypeOK
<1>2. CASE /\ files' = Mutated(tg, files, tg.post)
           /\ stages' = [stages EXCEPT ![run[s].plan.owner] = @ \ {run[s].cursor}]
           /\ run' = [run EXCEPT ![s].cursor = @ + 1]
           /\ Goto(s, "apply")
           /\ UNCHANGED outcome
  <2>1. files' \in [Path -> Image]
    BY <1>0, <1>2, MutatedType DEF Shape, TypeOK
  <2>2. stages' \in [Session -> SUBSET Nat]
    BY <1>0, <1>2 DEF Shape, TypeOK
  <2>3. run' \in [Session -> Run] /\ run'[s].cursor = run[s].cursor + 1
        /\ run'[s].job = run[s].job /\ run'[s].plan = run[s].plan
        /\ \A r \in Session \ {s} : run'[r] = run[r]
    <3>1. run[s].cursor + 1 \in Nat
      BY <1>0
    <3> QED BY <1>2, <3>1, CursorMoves
  <2>4. pc' \in [Session -> Label] /\ pc'[s] = "apply"
        /\ \A r \in Session \ {s} : pc'[r] = pc[r]
    BY <1>2 DEF Goto, Shape, TypeOK, Label
  <2>5. Aware(s)'
    BY <1>0, <2>3, <2>4 DEF Aware, PlanKnown, JobKnown, CursorInRange, Preparing, Applying
  <2> QED BY <1>2, <2>1, <2>2, <2>3, <2>4, <2>5, ChangeShape
             DEF MutateTarget, Shape, TypeOK
<1> QED BY <1>1, <1>2 DEF MutateTarget

LEMMA ValidateShape ==
  ASSUME Shape, NEW s \in Session, Validate(s)
  PROVE  Shape'
<1>0. pc[s] = "validate" /\ run[s].plan \in Intent
  BY DEF Validate, Shape, Aware, PlanKnown
<1>1. run' \in [Session -> Run] /\ run'[s].plan = run[s].plan
      /\ \A r \in Session \ {s} : run'[r] = run[r]
  <2>1. CASE run' = [run EXCEPT ![s].verdict = "committed"]
    BY <2>1, VerdictMoves
  <2>2. CASE UNCHANGED run
    BY <2>2 DEF Shape, TypeOK
  <2> QED BY <2>1, <2>2 DEF Validate
<1>2. pc' \in [Session -> Label] /\ pc'[s] \in {"append", "rescan"}
      /\ \A r \in Session \ {s} : pc'[r] = pc[r]
  BY DEF Validate, Goto, Shape, TypeOK, Label
<1>3. Aware(s)'
  BY <1>0, <1>1, <1>2 DEF Aware, PlanKnown, JobKnown, CursorInRange, Preparing, Applying
<1> QED BY <1>1, <1>2, <1>3, ChangeShape DEF Validate, disk, Shape, TypeOK

LEMMA ScanRollbackShape ==
  ASSUME Shape, NEW s \in Session, ScanRollback(s)
  PROVE  Shape'
<1>1. CASE Raise(s) /\ UNCHANGED run
  BY <1>1, RaiseShape DEF ScanRollback, disk, Shape, TypeOK
<1>2. CASE /\ run' = [run EXCEPT ![s].cursor = Len(Targets(s))]
           /\ Goto(s, "rollback")
           /\ UNCHANGED outcome
  <2>1. run[s].plan \in Intent
    BY DEF ScanRollback, Shape, Aware, PlanKnown
  <2>2. Len(Targets(s)) \in Nat
    BY <2>1, LenProperties DEF Intent, Targets
  <2>3. run' \in [Session -> Run] /\ run'[s].cursor = Len(Targets(s))
        /\ run'[s].plan = run[s].plan
        /\ \A r \in Session \ {s} : run'[r] = run[r]
    BY <1>2, <2>2, CursorMoves
  <2>4. pc' \in [Session -> Label] /\ pc'[s] = "rollback"
        /\ \A r \in Session \ {s} : pc'[r] = pc[r]
    BY <1>2 DEF Goto, Shape, TypeOK, Label
  <2>5. Aware(s)'
    BY <2>1, <2>2, <2>3, <2>4
       DEF Aware, PlanKnown, JobKnown, CursorInRange, Preparing, Applying, Targets
  <2> QED BY <1>2, <2>3, <2>4, <2>5, ChangeShape DEF ScanRollback, disk, Shape, TypeOK
<1> QED BY <1>1, <1>2 DEF ScanRollback

LEMMA RollbackNextShape ==
  ASSUME Shape, NEW s \in Session, RollbackNext(s)
  PROVE  Shape'
<1>0. /\ pc[s] = "rollback" /\ run[s].cursor \in Nat /\ run[s].cursor > 0
      /\ run[s].cursor <= Len(Targets(s)) /\ Len(Targets(s)) \in Nat
      /\ run[s].plan \in Intent /\ run[s].plan.owner \in Session
  BY LenProperties
     DEF RollbackNext, Shape, TypeOK, Run, Aware, PlanKnown, CursorInRange, Intent, Targets
<1>1. CASE Raise(s) /\ UNCHANGED <<run, stages>>
  BY <1>1, RaiseShape DEF RollbackNext, Shape, TypeOK
<1>2. CASE run' = [run EXCEPT ![s].cursor = @ - 1] /\ UNCHANGED <<pc, outcome, stages>>
  <2>1. run' \in [Session -> Run] /\ run'[s].cursor = run[s].cursor - 1
        /\ run'[s].plan = run[s].plan
        /\ \A r \in Session \ {s} : run'[r] = run[r]
    <3>1. run[s].cursor - 1 \in Nat
      BY <1>0
    <3> QED BY <1>2, <3>1, CursorMoves
  <2>2. Aware(s)'
    BY <1>0, <1>2, <2>1
       DEF Aware, PlanKnown, JobKnown, CursorInRange, Preparing, Applying, Targets
  <2> QED BY <1>2, <2>1, <2>2, ChangeShape DEF RollbackNext, Shape, TypeOK
<1>3. CASE /\ stages' = [stages EXCEPT ![run[s].plan.owner] = @ \cup {run[s].cursor}]
           /\ UNCHANGED <<pc, run, outcome>>
  <2>1. stages' \in [Session -> SUBSET Nat]
    BY <1>0, <1>3 DEF Shape, TypeOK
  <2>2. Aware(s)'
    BY <1>3 DEF Shape, Aware, PlanKnown, JobKnown, CursorInRange, Targets
  <2> QED BY <1>3, <2>1, <2>2, ChangeShape DEF RollbackNext, Shape, TypeOK
<1>4. CASE Goto(s, "restore") /\ UNCHANGED <<run, outcome, stages>>
  <2>1. pc' \in [Session -> Label] /\ pc'[s] = "restore"
        /\ \A r \in Session \ {s} : pc'[r] = pc[r]
    BY <1>4 DEF Goto, Shape, TypeOK, Label
  <2>2. Aware(s)'
    BY <1>0, <1>4, <2>1
       DEF Aware, PlanKnown, JobKnown, CursorInRange, Preparing, Applying, Targets
  <2> QED BY <1>4, <2>1, <2>2, ChangeShape DEF RollbackNext, Shape, TypeOK
<1> QED BY <1>1, <1>2, <1>3, <1>4 DEF RollbackNext

LEMMA RestoreTargetShape ==
  ASSUME Shape, NEW s \in Session, RestoreTarget(s)
  PROVE  Shape'
<1> DEFINE tg == Current(s)
<1>0. /\ pc[s] = "restore" /\ run[s].cursor \in Nat /\ run[s].cursor >= 1
      /\ run[s].cursor <= Len(Targets(s)) /\ Len(Targets(s)) \in Nat
      /\ run[s].plan \in Intent /\ tg \in IntentTarget
  BY CurrentType, LenProperties
     DEF RestoreTarget, Shape, TypeOK, Run, Aware, PlanKnown, CursorInRange, Intent, Targets
<1>1. CASE Raise(s) /\ UNCHANGED <<files, run>>
  BY <1>1, RaiseShape DEF RestoreTarget, Shape, TypeOK
<1>2. CASE /\ files' = Mutated(tg, files, tg.pre)
           /\ run' = [run EXCEPT ![s].cursor = @ - 1]
           /\ Goto(s, "rollback")
           /\ UNCHANGED outcome
  <2>1. files' \in [Path -> Image]
    BY <1>0, <1>2, MutatedType DEF Shape, TypeOK
  <2>2. run' \in [Session -> Run] /\ run'[s].cursor = run[s].cursor - 1
        /\ run'[s].plan = run[s].plan
        /\ \A r \in Session \ {s} : run'[r] = run[r]
    <3>1. run[s].cursor - 1 \in Nat
      BY <1>0
    <3> QED BY <1>2, <3>1, CursorMoves
  <2>3. pc' \in [Session -> Label] /\ pc'[s] = "rollback"
        /\ \A r \in Session \ {s} : pc'[r] = pc[r]
    BY <1>2 DEF Goto, Shape, TypeOK, Label
  <2>4. Aware(s)'
    BY <1>0, <2>2, <2>3
       DEF Aware, PlanKnown, JobKnown, CursorInRange, Preparing, Applying, Targets
  <2> QED BY <1>2, <2>1, <2>2, <2>3, <2>4, ChangeShape DEF RestoreTarget, Shape, TypeOK
<1> QED BY <1>1, <1>2 DEF RestoreTarget

LEMMA ExtendLedgerShape ==
  ASSUME Shape, NEW s \in Session, ExtendLedger(s)
  PROVE  Shape'
<1>1. ledger' \in Seq(Event)
  <2>1. SealedEvent(s) \in Event
    BY SealedEventType DEF ExtendLedger
  <2>2. run[s].base \in Seq(Event)
    BY DEF Shape, TypeOK, Run
  <2> QED BY <2>1, <2>2, AppendProperties DEF ExtendLedger
<1>2. pc' \in [Session -> Label] /\ pc'[s] = "finalize"
      /\ \A r \in Session \ {s} : pc'[r] = pc[r]
  BY DEF ExtendLedger, Goto, Shape, TypeOK, Label
<1>3. TypeOK'
  BY <1>1, <1>2 DEF ExtendLedger, Shape, TypeOK
<1>4. Aware(s)'
  BY <1>2 DEF ExtendLedger, Shape, Aware, PlanKnown, JobKnown, CursorInRange,
              Preparing, Applying
<1> QED BY <1>2, <1>3, <1>4, FrameShape DEF ExtendLedger

LEMMA InspectRecoverShape ==
  ASSUME Shape, NEW s \in Session, InspectRecover(s)
  PROVE  Shape'
<1>1. CASE (End(s, "clean") \/ End(s, "pending")) /\ UNCHANGED run
  <2>1. PICK o \in {"clean", "pending"} : End(s, o)
    BY <1>1 DEF InspectRecover
  <2> QED BY <1>1, <2>1, EndShape DEF InspectRecover, disk, Shape, TypeOK
<1>2. CASE /\ Resolvable /\ ~Recorded(ledger, intent.txn)
           /\ run' = [run EXCEPT ![s] = [@ EXCEPT !.plan = intent, !.base = ledger,
                                            !.verdict = "rolled_back"]]
           /\ Goto(s, "rescan")
           /\ UNCHANGED outcome
  <2>1. intent \in Intent
    BY <1>2 DEF Resolvable, Whole, Shape, TypeOK
  <2>2. run' \in [Session -> Run] /\ run'[s].plan = intent
        /\ \A r \in Session \ {s} : run'[r] = run[r]
    <3>1. ledger \in Seq(Event)
      BY DEF Shape, TypeOK
    <3> QED BY <1>2, <2>1, <3>1, ResolutionMoves
  <2>3. pc' \in [Session -> Label] /\ pc'[s] = "rescan"
        /\ \A r \in Session \ {s} : pc'[r] = pc[r]
    BY <1>2 DEF Goto, Shape, TypeOK, Label
  <2>4. Aware(s)'
    BY <2>1, <2>2, <2>3 DEF Aware, PlanKnown, JobKnown, CursorInRange, Preparing, Applying
  <2> QED BY <1>2, <2>2, <2>3, <2>4, ChangeShape DEF InspectRecover, disk, Shape, TypeOK
<1>3. CASE /\ Resolvable /\ Recorded(ledger, intent.txn)
           /\ run' = [run EXCEPT ![s] =
                                 [@ EXCEPT !.plan = intent, !.verdict = EventOf(ledger, intent.txn).result]]
           /\ Goto(s, "finalize")
           /\ UNCHANGED outcome
  <2>1. intent \in Intent
    BY <1>3 DEF Resolvable, Whole, Shape, TypeOK
  <2>2. EventOf(ledger, intent.txn).result \in {"committed", "rolled_back"}
    <3>1. intent.txn \in Txn
      BY <2>1 DEF Intent
    <3>2. EventOf(ledger, intent.txn) \in Event
      BY <1>3, <3>1, EventOfType
    <3> QED BY <3>2 DEF Event
  <2>3. run' \in [Session -> Run] /\ run'[s].plan = intent
        /\ \A r \in Session \ {s} : run'[r] = run[r]
    <3>1. ledger \in Seq(Event)
      BY DEF Shape, TypeOK
    <3> QED BY <1>3, <2>1, <2>2, <3>1, ResolutionMoves
  <2>4. pc' \in [Session -> Label] /\ pc'[s] = "finalize"
        /\ \A r \in Session \ {s} : pc'[r] = pc[r]
    BY <1>3 DEF Goto, Shape, TypeOK, Label
  <2>5. Aware(s)'
    BY <2>1, <2>3, <2>4 DEF Aware, PlanKnown, JobKnown, CursorInRange, Preparing, Applying
  <2> QED BY <1>3, <2>3, <2>4, <2>5, ChangeShape DEF InspectRecover, disk, Shape, TypeOK
<1> QED BY <1>1, <1>2, <1>3 DEF InspectRecover

LEMMA ReleaseShape ==
  ASSUME Shape, NEW s \in Session, Release(s)
  PROVE  Shape'
<1>1. Idle \in Run
  BY DEF Idle, Run
<1>2. /\ lock' \in [owner : Session \cup {None}, stale : BOOLEAN]
      /\ pc' \in [Session -> Label] /\ pc'[s] = "idle"
      /\ run' \in [Session -> Run]
      /\ \A r \in Session \ {s} : pc'[r] = pc[r] /\ run'[r] = run[r]
  BY <1>1 DEF Release, Goto, Shape, TypeOK, Label
<1>3. TypeOK'
  BY <1>2 DEF Release, disk, Shape, TypeOK
<1>4. Aware(s)'
  BY <1>2 DEF Aware, PlanKnown, JobKnown, CursorInRange, Preparing, Applying
<1> QED BY <1>2, <1>3, <1>4, FrameShape

LEMMA StepShape ==
  ASSUME Shape, NEW s \in Session, Step(s)
  PROVE  Shape'
BY PlainStepShape, InspectApplyShape, PrepareAssetsShape, CompareShape, ScanApplyShape,
   ApplyNextShape, MutateTargetShape, ValidateShape, ScanRollbackShape,
   RollbackNextShape, RestoreTargetShape, ExtendLedgerShape, InspectRecoverShape,
   ReleaseShape
   DEF Step

LEMMA BeginShape ==
  ASSUME Shape, NEW s \in Session, NEW job \in Txn \cup {None}, Begin(s, job)
  PROVE  Shape'
<1> DEFINE new == [Idle EXCEPT !.job = job]
<1>1. new \in Run
  <2>1. new = [job |-> job, plan |-> None, base |-> <<>>, cursor |-> 0,
               verdict |-> "rolled_back"]
    BY DEF Idle
  <2>2. <<>> \in Seq(Event)
    BY EmptySeq
  <2>3. [job |-> job, plan |-> None, base |-> <<>>, cursor |-> 0,
         verdict |-> "rolled_back"] \in Run
    BY <2>2 DEF Run
  <2> QED BY <2>1, <2>3
<1>2. /\ lock' \in [owner : Session \cup {None}, stale : BOOLEAN]
      /\ pc' \in [Session -> Label] /\ pc'[s] = "inspect"
      /\ run' \in [Session -> Run]
      /\ \A r \in Session \ {s} : pc'[r] = pc[r] /\ run'[r] = run[r]
      /\ outcome' \in [Session -> {"none", "committed", "rolled_back", "refused",
                                   "clean", "pending", "error", "crashed"}]
  BY <1>1 DEF Begin, Goto, Shape, TypeOK, Label
<1>3. TypeOK'
  BY <1>2 DEF Begin, disk, Shape, TypeOK
<1>4. Aware(s)'
  BY <1>2 DEF Aware, PlanKnown, JobKnown, CursorInRange, Preparing, Applying
<1> QED BY <1>2, <1>3, <1>4, FrameShape

LEMMA SpendType ==
  ASSUME spent \in [DOMAIN Budget -> Nat],
         NEW b \in {"crashes", "failures", "edits", "stalls"}, Spend(b)
  PROVE  spent' \in [DOMAIN Budget -> Nat]
BY DEF Spend, Budget

LEMMA FailShape ==
  ASSUME Shape, NEW s \in Session, Fail(s)
  PROVE  Shape'
<1>1. /\ pc' \in [Session -> Label] /\ pc'[s] = "release"
      /\ \A r \in Session \ {s} : pc'[r] = pc[r]
      /\ outcome' \in [Session -> {"none", "committed", "rolled_back", "refused",
                                   "clean", "pending", "error", "crashed"}]
  BY DEF Fail, Raise, End, Goto, Shape, TypeOK, Label
<1>2. stages' \in [Session -> SUBSET Nat] /\ assets' \subseteq Session
  BY DEF Fail, Discard, Shape, TypeOK
<1>3. spent' \in [DOMAIN Budget -> Nat]
  BY SpendType DEF Fail, Shape, TypeOK
<1>4. TypeOK'
  BY <1>1, <1>2, <1>3 DEF Fail, Shape, TypeOK
<1>5. Aware(s)'
  BY <1>1 DEF Aware, PlanKnown, JobKnown, CursorInRange, Preparing, Applying
<1> QED BY <1>1, <1>4, <1>5, FrameShape DEF Fail

LEMMA CrashShape ==
  ASSUME Shape, NEW s \in Session, Crash(s)
  PROVE  Shape'
<1>1. Idle \in Run
  BY DEF Idle, Run
<1>2. /\ lock' \in [owner : Session \cup {None}, stale : BOOLEAN]
      /\ pc' \in [Session -> Label] /\ pc'[s] = "idle"
      /\ run' \in [Session -> Run]
      /\ \A r \in Session \ {s} : pc'[r] = pc[r] /\ run'[r] = run[r]
      /\ outcome' \in [Session -> {"none", "committed", "rolled_back", "refused",
                                   "clean", "pending", "error", "crashed"}]
  BY <1>1 DEF Crash, Goto, Shape, TypeOK, Label
<1>3. spent' \in [DOMAIN Budget -> Nat]
  BY SpendType DEF Crash, Shape, TypeOK
<1>4. TypeOK'
  BY <1>2, <1>3 DEF Crash, disk, Shape, TypeOK
<1>5. Aware(s)'
  BY <1>2 DEF Aware, PlanKnown, JobKnown, CursorInRange, Preparing, Applying
<1> QED BY <1>2, <1>4, <1>5, FrameShape

(* What happens around the sessions does not touch what they know. *)
LEMMA AroundShape ==
  ASSUME Shape, TypeOK', UNCHANGED <<pc, run>>
  PROVE  Shape'
BY DEF Shape, Aware, PlanKnown, JobKnown, CursorInRange, Targets

LEMMA StallShape ==
  ASSUME Shape, NEW s \in Session, Stall(s) \/ Heartbeat(s)
  PROVE  Shape'
<1>1. lock' \in [owner : Session \cup {None}, stale : BOOLEAN]
  BY DEF Stall, Heartbeat, Shape, TypeOK
<1>2. spent' \in [DOMAIN Budget -> Nat]
  BY SpendType DEF Stall, Heartbeat, Shape, TypeOK
<1>3. UNCHANGED <<files, ledger, intent, stages, assets, proposal, pc, run, outcome>>
  BY DEF Stall, Heartbeat, disk
<1>4. TypeOK'
  BY <1>1, <1>2, <1>3 DEF Shape, TypeOK
<1> QED BY <1>3, <1>4, AroundShape

LEMMA EditShape ==
  ASSUME Shape, NEW p \in Path, NEW c \in Image, Edit(p, c)
  PROVE  Shape'
<1>1. spent' \in [DOMAIN Budget -> Nat]
  BY SpendType DEF Edit, Shape, TypeOK
<1>2. TypeOK'
  BY <1>1 DEF Edit, Shape, TypeOK
<1> QED BY <1>2, AroundShape DEF Edit

LEMMA DraftedProposal ==
  ASSUME Shape, NEW t \in Txn, Draft(t)
  PROVE  /\ proposal'[t] \in Proposal /\ proposal'[t].base = ledger
         /\ \A u \in Txn \ {t} : proposal'[u] = proposal[u]
<1> DEFINE targets == [i \in DOMAIN Ops[t] |-> Snapshot(Ops[t][i], files)]
<1>1. Ops[t] \in Seq(Op) /\ Len(Ops[t]) \in Nat /\ DOMAIN Ops[t] = 1..Len(Ops[t])
      /\ \A i \in DOMAIN Ops[t] : Ops[t][i] \in Op
  BY OpsAssumption, LenProperties, ElementOfSeq
<1>2. \A i \in DOMAIN Ops[t] : Snapshot(Ops[t][i], files) \in IntentTarget
  BY <1>1, SnapshotType DEF Draft, Shape, TypeOK
<1>3. targets \in Seq(IntentTarget)
  <2>1. targets \in [1..Len(Ops[t]) -> IntentTarget]
    BY <1>1, <1>2
  <2> QED BY <1>1, <2>1, FunctionIsSeq
<1>4. [base |-> ledger, targets |-> targets] \in Proposal
  BY <1>3 DEF Proposal, Shape, TypeOK
<1>5. /\ proposal \in [Txn -> Proposal \cup {None}]
      /\ proposal' = [proposal EXCEPT ![t] = [base |-> ledger, targets |-> targets]]
  BY DEF Draft, Shape, TypeOK
<1> HIDE DEF targets
<1> QED BY <1>4, <1>5

LEMMA DraftShape ==
  ASSUME Shape, NEW t \in Txn, Draft(t)
  PROVE  Shape'
<1>1. proposal' \in [Txn -> Proposal \cup {None}]
  BY DraftedProposal DEF Draft, Shape, TypeOK
<1>2. TypeOK'
  BY <1>1 DEF Draft, disk, Shape, TypeOK
<1> QED BY <1>2, AroundShape DEF Draft

LEMMA NextShape == Shape /\ [Next]_vars => Shape'
<1> SUFFICES ASSUME Shape, [Next]_vars PROVE Shape'
  OBVIOUS
<1>1. CASE UNCHANGED vars
  BY <1>1 DEF vars, Shape, TypeOK, Aware, PlanKnown, JobKnown, CursorInRange, Targets
<1>2. CASE Next
  BY <1>2, DraftShape, BeginShape, StepShape, FailShape, CrashShape, StallShape, EditShape
     DEF Next, BeginApply, BeginRecover
<1> QED BY <1>1, <1>2

(* Every reachable state is well-typed: whatever crashes, fails, sleeps or  *)
(* is edited, what the engine finds on disk and remembers keeps its shape.  *)
THEOREM TypeCorrect == Spec => []TypeOK
<1>1. Spec => []Shape
  BY InitShape, NextShape, PTL DEF Spec
<1>2. Shape => TypeOK
  BY DEF Shape
<1> QED BY <1>1, <1>2, PTL
-----------------------------------------------------------------------------
(***************************************************************************)
(* The ledger.  A run appends to the ledger it verified when it began, so  *)
(* the invariant has to speak of what every run remembers, not only of the *)
(* file: a session that lost its lease still holds an old base.            *)
(***************************************************************************)
Ended == {"idle", "release"}

(* What a run may append to is a ledger that verifies and lacks its event.  *)
SoundBase(s) ==
  /\ Verified(run[s].base)
  /\ pc[s] = "extend" => ~Recorded(run[s].base, run[s].plan.txn)

(* Committed events follow the base of their proposal. *)
Honest(events) ==
  \A k \in DOMAIN events :
    events[k].result = "committed" =>
      /\ proposal[events[k].txn] # None
      /\ proposal[events[k].txn].base = SubSeq(events, 1, k - 1)

(* A run that applies works on its proposal's base, towards its event; one  *)
(* that recovers has no commit to append.                                  *)
OwnProposal(s) ==
  /\ Honest(run[s].base)
  /\ pc[s] \notin Ended /\ run[s].job # None => proposal[run[s].job] # None
  /\ pc[s] \notin Ended \cup {"inspect"} /\ run[s].job # None =>
       run[s].base = proposal[run[s].job].base
  /\ pc[s] \notin Ended \cup {"inspect", "prepare"} /\ run[s].job # None =>
       run[s].plan.txn = run[s].job
  /\ pc[s] \notin Ended \cup {"finalize", "remove"} /\ run[s].verdict = "committed" =>
       run[s].job # None

Bearings(s) == SoundBase(s) /\ OwnProposal(s)

Attributed ==
  /\ Shape
  /\ Verified(ledger) /\ Honest(ledger)
  /\ \A s \in Session : Bearings(s)
-----------------------------------------------------------------------------
LEMMA VerifiedAppend ==
  ASSUME NEW events \in Seq(Event), NEW e \in Event,
         Verified(events), ~Recorded(events, e.txn), e.base = Len(events)
  PROVE  Verified(Append(events, e))
<1> DEFINE new == Append(events, e)
<1>1. /\ Len(events) \in Nat /\ DOMAIN events = 1..Len(events)
      /\ DOMAIN new = 1..(Len(events) + 1)
      /\ \A k \in 1..Len(events) : new[k] = events[k]
      /\ new[Len(events) + 1] = e
  BY AppendProperties, LenProperties
<1>2. \A k \in 1..Len(events) : events[k].txn # e.txn
  BY <1>1 DEF Recorded, EventsOf
<1> HIDE DEF new
<1>3. \A j, k \in DOMAIN new : new[j].txn = new[k].txn => j = k
  BY <1>1, <1>2 DEF Verified
<1>4. \A k \in DOMAIN new : new[k].base = k - 1
  BY <1>1 DEF Verified
<1> QED BY <1>3, <1>4 DEF Verified, new

LEMMA HonestAppend ==
  ASSUME NEW events \in Seq(Event), NEW e \in Event, Honest(events),
         e.result = "committed" => /\ proposal[e.txn] # None
                                   /\ proposal[e.txn].base = events
  PROVE  Honest(Append(events, e))
<1> DEFINE new == Append(events, e)
<1>1. /\ Len(events) \in Nat /\ DOMAIN events = 1..Len(events)
      /\ DOMAIN new = 1..(Len(events) + 1)
      /\ \A k \in 1..Len(events) : new[k] = events[k]
      /\ new[Len(events) + 1] = e
      /\ new \in Seq(Event)
  BY AppendProperties, LenProperties
<1>2. ASSUME NEW k \in 0..Len(events)
      PROVE  SubSeq(new, 1, k) = SubSeq(events, 1, k)
  BY <1>1
<1>3. SubSeq(events, 1, Len(events)) = events
  BY SubSeqFull
<1> HIDE DEF new
<1>4. ASSUME NEW k \in DOMAIN new, new[k].result = "committed"
      PROVE  /\ proposal[new[k].txn] # None
             /\ proposal[new[k].txn].base = SubSeq(new, 1, k - 1)
  <2>1. CASE k = Len(events) + 1
    BY <1>1, <1>2, <1>3, <1>4, <2>1
  <2>2. CASE k \in 1..Len(events)
    BY <1>1, <1>2, <1>4, <2>2 DEF Honest
  <2> QED BY <1>1, <2>1, <2>2
<1> QED BY <1>4 DEF Honest, new

(* The steps between inspection and append keep a run's bearings, and only  *)
(* the check of the commit point leads to the append.                      *)
LEMMA SteadyStep ==
  ASSUME Shape, NEW s \in Session,
         \/ FencePublish(s) \/ CreateIntent(s) \/ FillIntent(s) \/ Compare(s)
         \/ ScanApply(s) \/ ApplyNext(s) \/ MutateTarget(s) \/ ApplyDone(s)
         \/ Validate(s) \/ ScanRollback(s) \/ RollbackNext(s) \/ RestoreTarget(s)
         \/ RollbackDone(s) \/ CheckAppend(s) \/ CheckFinalize(s) \/ RemoveIntent(s)
  PROVE  /\ UNCHANGED <<ledger, proposal>>
         /\ \A r \in Session \ {s} : pc'[r] = pc[r] /\ run'[r] = run[r]
         /\ run'[s].job = run[s].job /\ run'[s].plan = run[s].plan
         /\ run'[s].base = run[s].base
         /\ pc[s] \notin Ended \cup {"inspect", "prepare"}
         /\ pc'[s] = "extend" => MayAppend(s)
         /\ /\ pc'[s] \notin Ended \cup {"finalize", "remove"}
            /\ run'[s].verdict = "committed"
            => \/ run[s].job # None
               \/ /\ pc[s] \notin {"finalize", "remove"}
                  /\ run[s].verdict = "committed"
<1>1. CASE \/ FencePublish(s) \/ CreateIntent(s) \/ FillIntent(s)
           \/ ApplyDone(s) \/ RollbackDone(s) \/ CheckAppend(s)
           \/ CheckFinalize(s) \/ RemoveIntent(s)
  <2>1. UNCHANGED <<ledger, proposal, run>>
    BY <1>1 DEF FencePublish, CreateIntent, FillIntent, ApplyDone, RollbackDone,
                CheckAppend, CheckFinalize, RemoveIntent, disk
  <2>2. PICK l \in Label \ {"idle", "inspect", "prepare"} :
          /\ Goto(s, l)
          /\ l = "extend" => MayAppend(s)
          /\ pc[s] \notin Ended \cup {"inspect", "prepare"}
          /\ pc[s] \in {"finalize", "remove"} => l \in {"remove", "release"}
    BY <1>1 DEF FencePublish, CreateIntent, FillIntent, ApplyDone, RollbackDone,
                CheckAppend, CheckFinalize, RemoveIntent, Raise, End, Label, Ended
  <2>3. pc' = [pc EXCEPT ![s] = l] /\ pc \in [Session -> Label]
    BY <2>2 DEF Goto, Shape, TypeOK
  <2> QED BY <2>1, <2>2, <2>3 DEF Ended
<1>2. CASE ScanApply(s) \/ ApplyNext(s) \/ MutateTarget(s)
           \/ ScanRollback(s) \/ RollbackNext(s) \/ RestoreTarget(s)
  <2>1. UNCHANGED <<ledger, proposal>>
    BY <1>2 DEF ScanApply, ApplyNext, MutateTarget, ScanRollback, RollbackNext,
                RestoreTarget, disk
  <2>2. run' = run \/ \E n : run' = [run EXCEPT ![s].cursor = n]
    BY <1>2 DEF ScanApply, ApplyNext, MutateTarget, ScanRollback, RollbackNext,
                RestoreTarget
  <2>3. /\ \A r \in Session \ {s} : run'[r] = run[r]
        /\ run'[s].job = run[s].job /\ run'[s].plan = run[s].plan
        /\ run'[s].base = run[s].base /\ run'[s].verdict = run[s].verdict
    BY <2>2 DEF Shape, TypeOK, Run
  <2>4. pc' = pc \/ \E l \in {"apply", "mutate", "rollback", "restore", "release"} : Goto(s, l)
    <3>1. Raise(s) => Goto(s, "release")
      BY DEF Raise, End
    <3> QED BY <1>2, <3>1 DEF ScanApply, ApplyNext, MutateTarget, ScanRollback,
                              RollbackNext, RestoreTarget
  <2>5. pc[s] \in {"scan", "apply", "mutate", "rescan", "rollback", "restore"}
    BY <1>2 DEF ScanApply, ApplyNext, MutateTarget, ScanRollback, RollbackNext,
                RestoreTarget
  <2>6. /\ pc'[s] \in {pc[s], "apply", "mutate", "rollback", "restore", "release"}
        /\ \A r \in Session \ {s} : pc'[r] = pc[r]
    BY <2>4 DEF Goto, Shape, TypeOK
  <2> QED BY <2>1, <2>3, <2>4, <2>5, <2>6 DEF Ended
<1>3. CASE Compare(s) \/ Validate(s)
  <2>1. UNCHANGED <<ledger, proposal>> /\ pc[s] \in {"prepared", "validate"}
    BY <1>3 DEF Compare, Validate, disk
  <2>2. /\ \A r \in Session \ {s} : run'[r] = run[r]
        /\ run'[s].job = run[s].job /\ run'[s].plan = run[s].plan
        /\ run'[s].base = run[s].base
    <3>1. CASE UNCHANGED run
      BY <3>1
    <3>2. CASE \E v \in {"committed", "rolled_back"} : run' = [run EXCEPT ![s].verdict = v]
      BY <3>2, VerdictMoves
    <3> QED BY <1>3, <3>1, <3>2 DEF Compare, Validate
  <2>3. /\ pc'[s] \in {"scan", "append", "rescan"}
        /\ \A r \in Session \ {s} : pc'[r] = pc[r]
    BY <1>3 DEF Compare, Validate, Goto, Shape, TypeOK
  <2>4. run[s].job # None
    BY <2>1 DEF Shape, Aware, JobKnown, Preparing, Applying
  <2> QED BY <2>1, <2>2, <2>3, <2>4 DEF Ended
<1> QED BY <1>1, <1>2, <1>3

LEMMA FrameAttributed ==
  ASSUME Attributed, Shape', NEW s \in Session, UNCHANGED proposal,
         \A r \in Session \ {s} : pc'[r] = pc[r] /\ run'[r] = run[r],
         Verified(ledger)', Honest(ledger)', Bearings(s)'
  PROVE  Attributed'
<1>1. ASSUME NEW r \in Session \ {s} PROVE Bearings(r)'
  BY DEF Attributed, Bearings, SoundBase, OwnProposal, Honest
<1> QED BY <1>1 DEF Attributed

LEMMA InitAttributed == Init => Attributed
<1> SUFFICES ASSUME Init PROVE Attributed
  OBVIOUS
<1>1. Verified(<<>>) /\ Honest(<<>>)
  BY DEF Verified, Honest
<1>2. ASSUME NEW s \in Session PROVE Bearings(s)
  BY <1>1 DEF Init, Idle, Bearings, SoundBase, OwnProposal, Ended
<1> QED BY <1>1, <1>2, InitShape DEF Init, Attributed

LEMMA SteadyAttributed ==
  ASSUME Attributed, Shape', NEW s \in Session,
         \/ FencePublish(s) \/ CreateIntent(s) \/ FillIntent(s) \/ Compare(s)
         \/ ScanApply(s) \/ ApplyNext(s) \/ MutateTarget(s) \/ ApplyDone(s)
         \/ Validate(s) \/ ScanRollback(s) \/ RollbackNext(s) \/ RestoreTarget(s)
         \/ RollbackDone(s) \/ CheckAppend(s) \/ CheckFinalize(s) \/ RemoveIntent(s)
  PROVE  Attributed'
<1>0. Shape /\ Bearings(s)
  BY DEF Attributed
<1>1. /\ UNCHANGED <<ledger, proposal>>
      /\ \A r \in Session \ {s} : pc'[r] = pc[r] /\ run'[r] = run[r]
      /\ run'[s].job = run[s].job /\ run'[s].plan = run[s].plan
      /\ run'[s].base = run[s].base
      /\ pc[s] \notin Ended \cup {"inspect", "prepare"}
      /\ pc'[s] = "extend" => MayAppend(s)
      /\ /\ pc'[s] \notin Ended \cup {"finalize", "remove"}
         /\ run'[s].verdict = "committed"
         => \/ run[s].job # None
            \/ /\ pc[s] \notin {"finalize", "remove"}
               /\ run[s].verdict = "committed"
  BY <1>0, SteadyStep
<1>2. MayAppend(s) => ~Recorded(run[s].base, run[s].plan.txn)
  BY DEF MayAppend, Appendable
<1>3. Honest(ledger)' /\ Verified(ledger)' /\ Honest(run[s].base)'
  BY <1>0, <1>1 DEF Attributed, Bearings, OwnProposal, Honest
<1>4. SoundBase(s)'
  BY <1>0, <1>1, <1>2 DEF Bearings, SoundBase
<1>5. OwnProposal(s)'
  BY <1>0, <1>1, <1>3 DEF Bearings, OwnProposal, Ended
<1> QED BY <1>1, <1>3, <1>4, <1>5, FrameAttributed DEF Bearings

(* A run that has ended, or has just begun, remembers nothing to append. *)
LEMMA FreshBearings ==
  ASSUME NEW s \in Session, NEW job \in Txn \cup {None},
         run'[s] = [Idle EXCEPT !.job = job] \/ run'[s] = Idle,
         pc'[s] \in Ended \cup {"inspect"},
         pc'[s] = "inspect" /\ run'[s].job # None => proposal'[run'[s].job] # None
  PROVE  Bearings(s)'
<1>1. run'[s].base = <<>> /\ run'[s].verdict = "rolled_back"
  BY DEF Idle
<1>2. Verified(run'[s].base) /\ Honest(run[s].base)'
  BY <1>1 DEF Verified, Honest
<1>3. pc'[s] # "extend"
  BY DEF Ended
<1> QED BY <1>1, <1>2, <1>3 DEF Bearings, SoundBase, OwnProposal, Ended

LEMMA InspectApplyAttributed ==
  ASSUME Attributed, Shape', NEW s \in Session, InspectApply(s)
  PROVE  Attributed'
<1>0. Shape /\ Bearings(s) /\ Honest(ledger) /\ Verified(ledger)
  BY DEF Attributed
<1>1. UNCHANGED <<ledger, proposal>> /\ pc[s] = "inspect" /\ run[s].job # None
  BY DEF InspectApply, disk
<1>2. Honest(ledger)' /\ Verified(ledger)'
  BY <1>0, <1>1 DEF Honest
<1>3. CASE End(s, "refused") /\ UNCHANGED run
  <2>1. pc'[s] = "release" /\ \A r \in Session \ {s} : pc'[r] = pc[r]
    BY <1>0, <1>3 DEF End, Goto, Shape, TypeOK
  <2>2. Honest(run[s].base)'
    BY <1>0, <1>1, <1>3 DEF Bearings, OwnProposal, Honest
  <2>3. Bearings(s)'
    BY <1>0, <1>3, <2>1, <2>2 DEF Bearings, SoundBase, OwnProposal, Ended
  <2> QED BY <1>1, <1>2, <1>3, <2>1, <2>3, FrameAttributed
<1>4. CASE /\ Acceptable(run[s].job)
           /\ run' = [run EXCEPT ![s].base = ledger]
           /\ Goto(s, "prepare")
  <2>1. /\ run'[s].base = ledger /\ run'[s].job = run[s].job
        /\ \A r \in Session \ {s} : run'[r] = run[r]
    BY <1>0, <1>4 DEF Shape, TypeOK, Run
  <2>2. pc'[s] = "prepare" /\ \A r \in Session \ {s} : pc'[r] = pc[r]
    BY <1>0, <1>4 DEF Goto, Shape, TypeOK
  <2>3. proposal[run[s].job] # None /\ proposal[run[s].job].base = ledger
    BY <1>0, <1>1, <1>4 DEF Acceptable, Bearings, OwnProposal, Ended
  <2>4. SoundBase(s)'
    BY <1>0, <1>1, <2>1, <2>2 DEF SoundBase
  <2>5. Honest(run[s].base)'
    BY <1>0, <1>1, <2>1 DEF Honest
  <2>6. OwnProposal(s)'
    BY <1>1, <2>1, <2>2, <2>3, <2>5 DEF OwnProposal, Ended
  <2> QED BY <1>1, <1>2, <2>1, <2>2, <2>4, <2>6, FrameAttributed DEF Bearings
<1> QED BY <1>3, <1>4 DEF InspectApply

LEMMA PrepareAssetsAttributed ==
  ASSUME Attributed, Shape', NEW s \in Session, PrepareAssets(s)
  PROVE  Attributed'
<1>0. Shape /\ Bearings(s) /\ Honest(ledger) /\ Verified(ledger)
  BY DEF Attributed
<1>1. UNCHANGED <<ledger, proposal>> /\ pc[s] = "prepare" /\ run[s].job # None
  BY <1>0 DEF PrepareAssets, Shape, Aware, JobKnown, Preparing
<1>2. Honest(ledger)' /\ Verified(ledger)'
  BY <1>0, <1>1 DEF Honest
<1>3. /\ pc'[s] \in {"release", "publish"}
      /\ \A r \in Session \ {s} : pc'[r] = pc[r]
  BY <1>0 DEF PrepareAssets, Raise, End, Goto, Shape, TypeOK
<1>4. /\ run'[s].job = run[s].job /\ run'[s].base = run[s].base
      /\ pc'[s] = "publish" => run'[s].plan.txn = run[s].job
      /\ \A r \in Session \ {s} : run'[r] = run[r]
  <2> DEFINE t == run[s].job
             targets == [i \in DOMAIN Ops[t] |-> Snapshot(Ops[t][i], files)]
             plan == [txn |-> t, owner |-> s, targets |-> targets]
  <2>1. plan.txn = run[s].job
    OBVIOUS
  <2>2. \/ UNCHANGED run /\ Raise(s)
        \/ run' = [run EXCEPT ![s].plan = plan]
    BY DEF PrepareAssets
  <2>3. Raise(s) => pc'[s] = "release"
    BY <1>0 DEF Raise, End, Goto, Shape, TypeOK
  <2> HIDE DEF plan
  <2> QED BY <1>0, <2>1, <2>2, <2>3 DEF Shape, TypeOK, Run
<1>5. Honest(run[s].base)'
  BY <1>0, <1>1, <1>4 DEF Bearings, OwnProposal, Honest
<1>6. SoundBase(s)'
  BY <1>0, <1>3, <1>4 DEF Bearings, SoundBase
<1>7. OwnProposal(s)'
  BY <1>0, <1>1, <1>3, <1>4, <1>5 DEF Bearings, OwnProposal, Ended
<1> QED BY <1>1, <1>2, <1>3, <1>4, <1>6, <1>7, FrameAttributed DEF Bearings

(* The commit point: the base it extends verifies and lacks the event, and  *)
(* a commit extends its proposal's own base, even if the file has changed   *)
(* since it was checked.                                                    *)
LEMMA ExtendLedgerAttributed ==
  ASSUME Attributed, Shape', NEW s \in Session, ExtendLedger(s)
  PROVE  Attributed'
<1> DEFINE e == SealedEvent(s)
           base == run[s].base
<1>0. Shape /\ Bearings(s) /\ pc[s] = "extend"
  BY DEF Attributed, ExtendLedger
<1>1. e \in Event /\ base \in Seq(Event)
  BY <1>0, SealedEventType DEF Shape, TypeOK, Run
<1>2. /\ e.txn = run[s].plan.txn /\ e.base = Len(base)
      /\ e.result = run[s].verdict
  BY DEF SealedEvent
<1>3. ledger' = Append(base, e) /\ UNCHANGED <<proposal, run>>
  BY DEF ExtendLedger
<1>4. pc'[s] = "finalize" /\ \A r \in Session \ {s} : pc'[r] = pc[r]
  BY <1>0 DEF ExtendLedger, Goto, Shape, TypeOK
<1>5. Verified(ledger)'
  <2>1. Verified(base) /\ ~Recorded(base, e.txn)
    BY <1>0, <1>2 DEF Bearings, SoundBase
  <2> HIDE DEF e, base
  <2> QED BY <1>1, <1>2, <1>3, <2>1, VerifiedAppend
<1>6. Honest(ledger)'
  <2>1. Honest(base)
    BY <1>0 DEF Bearings, OwnProposal
  <2>2. e.result = "committed" => proposal[e.txn] # None /\ proposal[e.txn].base = base
    BY <1>0, <1>2 DEF Bearings, OwnProposal, Ended
  <2> HIDE DEF e, base
  <2>3. Honest(Append(base, e))
    BY <1>1, <2>1, <2>2, HonestAppend
  <2> QED BY <1>3, <2>3 DEF Honest
<1>7. Honest(run[s].base)'
  BY <1>0, <1>3 DEF Bearings, OwnProposal, Honest
<1>8. Bearings(s)'
  BY <1>0, <1>3, <1>4, <1>7 DEF Bearings, SoundBase, OwnProposal, Ended
<1> QED BY <1>3, <1>4, <1>5, <1>6, <1>8, FrameAttributed

LEMMA InspectRecoverAttributed ==
  ASSUME Attributed, Shape', NEW s \in Session, InspectRecover(s)
  PROVE  Attributed'
<1>0. Shape /\ Bearings(s) /\ Honest(ledger) /\ Verified(ledger)
  BY DEF Attributed
<1>1. UNCHANGED <<ledger, proposal>> /\ pc[s] = "inspect" /\ run[s].job = None
  BY DEF InspectRecover, disk
<1>2. Honest(ledger)' /\ Verified(ledger)'
  BY <1>0, <1>1 DEF Honest
<1>3. /\ pc'[s] \in {"release", "rescan", "finalize"}
      /\ \A r \in Session \ {s} : pc'[r] = pc[r]
  BY <1>0 DEF InspectRecover, End, Goto, Shape, TypeOK
<1>4. /\ run'[s].job = None
      /\ run'[s].base \in {run[s].base, ledger}
      /\ pc'[s] = "rescan" => run'[s].verdict = "rolled_back"
      /\ \A r \in Session \ {s} : run'[r] = run[r]
  <2>1. CASE UNCHANGED run /\ Goto(s, "release")
    BY <1>0, <1>1, <2>1 DEF Goto, Shape, TypeOK
  <2>2. CASE run' = [run EXCEPT ![s] = [@ EXCEPT !.plan = intent, !.base = ledger,
                                          !.verdict = "rolled_back"]]
    <3> DEFINE new == [run[s] EXCEPT !.plan = intent, !.base = ledger,
                                     !.verdict = "rolled_back"]
    <3>1. new.job = None /\ new.base = ledger /\ new.verdict = "rolled_back"
      BY <1>0, <1>1 DEF Shape, TypeOK, Run
    <3>2. run' = [run EXCEPT ![s] = new]
      BY <1>0, <2>2 DEF Shape, TypeOK
    <3> QED BY <1>0, <3>1, <3>2 DEF Shape, TypeOK
  <2>3. CASE /\ run' = [run EXCEPT ![s] =
                                   [@ EXCEPT !.plan = intent, !.verdict = EventOf(ledger, intent.txn).result]]
             /\ Goto(s, "finalize")
    <3> DEFINE new == [run[s] EXCEPT !.plan = intent,
                                     !.verdict = EventOf(ledger, intent.txn).result]
    <3>1. new.job = None /\ new.base = run[s].base
      BY <1>0, <1>1 DEF Shape, TypeOK, Run
    <3>2. run' = [run EXCEPT ![s] = new] /\ pc'[s] = "finalize"
      BY <1>0, <2>3 DEF Goto, Shape, TypeOK
    <3> QED BY <1>0, <3>1, <3>2 DEF Shape, TypeOK
  <2> QED BY <2>1, <2>2, <2>3 DEF InspectRecover, End
<1>5. Verified(run[s].base)' /\ Honest(run[s].base)'
  BY <1>0, <1>1, <1>4 DEF Bearings, SoundBase, OwnProposal, Honest
<1>6. Bearings(s)'
  BY <1>3, <1>4, <1>5 DEF Bearings, SoundBase, OwnProposal, Ended
<1> QED BY <1>1, <1>2, <1>3, <1>4, <1>6, FrameAttributed

LEMMA ReleaseAttributed ==
  ASSUME Attributed, Shape', NEW s \in Session, Release(s) \/ Crash(s)
  PROVE  Attributed'
<1>0. Shape /\ Honest(ledger) /\ Verified(ledger)
  BY DEF Attributed
<1>1. UNCHANGED <<ledger, proposal>>
  BY DEF Release, Crash, disk
<1>2. Honest(ledger)' /\ Verified(ledger)'
  BY <1>0, <1>1 DEF Honest
<1>3. /\ pc'[s] = "idle" /\ run'[s] = Idle
      /\ \A r \in Session \ {s} : pc'[r] = pc[r] /\ run'[r] = run[r]
  BY <1>0 DEF Release, Crash, Goto, Shape, TypeOK
<1>4. Bearings(s)'
  BY <1>3, FreshBearings DEF Ended
<1> QED BY <1>1, <1>2, <1>3, <1>4, FrameAttributed

LEMMA BeginAttributed ==
  ASSUME Attributed, Shape', NEW s \in Session, NEW job \in Txn \cup {None},
         Begin(s, job), job # None => proposal[job] # None
  PROVE  Attributed'
<1> DEFINE new == [Idle EXCEPT !.job = job]
<1>0. Shape /\ Honest(ledger) /\ Verified(ledger)
  BY DEF Attributed
<1>1. UNCHANGED <<ledger, proposal>>
  BY DEF Begin, disk
<1>2. Honest(ledger)' /\ Verified(ledger)'
  BY <1>0, <1>1 DEF Honest
<1>3. /\ pc'[s] = "inspect" /\ run'[s] = new
      /\ \A r \in Session \ {s} : pc'[r] = pc[r] /\ run'[r] = run[r]
  BY <1>0 DEF Begin, Goto, Shape, TypeOK
<1>4. new.job = job
  BY DEF Idle
<1>5. Bearings(s)'
  BY <1>1, <1>3, <1>4, FreshBearings DEF Ended
<1> QED BY <1>1, <1>2, <1>3, <1>5, FrameAttributed

LEMMA FailAttributed ==
  ASSUME Attributed, Shape', NEW s \in Session, Fail(s)
  PROVE  Attributed'
<1>0. Shape /\ Bearings(s) /\ Honest(ledger) /\ Verified(ledger)
  BY DEF Attributed
<1>1. UNCHANGED <<ledger, proposal, run>>
  BY DEF Fail
<1>2. Honest(ledger)' /\ Verified(ledger)' /\ Honest(run[s].base)'
  BY <1>0, <1>1 DEF Bearings, OwnProposal, Honest
<1>3. pc'[s] = "release" /\ \A r \in Session \ {s} : pc'[r] = pc[r]
  BY <1>0 DEF Fail, Raise, End, Goto, Shape, TypeOK
<1>4. Bearings(s)'
  BY <1>0, <1>1, <1>2, <1>3 DEF Bearings, SoundBase, OwnProposal, Ended
<1> QED BY <1>1, <1>2, <1>3, <1>4, FrameAttributed

(* A proposal is drafted once, so what older events say of it stands. *)
LEMMA DraftAttributed ==
  ASSUME Attributed, Shape', NEW t \in Txn, Draft(t)
  PROVE  Attributed'
<1>1. UNCHANGED <<ledger, pc, run>> /\ proposal[t] = None
  BY DEF Draft, disk
<1>2. \A u \in Txn \ {t} : proposal'[u] = proposal[u]
  BY DEF Draft, Attributed, Shape, TypeOK
<1>3. \A u \in Txn : proposal[u] # None => proposal'[u] = proposal[u]
  BY <1>1, <1>2
<1>4. ASSUME NEW events \in Seq(Event), Honest(events)
      PROVE  \A k \in DOMAIN events :
               events[k].result = "committed" =>
                 /\ proposal'[events[k].txn] # None
                 /\ proposal'[events[k].txn].base = SubSeq(events, 1, k - 1)
  <2>1. ASSUME NEW k \in DOMAIN events PROVE events[k].txn \in Txn
    <3>1. events[k] \in Event
      BY LenProperties
    <3> QED BY <3>1 DEF Event
  <2> QED BY <1>3, <1>4, <2>1 DEF Honest
<1>5. Honest(ledger)'
  BY <1>1, <1>4 DEF Attributed, Shape, TypeOK, Honest
<1>6. ASSUME NEW s \in Session PROVE Bearings(s)'
  <2>1. Bearings(s) /\ run[s].base \in Seq(Event) /\ run[s].job \in Txn \cup {None}
    BY DEF Attributed, Shape, TypeOK, Run
  <2>2. Honest(run[s].base)'
    BY <1>1, <1>4, <2>1 DEF Bearings, OwnProposal, Honest
  <2>3. SoundBase(s)'
    BY <1>1, <2>1 DEF Bearings, SoundBase
  <2>4. OwnProposal(s)'
    BY <1>1, <1>3, <2>1, <2>2 DEF Bearings, OwnProposal, Ended
  <2> QED BY <2>3, <2>4 DEF Bearings
<1> QED BY <1>1, <1>5, <1>6 DEF Attributed

LEMMA AroundAttributed ==
  ASSUME Attributed, Shape', UNCHANGED <<ledger, proposal, pc, run>>
  PROVE  Attributed'
BY DEF Attributed, Bearings, SoundBase, OwnProposal, Honest

LEMMA NextAttributed == Attributed /\ [Next]_vars => Attributed'
<1> SUFFICES ASSUME Attributed, [Next]_vars PROVE Attributed'
  OBVIOUS
<1>0. Shape'
  BY NextShape DEF Attributed
<1>1. CASE UNCHANGED vars
  BY <1>0, <1>1, AroundAttributed DEF vars
<1>2. ASSUME NEW s \in Session, Step(s) PROVE Attributed'
  BY <1>0, <1>2, SteadyAttributed, InspectApplyAttributed, PrepareAssetsAttributed,
     ExtendLedgerAttributed, InspectRecoverAttributed, ReleaseAttributed
     DEF Step
<1>3. ASSUME NEW s \in Session, NEW t \in Txn, BeginApply(s, t) PROVE Attributed'
  BY <1>0, <1>3, BeginAttributed DEF BeginApply
<1>4. ASSUME NEW s \in Session, BeginRecover(s) PROVE Attributed'
  BY <1>0, <1>4, BeginAttributed DEF BeginRecover
<1>5. ASSUME NEW s \in Session, Stall(s) \/ Heartbeat(s) PROVE Attributed'
  BY <1>0, <1>5, AroundAttributed DEF Stall, Heartbeat, disk
<1>6. ASSUME NEW p \in Path, NEW c \in Image, Edit(p, c) PROVE Attributed'
  BY <1>0, <1>6, AroundAttributed DEF Edit
<1>7. ASSUME NEW s \in Session, Fail(s) \/ Crash(s) PROVE Attributed'
  BY <1>0, <1>7, FailAttributed, ReleaseAttributed
<1>8. ASSUME NEW t \in Txn, Draft(t) PROVE Attributed'
  BY <1>0, <1>8, DraftAttributed
<1> QED BY <1>1, <1>2, <1>3, <1>4, <1>5, <1>6, <1>7, <1>8 DEF Next

LEMMA AttributedHolds == Spec => []Attributed
BY InitAttributed, NextAttributed, PTL DEF Spec

(* The ledger verifies in every reachable state: no proposal has two events *)
(* and no link of the chain is missing, however many sessions lose their    *)
(* lease to a successor and write on.                                      *)
THEOREM LedgerAlwaysVerifies == Spec => []LedgerVerifies
<1>1. Attributed => LedgerVerifies
  BY DEF Attributed, LedgerVerifies
<1> QED BY <1>1, AttributedHolds, PTL

(* No lost update: a commit directly follows, in the ledger, the revision   *)
(* its proposal was written against, whatever happened in between.         *)
THEOREM CommitsFollowTheirBase == Spec => []CommittedAtItsBase
<1>1. Attributed => CommittedAtItsBase
  BY DEF Attributed, CommittedAtItsBase, Honest
<1> QED BY <1>1, AttributedHolds, PTL
-----------------------------------------------------------------------------
(***************************************************************************)
(* While every lease is kept up, that is, no lease goes stale under a      *)
(* session that works on, sessions work one at a time, however often they  *)
(* crash or fail.                                                          *)
(***************************************************************************)
(* A session that is not idle holds a lease that is not stale. *)
OneAtATime ==
  \A s \in Session : pc[s] # "idle" => lock.owner = s /\ ~lock.stale

Unpublished == {"prepare", "publish", "create"}
Unaudited == {"prepared", "scan", "apply", "mutate", "validate", "rescan",
              "rollback", "restore", "append", "extend"}
Published == Unaudited \cup {"finalize", "remove"}

(* What is on disk is the intent of the run, and audited once it is. *)
Anchored(s) ==
  /\ pc[s] \in Unpublished => intent = None
  /\ pc[s] = "fill" => intent = Torn
  /\ pc[s] \in Published => intent = run[s].plan
  /\ pc[s] \in Published \cup {"publish", "create", "fill"} /\ run[s].job # None =>
       run[s].plan.owner = s
  /\ pc[s] = "prepare" => ~Recorded(ledger, run[s].job)
  /\ pc[s] \in Unaudited \cup {"publish", "create", "fill"} =>
       ~Recorded(ledger, run[s].plan.txn)
  /\ pc[s] = "remove" => Recorded(ledger, run[s].plan.txn)
  /\ pc[s] = "extend" => run[s].base = ledger

Exclusive ==
  /\ Attributed
  /\ OneAtATime
  /\ Whole => proposal[intent.txn] # None
  /\ \A s \in Session : Anchored(s)

LEMMA InitExclusive == Init => Exclusive
<1> SUFFICES ASSUME Init PROVE Exclusive
  OBVIOUS
<1>1. OneAtATime /\ ~Whole
  BY DEF Init, OneAtATime, Whole
<1>2. ASSUME NEW s \in Session PROVE Anchored(s)
  BY DEF Init, Anchored, Unpublished, Unaudited, Published
<1> QED BY <1>1, <1>2, InitAttributed DEF Exclusive

(* A step is its session's own: the others keep their place and what they   *)
(* remember, and only the step that gives the lock back touches the lock.   *)
LEMMA OwnStep ==
  ASSUME Shape, NEW s \in Session, Step(s)
  PROVE  /\ pc[s] # "idle"
         /\ \A r \in Session \ {s} : pc'[r] = pc[r] /\ run'[r] = run[r]
         /\ UNCHANGED <<proposal, spent>>
         /\ UNCHANGED lock \/ pc'[s] = "idle"
<1> USE DEF Goto, disk
<1>0. pc \in [Session -> Label] /\ run \in [Session -> Run]
  BY DEF Shape, TypeOK
<1>1. CASE \/ FencePublish(s) \/ CreateIntent(s) \/ FillIntent(s) \/ Compare(s)
           \/ ScanApply(s) \/ ApplyNext(s) \/ MutateTarget(s) \/ ApplyDone(s)
           \/ Validate(s) \/ ScanRollback(s) \/ RollbackNext(s) \/ RestoreTarget(s)
           \/ RollbackDone(s) \/ CheckAppend(s) \/ CheckFinalize(s) \/ RemoveIntent(s)
  <2>1. UNCHANGED <<lock, proposal, spent>>
    BY <1>1 DEF FencePublish, CreateIntent, FillIntent, Compare, ScanApply, ApplyNext,
                MutateTarget, ApplyDone, Validate, ScanRollback, RollbackNext,
                RestoreTarget, RollbackDone, CheckAppend, CheckFinalize, RemoveIntent
  <2>2. pc[s] # "idle" /\ \A r \in Session \ {s} : pc'[r] = pc[r] /\ run'[r] = run[r]
    BY <1>1, SteadyStep DEF Ended
  <2> QED BY <2>1, <2>2
<1>2. CASE InspectApply(s)
  BY <1>0, <1>2 DEF InspectApply, End
<1>3. CASE PrepareAssets(s)
  BY <1>0, <1>3 DEF PrepareAssets, Raise, End
<1>4. CASE ExtendLedger(s)
  BY <1>0, <1>4 DEF ExtendLedger
<1>5. CASE InspectRecover(s)
  BY <1>0, <1>5 DEF InspectRecover, End
<1>6. CASE Release(s)
  BY <1>0, <1>6 DEF Release
<1> QED BY <1>1, <1>2, <1>3, <1>4, <1>5, <1>6 DEF Step

(* While one session works, every other one is idle. *)
LEMMA OthersIdle ==
  ASSUME OneAtATime, NEW s \in Session, pc[s] # "idle"
  PROVE  /\ lock.owner = s /\ ~lock.stale
         /\ \A r \in Session \ {s} : pc[r] = "idle"
BY DEF OneAtATime

LEMMA NextOneAtATime ==
  ASSUME Shape, Steady', OneAtATime, Next
  PROVE  OneAtATime'
<1>0. /\ pc \in [Session -> Label] /\ spent \in [DOMAIN Budget -> Nat]
      /\ lock \in [owner : Session \cup {None}, stale : BOOLEAN]
  BY DEF Shape, TypeOK
<1>1. CASE UNCHANGED <<pc, lock>>
  BY <1>1 DEF OneAtATime
<1>2. ASSUME NEW s \in Session, Step(s) PROVE OneAtATime'
  BY <1>2, OwnStep, OthersIdle DEF OneAtATime
<1>3. ASSUME NEW s \in Session, NEW job, Begin(s, job) PROVE OneAtATime'
  <2>1. \A r \in Session : pc[r] = "idle"
    BY <1>3, NoneAssumption DEF Begin, OneAtATime
  <2> QED BY <1>0, <1>3, <2>1 DEF Begin, Goto, OneAtATime
<1>4. ASSUME NEW s \in Session, Fail(s) PROVE OneAtATime'
  <2>1. pc' = [pc EXCEPT ![s] = "release"] /\ UNCHANGED lock /\ pc[s] # "idle"
    BY <1>4 DEF Fail, Raise, End, Goto
  <2> QED BY <1>0, <2>1 DEF OneAtATime
<1>5. ASSUME NEW s \in Session, Crash(s) PROVE OneAtATime'
  <2>1. pc' = [pc EXCEPT ![s] = "idle"] /\ pc[s] # "idle"
    BY <1>5 DEF Crash, Goto
  <2> QED BY <1>0, <2>1, OthersIdle DEF OneAtATime
<1>6. ASSUME NEW s \in Session, Stall(s) PROVE FALSE
  BY <1>0, <1>6 DEF Stall, Spend, Steady, Budget
<1>7. ASSUME NEW s \in Session, Heartbeat(s) PROVE FALSE
  BY <1>7, OthersIdle DEF Heartbeat
<1>8. ASSUME NEW t \in Txn, Draft(t) PROVE UNCHANGED <<pc, lock>>
  BY <1>8 DEF Draft
<1>9. ASSUME NEW p \in Path, NEW c \in Image, Edit(p, c) PROVE UNCHANGED <<pc, lock>>
  BY <1>9 DEF Edit
<1> QED BY <1>1, <1>2, <1>3, <1>4, <1>5, <1>6, <1>7, <1>8, <1>9
       DEF Next, BeginApply, BeginRecover

(* The steps that change neither intent nor ledger keep a run where it is   *)
(* anchored: it stays before, between or behind the two commit records.     *)
Reading(s) ==
  \/ FencePublish(s) \/ Compare(s) \/ ScanApply(s) \/ ApplyNext(s) \/ MutateTarget(s)
  \/ ApplyDone(s) \/ Validate(s) \/ ScanRollback(s) \/ RollbackNext(s)
  \/ RestoreTarget(s) \/ RollbackDone(s) \/ CheckAppend(s) \/ CheckFinalize(s)

LEMMA ReadingPlaces ==
  ASSUME Shape, NEW s \in Session, Reading(s)
  PROVE  /\ UNCHANGED <<intent, ledger, proposal>>
         /\ run'[s].job = run[s].job /\ run'[s].plan = run[s].plan
         /\ run'[s].base = run[s].base
         /\ \/ pc[s] = "publish" /\ pc'[s] \in {"create", "release"}
            \/ pc[s] \in Unaudited /\ pc'[s] \in Unaudited \cup {"release"}
            \/ /\ pc[s] = "finalize" /\ pc'[s] \in {"remove", "release"}
               /\ Recorded(ledger, run[s].plan.txn) \/ pc'[s] = "release"
         /\ pc'[s] = "extend" => ledger = run[s].base
<1> USE DEF Goto, Raise, End, disk, Reading, Unaudited
<1>0. pc \in [Session -> Label]
  BY DEF Shape, TypeOK
<1>1. /\ UNCHANGED <<ledger, proposal>>
      /\ run'[s].job = run[s].job /\ run'[s].plan = run[s].plan
      /\ run'[s].base = run[s].base
      /\ pc'[s] = "extend" => MayAppend(s)
  BY SteadyStep
<1>2. UNCHANGED intent
  BY DEF FencePublish, Compare, ScanApply, ApplyNext, MutateTarget, ApplyDone, Validate,
         ScanRollback, RollbackNext, RestoreTarget, RollbackDone, CheckAppend,
         CheckFinalize
<1>3. CASE FencePublish(s)
  BY <1>0, <1>1, <1>2, <1>3 DEF FencePublish
<1>4. CASE CheckFinalize(s)
  BY <1>0, <1>1, <1>2, <1>4 DEF CheckFinalize, Finalizable
<1>5. CASE \/ Compare(s) \/ ScanApply(s) \/ ApplyNext(s) \/ MutateTarget(s)
           \/ ApplyDone(s) \/ Validate(s) \/ ScanRollback(s) \/ RollbackNext(s)
           \/ RestoreTarget(s) \/ RollbackDone(s) \/ CheckAppend(s)
  <2>1. pc[s] \in Unaudited /\ pc'[s] \in Unaudited \cup {"release"}
    BY <1>0, <1>5 DEF Compare, ScanApply, ApplyNext, MutateTarget, ApplyDone, Validate,
         ScanRollback, RollbackNext, RestoreTarget, RollbackDone, CheckAppend
  <2> QED BY <1>1, <1>2, <2>1 DEF MayAppend, Appendable
<1> QED BY <1>3, <1>4, <1>5

LEMMA ReadingAnchored ==
  ASSUME Exclusive, NEW s \in Session, Reading(s)
  PROVE  Anchored(s)' /\ (Whole => proposal[intent.txn] # None)'
<1>1. Shape /\ Anchored(s)
  BY DEF Exclusive, Attributed
<1>2. Anchored(s)'
  BY <1>1, ReadingPlaces DEF Anchored, Unpublished, Unaudited, Published
<1> QED BY <1>1, <1>2, ReadingPlaces DEF Exclusive, Whole

LEMMA RecordedAppend ==
  ASSUME NEW events \in Seq(Event), NEW e \in Event
  PROVE  Recorded(Append(events, e), e.txn)
BY AppendProperties DEF Recorded, EventsOf

(* The steps that do: the intent is published by its own session, the event *)
(* extends the ledger the run is based on, and only then the intent goes.   *)
LEMMA WritingAnchored ==
  ASSUME Exclusive, NEW s \in Session,
         CreateIntent(s) \/ FillIntent(s) \/ ExtendLedger(s) \/ RemoveIntent(s)
  PROVE  Anchored(s)' /\ (Whole => proposal[intent.txn] # None)'
<1> USE DEF Goto, Raise, End, Unpublished, Unaudited, Published
<1>0. /\ Shape /\ pc \in [Session -> Label]
      /\ Anchored(s) /\ Bearings(s) /\ PlanKnown(s) /\ JobKnown(s)
      /\ Whole => proposal[intent.txn] # None
  BY DEF Exclusive, Attributed, Shape, TypeOK, Aware
<1>1. UNCHANGED <<run, proposal>>
  BY DEF CreateIntent, FillIntent, ExtendLedger, RemoveIntent
<1>2. CASE CreateIntent(s)
  BY <1>0, <1>1, <1>2 DEF CreateIntent, Anchored, Whole
<1>3. CASE FillIntent(s)
  <2>1. run[s].job # None /\ pc[s] = "fill"
    BY <1>0, <1>3 DEF FillIntent, JobKnown, Preparing
  <2>2. proposal[run[s].plan.txn] # None
    BY <1>0, <2>1 DEF Bearings, OwnProposal, Ended
  <2> QED BY <1>0, <1>1, <1>3, <2>1, <2>2 DEF FillIntent, Anchored, Whole
<1>4. CASE ExtendLedger(s)
  <2>1. pc'[s] = "finalize" /\ pc[s] = "extend" /\ UNCHANGED intent
    BY <1>0, <1>4 DEF ExtendLedger
  <2> QED BY <1>0, <1>1, <2>1 DEF Anchored, Whole
<1>5. CASE RemoveIntent(s)
  <2>1. pc'[s] = "release" /\ (UNCHANGED intent \/ intent' = None)
    BY <1>0, <1>5 DEF RemoveIntent
  <2> QED BY <1>0, <1>1, <2>1 DEF Anchored, Whole
<1> QED BY <1>2, <1>3, <1>4, <1>5

(* Where a run begins, what it works on is settled. *)
LEMMA InspectingAnchored ==
  ASSUME Exclusive, NEW s \in Session,
         InspectApply(s) \/ PrepareAssets(s) \/ InspectRecover(s)
  PROVE  Anchored(s)' /\ (Whole => proposal[intent.txn] # None)'
<1> USE DEF Goto, Raise, End, disk, Unpublished, Unaudited, Published
<1>0. /\ Shape /\ pc \in [Session -> Label] /\ run \in [Session -> Run]
      /\ Anchored(s) /\ PlanKnown(s) /\ JobKnown(s)
      /\ Whole => proposal[intent.txn] # None
  BY DEF Exclusive, Attributed, Shape, TypeOK, Aware
<1>1. UNCHANGED <<ledger, intent, proposal>>
  BY DEF InspectApply, PrepareAssets, InspectRecover
<1>2. (Whole => proposal[intent.txn] # None)'
  BY <1>0, <1>1 DEF Whole
<1>3. CASE pc'[s] = "release"
  BY <1>2, <1>3 DEF Anchored
<1>4. CASE InspectApply(s) /\ pc'[s] # "release"
  <2>1. /\ Acceptable(run[s].job) /\ pc'[s] = "prepare"
        /\ run' = [run EXCEPT ![s].base = ledger]
    BY <1>0, <1>4 DEF InspectApply
  <2>2. run'[s].job = run[s].job
    BY <1>0, <2>1 DEF Run
  <2> QED BY <1>1, <1>2, <2>1, <2>2 DEF Anchored, Acceptable
<1>5. CASE PrepareAssets(s) /\ pc'[s] # "release"
  <2> DEFINE t == run[s].job
             targets == [i \in DOMAIN Ops[t] |-> Snapshot(Ops[t][i], files)]
             plan == [txn |-> t, owner |-> s, targets |-> targets]
  <2>1. plan.txn = t /\ plan.owner = s
    OBVIOUS
  <2>2. /\ pc[s] = "prepare" /\ pc'[s] = "publish" /\ intent = None
        /\ run' = [run EXCEPT ![s].plan = plan]
    BY <1>0, <1>5 DEF PrepareAssets, Preparable
  <2> HIDE DEF plan
  <2>3. run'[s].plan = plan /\ run'[s].job = t
    BY <1>0, <2>2 DEF Run
  <2>4. ~Recorded(ledger, t)
    BY <1>0, <2>2 DEF Anchored
  <2> HIDE DEF t
  <2> QED BY <1>1, <1>2, <2>1, <2>2, <2>3, <2>4 DEF Anchored
<1>6. CASE InspectRecover(s) /\ pc'[s] # "release"
  <2>1. CASE /\ Resolvable /\ ~Recorded(ledger, intent.txn)
             /\ run' = [run EXCEPT ![s] = [@ EXCEPT !.plan = intent, !.base = ledger,
                                              !.verdict = "rolled_back"]]
             /\ pc'[s] = "rescan"
    <3> DEFINE new == [run[s] EXCEPT !.plan = intent, !.base = ledger,
                                     !.verdict = "rolled_back"]
    <3>1. new.plan = intent /\ new.job = None
      BY <1>0, <1>6 DEF Run, InspectRecover
    <3>2. run'[s] = new
      BY <1>0, <2>1
    <3> HIDE DEF new
    <3> QED BY <1>1, <1>2, <2>1, <3>1, <3>2 DEF Anchored
  <2>2. CASE /\ Resolvable /\ Recorded(ledger, intent.txn)
             /\ run' = [run EXCEPT ![s] =
                         [@ EXCEPT !.plan = intent, !.verdict = EventOf(ledger, intent.txn).result]]
             /\ pc'[s] = "finalize"
    <3> DEFINE new == [run[s] EXCEPT !.plan = intent,
                                     !.verdict = EventOf(ledger, intent.txn).result]
    <3>1. new.plan = intent /\ new.job = None
      BY <1>0, <1>6 DEF Run, InspectRecover
    <3>2. run'[s] = new
      BY <1>0, <2>2
    <3> HIDE DEF new
    <3> QED BY <1>1, <1>2, <2>2, <3>1, <3>2 DEF Anchored
  <2> QED BY <1>0, <1>6, <2>1, <2>2 DEF InspectRecover
<1> QED BY <1>3, <1>4, <1>5, <1>6

LEMMA NextExclusive ==
  ASSUME Exclusive, Steady', [Next]_vars
  PROVE  Exclusive'
<1>0. /\ Attributed /\ Shape /\ OneAtATime /\ pc \in [Session -> Label]
      /\ Whole => proposal[intent.txn] # None
  BY DEF Exclusive, Attributed, Shape, TypeOK
<1>1. Attributed'
  BY <1>0, NextAttributed
<1>2. CASE UNCHANGED <<pc, run, lock, ledger, intent, proposal>>
  <2>1. OneAtATime'
    BY <1>0, <1>2 DEF OneAtATime
  <2>2. ASSUME NEW s \in Session PROVE Anchored(s)'
    BY <1>2 DEF Exclusive, Anchored
  <2> QED BY <1>0, <1>1, <1>2, <2>1, <2>2 DEF Exclusive, Whole
<1>3. OneAtATime'
  BY <1>0, <1>2, NextOneAtATime DEF vars, Exclusive
<1>4. ASSUME NEW s \in Session,
             \A r \in Session \ {s} : pc'[r] = pc[r],
             pc[s] # "idle" \/ \A r \in Session : pc[r] = "idle",
             Anchored(s)', (Whole => proposal[intent.txn] # None)'
      PROVE  Exclusive'
  <2>1. ASSUME NEW r \in Session \ {s} PROVE Anchored(r)'
    <3>1. pc'[r] = "idle"
      BY <1>0, <1>4, OthersIdle
    <3> QED BY <3>1 DEF Anchored, Unpublished, Unaudited, Published
  <2> QED BY <1>1, <1>3, <1>4, <2>1 DEF Exclusive
<1>5. ASSUME NEW s \in Session, UNCHANGED <<intent, proposal>>,
             pc'[s] \in {"idle", "inspect", "release"},
             \A r \in Session \ {s} : pc'[r] = pc[r],
             pc[s] # "idle" \/ \A r \in Session : pc[r] = "idle"
      PROVE  Exclusive'
  <2>1. Anchored(s)'
    BY <1>5 DEF Anchored, Unpublished, Unaudited, Published
  <2> QED BY <1>0, <1>4, <1>5, <2>1 DEF Whole
<1>6. ASSUME NEW s \in Session, Step(s) PROVE Exclusive'
  <2>1. CASE Release(s)
    BY <1>0, <1>5, <2>1 DEF Release, Goto, disk
  <2>2. CASE ~Release(s)
    <3>1. Anchored(s)' /\ (Whole => proposal[intent.txn] # None)'
      BY <1>6, <2>2, ReadingAnchored, WritingAnchored, InspectingAnchored DEF Step, Reading
    <3> QED BY <1>0, <1>4, <1>6, <3>1, OwnStep
  <2> QED BY <2>1, <2>2
<1>7. ASSUME NEW s \in Session, NEW job, Begin(s, job) PROVE Exclusive'
  <2>1. \A r \in Session : pc[r] = "idle"
    BY <1>0, <1>7, NoneAssumption DEF Begin, OneAtATime
  <2> QED BY <1>0, <1>5, <1>7, <2>1 DEF Begin, Goto, disk
<1>8. ASSUME NEW s \in Session, Fail(s) \/ Crash(s) PROVE Exclusive'
  <2>1. pc[s] # "idle" /\ UNCHANGED <<intent, proposal>>
        /\ (pc' = [pc EXCEPT ![s] = "release"] \/ pc' = [pc EXCEPT ![s] = "idle"])
    BY <1>8 DEF Fail, Crash, Raise, End, Goto, disk
  <2> QED BY <1>0, <1>5, <2>1
<1>9. ASSUME NEW s \in Session, Stall(s) \/ Heartbeat(s) PROVE Exclusive'
  <2>1. spent \in [DOMAIN Budget -> Nat]
    BY <1>0 DEF Shape, TypeOK
  <2>2. CASE Stall(s)
    BY <2>1, <2>2 DEF Stall, Spend, Steady, Budget
  <2>3. CASE Heartbeat(s)
    BY <1>0, <2>3, OthersIdle DEF Heartbeat
  <2> QED BY <1>9, <2>2, <2>3
<1>10. ASSUME NEW t \in Txn, Draft(t) PROVE Exclusive'
  <2>1. /\ UNCHANGED <<pc, run, lock, ledger, intent>> /\ proposal[t] = None
        /\ \A u \in Txn \ {t} : proposal'[u] = proposal[u]
    BY <1>0, <1>10 DEF Draft, disk, Shape, TypeOK
  <2>2. ASSUME NEW s \in Session PROVE Anchored(s)'
    BY <2>1 DEF Exclusive, Anchored
  <2>3. intent \in Intent \cup {None, Torn}
    BY <1>0 DEF Shape, TypeOK
  <2>4. (Whole => proposal[intent.txn] # None)'
    BY <1>0, <2>1, <2>3 DEF Whole, Intent
  <2> QED BY <1>1, <1>3, <2>2, <2>4 DEF Exclusive
<1>11. ASSUME NEW p \in Path, NEW c \in Image, Edit(p, c) PROVE Exclusive'
  BY <1>2, <1>11 DEF Edit
<1>12. CASE UNCHANGED vars
  BY <1>2, <1>12 DEF vars
<1> QED BY <1>6, <1>7, <1>8, <1>9, <1>10, <1>11, <1>12 DEF Next, BeginApply, BeginRecover

LEMMA ExclusiveHolds == Spec /\ []Steady => []Exclusive
<1>1. Exclusive /\ Steady' /\ [Next]_vars => Exclusive'
  BY NextExclusive
<1> QED BY <1>1, InitExclusive, PTL DEF Spec

(* Recovery never completes a transaction: while no lease goes stale under  *)
(* a working session, a commit is appended by the session that published    *)
(* the intent, whole on disk, under its own lease (engine.py apply, recover).*)
THEOREM CommitsByOwnLease == Spec /\ []Steady => CommitByOwnLease
<1>1. ASSUME Exclusive, Shape', [Next]_vars,
             ledger' # ledger, ledger'[Len(ledger')].result = "committed"
      PROVE  /\ Whole
             /\ lock.owner = intent.owner
             /\ ledger'[Len(ledger')].txn = intent.txn
  <2>0. Shape /\ OneAtATime
    BY <1>1 DEF Exclusive, Attributed
  <2>1. PICK s \in Session : ExtendLedger(s)
    <3>1. ASSUME NEW s \in Session, Step(s), ~ExtendLedger(s) PROVE UNCHANGED ledger
      BY <2>0, <3>1, SteadyStep
         DEF Step, InspectApply, PrepareAssets, InspectRecover, Release, disk
    <3> QED BY <1>1, <3>1
            DEF Next, vars, Draft, BeginApply, BeginRecover, Begin, Fail, Crash, Stall,
                Heartbeat, Edit, disk
  <2> DEFINE e == SealedEvent(s)
  <2>2. /\ pc[s] = "extend" /\ ledger' = Append(run[s].base, e)
        /\ run[s].base \in Seq(Event) /\ e \in Event
    BY <2>0, <2>1, SealedEventType DEF ExtendLedger, Shape, TypeOK, Run
  <2>3. ledger'[Len(ledger')] = e
    BY <2>2, AppendProperties
  <2>4. run[s].verdict = "committed" /\ e.txn = run[s].plan.txn
    BY <1>1, <2>3 DEF SealedEvent
  <2>5. Anchored(s) /\ Bearings(s) /\ PlanKnown(s)
    BY <1>1 DEF Exclusive, Attributed, Shape, Aware
  <2>6. run[s].job # None
    BY <2>2, <2>4, <2>5 DEF Bearings, OwnProposal, Ended
  <2>7. intent = run[s].plan /\ run[s].plan.owner = s /\ intent \in Intent
    BY <2>2, <2>5, <2>6 DEF Anchored, PlanKnown, Published, Unaudited
  <2>8. lock.owner = s
    BY <2>0, <2>2 DEF OneAtATime
  <2> QED BY <2>3, <2>4, <2>7, <2>8, NoneAssumption DEF Whole
<1>2. Exclusive /\ Shape' /\ [Next]_vars =>
        [ledger' # ledger /\ ledger'[Len(ledger')].result = "committed" =>
           /\ Whole
           /\ lock.owner = intent.owner
           /\ ledger'[Len(ledger')].txn = intent.txn]_ledger
  BY <1>1
<1>3. Exclusive => Shape
  BY DEF Exclusive, Attributed
<1> QED BY <1>2, <1>3, ExclusiveHolds, PTL DEF Spec, CommitByOwnLease

(* An intent leaves the disk only when its own event is in the ledger: a     *)
(* crash between the commit point and the clean-up never loses the record   *)
(* that recovery needs, and no other session removes it.                    *)
THEOREM IntentsLeaveAudited == Spec /\ []Steady => IntentLeavesAfterAudit
<1>1. ASSUME Exclusive, [Next]_vars, Whole, intent' # intent
      PROVE  Recorded(ledger, intent.txn) /\ intent' = None
  <2>0. Shape /\ OneAtATime
    BY <1>1 DEF Exclusive, Attributed
  <2>1. PICK s \in Session : CreateIntent(s) \/ FillIntent(s) \/ RemoveIntent(s)
    <3>1. ASSUME NEW s \in Session, Step(s),
                 ~(CreateIntent(s) \/ FillIntent(s) \/ RemoveIntent(s))
          PROVE  UNCHANGED intent
      BY <2>0, <3>1, ReadingPlaces
         DEF Step, Reading, ExtendLedger, InspectApply, PrepareAssets, InspectRecover,
             Release, disk
    <3> QED BY <1>1, <3>1
            DEF Next, vars, Draft, BeginApply, BeginRecover, Begin, Fail, Crash, Stall,
                Heartbeat, Edit, disk
  <2>2. Anchored(s)
    BY <1>1 DEF Exclusive
  <2>3. CASE CreateIntent(s) \/ FillIntent(s)
    BY <1>1, <2>2, <2>3 DEF CreateIntent, FillIntent, Anchored, Whole
  <2>4. CASE RemoveIntent(s)
    BY <1>1, <2>2, <2>4 DEF RemoveIntent, Anchored, Published
  <2> QED BY <2>1, <2>3, <2>4
<1>2. Exclusive /\ [Next]_vars => [LeavesAfterAudit]_intent
  BY <1>1 DEF LeavesAfterAudit
<1> QED BY <1>2, ExclusiveHolds, PTL DEF Spec, IntentLeavesAfterAudit
=============================================================================
