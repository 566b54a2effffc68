------------------------- MODULE TransactionEngine -------------------------
(***************************************************************************)
(* The transaction protocol of a context: proposals applied to canonical   *)
(* files under the context lock, through a write-ahead intent, with the    *)
(* audit append as the commit point, and recovery of what a crash leaves.  *)
(*                                                                         *)
(* A session is one process slot.  Each of its runs takes the lock, works  *)
(* through the steps of `apply' or of `recover', and gives the lock back.  *)
(* Every fence and hash check is one step and the mutation it protects is  *)
(* another, so that the window between them is part of the model.          *)
(***************************************************************************)
EXTENDS Naturals, Sequences, StagedReplacement, AuditLedger

CONSTANTS Session,      \* process slots that run apply or recover
          Txn,          \* proposal identifiers
          Ops,          \* the operations each proposal asks for
          Seed,         \* the canonical files a context starts from
          None,         \* no intent, no owner, no proposal
          Torn,         \* an intent.json created but not yet written
          MaxCrashes,   \* bound on process crashes
          MaxFailures,  \* bound on I/O errors and lost heartbeats
          MaxEdits,     \* bound on edits made outside the engine
          MaxStalls,    \* bound on leases that outlive their heartbeat
          EditInWindow, \* may an edit fall between a check and its mutation?
          Mixed         \* may edits and such leases meet in one behaviour?

Intent == [txn : Txn, owner : Session, targets : Seq(IntentTarget)]

Event == [txn : Txn, result : {"committed", "rolled_back"},
          action : {"apply", "recovery"}, targets : Seq(IntentTarget), base : Nat]

Proposal == [base : Seq(Event), targets : Seq(IntentTarget)]

(* A proposal as the abstract store knows it. *)
Receipt == [txn : Txn, result : {"committed", "rolled_back"}]
PartialFiles == UNION {[S -> Image] : S \in SUBSET Path}
Request == [base : Seq(Receipt), expect : PartialFiles, change : PartialFiles]

ASSUME OpsAssumption == Ops \in [Txn -> Seq(Op)]
ASSUME SeedAssumption == Seed \in [Path -> Image]
ASSUME NoneAssumption ==
  /\ None \notin Session \cup Txn \cup Intent \cup Proposal \cup Request
  /\ Torn \notin Intent \cup {None}

VARIABLES
  files,     \* canonical files
  ledger,    \* 99_meta/audit/ledger.jsonl
  intent,    \* 98_state/staging/intent.json
  stages,    \* staged postimage files left in each session's directory
  assets,    \* sessions whose transaction directory exists
  lock,      \* 98_state/lock.json
  proposal,  \* proposals handed to the engine, or None
  pc,        \* where each session is
  run,       \* what each session remembers
  outcome,   \* how each session's last run ended
  spent      \* how much of each bound is used up

vars == <<files, ledger, intent, stages, assets, lock, proposal,
          pc, run, outcome, spent>>

disk == <<files, ledger, intent, stages, assets>>
-----------------------------------------------------------------------------
Label == {"idle", "inspect", "prepare", "publish", "create", "fill", "prepared",
          "scan", "apply", "mutate", "validate", "rescan", "rollback", "restore",
          "append", "extend", "finalize", "remove", "release"}

(* job is the proposal a run applies, None when it recovers. *)
Run == [job : Txn \cup {None}, plan : Intent \cup {None}, base : Seq(Event),
        cursor : Nat, verdict : {"committed", "rolled_back"}]

Idle == [job |-> None, plan |-> None, base |-> <<>>, cursor |-> 0,
         verdict |-> "rolled_back"]

Budget == [crashes |-> MaxCrashes, failures |-> MaxFailures,
           edits |-> MaxEdits, stalls |-> MaxStalls]

Spend(b) == spent[b] < Budget[b] /\ spent' = [spent EXCEPT ![b] = @ + 1]

Targets(s) == run[s].plan.targets
Stages(s)  == stages[run[s].plan.owner]
Current(s) == Targets(s)[run[s].cursor]
HasStage(s) == run[s].cursor \in Stages(s)

(* The lease of s is the one lock.json names. *)
Fence(s) == lock.owner = s

(* intent.json holds a complete record. *)
Whole == intent # None /\ intent # Torn

(* The durable intent is still the one s works on. *)
Durable(s) == intent = run[s].plan

Goto(s, l) == pc' = [pc EXCEPT ![s] = l]

End(s, o) == Goto(s, "release") /\ outcome' = [outcome EXCEPT ![s] = o]

(***************************************************************************)
(* An exception reaches the handler of apply or recover.  Pending recovery *)
(* is reported when the run knows of an intent and one is on disk; apply   *)
(* learns of its intent only when prepare has returned.                    *)
(***************************************************************************)
Knows(s) ==
  \/ run[s].job = None
  \/ pc[s] \notin {"inspect", "prepare", "publish", "create", "fill", "prepared"}

Raise(s) == End(s, IF Knows(s) /\ intent # None THEN "pending" ELSE "error")
-----------------------------------------------------------------------------
Init ==
  /\ files = Seed
  /\ ledger = <<>>
  /\ intent = None
  /\ stages = [s \in Session |-> {}]
  /\ assets = {}
  /\ lock = [owner |-> None, stale |-> FALSE]
  /\ proposal = [t \in Txn |-> None]
  /\ pc = [s \in Session |-> "idle"]
  /\ run = [s \in Session |-> Idle]
  /\ outcome = [s \in Session |-> "none"]
  /\ spent = [b \in DOMAIN Budget |-> 0]

(* A proposal is written against the revision and the files of its moment. *)
Draft(t) ==
  /\ proposal[t] = None
  /\ \A i \in DOMAIN Ops[t] : Possible(Ops[t][i], files)
  /\ proposal' = [proposal EXCEPT ![t] =
       [base |-> ledger,
        targets |-> [i \in DOMAIN Ops[t] |-> Snapshot(Ops[t][i], files)]]]
  /\ UNCHANGED <<disk, lock, pc, run, outcome, spent>>
-----------------------------------------------------------------------------
(* Faults of Begin: it does not wait for a live holder, or it waits even    *)
(* for a dead one.                                                         *)
BeginWithoutWaiting(s, job) ==
  /\ pc[s] = "idle"
  /\ lock' = [owner |-> s, stale |-> FALSE]
  /\ run' = [run EXCEPT ![s] = [Idle EXCEPT !.job = job]]
  /\ outcome' = [outcome EXCEPT ![s] = "none"]
  /\ Goto(s, "inspect")
  /\ UNCHANGED <<disk, proposal, spent>>

BeginWithoutTakeover(s, job) == lock.owner = None /\ BeginWithoutWaiting(s, job)

(***************************************************************************)
(* Starting a run: take a free lock, or take over a stale one.             *)
(***************************************************************************)
Begin(s, job) ==
  /\ pc[s] = "idle"
  /\ lock.owner = None \/ lock.stale
  /\ lock' = [owner |-> s, stale |-> FALSE]
  /\ run' = [run EXCEPT ![s] = [Idle EXCEPT !.job = job]]
  /\ outcome' = [outcome EXCEPT ![s] = "none"]
  /\ Goto(s, "inspect")
  /\ UNCHANGED <<disk, proposal, spent>>

BeginApply(s, t) == proposal[t] # None /\ Begin(s, t)
BeginRecover(s) == Begin(s, None)

(***************************************************************************)
(* apply: refuse unless recovery is clean, the proposal is new, its base   *)
(* revision is the head and its expected hashes are those on disk.         *)
(***************************************************************************)
Acceptable(t) ==
  /\ intent = None
  /\ ~Recorded(ledger, t)
  /\ proposal[t].base = ledger
  /\ \A i \in DOMAIN Ops[t] : Shows(files, proposal[t].targets[i].pre)

InspectApply(s) ==
  /\ pc[s] = "inspect" /\ run[s].job # None
  /\ \/ /\ Acceptable(run[s].job)
        /\ run' = [run EXCEPT ![s].base = ledger]
        /\ Goto(s, "prepare")
        /\ UNCHANGED outcome
     \/ /\ ~Acceptable(run[s].job)
        /\ End(s, "refused")
        /\ UNCHANGED run
  /\ UNCHANGED <<disk, lock, proposal, spent>>

(* Back up preimages, stage postimages and build the intent record. *)
Preparable(t) ==
  /\ intent = None
  /\ ~Collide(Ops[t])
  /\ \A i \in DOMAIN Ops[t] : Possible(Ops[t][i], files)

PrepareAssets(s) ==
  /\ pc[s] = "prepare"
  /\ LET t == run[s].job
         targets == [i \in DOMAIN Ops[t] |-> Snapshot(Ops[t][i], files)]
     IN \/ /\ Preparable(t)
           /\ run' = [run EXCEPT ![s].plan = [txn |-> t, owner |-> s, targets |-> targets]]
           /\ stages' = [stages EXCEPT ![s] = StagedFiles(targets)]
           /\ assets' = assets \cup {s}
           /\ Goto(s, "publish")
           /\ UNCHANGED outcome
        \/ /\ ~Preparable(t)
           /\ Raise(s)
           /\ UNCHANGED <<run, stages, assets>>
  /\ UNCHANGED <<files, ledger, intent, lock, proposal, spent>>

(* prepare's own cleanup: the directory goes unless an intent.json exists. *)
Discard(s) ==
  IF intent = None
  THEN stages' = [stages EXCEPT ![s] = {}] /\ assets' = assets \ {s}
  ELSE UNCHANGED <<stages, assets>>

FencePublish(s) ==
  /\ pc[s] = "publish"
  /\ \/ /\ Fence(s)
        /\ Goto(s, "create")
        /\ UNCHANGED <<outcome, stages, assets>>
     \/ ~Fence(s) /\ Raise(s) /\ Discard(s)
  /\ UNCHANGED <<files, ledger, intent, lock, proposal, run, spent>>

(* _publish_intent claims the name with an empty file, then replaces it. *)
CreateIntent(s) ==
  /\ pc[s] = "create"
  /\ \/ /\ intent = None
        /\ intent' = Torn
        /\ Goto(s, "fill")
        /\ UNCHANGED <<outcome, stages, assets>>
     \/ intent # None /\ Raise(s) /\ UNCHANGED <<intent, stages, assets>>
  /\ UNCHANGED <<files, ledger, lock, proposal, run, spent>>

FillIntent(s) ==
  /\ pc[s] = "fill"
  /\ intent' = run[s].plan
  /\ Goto(s, "prepared")
  /\ UNCHANGED <<files, ledger, stages, assets, lock, proposal, run, outcome, spent>>

(* Fault of Compare: the commit is recorded before the files are replaced. *)

CompareAndCommit(s) ==
  /\ pc[s] = "prepared"
  /\ Goto(s, "append")
  /\ run' = [run EXCEPT ![s].verdict = "committed"]
  /\ UNCHANGED <<disk, lock, proposal, outcome, spent>>

(***************************************************************************)
(* prepare has returned.  When the recorded operations are not the         *)
(* validated ones a target changed in between, and the proposal is rolled  *)
(* back in the ledger without touching a file.                             *)
(***************************************************************************)
Compare(s) ==
  /\ pc[s] = "prepared"
  /\ Goto(s, IF Targets(s) = proposal[run[s].job].targets THEN "scan" ELSE "append")
  /\ run' = [run EXCEPT ![s].verdict = "rolled_back"]
  /\ UNCHANGED <<disk, lock, proposal, outcome, spent>>
-----------------------------------------------------------------------------
(***************************************************************************)
(* Applying the intent, target by target.  The first pass refuses any      *)
(* conflict before anything is touched; each target is classified again    *)
(* when its turn comes, and fenced right before its mutation.              *)
(***************************************************************************)
NoConflict(s) ==
  Durable(s) /\ ~SomeConflict(Targets(s), files, Stages(s)) /\ Fence(s)

ScanApply(s) ==
  /\ pc[s] = "scan"
  /\ \/ /\ NoConflict(s)
        /\ run' = [run EXCEPT ![s].cursor = 1]
        /\ Goto(s, "apply")
        /\ UNCHANGED outcome
     \/ ~NoConflict(s) /\ Raise(s) /\ UNCHANGED run
  /\ UNCHANGED <<disk, lock, proposal, spent>>

ApplyNext(s) ==
  /\ pc[s] = "apply" /\ run[s].cursor <= Len(Targets(s))
  /\ \/ /\ Applied(Current(s), files)
        /\ run' = [run EXCEPT ![s].cursor = @ + 1]
        /\ UNCHANGED <<pc, outcome>>
     \/ /\ Pending(Current(s), files, HasStage(s)) /\ Fence(s)
        /\ Goto(s, "mutate")
        /\ UNCHANGED <<run, outcome>>
     \/ /\ ~Applied(Current(s), files)
        /\ ~(Pending(Current(s), files, HasStage(s)) /\ Fence(s))
        /\ Raise(s)
        /\ UNCHANGED run
  /\ UNCHANGED <<disk, lock, proposal, spent>>

(* The os.replace or unlink itself; a replacement consumes its staged file. *)
MutateTarget(s) ==
  /\ pc[s] = "mutate"
  /\ LET tg == Current(s)
         possible == /\ tg.kind = "replace" => HasStage(s)
                     /\ CanMutate(tg, files, tg.post)
     IN \/ /\ possible
           /\ files' = Mutated(tg, files, tg.post)
           /\ stages' = [stages EXCEPT ![run[s].plan.owner] = @ \ {run[s].cursor}]
           /\ run' = [run EXCEPT ![s].cursor = @ + 1]
           /\ Goto(s, "apply")
           /\ UNCHANGED outcome
        \/ ~possible /\ Raise(s) /\ UNCHANGED <<files, stages, run>>
  /\ UNCHANGED <<ledger, intent, assets, lock, proposal, spent>>

ApplyDone(s) ==
  /\ pc[s] = "apply" /\ run[s].cursor > Len(Targets(s))
  /\ Goto(s, "validate")
  /\ UNCHANGED <<disk, lock, proposal, run, outcome, spent>>

(* Fault of Validate: a veto is recorded, but nothing is rolled back. *)
ValidateWithoutRollback(s) ==
  /\ pc[s] = "validate"
  /\ \/ run' = [run EXCEPT ![s].verdict = "committed"]
     \/ UNCHANGED run
  /\ Goto(s, "append")
  /\ UNCHANGED <<disk, lock, proposal, outcome, spent>>

(* Postconditions and workspace validation may veto what was applied. *)
Validate(s) ==
  /\ pc[s] = "validate"
  /\ \/ /\ run' = [run EXCEPT ![s].verdict = "committed"]
        /\ Goto(s, "append")
     \/ Goto(s, "rescan") /\ UNCHANGED run
  /\ UNCHANGED <<disk, lock, proposal, outcome, spent>>
-----------------------------------------------------------------------------
(***************************************************************************)
(* Rolling back, last target first.  A staged file that was consumed is    *)
(* rebuilt before its target is restored, so that a rollback which is      *)
(* interrupted can still be read from the disk.                            *)
(***************************************************************************)
ScanRollback(s) ==
  /\ pc[s] = "rescan"
  /\ \/ /\ NoConflict(s)
        /\ run' = [run EXCEPT ![s].cursor = Len(Targets(s))]
        /\ Goto(s, "rollback")
        /\ UNCHANGED outcome
     \/ ~NoConflict(s) /\ Raise(s) /\ UNCHANGED run
  /\ UNCHANGED <<disk, lock, proposal, spent>>

StageLost(s) == Current(s).kind = "replace" /\ ~HasStage(s)

RollbackNext(s) ==
  /\ pc[s] = "rollback" /\ run[s].cursor > 0
  /\ \/ /\ Pending(Current(s), files, HasStage(s))
        /\ run' = [run EXCEPT ![s].cursor = @ - 1]
        /\ UNCHANGED <<pc, outcome, stages>>
     \/ /\ Applied(Current(s), files) /\ Fence(s) /\ StageLost(s)
        /\ stages' = [stages EXCEPT ![run[s].plan.owner] = @ \cup {run[s].cursor}]
        /\ UNCHANGED <<pc, run, outcome>>
     \/ /\ Applied(Current(s), files) /\ Fence(s) /\ ~StageLost(s)
        /\ Goto(s, "restore")
        /\ UNCHANGED <<run, outcome, stages>>
     \/ /\ ~Pending(Current(s), files, HasStage(s))
        /\ ~(Applied(Current(s), files) /\ Fence(s))
        /\ Raise(s)
        /\ UNCHANGED <<run, stages>>
  /\ UNCHANGED <<files, ledger, intent, assets, lock, proposal, spent>>

(* A move goes back by rename and a created file is unlinked; any other    *)
(* preimage comes from its backup.                                         *)
NeedsBackup(tg) == tg.kind # "move" /\ \E p \in DOMAIN tg.pre : tg.pre[p] # Absent

RestoreTarget(s) ==
  /\ pc[s] = "restore"
  /\ LET tg == Current(s)
         possible == /\ NeedsBackup(tg) => run[s].plan.owner \in assets
                     /\ CanMutate(tg, files, tg.pre)
     IN \/ /\ possible
           /\ files' = Mutated(tg, files, tg.pre)
           /\ run' = [run EXCEPT ![s].cursor = @ - 1]
           /\ Goto(s, "rollback")
           /\ UNCHANGED outcome
        \/ ~possible /\ Raise(s) /\ UNCHANGED <<files, run>>
  /\ UNCHANGED <<ledger, intent, stages, assets, lock, proposal, spent>>

(* Fault of RollbackDone: the intent goes without a rolled_back event. *)
RollbackUnaudited(s) ==
  /\ pc[s] = "rollback" /\ run[s].cursor = 0
  /\ Goto(s, "remove")
  /\ UNCHANGED <<disk, lock, proposal, run, outcome, spent>>

RollbackDone(s) ==
  /\ pc[s] = "rollback" /\ run[s].cursor = 0
  /\ Goto(s, "append")
  /\ UNCHANGED <<disk, lock, proposal, run, outcome, spent>>
-----------------------------------------------------------------------------
(***************************************************************************)
(* The commit point: one event appended to the ledger that was verified    *)
(* when the run began, by replacing the whole file with its extension.     *)
(***************************************************************************)
MayAppend(s) ==
  /\ Fence(s)
  /\ intent # Torn
  /\ Appendable(ledger, run[s].base, run[s].plan.txn)

CheckAppend(s) ==
  /\ pc[s] = "append"
  /\ \/ MayAppend(s) /\ Goto(s, "extend") /\ UNCHANGED outcome
     \/ ~MayAppend(s) /\ Raise(s)
  /\ UNCHANGED <<disk, lock, proposal, run, spent>>

(* Fault of SealedEvent: an action outside the event's vocabulary. *)
MislabelledEvent(s) ==
  [txn |-> run[s].plan.txn, result |-> run[s].verdict,
   action |-> IF run[s].job = None THEN "recover" ELSE "apply",
   targets |-> Targets(s), base |-> Len(run[s].base)]

SealedEvent(s) ==
  [txn |-> run[s].plan.txn, result |-> run[s].verdict,
   action |-> IF run[s].job = None THEN "recovery" ELSE "apply",
   targets |-> Targets(s), base |-> Len(run[s].base)]

(* Fault of ExtendLedger: it extends whatever the file holds by then. *)
ExtendWhateverIsThere(s) ==
  /\ pc[s] = "extend"
  /\ ledger' = Append(ledger, SealedEvent(s))
  /\ Goto(s, "finalize")
  /\ UNCHANGED <<files, intent, stages, assets, lock, proposal, run, outcome, spent>>

ExtendLedger(s) ==
  /\ pc[s] = "extend"
  /\ ledger' = Append(run[s].base, SealedEvent(s))
  /\ Goto(s, "finalize")
  /\ UNCHANGED <<files, intent, stages, assets, lock, proposal, run, outcome, spent>>

(* Only a target set in the recorded final state lets the intent go. *)
Finalizable(s) ==
  /\ Recorded(ledger, run[s].plan.txn)
  /\ Fence(s)
  /\ Whole /\ intent.txn = run[s].plan.txn
  /\ IF run[s].verdict = "committed"
     THEN AllApplied(intent.targets, files)
     ELSE RolledBack(intent.targets, files, stages[intent.owner])

CheckFinalize(s) ==
  /\ pc[s] = "finalize"
  /\ \/ Finalizable(s) /\ Goto(s, "remove") /\ UNCHANGED outcome
     \/ ~Finalizable(s) /\ Raise(s)
  /\ UNCHANGED <<disk, lock, proposal, run, spent>>

(* The intent is unlinked first, then its transaction directory. *)
RemoveIntent(s) ==
  /\ pc[s] = "remove"
  /\ \/ /\ intent # None
        /\ intent' = None
        /\ stages' = [stages EXCEPT ![run[s].plan.owner] = {}]
        /\ assets' = assets \ {run[s].plan.owner}
        /\ End(s, run[s].verdict)
     \/ intent = None /\ Raise(s) /\ UNCHANGED <<intent, stages, assets>>
  /\ UNCHANGED <<files, ledger, lock, proposal, run, spent>>
-----------------------------------------------------------------------------
(***************************************************************************)
(* recover: an intent with its event is finalised, one without is rolled   *)
(* back whatever strategy was asked for, and anything else is refused.     *)
(***************************************************************************)
Conflicted == SomeConflict(intent.targets, files, stages[intent.owner])

(* The event of the intent on disk is the last word about the files. *)
Settled ==
  LET event == EventOf(ledger, intent.txn)
  IN /\ event.targets = intent.targets
     /\ event.result = "committed" => AllApplied(intent.targets, files)
     /\ event.result = "rolled_back" =>
          AllPending(intent.targets, files, stages[intent.owner])

Resolvable ==
  /\ Whole
  /\ ~Conflicted
  /\ Recorded(ledger, intent.txn) => Settled

(* Fault of InspectRecover: an intent without an event that was replaced   *)
(* completely is completed, not rolled back.                               *)
RecoverForward(s) ==
  /\ pc[s] = "inspect" /\ run[s].job = None
  /\ \/ ~Resolvable /\ End(s, "pending") /\ UNCHANGED run
     \/ /\ Resolvable /\ ~Recorded(ledger, intent.txn)
        /\ AllApplied(intent.targets, files)
        /\ run' = [run EXCEPT ![s] = [@ EXCEPT !.plan = intent, !.base = ledger,
                                         !.verdict = "committed"]]
        /\ Goto(s, "append")
        /\ UNCHANGED outcome
  /\ UNCHANGED <<disk, lock, proposal, spent>>

InspectRecover(s) ==
  /\ pc[s] = "inspect" /\ run[s].job = None
  /\ \/ intent = None /\ End(s, "clean") /\ UNCHANGED run
     \/ intent # None /\ ~Resolvable /\ End(s, "pending") /\ UNCHANGED run
     \/ /\ Resolvable /\ ~Recorded(ledger, intent.txn)
        /\ run' = [run EXCEPT ![s] = [@ EXCEPT !.plan = intent, !.base = ledger,
                                         !.verdict = "rolled_back"]]
        /\ Goto(s, "rescan")
        /\ UNCHANGED outcome
     \/ /\ Resolvable /\ Recorded(ledger, intent.txn)
        /\ run' = [run EXCEPT ![s] =
                              [@ EXCEPT !.plan = intent, !.verdict = EventOf(ledger, intent.txn).result]]
        /\ Goto(s, "finalize")
        /\ UNCHANGED outcome
  /\ UNCHANGED <<disk, lock, proposal, spent>>

(* The lock goes back only if it is still ours. *)
Release(s) ==
  /\ pc[s] = "release"
  /\ lock' = IF Fence(s) THEN [owner |-> None, stale |-> FALSE] ELSE lock
  /\ Goto(s, "idle")
  /\ run' = [run EXCEPT ![s] = Idle]
  /\ UNCHANGED <<disk, proposal, outcome, spent>>
-----------------------------------------------------------------------------
(* A call that fails for good, or a heartbeat that could not be written. *)
Fail(s) ==
  /\ pc[s] \notin {"idle", "release"}
  /\ Spend("failures")
  /\ Raise(s)
  /\ IF pc[s] \in {"publish", "create"} THEN Discard(s) ELSE UNCHANGED <<stages, assets>>
  /\ UNCHANGED <<files, ledger, intent, lock, proposal, run>>

(* The process dies; its pid is gone, so its lease is stale from then on. *)
Crash(s) ==
  /\ pc[s] # "idle"
  /\ Spend("crashes")
  /\ Goto(s, "idle")
  /\ run' = [run EXCEPT ![s] = Idle]
  /\ outcome' = [outcome EXCEPT ![s] = "crashed"]
  /\ lock' = IF Fence(s) THEN [lock EXCEPT !.stale = TRUE] ELSE lock
  /\ UNCHANGED <<disk, proposal>>

(* The host sleeps past the stale threshold in the middle of a run ... *)
Stall(s) ==
  /\ pc[s] # "idle" /\ Fence(s) /\ ~lock.stale
  /\ Mixed \/ spent["edits"] = 0
  /\ Spend("stalls")
  /\ lock' = [lock EXCEPT !.stale = TRUE]
  /\ UNCHANGED <<disk, proposal, pc, run, outcome>>

(* ... and its heartbeat thread may still refresh the lease on waking. *)
Heartbeat(s) ==
  /\ pc[s] # "idle" /\ Fence(s) /\ lock.stale
  /\ lock' = [lock EXCEPT !.stale = FALSE]
  /\ UNCHANGED <<disk, proposal, pc, run, outcome, spent>>

(* Someone edits a canonical file by hand. *)
Edit(p, c) ==
  /\ files[p] # c
  /\ EditInWindow \/ \A s \in Session : pc[s] \notin {"mutate", "restore"}
  /\ Mixed \/ spent["stalls"] = 0
  /\ Spend("edits")
  /\ files' = [files EXCEPT ![p] = c]
  /\ UNCHANGED <<ledger, intent, stages, assets, lock, proposal, pc, run, outcome>>
-----------------------------------------------------------------------------
(* The steps a running session takes by itself. *)
Step(s) ==
  \/ InspectApply(s) \/ PrepareAssets(s) \/ FencePublish(s)
  \/ CreateIntent(s) \/ FillIntent(s) \/ Compare(s)
  \/ ScanApply(s) \/ ApplyNext(s) \/ MutateTarget(s) \/ ApplyDone(s) \/ Validate(s)
  \/ ScanRollback(s) \/ RollbackNext(s) \/ RestoreTarget(s) \/ RollbackDone(s)
  \/ CheckAppend(s) \/ ExtendLedger(s) \/ CheckFinalize(s) \/ RemoveIntent(s)
  \/ InspectRecover(s) \/ Release(s)

Next ==
  \/ \E t \in Txn : Draft(t)
  \/ \E s \in Session, t \in Txn : BeginApply(s, t)
  \/ \E s \in Session : BeginRecover(s) \/ Step(s) \/ Fail(s) \/ Crash(s)
                          \/ Stall(s) \/ Heartbeat(s)
  \/ \E p \in Path, c \in Image : Edit(p, c)

Spec == Init /\ [][Next]_vars

(***************************************************************************)
(* A process that is not killed runs on to its end, and the operator keeps *)
(* calling recover, which finds the lock free or stale now and then.       *)
(***************************************************************************)
Fairness == \A s \in Session : WF_vars(Step(s)) /\ SF_vars(BeginRecover(s))

FairSpec == Spec /\ Fairness
-----------------------------------------------------------------------------
(***************************************************************************)
(* Properties.                                                             *)
(***************************************************************************)
TypeOK ==
  /\ files \in [Path -> Image]
  /\ ledger \in Seq(Event)
  /\ intent \in Intent \cup {None, Torn}
  /\ stages \in [Session -> SUBSET Nat]
  /\ assets \subseteq Session
  /\ lock \in [owner : Session \cup {None}, stale : BOOLEAN]
  /\ proposal \in [Txn -> Proposal \cup {None}]
  /\ pc \in [Session -> Label]
  /\ run \in [Session -> Run]
  /\ outcome \in [Session -> {"none", "committed", "rolled_back", "refused",
                              "clean", "pending", "error", "crashed"}]
  /\ spent \in [DOMAIN Budget -> Nat]

(* Full verification of the ledger never fails: no proposal gets a second  *)
(* event from apply, recovery or a retry, and the chain has no gap.        *)
LedgerVerifies == Verified(ledger)

(* A committed event directly follows the revision its proposal was written *)
(* against: no lost update slips between drafting, checking and appending.  *)
CommittedAtItsBase ==
  \A k \in DOMAIN ledger :
    ledger[k].result = "committed" =>
      /\ proposal[ledger[k].txn] # None
      /\ proposal[ledger[k].txn].base = SubSeq(ledger, 1, k - 1)

(* The event of an intent still on disk tells the truth about the files:   *)
(* from the commit point to finalisation they show what it recorded.       *)
EventTellsTruth ==
  Whole /\ Recorded(ledger, intent.txn) =>
    IF EventOf(ledger, intent.txn).result = "committed"
    THEN AllApplied(intent.targets, files)
    ELSE RolledBack(intent.targets, files, stages[intent.owner])

Quiet == \A s \in Session : pc[s] = "idle"

(* Recovery never completes: a commit is appended by the lease that wrote  *)
(* the intent, for the intent on disk.                                     *)
CommitByOwnLease ==
  [][ledger' # ledger /\ ledger'[Len(ledger')].result = "committed" =>
       /\ Whole
       /\ lock.owner = intent.owner
       /\ ledger'[Len(ledger')].txn = intent.txn]_ledger

(* An intent leaves the disk only when its own event is in the ledger. *)
LeavesAfterAudit ==
  Whole /\ intent' # intent => Recorded(ledger, intent.txn) /\ intent' = None

IntentLeavesAfterAudit == [][LeavesAfterAudit]_intent

(* A path that is not edited by hand only ever moves between the two images *)
(* an intent on disk recorded for it: no edit is overwritten unseen.        *)
OverwritesOnlyRecorded ==
  spent'["edits"] = spent["edits"] =>
    \A p \in Path : files'[p] # files[p] =>
      /\ Whole
      /\ \E i \in DOMAIN intent.targets :
           /\ p \in DOMAIN intent.targets[i].pre
           /\ {files[p], files'[p]} =
                {intent.targets[i].pre[p], intent.targets[i].post[p]}

(* No lease has gone stale under a session that works on. *)
Steady == spent["stalls"] = 0

(* While no lease goes stale under its session, the engine overwrites only  *)
(* what it recorded in its intent, whatever is edited by hand in between.   *)
EditsAreKept == [][Steady => OverwritesOnlyRecorded]_files

(* An intent whose event is in the ledger is one that recover finalises.    *)
AuditedIntentsFinalize == Quiet /\ Whole /\ Recorded(ledger, intent.txn) => Resolvable

(* What the committed events of a ledger make of the seed: a path holds what *)
(* the last of them that has it among its targets recorded for it.         *)
Writes(event, p) ==
  event.result = "committed"
    /\ \E i \in DOMAIN event.targets : p \in DOMAIN event.targets[i].post

Written(event, p) ==
  event.targets[CHOOSE i \in DOMAIN event.targets :
                  p \in DOMAIN event.targets[i].post].post[p]

LastWrite(events, p) ==
  CHOOSE n \in DOMAIN events :
    /\ Writes(events[n], p)
    /\ \A m \in DOMAIN events : Writes(events[m], p) => m <= n

Replay(events) ==
  [p \in Path |->
     IF \E n \in DOMAIN events : Writes(events[n], p)
     THEN Written(events[LastWrite(events, p)], p)
     ELSE Seed[p]]

(* A tree without an intent is the one its ledger describes: nothing that   *)
(* interleaved with a takeover has gone unnoticed.                         *)
CleanTreeFollowsLedger == intent = None => files = Replay(ledger)

(* Every interrupted whole intent is in the end finalised or rolled back. *)
RecoveryEnds ==
  (Whole /\ \A i \in DOMAIN intent.targets : ~NoOp(intent.targets[i])) ~> (intent = None)
-----------------------------------------------------------------------------
(***************************************************************************)
(* The engine implements the atomic store.  The files a reader may rely on *)
(* are those on disk, except that an intent without a committed event has  *)
(* not happened: its preimages stand.                                      *)
(***************************************************************************)
Combine(targets, image(_)) ==
  [p \in UNION {DOMAIN image(targets[i]) : i \in DOMAIN targets} |->
     LET i == CHOOSE j \in DOMAIN targets : p \in DOMAIN image(targets[j])
     IN image(targets[i])[p]]

Pre(tg) == tg.pre
Post(tg) == tg.post

Committed(t) == Recorded(ledger, t) /\ EventOf(ledger, t).result = "committed"

Reliable ==
  IF Whole /\ ~Committed(intent.txn)
  THEN Put(files, Combine(intent.targets, Pre))
  ELSE files

Receipts(events) ==
  [k \in DOMAIN events |-> [txn |-> events[k].txn, result |-> events[k].result]]

Abstract(p) ==
  IF p = None THEN None
  ELSE [base |-> Receipts(p.base),
        expect |-> Combine(p.targets, Pre), change |-> Combine(p.targets, Post)]

Store == INSTANCE AtomicStore
           WITH store <- Reliable, log <- Receipts(ledger),
                proposal <- [t \in Txn |-> Abstract(proposal[t])]

(* Every run of the engine, crashes and recoveries included, is a run of   *)
(* the store whose proposals commit or abort in one step.                  *)
ImplementsAtomicStore == Store!Spec
=============================================================================
