--------------------------- MODULE AdapterInstall ---------------------------
(***************************************************************************)
(* Installing the files of an agent client into a project                  *)
(* (adapters/agents/service.py, _transaction.py, _lock.py and              *)
(* _install_records.py).  A plan, made without a lock, records what it saw;*)
(* applying it takes the project lock, marks the per-user trust record as  *)
(* pending, writes an intent, moves the files one by one with the manifest *)
(* last, removes the intent and settles the trust record on the manifest   *)
(* it finds.  Installers crash anywhere, stop long enough to lose their    *)
(* lease, and the user edits files meanwhile.                              *)
(*                                                                         *)
(* Files are numbered in the order of the transaction; the last one, N, is *)
(* the manifest.  The staged bytes and verified preimages of a transaction *)
(* are there as long as its intent is, and are not modelled.               *)
(***************************************************************************)
EXTENDS Integers, FiniteSets

CONSTANTS Installer,      \* processes
          Release,        \* what can be installed
          N, Owns,        \* Owns[v]: the files of release v, N among them
          Edit,           \* what the user can write into a file
          None, Empty,    \* no file; a file of no bytes
          MaxStrikes, MaxForgets

VARIABLES project,        \* project[f]: content of file f: a release, an edit, Empty or None
          trust,          \* the install record: [digest, pending]
          lease,          \* the project lock: [by, live], by None if it is free
          journal,        \* the intents in the staging directory
          job,            \* job[p]: what installer p is doing
          strikes, forgets

adapterVars == <<project, trust, lease, journal, job, strikes, forgets>>

File == 1..N
Wanted(v, f) == IF v # None /\ f \in Owns[v] THEN v ELSE None

Off == [at |-> "idle", plan |-> None, k |-> 0, held |-> FALSE]

AdapterInit ==
  /\ project = [f \in File |-> None]
  /\ trust = [digest |-> None, pending |-> None]
  /\ lease = [by |-> None, live |-> FALSE]
  /\ journal = {}
  /\ job = [p \in Installer |-> Off]
  /\ strikes = 0 /\ forgets = 0

(* A plan is the tree it saw, the record it saw and the release it wants;  *)
(* a transition is the same thing without the record.                      *)
Saw(plan, f) == plan.saw[f]
Changes(plan) == {f \in File : plan.saw[f] # Wanted(plan.to, f)}
Ends(plan, f) == {Saw(plan, f), Wanted(plan.to, f)}
AsPlanned(plan, done) ==
  \A f \in File : project[f] = IF f \in done THEN Wanted(plan.to, f) ELSE Saw(plan, f)

Step(p, at) == job' = [job EXCEPT ![p].at = at]
Holds(p) == lease.by = p
Stop(p) == job' = [job EXCEPT ![p] = Off]
Unlocked(p) == lease' = IF Holds(p) THEN [by |-> None, live |-> FALSE] ELSE lease

(* heartbeat: the lock file is still the installer's own; it is renewed in *)
(* the same step.                                                          *)
Fenced(p) == Holds(p) /\ lease' = [lease EXCEPT !.live = TRUE]

Frozen == UNCHANGED <<strikes, forgets>>

-----------------------------------------------------------------------------
(* plan_install, plan_repair, plan_uninstall: nothing unsettled, all three *)
(* factors of authority, and every generated file as the last release left *)
(* it: otherwise the plan only reports.                                    *)
Plan(p, v) ==
  /\ job[p].at = "idle"
  /\ ~lease.live
  /\ journal = {}
  /\ trust.pending = None
  /\ v # trust.digest
  /\ \A f \in File : project[f] = Wanted(trust.digest, f)
  /\ job' = [job EXCEPT ![p] = [Off EXCEPT !.at = "planned",
               !.plan = [saw |-> project, from |-> trust.digest, to |-> v]]]
  /\ UNCHANGED <<project, trust, lease, journal>> /\ Frozen

(* AdapterLock.acquire: a free lock, or one whose owner is dead or has not *)
(* renewed it for too long.                                                *)
Acquire(p, from, to) ==
  /\ job[p].at = from
  /\ ~lease.live
  /\ lease' = [by |-> p, live |-> TRUE]
  /\ Step(p, to)
  /\ UNCHANGED <<project, trust, journal>> /\ Frozen

(* Under the lock: no intent, every planned target as the plan saw it, the *)
(* record as the plan saw it; then the record is marked pending.           *)
BeginTransition(p) ==
  LET plan == job[p].plan IN
    /\ job[p].at = "locked"
    /\ Holds(p)
    /\ journal = {}
    /\ AsPlanned(plan, {})
    /\ trust = [digest |-> plan.from, pending |-> None]
    /\ trust' = [trust EXCEPT !.pending = plan]
    /\ Step(p, "stage")
    /\ UNCHANGED <<project, lease, journal>> /\ Frozen

Refuse(p) ==
  LET plan == job[p].plan IN
    /\ job[p].at = "locked"
    /\ \/ ~Holds(p)
       \/ journal # {}
       \/ ~AsPlanned(plan, {})
       \/ trust # [digest |-> plan.from, pending |-> None]
    /\ Stop(p) /\ Unlocked(p)
    /\ UNCHANGED <<project, trust, journal>> /\ Frozen

(* The record and the plan are looked at again, everything is staged, and  *)
(* then, behind one more heartbeat, the intent is written.                 *)
Stage(p) ==
  /\ job[p].at = "stage"
  /\ trust.pending = job[p].plan
  /\ AsPlanned(job[p].plan, {})
  /\ Step(p, "staged")
  /\ UNCHANGED <<project, trust, lease, journal>> /\ Frozen

WriteIntent(p) ==
  /\ job[p].at = "staged"
  /\ Fenced(p)
  /\ journal' = journal \cup {[by |-> p, plan |-> job[p].plan]}
  /\ job' = [job EXCEPT ![p].at = "apply", ![p].k = 1]
  /\ UNCHANGED <<project, trust>> /\ Frozen

-----------------------------------------------------------------------------
(* The file an installer is at; files the transition does not change are   *)
(* not part of the transaction.                                            *)
Current(p) == job[p].k
Done(p) == {f \in Changes(job[p].plan) : f < Current(p)}
First(plan, f) == \A g \in Changes(plan) : f <= g

(* What apply checks before it moves file f: the record, the file itself,  *)
(* and before the first file and the manifest the whole plan.              *)
Ready(p, f) ==
  LET plan == job[p].plan IN
    /\ trust.pending = plan
    /\ project[f] = Saw(plan, f)
    /\ f = N \/ First(plan, f) => AsPlanned(plan, Done(p))

Skip(p) ==
  /\ job[p].at = "apply"
  /\ Current(p) < N
  /\ Current(p) \notin Changes(job[p].plan)
  /\ job' = [job EXCEPT ![p].k = @ + 1]
  /\ UNCHANGED <<project, trust, lease, journal>> /\ Frozen

(* A new file is reserved as an empty file first, then replaced.           *)
Reserve(p) ==
  LET f == Current(p) IN
    /\ job[p].at = "apply"
    /\ Fenced(p)
    /\ f \in Changes(job[p].plan)
    /\ Ready(p, f)
    /\ Saw(job[p].plan, f) = None
    /\ project' = [project EXCEPT ![f] = Empty]
    /\ job' = [job EXCEPT ![p].at = "reserved", ![p].held = TRUE]
    /\ UNCHANGED <<trust, journal>> /\ Frozen

(* Fault: one file too far. *)
MovedPast(p) ==
  LET f == Current(p) IN
    job' = [job EXCEPT ![p].at = IF f = N THEN "commit" ELSE "apply",
                       ![p].k = f + 1,
                       ![p].held = FALSE]

Moved(p) ==
  LET f == Current(p) IN
    job' = [job EXCEPT ![p].at = IF f = N THEN "commit" ELSE "apply",
                       ![p].k = IF f = N THEN N ELSE f + 1,
                       ![p].held = FALSE]

FillReservation(p) ==
  LET f == Current(p) IN
    /\ job[p].at = "reserved"
    /\ project[f] = Empty
    /\ project' = [project EXCEPT ![f] = Wanted(job[p].plan.to, f)]
    /\ Moved(p)
    /\ UNCHANGED <<trust, lease, journal>> /\ Frozen

(* A file that is there is replaced, or moved away, by one rename.         *)
ReplaceOrRemove(p) ==
  LET f == Current(p) IN
    /\ job[p].at = "apply"
    /\ Fenced(p)
    /\ f \in Changes(job[p].plan)
    /\ Ready(p, f)
    /\ Saw(job[p].plan, f) # None
    /\ project' = [project EXCEPT ![f] = Wanted(job[p].plan.to, f)]
    /\ Moved(p)
    /\ UNCHANGED <<trust, journal>> /\ Frozen

(* Any check that fails before the manifest is in place: roll back.        *)
FailForward(p) ==
  LET f == Current(p) IN
    /\ \/ /\ job[p].at = "apply"
          /\ f \in Changes(job[p].plan)
          /\ ~Holds(p) \/ ~Ready(p, f)
          /\ job' = [job EXCEPT ![p].at = "undo", ![p].k = f - 1]
       \/ /\ job[p].at = "reserved" /\ project[f] # Empty
          /\ Step(p, "undo")
       \/ /\ job[p].at = "commit"
          /\ ~Holds(p) \/ ~AsPlanned(job[p].plan, Changes(job[p].plan))
          /\ Step(p, "undo")
    /\ UNCHANGED <<project, trust, lease, journal>> /\ Frozen

(* _rollback, from the last file touched back to the first: a file at its  *)
(* preimage is left, one at its postimage or at the installer's own        *)
(* reservation goes back; anything else ends the attempt.                  *)
(* Fault: the rollback does not look at what it replaces.                 *)
UndoableBlindly(p, f) == TRUE

Undoable(p, f) ==
  f \in Changes(job[p].plan) =>
    project[f] \in Ends(job[p].plan, f) \/ (job[p].held /\ project[f] = Empty)

PutBack(plan, f) ==
  project' = IF f \in Changes(plan) THEN [project EXCEPT ![f] = Saw(plan, f)] ELSE project

Undo(p) ==
  LET f == Current(p) IN
    /\ job[p].at = "undo"
    /\ f > 0
    /\ Fenced(p)
    /\ Undoable(p, f)
    /\ PutBack(job[p].plan, f)
    /\ job' = [job EXCEPT ![p] = [@ EXCEPT !.k = f - 1, !.held = FALSE]]
    /\ UNCHANGED <<trust, journal>> /\ Frozen

(* Fault: a failed rollback removes the intent all the same.              *)
RetireUnverified(p) ==
  /\ Fenced(p)
  /\ \/ job[p].at \in {"undo", "restore"}
     \/ job[p].at \in {"commit", "finish"} /\ \A f \in Changes(job[p].plan) :
                                                 project[f] = Wanted(job[p].plan.to, f)
  /\ journal' = {i \in journal : i.plan # job[p].plan}
  /\ Step(p, "settle")
  /\ UNCHANGED <<project, trust>> /\ Frozen

(* The intent is removed once all its files are at one end: all at the     *)
(* postimage after the manifest, all at the preimage after a rollback.     *)
Retire(p) ==
  LET plan == job[p].plan IN
    /\ Fenced(p)
    /\ \/ job[p].at = "commit" /\ AsPlanned(plan, Changes(plan))
       \/ /\ job[p].at \in {"undo", "restore"}
          /\ Current(p) = 0
          /\ \A f \in Changes(plan) : project[f] = Saw(plan, f)
       \/ /\ job[p].at = "finish"
          /\ \A f \in Changes(plan) : project[f] = Wanted(plan.to, f)
    /\ job[p].at \in {"restore", "finish"} => trust.pending = plan
    /\ journal' = {i \in journal : i.plan # plan}
    /\ Step(p, "settle")
    /\ UNCHANGED <<project, trust>> /\ Frozen

(* A rollback or a recovery that cannot go on: the intent stays.           *)
Abandon(p) ==
  LET plan == job[p].plan IN
    /\ \/ job[p].at \in {"undo", "restore"}
          /\ \/ ~Holds(p)
             \/ Current(p) > 0 /\ ~Undoable(p, Current(p))
             \/ Current(p) = 0 /\ \E f \in Changes(plan) : project[f] # Saw(plan, f)
             \/ job[p].at = "restore" /\ trust.pending # plan
       \/ /\ job[p].at = "finish"
          /\ \/ ~Holds(p)
             \/ \E f \in Changes(plan) : project[f] # Wanted(plan.to, f)
             \/ trust.pending # plan
       \/ job[p].at = "stage" /\ (trust.pending # plan \/ ~AsPlanned(plan, {}))
       \/ job[p].at = "staged" /\ ~Holds(p)
    /\ Step(p, "settle")
    /\ UNCHANGED <<project, trust, lease, journal>> /\ Frozen

(* Fault: the record is settled on what was planned.                      *)
SettleOnTarget(p) ==
  /\ job[p].at = "settle"
  /\ trust' = IF journal = {} /\ trust.pending = job[p].plan
              THEN [digest |-> job[p].plan.to, pending |-> None]
              ELSE trust
  /\ Stop(p) /\ Unlocked(p)
  /\ UNCHANGED <<project, journal>> /\ Frozen

(* The record is settled on the manifest that is there, never on a guess,  *)
(* and only if no intent is left and the pending entry is still the same.  *)
Settle(p) ==
  LET plan == job[p].plan IN
    /\ job[p].at = "settle"
    /\ trust' = IF journal = {} /\ trust.pending = plan /\ project[N] \in {plan.from, plan.to}
                THEN [digest |-> project[N], pending |-> None]
                ELSE trust
    /\ Stop(p) /\ Unlocked(p)
    /\ UNCHANGED <<project, journal>> /\ Frozen

-----------------------------------------------------------------------------
(* recover: there is an intent or a pending record.                        *)
StartRecovery(p) ==
  /\ job[p].at = "idle"
  /\ journal # {} \/ trust.pending # None
  /\ ~lease.live
  /\ lease' = [by |-> p, live |-> TRUE]
  /\ Step(p, "classify")
  /\ UNCHANGED <<project, trust, journal>> /\ Frozen

(* The intent and the pending record must be one transition, the manifest  *)
(* at one of its ends: if every file is at its postimage the transaction   *)
(* is finished, if the manifest is at its preimage and every file at one   *)
(* of its ends it is undone.                                               *)
Bound(plan) == Cardinality(journal) = 1 /\ \A i \in journal : i.plan = plan
AllPost(plan) == \A f \in Changes(plan) : project[f] = Wanted(plan.to, f)
(* Fault: only a transaction that moved nothing is undone.                *)
RestorableUntouched(plan) == \A f \in Changes(plan) : project[f] = Saw(plan, f)

Restorable(plan) ==
  project[N] = plan.from /\ \A f \in Changes(plan) : project[f] \in Ends(plan, f)

Resolvable(plan) ==
  /\ plan # None
  /\ journal = {} \/ (Bound(plan) /\ (AllPost(plan) \/ Restorable(plan)))

Classify(p) ==
  LET plan == trust.pending IN
    /\ job[p].at = "classify"
    /\ Fenced(p)
    /\ Resolvable(plan)
    /\ \/ /\ journal = {}
          /\ job' = [job EXCEPT ![p] = [Off EXCEPT !.at = "settle", !.plan = plan]]
       \/ /\ journal # {} /\ AllPost(plan)
          /\ job' = [job EXCEPT ![p] = [Off EXCEPT !.at = "finish", !.plan = plan]]
       \/ /\ journal # {} /\ ~AllPost(plan)
          /\ job' = [job EXCEPT ![p] = [Off EXCEPT !.at = "restore", !.plan = plan, !.k = N]]
    /\ UNCHANGED <<project, trust, journal>> /\ Frozen

(* recovery_conflict: zero automatic writes.                               *)
Conflict(p) ==
  /\ job[p].at = "classify"
  /\ ~Holds(p) \/ ~Resolvable(trust.pending)
  /\ Stop(p) /\ Unlocked(p)
  /\ UNCHANGED <<project, trust, journal>> /\ Frozen

(* One file back, with the fence, the intent, the record and the file      *)
(* looked at again.                                                        *)
Restore(p) ==
  LET f == Current(p) plan == job[p].plan IN
    /\ job[p].at = "restore"
    /\ f > 0
    /\ Fenced(p)
    /\ Bound(plan)
    /\ trust.pending = plan
    /\ Undoable(p, f)
    /\ PutBack(plan, f)
    /\ job' = [job EXCEPT ![p].k = f - 1]
    /\ UNCHANGED <<trust, journal>> /\ Frozen

-----------------------------------------------------------------------------
(* forget drops the trust record, without the project lock.                *)
Forget ==
  /\ forgets < MaxForgets
  /\ trust # [digest |-> None, pending |-> None]
  /\ forgets' = forgets + 1
  /\ trust' = [digest |-> None, pending |-> None]
  /\ UNCHANGED <<project, lease, journal, job, strikes>>

(* An install over untracked files that are exactly those of their own     *)
(* manifest only writes the record back; planned and checked under the     *)
(* lock, in one step here since it moves no file.                          *)
Adopt(p, v) ==
  /\ job[p].at = "idle"
  /\ ~lease.live
  /\ journal = {}
  /\ trust = [digest |-> None, pending |-> None]
  /\ project[N] = v
  /\ \A f \in File : project[f] = Wanted(v, f)
  /\ trust' = [digest |-> v, pending |-> None]
  /\ UNCHANGED <<project, lease, journal, job>> /\ Frozen

(* The user writes into a generated file.                                  *)
EditFile(f, e) ==
  /\ f # N
  /\ strikes < MaxStrikes
  /\ strikes' = strikes + 1
  /\ \A g \in File : project[g] # e
  /\ project' = [project EXCEPT ![f] = e]
  /\ UNCHANGED <<trust, lease, journal, job, forgets>>

(* An installer dies, or sleeps for longer than its lease lasts.           *)
Die(p) ==
  /\ job[p].at # "idle"
  /\ strikes < MaxStrikes
  /\ strikes' = strikes + 1
  /\ Stop(p)
  /\ lease' = IF Holds(p) THEN [lease EXCEPT !.live = FALSE] ELSE lease
  /\ UNCHANGED <<project, trust, journal, forgets>>

Oversleep(p) ==
  /\ Holds(p) /\ lease.live
  /\ strikes < MaxStrikes
  /\ strikes' = strikes + 1
  /\ lease' = [lease EXCEPT !.live = FALSE]
  /\ UNCHANGED <<project, trust, journal, job, forgets>>

Apply(p) ==
  \/ Acquire(p, "planned", "locked") \/ BeginTransition(p) \/ Refuse(p)
  \/ Stage(p) \/ WriteIntent(p)
  \/ Skip(p) \/ Reserve(p) \/ FillReservation(p) \/ ReplaceOrRemove(p)
  \/ FailForward(p) \/ Undo(p) \/ Retire(p) \/ Abandon(p) \/ Settle(p)
Recover(p) == StartRecovery(p) \/ Classify(p) \/ Conflict(p) \/ Restore(p)

AdapterNext ==
  \/ \E p \in Installer :
       \/ \E v \in Release \cup {None} : Plan(p, v)
       \/ \E v \in Release : Adopt(p, v)
       \/ Apply(p) \/ Recover(p)
       \/ Die(p) \/ Oversleep(p)
  \/ \E f \in File, e \in Edit : EditFile(f, e)
  \/ Forget

(* Calls that were started go on, and somebody runs recover.               *)
AdapterFairness == \A p \in Installer : WF_adapterVars(Apply(p) \/ Recover(p))

AdapterSpec == AdapterInit /\ [][AdapterNext]_adapterVars
FairAdapterSpec == AdapterSpec /\ AdapterFairness

-----------------------------------------------------------------------------
Content == Release \cup Edit \cup {None, Empty}
PlanRecord == [saw : [File -> Content], from : Release \cup {None}, to : Release \cup {None}]

AdapterTypeOK ==
  /\ project \in [File -> Content]
  /\ trust \in [digest : Release \cup {None}, pending : PlanRecord \cup {None}]
  /\ lease \in [by : Installer \cup {None}, live : BOOLEAN]
  /\ journal \subseteq [by : Installer, plan : PlanRecord]
  /\ \A p \in Installer : job[p].plan \in PlanRecord \cup {None} /\ job[p].k \in 0..N

(* A trusted digest stands for a whole installation: with no transition    *)
(* pending, the manifest is the trusted one and every generated file is of *)
(* that release or was edited by the user.  Never half of two releases,    *)
(* whatever crashed, overslept or was recovered by whom.                   *)
TrustedIsWhole ==
  trust.digest # None /\ trust.pending = None
    => /\ project[N] = trust.digest
       /\ \A f \in File : project[f] \in {Wanted(trust.digest, f)} \cup Edit

(* Files are between two releases only under the one intent that tells how *)
(* to put them back; with two of them nothing could be recovered any more. *)
TornOnlyUnderIntent ==
  /\ \A i, j \in journal : i = j
  /\ journal = {} => \E v \in Release \cup {None} :
                        \A f \in File : project[f] \in {Wanted(v, f)} \cup Edit

(* What the user wrote is never overwritten, moved or deleted, neither by  *)
(* an installation nor by its rollback nor by a recovery.                  *)
EditsSurvive ==
  [][\A f \in File : project[f] \in Edit => project'[f] \in Edit]_adapterVars

(* An interrupted installation is finished or undone once somebody runs    *)
(* recover, unless the user edited one of its files, the record was        *)
(* forgotten, or the crash came between a reservation and its replacement. *)
(* With an empty journal there is nothing to wait for, so that             *)
(* journal # {} ~> journal = {} \/ Disturbed is the same formula.          *)
Disturbed ==
  \/ trust.pending = None
  \/ \E f \in File : project[f] \in Edit \cup {Empty}

InterruptedInstallsEnd == []<>(journal = {} \/ Disturbed)

(* The reference manual: the flushed intent makes a partial application    *)
(* recoverable.  Without edits and without forget every crash is.          *)
EveryCrashIsRecoverable == journal # {} ~> journal = {}
=============================================================================
