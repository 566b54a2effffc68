---------------------------- MODULE DerivedProofs ----------------------------
(***************************************************************************)
(* Theorems about what is derived from a context: installations of agent   *)
(* adapters are whole or can be put back, for any installers, releases and *)
(* files; the index and the views, for any transactions, rebuilds and      *)
(* viewers; the context packs, for any contents of the index and any       *)
(* number of rebuilds; and the checkpoints, for any items.                 *)
(***************************************************************************)
EXTENDS Derived, SequenceTheorems, TLAPS
-----------------------------------------------------------------------------
(* What is assumed of the constants: every release has its manifest, and   *)
(* contents are told apart.                                                *)
AdapterConstants ==
  /\ N \in Nat \ {0}
  /\ Owns \in [Release -> SUBSET (1..N)]
  /\ \A v \in Release : N \in Owns[v]
  /\ None \notin Release \cup Edits \cup Installer \cup A!PlanRecord
  /\ Empty \notin Release \cup Edits \cup {None}
  /\ Release \cap Edits = {}

(* A plan as plan_install makes it: what it saw is a whole release, and it  *)
(* wants another one.                                                      *)
InstallPlan(plan) ==
  /\ plan \in A!PlanRecord
  /\ plan # None
  /\ plan.from # plan.to
  /\ \A f \in A!File : A!Saw(plan, f) = A!Wanted(plan.from, f)

Installs == [at : {"idle", "planned", "locked", "stage", "staged", "apply", "reserved",
                   "commit", "undo", "settle", "classify", "finish", "restore"},
             plan : A!PlanRecord \cup {None}, k : 0..N, held : BOOLEAN]

InstallsTyped ==
  /\ project \in [A!File -> A!Content]
  /\ trust \in [digest : Release \cup {None}, pending : A!PlanRecord \cup {None}]
  /\ lease \in [by : Installer \cup {None}, live : BOOLEAN]
  /\ journal \subseteq [by : Installer, plan : A!PlanRecord]
  /\ job \in [Installer -> Installs]

PlansStand ==
  /\ \A p \in Installer : job[p].at \notin {"idle", "classify"} => InstallPlan(job[p].plan)
  /\ trust.pending # None => InstallPlan(trust.pending)
  /\ \A i \in journal : InstallPlan(i.plan)

OneIntent == \A i, j \in journal : i = j

Untouched(plan) == \A f \in A!File : project[f] \in {A!Saw(plan, f)} \cup Edits

HolderKnows ==
  \A p \in Installer : A!Holds(p) =>
    /\ job[p].at \in {"stage", "staged"} => journal = {}
    /\ job[p].at = "staged" => Untouched(job[p].plan)
    /\ job[p].at \in {"apply", "undo", "commit"}
         => [by |-> p, plan |-> job[p].plan] \in journal
    /\ job[p].at \in {"finish", "restore"}
         => ~job[p].held /\ \E i \in journal : i.plan = job[p].plan

ReservationsLast ==
  \A p \in Installer : job[p].at = "reserved" =>
    /\ [by |-> p, plan |-> job[p].plan] \in journal
    /\ A!Current(p) \in A!Changes(job[p].plan)
    /\ project[A!Current(p)] \in {Empty} \cup Edits

BetweenEnds ==
  \A i \in journal, f \in A!File :
    \/ project[f] \in A!Ends(i.plan, f) \cup Edits
    \/ project[f] = Empty /\ f \in A!Changes(i.plan)

WholeWithoutIntent ==
  journal = {} =>
    /\ project[N] \in Release \cup {None}
    /\ \A f \in A!File : project[f] \in {A!Wanted(project[N], f)} \cup Edits

TrustHolds ==
  trust.pending = None /\ trust.digest # None =>
    /\ journal = {} => project[N] = trust.digest
    /\ \A i \in journal : i.plan.from = trust.digest /\ Untouched(i.plan)

ManifestUnedited == project[N] \notin Edits

InstallsInv ==
  /\ InstallsTyped /\ PlansStand /\ OneIntent /\ HolderKnows /\ ReservationsLast
  /\ BetweenEnds /\ ManifestUnedited /\ WholeWithoutIntent /\ TrustHolds

-----------------------------------------------------------------------------
LEMMA ReleasesAreContents ==
  ASSUME AdapterConstants
  PROVE  /\ N \in A!File
         /\ \A v \in Release \cup {None} : A!Wanted(v, N) = v
         /\ \A v \in Release \cup {None}, f \in A!File :
              A!Wanted(v, f) \in Release \cup {None}
         /\ \A v \in Release \cup {None} : v \notin Edits /\ v # Empty
         /\ Empty \notin Edits
BY SMT DEF AdapterConstants, A!File, A!Wanted

LEMMA OffIsIdle ==
  ASSUME AdapterConstants
  PROVE  A!Off \in Installs /\ A!Off.at = "idle"
BY SMT DEF AdapterConstants, A!Off, Installs

LEMMA PlansAreOfReleases ==
  ASSUME AdapterConstants, NEW plan, InstallPlan(plan)
  PROVE  /\ plan.from \in Release \cup {None} /\ plan.to \in Release \cup {None}
         /\ \A f \in A!File : /\ A!Saw(plan, f) \in Release \cup {None}
                              /\ A!Wanted(plan.to, f) \in Release \cup {None}
                              /\ A!Ends(plan, f) \cap (Edits \cup {Empty}) = {}
         /\ A!Saw(plan, N) = plan.from /\ A!Wanted(plan.to, N) = plan.to
         /\ N \in A!Changes(plan)
<1>1. plan \in A!PlanRecord /\ plan.from # plan.to
  BY DEF InstallPlan
<1>2. plan.from \in Release \cup {None} /\ plan.to \in Release \cup {None}
  BY <1>1 DEF A!PlanRecord
<1> QED
  BY <1>1, <1>2, ReleasesAreContents DEF InstallPlan, A!Saw, A!Ends, A!Changes

(* What every move of a file keeps: of an installation, of its rollback and *)
(* of a recovery.                                                          *)
LEMMA MovesStayBetween ==
  ASSUME AdapterConstants, InstallsInv,
         NEW i \in journal, NEW f \in A!Changes(i.plan), NEW c,
         c \in A!Ends(i.plan, f) \cup {Empty},
         project' = [project EXCEPT ![f] = c], journal' = journal
  PROVE  BetweenEnds' /\ ManifestUnedited' /\ WholeWithoutIntent'
<1>1. InstallPlan(i.plan) /\ f \in A!File
  BY DEF InstallsInv, PlansStand, A!Changes
<1>2. \A g \in A!File : project'[g] = IF g = f THEN c ELSE project[g]
  BY SMT DEF InstallsInv, InstallsTyped
<1>3. BetweenEnds'
  <2> SUFFICES ASSUME NEW j \in journal, NEW g \in A!File
               PROVE  \/ project'[g] \in A!Ends(j.plan, g) \cup Edits
                      \/ project'[g] = Empty /\ g \in A!Changes(j.plan)
    BY DEF BetweenEnds, A!Ends, A!Changes, A!Saw
  <2>1. j = i
    BY DEF InstallsInv, OneIntent
  <2> QED
    BY <1>2, <2>1 DEF InstallsInv, BetweenEnds
<1>4. c \notin Edits
  BY <1>1, PlansAreOfReleases, ReleasesAreContents
<1>5. ManifestUnedited'
  BY <1>2, <1>4, ReleasesAreContents DEF InstallsInv, ManifestUnedited
<1>6. WholeWithoutIntent'
  BY DEF WholeWithoutIntent
<1> QED
  BY <1>3, <1>5, <1>6

(* The one intent of an installation at work.                              *)
LEMMA MovesAreTheHolders ==
  ASSUME AdapterConstants, InstallsInv, NEW p \in Installer,
         \/ job[p].at = "reserved"
         \/ A!Holds(p) /\ job[p].at \in {"apply", "commit", "undo", "finish", "restore"}
  PROVE  /\ \E i \in journal : i.plan = job[p].plan
         /\ InstallPlan(job[p].plan)
         /\ job[p].at \notin {"finish", "restore"} => [by |-> p, plan |-> job[p].plan] \in journal
<1>1. job[p].at \notin {"finish", "restore"} => [by |-> p, plan |-> job[p].plan] \in journal
  BY DEF InstallsInv, HolderKnows, ReservationsLast
<1>2. InstallPlan(job[p].plan)
  BY DEF InstallsInv, PlansStand
<1>3. \E i \in journal : i.plan = job[p].plan
  <2>1. CASE job[p].at \in {"finish", "restore"}
    BY <2>1 DEF InstallsInv, HolderKnows
  <2>2. CASE job[p].at \notin {"finish", "restore"}
    BY <1>1, <2>2
  <2> QED
    BY <2>1, <2>2
<1> QED
  BY <1>1, <1>2, <1>3

(* A reservation outlasts the work of the others.                          *)
LEMMA OthersReservationsLast ==
  ASSUME AdapterConstants, InstallsInv, NEW p \in Installer,
         \A q \in Installer \ {p} : job'[q] = job[q],
         journal' = journal,
         \A q \in Installer \ {p} : job[q].at = "reserved" =>
           project'[job[q].k] \in {Empty, project[job[q].k]},
         job'[p].at # "reserved"
  PROVE  ReservationsLast'
<1> SUFFICES ASSUME NEW q \in Installer, job'[q].at = "reserved"
             PROVE  /\ [by |-> q, plan |-> job'[q].plan] \in journal
                    /\ job'[q].k \in A!Changes(job'[q].plan)
                    /\ project'[job'[q].k] \in {Empty} \cup Edits
  BY DEF ReservationsLast, A!Current, A!Changes, A!Saw
<1>1. q # p /\ job'[q] = job[q]
  OBVIOUS
<1> QED
  BY <1>1 DEF InstallsInv, ReservationsLast, A!Current

(* What becomes of an attempt that fails, and of one that is recovered.    *)
LEMMA FailForwardTurns ==
  ASSUME InstallsInv, NEW p \in Installer, A!FailForward(p)
  PROVE  /\ job'[p].plan = job[p].plan /\ job'[p].at = "undo"
         /\ job[p].at \in {"apply", "reserved", "commit"}
         /\ \A q \in Installer \ {p} : job'[q] = job[q]
<1>1. job \in [Installer -> Installs]
  BY DEF InstallsInv, InstallsTyped
<1>2. \/ job' = [job EXCEPT ![p].at = "undo", ![p].k = job[p].k - 1]
      \/ job' = [job EXCEPT ![p].at = "undo"]
  BY DEF A!FailForward, A!Step, A!Current
<1>3. job[p].at \in {"apply", "reserved", "commit"}
  BY DEF A!FailForward
<1>4. job'[p].plan = job[p].plan /\ job'[p].at = "undo"
  <2>1. CASE job' = [job EXCEPT ![p].at = "undo", ![p].k = job[p].k - 1]
    BY <1>1, <2>1, Zenon DEF Installs
  <2>2. CASE job' = [job EXCEPT ![p].at = "undo"]
    BY <1>1, <2>2, Zenon DEF Installs
  <2> QED
    BY <1>2, <2>1, <2>2
<1>5. \A q \in Installer \ {p} : job'[q] = job[q]
  BY <1>1, <1>2
<1> QED
  BY <1>3, <1>4, <1>5

LEMMA ClassifyTurns ==
  ASSUME AdapterConstants, InstallsInv, NEW p \in Installer, A!Classify(p)
  PROVE  /\ job' \in [Installer -> Installs]
         /\ job'[p].at \in {"settle", "finish", "restore"} /\ ~job'[p].held
         /\ job'[p].plan = trust.pending
         /\ job'[p].at # "settle" => journal # {}
         /\ \A q \in Installer \ {p} : job'[q] = job[q]
<1> DEFINE plan == trust.pending
<1>1. job \in [Installer -> Installs]
  BY DEF InstallsInv, InstallsTyped
<1>2. plan \in A!PlanRecord \cup {None} /\ N \in 0..N
  BY DEF InstallsInv, InstallsTyped, AdapterConstants
<1>3. PICK off : off = A!Off
  OBVIOUS
<1>4. off \in Installs /\ ~off.held
  BY <1>3, OffIsIdle, Zenon DEF A!Off
<1> HIDE DEF plan
<1>5. PICK x : /\ job' = [job EXCEPT ![p] = x]
               /\ \/ journal = {} /\ x = [off EXCEPT !.at = "settle", !.plan = plan]
                  \/ journal # {} /\ x = [off EXCEPT !.at = "finish", !.plan = plan]
                  \/ journal # {} /\ x = [off EXCEPT !.at = "restore", !.plan = plan, !.k = N]
  BY <1>3 DEF A!Classify, plan
<1>6. /\ x \in Installs /\ x.at \in {"settle", "finish", "restore"} /\ ~x.held
      /\ x.plan = plan /\ (x.at # "settle" => journal # {})
  BY <1>2, <1>4, <1>5, Zenon DEF Installs
<1>7. job'[p] = x /\ job' \in [Installer -> Installs]
  BY <1>1, <1>5, <1>6
<1>8. \A q \in Installer \ {p} : job'[q] = job[q]
  BY <1>1, <1>5
<1> QED
  BY <1>6, <1>7, <1>8 DEF plan

LEMMA MovedIsTyped ==
  ASSUME AdapterConstants, InstallsInv, NEW p \in Installer, A!Moved(p)
  PROVE  job' \in [Installer -> Installs]
<1>1. job \in [Installer -> Installs] /\ N \in Nat \ {0}
  BY DEF InstallsInv, InstallsTyped, AdapterConstants
<1> DEFINE at == IF job[p].k = N THEN "commit" ELSE "apply"
           k  == IF job[p].k = N THEN N ELSE job[p].k + 1
<1>2. k \in 0..N
  BY <1>1, SMT DEF Installs
<1>3. at \in {"commit", "apply"}
  OBVIOUS
<1>4. job' = [job EXCEPT ![p] = [job[p] EXCEPT !.at = at, !.k = k, !.held = FALSE]]
  BY Zenon DEF A!Moved, A!Current
<1> HIDE DEF at, k
<1>5. [job[p] EXCEPT !.at = at, !.k = k, !.held = FALSE] \in Installs
  BY <1>1, <1>2, <1>3, Zenon DEF Installs
<1> QED
  BY <1>1, <1>4, <1>5

LEMMA PlanKeeps ==
  ASSUME AdapterConstants, InstallsInv, NEW p \in Installer, NEW v \in Release \cup {None},
         A!Plan(p, v)
  PROVE  InstallsInv'
<1>1. InstallsTyped'
  <2> DEFINE plan == [saw |-> project, from |-> trust.digest, to |-> v]
  <2>1. plan \in A!PlanRecord \cup {None}
    BY DEF InstallsInv, InstallsTyped, A!PlanRecord
  <2> HIDE DEF plan
  <2>2. [A!Off EXCEPT !.at = "planned", !.plan = plan] \in Installs
    BY <2>1, OffIsIdle, Zenon DEF Installs
  <2>3. job' = [job EXCEPT ![p] = [A!Off EXCEPT !.at = "planned", !.plan = plan]]
    BY DEF A!Plan, plan
  <2> QED
    BY <2>2, <2>3, SMT DEF InstallsInv, InstallsTyped, A!Plan, A!Frozen
<1>2. PlansStand'
  <2> DEFINE plan == [saw |-> project, from |-> trust.digest, to |-> v]
  <2>1. InstallPlan(plan)
    <3>1. plan \in A!PlanRecord
      BY DEF InstallsInv, InstallsTyped, A!PlanRecord
    <3> QED
      BY <3>1 DEF AdapterConstants, A!Plan, InstallPlan, A!Saw
  <2>2. job'[p].plan = plan
    BY SMT DEF InstallsInv, InstallsTyped, A!Plan, A!Off
  <2> HIDE DEF plan
  <2>3. ASSUME NEW q \in Installer, job'[q].at \notin {"idle", "classify"}
        PROVE  InstallPlan(job'[q].plan)
    <3>1. CASE q = p
      BY <2>1, <2>2, <3>1
    <3>2. CASE q # p
      BY <2>3, <3>2 DEF InstallsInv, InstallsTyped, PlansStand, A!Plan
    <3> QED
      BY <3>1, <3>2
  <2> QED
    BY <2>3 DEF InstallsInv, PlansStand, A!Plan, InstallPlan, A!Saw
<1>3. OneIntent'
  BY DEF A!Plan, OneIntent
<1>4. HolderKnows'
  BY DEF InstallsInv, A!Plan, HolderKnows, A!Holds, Untouched
<1>5. ReservationsLast'
  BY DEF InstallsInv, A!Plan, ReservationsLast
<1>6. BetweenEnds'
  BY DEF A!Plan, BetweenEnds
<1>7. ManifestUnedited'
  BY DEF InstallsInv, A!Plan, ManifestUnedited
<1>8. WholeWithoutIntent'
  BY DEF InstallsInv, A!Plan, WholeWithoutIntent
<1>9. TrustHolds'
  BY DEF InstallsInv, A!Plan, TrustHolds
<1> QED
  BY <1>1, <1>2, <1>3, <1>4, <1>5, <1>6, <1>7, <1>8, <1>9 DEF InstallsInv

LEMMA AcquireKeeps ==
  ASSUME AdapterConstants, InstallsInv, NEW p \in Installer, A!Acquire(p, "planned", "locked")
  PROVE  InstallsInv'
<1>1. InstallsTyped'
  BY DEF InstallsInv, InstallsTyped, A!Acquire, A!Step, Installs
<1>2. PlansStand'
  BY DEF InstallsInv, A!Acquire, A!Step, PlansStand
<1>3. OneIntent'
  BY DEF InstallsInv, A!Acquire, OneIntent
<1>4. HolderKnows'
  BY DEF A!Acquire, A!Step, HolderKnows, A!Holds
<1>5. ReservationsLast'
  BY DEF InstallsInv, A!Acquire, A!Step, ReservationsLast, A!Current
<1>6. BetweenEnds'
  BY DEF InstallsInv, A!Acquire, BetweenEnds
<1>7. ManifestUnedited'
  BY DEF InstallsInv, A!Acquire, ManifestUnedited
<1>8. WholeWithoutIntent'
  BY DEF InstallsInv, A!Acquire, WholeWithoutIntent
<1>9. TrustHolds'
  BY DEF InstallsInv, A!Acquire, TrustHolds, Untouched
<1> QED
  BY <1>1, <1>2, <1>3, <1>4, <1>5, <1>6, <1>7, <1>8, <1>9 DEF InstallsInv

LEMMA BeginTransitionKeeps ==
  ASSUME AdapterConstants, InstallsInv, NEW p \in Installer, A!BeginTransition(p)
  PROVE  InstallsInv'
<1>1. InstallsTyped'
  BY DEF InstallsInv, InstallsTyped, A!BeginTransition, A!Step, Installs
<1>2. PlansStand'
  BY DEF InstallsInv, A!BeginTransition, A!Step, PlansStand
<1>3. OneIntent'
  BY DEF A!BeginTransition, OneIntent
<1>4. HolderKnows'
  BY DEF A!BeginTransition, A!Step, A!Holds, HolderKnows
<1>5. ReservationsLast'
  BY DEF InstallsInv, A!BeginTransition, A!Step, ReservationsLast
<1>6. BetweenEnds'
  BY DEF A!BeginTransition, BetweenEnds
<1>7. ManifestUnedited'
  BY DEF InstallsInv, A!BeginTransition, ManifestUnedited
<1>8. WholeWithoutIntent'
  BY DEF InstallsInv, A!BeginTransition, WholeWithoutIntent
<1>9. TrustHolds'
  BY DEF InstallsInv, A!BeginTransition, TrustHolds
<1> QED
  BY <1>1, <1>2, <1>3, <1>4, <1>5, <1>6, <1>7, <1>8, <1>9 DEF InstallsInv

LEMMA RefuseKeeps ==
  ASSUME AdapterConstants, InstallsInv, NEW p \in Installer, A!Refuse(p)
  PROVE  InstallsInv'
<1>1. InstallsTyped'
  BY OffIsIdle DEF InstallsInv, InstallsTyped, A!Refuse, A!Stop, A!Unlocked
<1>2. PlansStand'
  BY OffIsIdle DEF InstallsInv, A!Refuse, A!Stop, PlansStand
<1>3. OneIntent'
  BY DEF InstallsInv, A!Refuse, OneIntent
<1>4. HolderKnows'
  BY DEF InstallsInv, A!Refuse, A!Stop, A!Unlocked, A!Holds, HolderKnows, Untouched,
     AdapterConstants
<1>5. ReservationsLast'
  BY OffIsIdle DEF InstallsInv, A!Refuse, A!Stop, ReservationsLast, A!Current
<1>6. BetweenEnds'
  BY DEF InstallsInv, A!Refuse, BetweenEnds
<1>7. ManifestUnedited'
  BY DEF InstallsInv, A!Refuse, ManifestUnedited
<1>8. WholeWithoutIntent'
  BY DEF InstallsInv, A!Refuse, WholeWithoutIntent
<1>9. TrustHolds'
  BY DEF InstallsInv, A!Refuse, TrustHolds, Untouched
<1> QED
  BY <1>1, <1>2, <1>3, <1>4, <1>5, <1>6, <1>7, <1>8, <1>9 DEF InstallsInv

LEMMA StageKeeps ==
  ASSUME AdapterConstants, InstallsInv, NEW p \in Installer, A!Stage(p)
  PROVE  InstallsInv'
<1>1. InstallsTyped'
  BY DEF InstallsInv, InstallsTyped, A!Stage, A!Step, Installs
<1>2. PlansStand'
  BY DEF InstallsInv, A!Stage, A!Step, PlansStand
<1>3. OneIntent'
  BY DEF InstallsInv, A!Stage, OneIntent
<1>4. HolderKnows'
  BY DEF InstallsInv, A!Stage, A!Step, A!AsPlanned, HolderKnows, A!Holds, Untouched
<1>5. ReservationsLast'
  BY DEF InstallsInv, A!Stage, A!Step, ReservationsLast, A!Current
<1>6. BetweenEnds'
  BY DEF InstallsInv, A!Stage, BetweenEnds
<1>7. ManifestUnedited'
  BY DEF InstallsInv, A!Stage, ManifestUnedited
<1>8. WholeWithoutIntent'
  BY DEF InstallsInv, A!Stage, WholeWithoutIntent
<1>9. TrustHolds'
  BY DEF InstallsInv, A!Stage, TrustHolds, Untouched
<1> QED
  BY <1>1, <1>2, <1>3, <1>4, <1>5, <1>6, <1>7, <1>8, <1>9 DEF InstallsInv

LEMMA WriteIntentKeeps ==
  ASSUME AdapterConstants, InstallsInv, NEW p \in Installer, A!WriteIntent(p)
  PROVE  InstallsInv'
<1>1. InstallsTyped'
  <2>1. project' \in [A!File -> A!Content]
    BY DEF InstallsInv, InstallsTyped, A!WriteIntent
  <2>2. trust' \in [digest : Release \cup {None}, pending : A!PlanRecord \cup {None}]
    BY DEF InstallsInv, InstallsTyped, A!WriteIntent
  <2>3. lease' \in [by : Installer \cup {None}, live : BOOLEAN]
    BY Zenon DEF InstallsInv, InstallsTyped, A!WriteIntent, A!Fenced, A!Holds, A!Frozen,
       AdapterConstants
  <2>4. journal' \subseteq [by : Installer, plan : A!PlanRecord]
    <3>1. job[p].plan \in A!PlanRecord
      BY DEF A!WriteIntent, InstallsInv, PlansStand, InstallPlan
    <3>2. journal' = journal \cup {[by |-> p, plan |-> job[p].plan]}
      BY DEF A!WriteIntent
    <3> QED
      BY <3>1, <3>2, SMT DEF InstallsInv, InstallsTyped
  <2>5. job' \in [Installer -> Installs]
    <3>1. job[p] \in Installs /\ N \in Nat \ {0}
      BY DEF InstallsInv, InstallsTyped, AdapterConstants
    <3>2. 1 \in 0..N
      BY <3>1, SMT DEF Installs, A!WriteIntent, A!Current
    <3> QED
      BY <3>1, <3>2, Zenon DEF InstallsInv, InstallsTyped, Installs, A!WriteIntent, A!Holds
  <2> QED
    BY <2>1, <2>2, <2>3, <2>4, <2>5 DEF InstallsTyped
<1>2. PlansStand'
  BY DEF InstallsInv, InstallsTyped, A!WriteIntent, PlansStand
<1>3. OneIntent'
  BY DEF A!WriteIntent, A!Fenced, InstallsInv, HolderKnows, OneIntent
<1>4. HolderKnows'
  BY DEF InstallsInv, InstallsTyped, A!WriteIntent, A!Fenced, A!Holds, HolderKnows
<1>5. ReservationsLast'
  BY DEF InstallsInv, InstallsTyped, A!WriteIntent, ReservationsLast, A!Current
<1>6. BetweenEnds'
  <2>1. journal' = {[by |-> p, plan |-> job[p].plan]} /\ project' = project
    BY DEF A!WriteIntent, A!Fenced, InstallsInv, HolderKnows
  <2>2. Untouched(job[p].plan)
    BY DEF A!WriteIntent, A!Fenced, InstallsInv, HolderKnows
  <2> QED
    BY <2>1, <2>2 DEF BetweenEnds, Untouched, A!Ends, A!Changes, A!Saw
<1>7. ManifestUnedited'
  BY DEF InstallsInv, A!WriteIntent, ManifestUnedited
<1>8. WholeWithoutIntent'
  BY DEF A!WriteIntent, WholeWithoutIntent
<1>9. TrustHolds'
  <2>1. /\ journal = {} /\ journal' = {[by |-> p, plan |-> job[p].plan]}
        /\ project' = project /\ trust' = trust
    BY DEF A!WriteIntent, A!Fenced, InstallsInv, HolderKnows
  <2>2. Untouched(job[p].plan) /\ InstallPlan(job[p].plan)
    BY DEF A!WriteIntent, A!Fenced, InstallsInv, HolderKnows, PlansStand
  <2>3. project[N] = job[p].plan.from
    BY <2>2, PlansAreOfReleases, ReleasesAreContents DEF Untouched, InstallsInv, ManifestUnedited
  <2>4. trust.pending = None /\ trust.digest # None => project[N] = trust.digest
    BY <2>1 DEF InstallsInv, TrustHolds
  <2> QED
    BY <2>1, <2>2, <2>3, <2>4 DEF TrustHolds, Untouched, A!Saw
<1> QED
  BY <1>1, <1>2, <1>3, <1>4, <1>5, <1>6, <1>7, <1>8, <1>9 DEF InstallsInv

LEMMA SkipKeeps ==
  ASSUME AdapterConstants, InstallsInv, NEW p \in Installer, A!Skip(p)
  PROVE  InstallsInv'
<1>1. InstallsTyped'
  <2>1. project' \in [A!File -> A!Content]
    BY DEF InstallsInv, InstallsTyped, A!Skip
  <2>2. trust' \in [digest : Release \cup {None}, pending : A!PlanRecord \cup {None}]
    BY DEF InstallsInv, InstallsTyped, A!Skip
  <2>3. lease' \in [by : Installer \cup {None}, live : BOOLEAN]
    BY DEF InstallsInv, InstallsTyped, A!Skip
  <2>4. journal' \subseteq [by : Installer, plan : A!PlanRecord]
    BY DEF InstallsInv, InstallsTyped, A!Skip
  <2>5. job' \in [Installer -> Installs]
    <3>1. job[p] \in Installs /\ N \in Nat \ {0}
      BY DEF InstallsInv, InstallsTyped, AdapterConstants
    <3>2. job[p].k + 1 \in 0..N
      BY <3>1, SMT DEF Installs, A!Skip, A!Current
    <3> QED
      BY <3>1, <3>2, Zenon DEF InstallsInv, InstallsTyped, Installs, A!Skip, A!Current
  <2> QED
    BY <2>1, <2>2, <2>3, <2>4, <2>5 DEF InstallsTyped
<1>2. PlansStand'
  BY DEF InstallsInv, A!Skip, PlansStand
<1>3. OneIntent'
  BY DEF InstallsInv, A!Skip, OneIntent
<1>4. HolderKnows'
  BY DEF InstallsInv, A!Skip, HolderKnows, A!Holds, Untouched
<1>5. ReservationsLast'
  BY DEF InstallsInv, A!Skip, A!Current, ReservationsLast
<1>6. BetweenEnds'
  BY DEF InstallsInv, A!Skip, BetweenEnds
<1>7. ManifestUnedited'
  BY DEF InstallsInv, A!Skip, ManifestUnedited
<1>8. WholeWithoutIntent'
  BY DEF InstallsInv, A!Skip, WholeWithoutIntent
<1>9. TrustHolds'
  BY DEF InstallsInv, A!Skip, TrustHolds, Untouched
<1> QED
  BY <1>1, <1>2, <1>3, <1>4, <1>5, <1>6, <1>7, <1>8, <1>9 DEF InstallsInv

LEMMA ReserveKeeps ==
  ASSUME AdapterConstants, InstallsInv, NEW p \in Installer, A!Reserve(p)
  PROVE  InstallsInv'
<1>1. InstallsTyped'
  <2>1. project' \in [A!File -> A!Content]
    BY DEF InstallsInv, InstallsTyped, A!Reserve, A!Content
  <2>2. trust' \in [digest : Release \cup {None}, pending : A!PlanRecord \cup {None}]
    BY DEF InstallsInv, InstallsTyped, A!Reserve
  <2>3. lease' \in [by : Installer \cup {None}, live : BOOLEAN]
    BY Zenon DEF InstallsInv, InstallsTyped, A!Reserve, A!Fenced, A!Holds, A!Current, A!Ready,
       A!Frozen, AdapterConstants
  <2>4. journal' \subseteq [by : Installer, plan : A!PlanRecord]
    BY DEF InstallsInv, InstallsTyped, A!Reserve
  <2>5. job' \in [Installer -> Installs]
    <3>1. job' = [job EXCEPT ![p].at = "reserved", ![p].held = TRUE]
      BY DEF A!Reserve
    <3> QED
      BY <3>1, Zenon DEF InstallsInv, InstallsTyped, Installs
  <2> QED
    BY <2>1, <2>2, <2>3, <2>4, <2>5 DEF InstallsTyped
<1>2. PlansStand'
  BY DEF InstallsInv, InstallsTyped, A!Reserve, PlansStand
<1>3. OneIntent'
  BY DEF InstallsInv, A!Reserve, OneIntent
<1>4. HolderKnows'
  BY DEF InstallsInv, InstallsTyped, A!Reserve, A!Fenced, A!Holds, HolderKnows
<1>5. ReservationsLast'
  <2>1. /\ job'[p].plan = job[p].plan /\ job'[p].k = job[p].k
    BY Zenon DEF A!Reserve, InstallsInv, InstallsTyped, Installs
  <2>2. \A q \in Installer \ {p} : job'[q] = job[q]
    BY DEF A!Reserve, InstallsInv, InstallsTyped
  <2>3. [by |-> p, plan |-> job[p].plan] \in journal /\ journal' = journal
    BY MovesAreTheHolders DEF A!Reserve, A!Fenced
  <2>4. ASSUME NEW q \in Installer \ {p} PROVE job[q].at # "reserved"
    BY <2>3 DEF InstallsInv, ReservationsLast, OneIntent
  <2>5. job[p].k \in A!Changes(job[p].plan) /\ project'[job[p].k] = Empty
    BY DEF A!Reserve, A!Current, A!Changes, InstallsInv, InstallsTyped
  <2> QED
    BY <2>1, <2>2, <2>3, <2>4, <2>5 DEF ReservationsLast, A!Current, A!Changes, A!Saw
<1>6. BetweenEnds' /\ ManifestUnedited' /\ WholeWithoutIntent'
  <2>1. PICK i \in journal : i.plan = job[p].plan
    BY MovesAreTheHolders DEF A!Reserve, A!Fenced
  <2>2. job[p].k \in A!Changes(job[p].plan)
    BY DEF A!Reserve, A!Current, InstallsInv, ReservationsLast
  <2>3. project' = [project EXCEPT ![job[p].k] = Empty] /\ journal' = journal
    BY DEF A!Reserve, A!Current
  <2>4. Empty \in A!Ends(i.plan, job[p].k) \cup {Empty}
    BY <2>1 DEF A!Ends
  <2> QED
    BY <2>1, <2>2, <2>3, <2>4, MovesStayBetween
<1>7. TrustHolds'
  BY MovesAreTheHolders
  DEF A!Reserve, A!Ready, A!Fenced, InstallPlan, TrustHolds
<1> QED
  BY <1>1, <1>2, <1>3, <1>4, <1>5, <1>6, <1>7 DEF InstallsInv

LEMMA FillReservationKeeps ==
  ASSUME AdapterConstants, InstallsInv, NEW p \in Installer, A!FillReservation(p)
  PROVE  InstallsInv'
<1>1. InstallsTyped'
  <2>1. project' \in [A!File -> A!Content]
    <3>1. InstallPlan(job[p].plan) /\ job[p].k \in A!File
      BY MovesAreTheHolders DEF A!FillReservation, InstallsInv, ReservationsLast, A!Current,
         A!Changes
    <3>2. A!Wanted(job[p].plan.to, job[p].k) \in A!Content
      BY <3>1, PlansAreOfReleases DEF A!Content
    <3> QED
      BY <3>2 DEF InstallsInv, InstallsTyped, A!FillReservation, A!Current
  <2>2. trust' \in [digest : Release \cup {None}, pending : A!PlanRecord \cup {None}]
    BY DEF InstallsInv, InstallsTyped, A!FillReservation
  <2>3. lease' \in [by : Installer \cup {None}, live : BOOLEAN]
    BY DEF InstallsInv, InstallsTyped, A!FillReservation
  <2>4. journal' \subseteq [by : Installer, plan : A!PlanRecord]
    BY DEF InstallsInv, InstallsTyped, A!FillReservation
  <2>5. job' \in [Installer -> Installs]
    BY MovedIsTyped DEF A!FillReservation
  <2> QED
    BY <2>1, <2>2, <2>3, <2>4, <2>5 DEF InstallsTyped
<1>2. PlansStand'
  BY DEF InstallsInv, InstallsTyped, A!FillReservation, A!Moved, PlansStand
<1>3. OneIntent'
  BY DEF InstallsInv, A!FillReservation, OneIntent
<1>4. HolderKnows'
  <2>1. [by |-> p, plan |-> job[p].plan] \in journal
    BY MovesAreTheHolders DEF A!FillReservation
  <2>2. journal' = journal /\ lease' = lease
    BY DEF A!FillReservation
  <2>3. job'[p].plan = job[p].plan /\ job'[p].at \in {"apply", "commit"}
    BY SMT DEF A!FillReservation, A!Moved, InstallsInv, InstallsTyped, Installs
  <2>4. ASSUME NEW q \in Installer, q # p
        PROVE  job'[q] = job[q]
    BY <2>4 DEF A!FillReservation, A!Moved, InstallsInv, InstallsTyped
  <2>5. ASSUME NEW q \in Installer, A!Holds(q), job[q].at = "staged"
        PROVE  FALSE
    BY <2>1, <2>5 DEF InstallsInv, HolderKnows
  <2> QED
    BY <2>1, <2>2, <2>3, <2>4, <2>5 DEF InstallsInv, HolderKnows, A!Holds, Untouched
<1>5. ReservationsLast'
  <2>1. \A q \in Installer \ {p} : job'[q] = job[q]
    BY DEF A!FillReservation, A!Moved, InstallsInv, InstallsTyped
  <2>2. job'[p].at # "reserved"
    BY SMT DEF A!FillReservation, A!Moved, InstallsInv, InstallsTyped, Installs
  <2>3. journal' = journal
    BY DEF A!FillReservation
  <2>4. ASSUME NEW q \in Installer \ {p}, job[q].at = "reserved"
        PROVE  project'[job[q].k] \in {Empty, project[job[q].k]}
    <3>1. [by |-> p, plan |-> job[p].plan] \in journal
      BY MovesAreTheHolders DEF A!FillReservation, A!Fenced
    <3>2. [by |-> q, plan |-> job[q].plan] \in journal
      BY <2>4 DEF InstallsInv, ReservationsLast
    <3> QED
      BY <2>4, <3>1, <3>2 DEF InstallsInv, OneIntent
  <2> QED
    BY <2>1, <2>2, <2>3, <2>4, OthersReservationsLast
<1>6. BetweenEnds' /\ ManifestUnedited' /\ WholeWithoutIntent'
  <2>1. PICK i \in journal : i.plan = job[p].plan
    BY MovesAreTheHolders DEF A!FillReservation, A!Fenced
  <2>2. job[p].k \in A!Changes(job[p].plan)
    BY DEF A!FillReservation, A!Current, InstallsInv, ReservationsLast
  <2>3. project' = [project EXCEPT ![job[p].k] = A!Wanted(job[p].plan.to, job[p].k)] /\
          journal' = journal
    BY DEF A!FillReservation, A!Current
  <2>4. A!Wanted(job[p].plan.to, job[p].k) \in A!Ends(i.plan, job[p].k) \cup {Empty}
    BY <2>1 DEF A!Ends
  <2> QED
    BY <2>1, <2>2, <2>3, <2>4, MovesStayBetween
<1>7. TrustHolds'
  <2>1. PICK i \in journal : i.plan = job[p].plan
    BY MovesAreTheHolders DEF A!FillReservation
  <2>2. trust.pending = None => trust.digest = None
    <3>1. InstallPlan(job[p].plan) /\ job[p].k \in A!File
      BY MovesAreTheHolders DEF A!FillReservation, InstallsInv, ReservationsLast, A!Current,
         A!Changes
    <3>2. A!Saw(i.plan, job[p].k) # Empty /\ Empty \notin Edits
      BY <2>1, <3>1, PlansAreOfReleases, ReleasesAreContents
    <3> QED
      BY <3>1, <3>2 DEF A!FillReservation, A!Current, InstallsInv, TrustHolds, Untouched
  <2> QED
    BY <2>2 DEF A!FillReservation, TrustHolds
<1> QED
  BY <1>1, <1>2, <1>3, <1>4, <1>5, <1>6, <1>7 DEF InstallsInv

LEMMA ReplaceOrRemoveKeeps ==
  ASSUME AdapterConstants, InstallsInv, NEW p \in Installer, A!ReplaceOrRemove(p)
  PROVE  InstallsInv'
<1>1. InstallsTyped'
  <2>1. project' \in [A!File -> A!Content]
    BY DEF InstallsInv, InstallsTyped, A!ReplaceOrRemove, A!Fenced, InstallPlan, PlansStand,
       A!Content, A!Wanted, A!PlanRecord
  <2>2. trust' \in [digest : Release \cup {None}, pending : A!PlanRecord \cup {None}]
    BY DEF InstallsInv, InstallsTyped, A!ReplaceOrRemove
  <2>3. lease' \in [by : Installer \cup {None}, live : BOOLEAN]
    BY Zenon DEF InstallsInv, InstallsTyped, A!ReplaceOrRemove, A!Fenced, A!Holds, A!Current,
       A!Moved, A!Ready, A!Frozen, AdapterConstants
  <2>4. journal' \subseteq [by : Installer, plan : A!PlanRecord]
    BY DEF InstallsInv, InstallsTyped, A!ReplaceOrRemove
  <2>5. job' \in [Installer -> Installs]
    BY MovedIsTyped DEF A!ReplaceOrRemove
  <2> QED
    BY <2>1, <2>2, <2>3, <2>4, <2>5 DEF InstallsTyped
<1>2. PlansStand'
  BY DEF InstallsInv, InstallsTyped, A!ReplaceOrRemove, A!Moved, PlansStand
<1>3. OneIntent'
  BY DEF InstallsInv, A!ReplaceOrRemove, OneIntent
<1>4. HolderKnows'
  BY DEF InstallsInv, InstallsTyped, A!ReplaceOrRemove, A!Fenced, A!Holds, A!Moved, HolderKnows
<1>5. ReservationsLast'
  <2>1. \A q \in Installer \ {p} : job'[q] = job[q]
    BY DEF A!ReplaceOrRemove, A!Moved, InstallsInv, InstallsTyped
  <2>2. job'[p].at # "reserved"
    BY SMT DEF A!ReplaceOrRemove, A!Moved, InstallsInv, InstallsTyped, Installs
  <2>3. journal' = journal
    BY DEF A!ReplaceOrRemove
  <2>4. ASSUME NEW q \in Installer \ {p}, job[q].at = "reserved"
        PROVE  project'[job[q].k] \in {Empty, project[job[q].k]}
    <3>1. [by |-> p, plan |-> job[p].plan] \in journal
      BY MovesAreTheHolders DEF A!ReplaceOrRemove, A!Fenced
    <3>2. [by |-> q, plan |-> job[q].plan] \in journal
      BY <2>4 DEF InstallsInv, ReservationsLast
    <3> QED
      BY <2>4, <3>1, <3>2 DEF InstallsInv, OneIntent
  <2> QED
    BY <2>1, <2>2, <2>3, <2>4, OthersReservationsLast
<1>6. BetweenEnds' /\ ManifestUnedited' /\ WholeWithoutIntent'
  <2>1. PICK i \in journal : i.plan = job[p].plan
    BY MovesAreTheHolders DEF A!ReplaceOrRemove, A!Fenced
  <2>2. job[p].k \in A!Changes(job[p].plan)
    BY DEF A!ReplaceOrRemove, A!Current, InstallsInv, ReservationsLast
  <2>3. project' = [project EXCEPT ![job[p].k] = A!Wanted(job[p].plan.to, job[p].k)] /\
          journal' = journal
    BY DEF A!ReplaceOrRemove, A!Current
  <2>4. A!Wanted(job[p].plan.to, job[p].k) \in A!Ends(i.plan, job[p].k) \cup {Empty}
    BY <2>1 DEF A!Ends
  <2> QED
    BY <2>1, <2>2, <2>3, <2>4, MovesStayBetween
<1>7. TrustHolds'
  BY MovesAreTheHolders
  DEF A!ReplaceOrRemove, A!Ready, A!Fenced, InstallPlan, TrustHolds
<1> QED
  BY <1>1, <1>2, <1>3, <1>4, <1>5, <1>6, <1>7 DEF InstallsInv

LEMMA FailForwardKeeps ==
  ASSUME AdapterConstants, InstallsInv, NEW p \in Installer, A!FailForward(p)
  PROVE  InstallsInv'
<1>1. InstallsTyped'
  BY DEF InstallsInv, InstallsTyped, A!FailForward, A!Step, Installs
<1>2. PlansStand'
  BY FailForwardTurns DEF A!FailForward, InstallsInv, PlansStand, InstallPlan, A!Saw
<1>3. OneIntent'
  BY DEF InstallsInv, A!FailForward, OneIntent
<1>4. HolderKnows'
  <2>1. A!Holds(p) => [by |-> p, plan |-> job[p].plan] \in journal
    BY FailForwardTurns, MovesAreTheHolders
  <2> QED
    BY <2>1, FailForwardTurns DEF A!FailForward, InstallsInv, HolderKnows, A!Holds, Untouched
<1>5. ReservationsLast'
  BY FailForwardTurns, OthersReservationsLast DEF A!FailForward
<1>6. BetweenEnds'
  BY DEF InstallsInv, A!FailForward, BetweenEnds
<1>7. ManifestUnedited'
  BY DEF InstallsInv, A!FailForward, ManifestUnedited
<1>8. WholeWithoutIntent'
  BY DEF InstallsInv, A!FailForward, WholeWithoutIntent
<1>9. TrustHolds'
  BY DEF InstallsInv, A!FailForward, TrustHolds, Untouched
<1> QED
  BY <1>1, <1>2, <1>3, <1>4, <1>5, <1>6, <1>7, <1>8, <1>9 DEF InstallsInv

LEMMA UndoKeeps ==
  ASSUME AdapterConstants, InstallsInv, NEW p \in Installer, A!Undo(p)
  PROVE  InstallsInv'
<1>1. InstallsTyped'
  <2>1. project' \in [A!File -> A!Content]
    BY DEF InstallsInv, InstallsTyped, A!Undo, A!Current, A!PutBack, InstallPlan, PlansStand,
       A!Content, A!Wanted, A!Changes, A!PlanRecord
  <2>2. trust' \in [digest : Release \cup {None}, pending : A!PlanRecord \cup {None}]
    BY DEF InstallsInv, InstallsTyped, A!Undo
  <2>3. lease' \in [by : Installer \cup {None}, live : BOOLEAN]
    BY Zenon DEF InstallsInv, InstallsTyped, A!Undo, A!Current, A!Fenced, A!Holds, A!Undoable,
       A!PutBack, A!Frozen, AdapterConstants
  <2>4. journal' \subseteq [by : Installer, plan : A!PlanRecord]
    BY DEF InstallsInv, InstallsTyped, A!Undo
  <2>5. job' \in [Installer -> Installs]
    <3>1. job[p] \in Installs /\ N \in Nat \ {0}
      BY DEF InstallsInv, InstallsTyped, AdapterConstants
    <3>2. job[p].k - 1 \in 0..N
      BY <3>1, SMT DEF Installs, A!Undo, A!Current
    <3> QED
      BY <3>1, <3>2, Zenon DEF InstallsInv, InstallsTyped, Installs, A!Undo, A!Current
  <2> QED
    BY <2>1, <2>2, <2>3, <2>4, <2>5 DEF InstallsTyped
<1>2. PlansStand'
  BY DEF InstallsInv, A!Undo, PlansStand
<1>3. OneIntent'
  BY DEF InstallsInv, A!Undo, OneIntent
<1>4. HolderKnows'
  BY DEF InstallsInv, A!Undo, A!Fenced, A!Holds, HolderKnows
<1>5. ReservationsLast'
  <2>1. \A q \in Installer \ {p} : job'[q] = job[q]
    BY DEF A!Undo, A!Moved, InstallsInv, InstallsTyped
  <2>2. job'[p].at # "reserved"
    BY SMT DEF A!Undo, A!Moved, InstallsInv, InstallsTyped, Installs
  <2>3. journal' = journal
    BY DEF A!Undo
  <2>4. ASSUME NEW q \in Installer \ {p}, job[q].at = "reserved"
        PROVE  project'[job[q].k] \in {Empty, project[job[q].k]}
    <3>1. [by |-> p, plan |-> job[p].plan] \in journal
      BY MovesAreTheHolders DEF A!Undo, A!Fenced
    <3>2. [by |-> q, plan |-> job[q].plan] \in journal
      BY <2>4 DEF InstallsInv, ReservationsLast
    <3> QED
      BY <2>4, <3>1, <3>2 DEF InstallsInv, OneIntent
  <2> QED
    BY <2>1, <2>2, <2>3, <2>4, OthersReservationsLast
<1>6. BetweenEnds' /\ ManifestUnedited' /\ WholeWithoutIntent'
  <2>1. PICK i \in journal : i.plan = job[p].plan
    BY MovesAreTheHolders DEF A!Undo, A!Fenced
  <2>2. journal' = journal
    BY DEF A!Undo
  <2>3. CASE job[p].k \in A!Changes(job[p].plan)
    <3>1. project' = [project EXCEPT ![job[p].k] = A!Saw(job[p].plan, job[p].k)]
      BY <2>3 DEF A!Undo, A!Current, A!PutBack
    <3>2. A!Saw(job[p].plan, job[p].k) \in A!Ends(i.plan, job[p].k) \cup {Empty}
      BY <2>1 DEF A!Ends
    <3> QED
      BY <2>1, <2>2, <2>3, <3>1, <3>2, MovesStayBetween
  <2>4. CASE job[p].k \notin A!Changes(job[p].plan)
    <3>1. project' = project
      BY <2>4 DEF A!Undo, A!Current, A!PutBack
    <3> QED
      BY <2>2, <3>1
      DEF InstallsInv, BetweenEnds, ManifestUnedited, WholeWithoutIntent, A!Ends, A!Changes, A!Saw
  <2> QED
    BY <2>3, <2>4
<1>7. TrustHolds'
  <2> SUFFICES ASSUME trust.pending = None, trust.digest # None,
                      NEW i \in journal
               PROVE  i.plan.from = trust.digest /\ Untouched(i.plan)'
    <3>1. journal # {}
      BY MovesAreTheHolders DEF A!Undo, A!Fenced
    <3> QED
      BY <3>1 DEF A!Undo, TrustHolds, Untouched, A!Saw
  <2>1. i.plan = job[p].plan
    BY MovesAreTheHolders DEF A!Undo, A!Fenced, InstallsInv, OneIntent
  <2>2. i.plan.from = trust.digest /\ Untouched(i.plan)
    BY DEF InstallsInv, TrustHolds
  <2>3. \A f \in A!File : project'[f] \in {project[f], A!Saw(i.plan, f)}
    BY <2>1 DEF A!Undo, A!PutBack, A!Current, InstallsInv, InstallsTyped
  <2> QED
    BY <2>2, <2>3 DEF Untouched, A!Saw
<1> QED
  BY <1>1, <1>2, <1>3, <1>4, <1>5, <1>6, <1>7 DEF InstallsInv

LEMMA RetireKeeps ==
  ASSUME AdapterConstants, InstallsInv, NEW p \in Installer, A!Retire(p)
  PROVE  InstallsInv'
<1>1. InstallsTyped'
  <2>1. project' \in [A!File -> A!Content]
    BY DEF InstallsInv, InstallsTyped, A!Retire
  <2>2. trust' \in [digest : Release \cup {None}, pending : A!PlanRecord \cup {None}]
    BY DEF InstallsInv, InstallsTyped, A!Retire
  <2>3. lease' \in [by : Installer \cup {None}, live : BOOLEAN]
    BY Zenon DEF InstallsInv, InstallsTyped, A!Retire, A!Fenced, A!Holds, A!Step, A!Frozen,
       AdapterConstants
  <2>4. journal' \subseteq [by : Installer, plan : A!PlanRecord]
    BY DEF InstallsInv, InstallsTyped, A!Retire
  <2>5. job' \in [Installer -> Installs]
    BY Zenon DEF InstallsInv, InstallsTyped, Installs, A!Retire, A!Step
  <2> QED
    BY <2>1, <2>2, <2>3, <2>4, <2>5 DEF InstallsTyped
<1>2. PlansStand'
  BY DEF InstallsInv, A!Retire, A!Step, PlansStand
<1>3. OneIntent'
  BY DEF InstallsInv, A!Retire, OneIntent
<1>4. HolderKnows'
  BY DEF InstallsInv, InstallsTyped, A!Retire, A!Fenced, A!Holds, A!Step, HolderKnows
<1>5. ReservationsLast'
  <2>1. job'[p].at = "settle"
    BY Zenon DEF A!Retire, A!Step, InstallsInv, InstallsTyped, Installs
  <2>2. \A q \in Installer \ {p} : job'[q] = job[q]
    BY DEF A!Retire, A!Step, InstallsInv, InstallsTyped
  <2>3. PICK i \in journal : i.plan = job[p].plan
    BY MovesAreTheHolders DEF A!Retire, A!Fenced
  <2>4. ASSUME NEW q \in Installer, job[q].at = "reserved" PROVE FALSE
    <3>1. [by |-> q, plan |-> job[q].plan] \in journal
      BY <2>4 DEF InstallsInv, ReservationsLast
    <3>2. job[q].plan = job[p].plan
      BY <2>3, <3>1 DEF InstallsInv, OneIntent
    <3>3. job[q].k \in A!Changes(job[p].plan) /\ project[job[q].k] \in {Empty} \cup Edits
      BY <2>4, <3>2 DEF InstallsInv, ReservationsLast, A!Current
    <3>4. project[job[q].k] \in A!Ends(job[p].plan, job[q].k) /\ job[q].k \in A!File
      BY <3>3 DEF A!Retire, A!AsPlanned, A!Ends, A!Changes
    <3> QED
      BY <3>3, <3>4, MovesAreTheHolders, PlansAreOfReleases DEF A!Retire, A!Fenced
  <2> QED
    BY <2>1, <2>2, <2>4 DEF ReservationsLast
<1>6. BetweenEnds'
  BY DEF InstallsInv, A!Retire, BetweenEnds
<1>7. ManifestUnedited'
  BY DEF InstallsInv, A!Retire, ManifestUnedited
<1>8. WholeWithoutIntent'
  <2>1. InstallPlan(job[p].plan)
    BY MovesAreTheHolders DEF A!Retire, A!Fenced
  <2>2. PICK i \in journal : i.plan = job[p].plan
    BY MovesAreTheHolders DEF A!Retire, A!Fenced
  <2>3. \A f \in A!File \ A!Changes(job[p].plan) :
           project[f] \in {A!Saw(job[p].plan, f)} \cup Edits
    BY <2>2 DEF InstallsInv, BetweenEnds, A!Ends, A!Changes, A!Saw
  <2>4. PICK v \in {job[p].plan.from, job[p].plan.to} :
           \A f \in A!Changes(job[p].plan) : project[f] = A!Wanted(v, f)
    BY <2>1 DEF A!Retire, A!AsPlanned, A!Changes, InstallPlan
  <2>5. project[N] = v /\ v \in Release \cup {None}
    BY <2>1, <2>4, PlansAreOfReleases, ReleasesAreContents
  <2>6. \A f \in A!File \ A!Changes(job[p].plan) : A!Saw(job[p].plan, f) = A!Wanted(v, f)
    BY <2>1, <2>4 DEF A!Changes, A!Saw, InstallPlan
  <2>7. \A f \in A!File : project[f] \in {A!Wanted(v, f)} \cup Edits
    BY <2>3, <2>4, <2>6
  <2> QED
    BY <2>5, <2>7 DEF A!Retire, WholeWithoutIntent, A!Wanted
<1>9. TrustHolds'
  <2>1. /\ job[p].plan \in {i.plan : i \in journal} /\ InstallPlan(job[p].plan)
        /\ \A i \in journal : i.plan = job[p].plan
    BY MovesAreTheHolders DEF A!Retire, A!Fenced, InstallsInv, OneIntent
  <2>2. journal' = {} /\ project' = project /\ trust' = trust
    BY <2>1 DEF A!Retire
  <2>3. trust.pending = None /\ trust.digest # None => project[N] = trust.digest
    BY <2>1, PlansAreOfReleases, ReleasesAreContents
    DEF InstallsInv, TrustHolds, Untouched, ManifestUnedited
  <2> QED
    BY <2>2, <2>3 DEF TrustHolds
<1> QED
  BY <1>1, <1>2, <1>3, <1>4, <1>5, <1>6, <1>7, <1>8, <1>9 DEF InstallsInv

LEMMA AbandonKeeps ==
  ASSUME AdapterConstants, InstallsInv, NEW p \in Installer, A!Abandon(p)
  PROVE  InstallsInv'
<1>1. InstallsTyped'
  BY DEF InstallsInv, InstallsTyped, A!Abandon, A!Step, Installs
<1>2. PlansStand'
  BY DEF InstallsInv, A!Abandon, A!Step, PlansStand
<1>3. OneIntent'
  BY DEF InstallsInv, A!Abandon, OneIntent
<1>4. HolderKnows'
  BY DEF InstallsInv, A!Abandon, A!Step, A!Holds, HolderKnows, Untouched
<1>5. ReservationsLast'
  BY DEF InstallsInv, A!Abandon, A!Step, ReservationsLast, A!Current
<1>6. BetweenEnds'
  BY DEF InstallsInv, A!Abandon, BetweenEnds
<1>7. ManifestUnedited'
  BY DEF InstallsInv, A!Abandon, ManifestUnedited
<1>8. WholeWithoutIntent'
  BY DEF InstallsInv, A!Abandon, WholeWithoutIntent
<1>9. TrustHolds'
  BY DEF InstallsInv, A!Abandon, TrustHolds, Untouched
<1> QED
  BY <1>1, <1>2, <1>3, <1>4, <1>5, <1>6, <1>7, <1>8, <1>9 DEF InstallsInv

LEMMA SettleKeeps ==
  ASSUME AdapterConstants, InstallsInv, NEW p \in Installer, A!Settle(p)
  PROVE  InstallsInv'
<1>1. InstallsTyped'
  <2>1. project' \in [A!File -> A!Content]
    BY DEF InstallsInv, InstallsTyped, A!Settle
  <2>2. trust' \in [digest : Release \cup {None}, pending : A!PlanRecord \cup {None}]
    <3>1. CASE trust' = trust
      BY <3>1 DEF InstallsInv, InstallsTyped
    <3>2. CASE trust' # trust
      <4>1. job[p].plan \in A!PlanRecord
        BY DEF A!Settle, InstallsInv, PlansStand, InstallPlan
      <4>2. project[N] \in {job[p].plan.from, job[p].plan.to}
            /\ trust' = [digest |-> project[N], pending |-> None]
        BY <3>2 DEF A!Settle
      <4> QED
        BY <4>1, <4>2 DEF A!PlanRecord
    <3> QED
      BY <3>1, <3>2
  <2>3. lease' \in [by : Installer \cup {None}, live : BOOLEAN]
    BY DEF InstallsInv, InstallsTyped, A!Settle, A!Unlocked
  <2>4. journal' \subseteq [by : Installer, plan : A!PlanRecord]
    BY DEF InstallsInv, InstallsTyped, A!Settle
  <2>5. job' \in [Installer -> Installs]
    BY OffIsIdle DEF InstallsInv, InstallsTyped, A!Settle, A!Stop
  <2> QED
    BY <2>1, <2>2, <2>3, <2>4, <2>5 DEF InstallsTyped
<1>2. PlansStand'
  BY OffIsIdle DEF InstallsInv, A!Settle, A!Stop, PlansStand
<1>3. OneIntent'
  BY DEF InstallsInv, A!Settle, OneIntent
<1>4. HolderKnows'
  BY DEF InstallsInv, A!Settle, A!Stop, A!Unlocked, A!Holds, HolderKnows, Untouched,
     AdapterConstants
<1>5. ReservationsLast'
  BY OffIsIdle DEF InstallsInv, A!Settle, A!Stop, ReservationsLast, A!Current
<1>6. BetweenEnds'
  BY DEF InstallsInv, A!Settle, BetweenEnds
<1>7. ManifestUnedited'
  BY DEF InstallsInv, A!Settle, ManifestUnedited
<1>8. WholeWithoutIntent'
  BY DEF InstallsInv, A!Settle, WholeWithoutIntent
<1>9. TrustHolds'
  BY DEF InstallsInv, A!Settle, TrustHolds, Untouched
<1> QED
  BY <1>1, <1>2, <1>3, <1>4, <1>5, <1>6, <1>7, <1>8, <1>9 DEF InstallsInv

LEMMA StartRecoveryKeeps ==
  ASSUME AdapterConstants, InstallsInv, NEW p \in Installer, A!StartRecovery(p)
  PROVE  InstallsInv'
<1>1. InstallsTyped'
  BY DEF InstallsInv, InstallsTyped, A!StartRecovery, A!Step, Installs
<1>2. PlansStand'
  BY DEF InstallsInv, A!StartRecovery, A!Step, PlansStand
<1>3. OneIntent'
  BY DEF InstallsInv, A!StartRecovery, OneIntent
<1>4. HolderKnows'
  BY DEF A!StartRecovery, A!Step, HolderKnows, A!Holds
<1>5. ReservationsLast'
  BY DEF InstallsInv, A!StartRecovery, A!Step, ReservationsLast, A!Current
<1>6. BetweenEnds'
  BY DEF InstallsInv, A!StartRecovery, BetweenEnds
<1>7. ManifestUnedited'
  BY DEF InstallsInv, A!StartRecovery, ManifestUnedited
<1>8. WholeWithoutIntent'
  BY DEF InstallsInv, A!StartRecovery, WholeWithoutIntent
<1>9. TrustHolds'
  BY DEF InstallsInv, A!StartRecovery, TrustHolds, Untouched
<1> QED
  BY <1>1, <1>2, <1>3, <1>4, <1>5, <1>6, <1>7, <1>8, <1>9 DEF InstallsInv

LEMMA ClassifyKeeps ==
  ASSUME AdapterConstants, InstallsInv, NEW p \in Installer, A!Classify(p)
  PROVE  InstallsInv'
<1>1. InstallsTyped'
  <2>1. project' \in [A!File -> A!Content]
    BY DEF InstallsInv, InstallsTyped, A!Classify
  <2>2. trust' \in [digest : Release \cup {None}, pending : A!PlanRecord \cup {None}]
    BY DEF InstallsInv, InstallsTyped, A!Classify
  <2>3. lease' \in [by : Installer \cup {None}, live : BOOLEAN]
    BY Zenon DEF InstallsInv, InstallsTyped, A!Classify, A!Fenced, A!Frozen, AdapterConstants
  <2>4. journal' \subseteq [by : Installer, plan : A!PlanRecord]
    BY DEF InstallsInv, InstallsTyped, A!Classify
  <2>5. job' \in [Installer -> Installs]
    BY ClassifyTurns
  <2> QED
    BY <2>1, <2>2, <2>3, <2>4, <2>5 DEF InstallsTyped
<1>2. PlansStand'
  <2>1. InstallPlan(trust.pending)
    BY DEF A!Classify, A!Resolvable, InstallsInv, PlansStand
  <2> QED
    BY <2>1, ClassifyTurns DEF A!Classify, InstallsInv, PlansStand, InstallPlan, A!Saw
<1>3. OneIntent'
  BY DEF InstallsInv, A!Classify, OneIntent
<1>4. HolderKnows'
  <2>1. \A q \in Installer \ {p} : A!Holds(q)' => A!Holds(q)
    BY DEF A!Classify, A!Fenced, A!Holds, InstallsInv, InstallsTyped
  <2>2. journal # {} => \E i \in journal : i.plan = trust.pending
    BY DEF A!Classify, A!Resolvable, A!Bound
  <2> QED
    BY <2>1, <2>2, ClassifyTurns DEF A!Classify, InstallsInv, HolderKnows, Untouched
<1>5. ReservationsLast'
  BY ClassifyTurns, OthersReservationsLast DEF A!Classify
<1>6. BetweenEnds'
  BY DEF InstallsInv, A!Classify, BetweenEnds
<1>7. ManifestUnedited'
  BY DEF InstallsInv, A!Classify, ManifestUnedited
<1>8. WholeWithoutIntent'
  BY DEF InstallsInv, A!Classify, WholeWithoutIntent
<1>9. TrustHolds'
  BY DEF A!Classify, A!Resolvable, TrustHolds
<1> QED
  BY <1>1, <1>2, <1>3, <1>4, <1>5, <1>6, <1>7, <1>8, <1>9 DEF InstallsInv

LEMMA ConflictKeeps ==
  ASSUME AdapterConstants, InstallsInv, NEW p \in Installer, A!Conflict(p)
  PROVE  InstallsInv'
<1>1. InstallsTyped'
  BY OffIsIdle DEF InstallsInv, InstallsTyped, A!Conflict, A!Stop, A!Unlocked
<1>2. PlansStand'
  BY OffIsIdle DEF InstallsInv, A!Conflict, A!Stop, PlansStand
<1>3. OneIntent'
  BY DEF InstallsInv, A!Conflict, OneIntent
<1>4. HolderKnows'
  BY DEF InstallsInv, A!Conflict, A!Stop, A!Unlocked, A!Holds, HolderKnows, Untouched,
     AdapterConstants
<1>5. ReservationsLast'
  BY OffIsIdle DEF InstallsInv, A!Conflict, A!Stop, ReservationsLast, A!Current
<1>6. BetweenEnds'
  BY DEF InstallsInv, A!Conflict, BetweenEnds
<1>7. ManifestUnedited'
  BY DEF InstallsInv, A!Conflict, ManifestUnedited
<1>8. WholeWithoutIntent'
  BY DEF InstallsInv, A!Conflict, WholeWithoutIntent
<1>9. TrustHolds'
  BY DEF InstallsInv, A!Conflict, TrustHolds, Untouched
<1> QED
  BY <1>1, <1>2, <1>3, <1>4, <1>5, <1>6, <1>7, <1>8, <1>9 DEF InstallsInv

LEMMA RestoreKeeps ==
  ASSUME AdapterConstants, InstallsInv, NEW p \in Installer, A!Restore(p)
  PROVE  InstallsInv'
<1>1. InstallsTyped'
  <2>1. project' \in [A!File -> A!Content]
    BY DEF InstallsInv, InstallsTyped, A!Restore, A!Current, A!PutBack, InstallPlan, PlansStand,
       A!Content, A!Wanted, A!Changes, A!PlanRecord
  <2>2. trust' \in [digest : Release \cup {None}, pending : A!PlanRecord \cup {None}]
    BY DEF InstallsInv, InstallsTyped, A!Restore
  <2>3. lease' \in [by : Installer \cup {None}, live : BOOLEAN]
    BY Zenon DEF InstallsInv, InstallsTyped, A!Restore, A!Current, A!Fenced, A!Holds, A!Undoable,
       A!PutBack, A!Frozen, AdapterConstants
  <2>4. journal' \subseteq [by : Installer, plan : A!PlanRecord]
    BY DEF InstallsInv, InstallsTyped, A!Restore
  <2>5. job' \in [Installer -> Installs]
    <3>1. job[p] \in Installs /\ N \in Nat \ {0}
      BY DEF InstallsInv, InstallsTyped, AdapterConstants
    <3>2. job[p].k - 1 \in 0..N
      BY <3>1, SMT DEF Installs, A!Restore, A!Current
    <3> QED
      BY <3>1, <3>2, Zenon DEF InstallsInv, InstallsTyped, Installs, A!Restore, A!Current
  <2> QED
    BY <2>1, <2>2, <2>3, <2>4, <2>5 DEF InstallsTyped
<1>2. PlansStand'
  BY DEF InstallsInv, A!Restore, PlansStand
<1>3. OneIntent'
  BY DEF InstallsInv, A!Restore, OneIntent
<1>4. HolderKnows'
  BY DEF InstallsInv, A!Restore, A!Fenced, A!Holds, HolderKnows
<1>5. ReservationsLast'
  <2>1. \A q \in Installer \ {p} : job'[q] = job[q]
    BY DEF A!Restore, A!Moved, InstallsInv, InstallsTyped
  <2>2. job'[p].at # "reserved"
    BY SMT DEF A!Restore, A!Moved, InstallsInv, InstallsTyped, Installs
  <2>3. journal' = journal
    BY DEF A!Restore
  <2>4. ASSUME NEW q \in Installer \ {p}, job[q].at = "reserved"
        PROVE  project'[job[q].k] \in {Empty, project[job[q].k]}
    <3>1. PICK i \in journal : i.plan = job[p].plan
      BY MovesAreTheHolders DEF A!Restore, A!Fenced
    <3>2. [by |-> q, plan |-> job[q].plan] \in journal
      BY <2>4 DEF InstallsInv, ReservationsLast
    <3>3. job[q].plan = job[p].plan
      BY <3>1, <3>2 DEF InstallsInv, OneIntent
    <3>4. job[q].k \in A!Changes(job[p].plan) /\ project[job[q].k] \in {Empty} \cup Edits
      BY <2>4, <3>3 DEF InstallsInv, ReservationsLast, A!Current
    <3>5. InstallPlan(job[p].plan) /\ job[q].k \in A!File
      BY <3>4, MovesAreTheHolders DEF A!Restore, A!Fenced, A!Changes
    <3>6. CASE job[q].k = job[p].k
      <4>1. ~job[p].held
        BY DEF A!Restore, A!Fenced, InstallsInv, HolderKnows
      <4> QED
        BY <3>4, <3>5, <3>6, <4>1, PlansAreOfReleases DEF A!Restore, A!Undoable, A!Current
    <3>7. CASE job[q].k # job[p].k
      BY <3>7 DEF A!Restore, A!PutBack, A!Current, InstallsInv, InstallsTyped
    <3> QED
      BY <3>6, <3>7
  <2> QED
    BY <2>1, <2>2, <2>3, <2>4, OthersReservationsLast
<1>6. BetweenEnds' /\ ManifestUnedited' /\ WholeWithoutIntent'
  <2>1. PICK i \in journal : i.plan = job[p].plan
    BY MovesAreTheHolders DEF A!Restore, A!Fenced
  <2>2. journal' = journal
    BY DEF A!Restore
  <2>3. CASE job[p].k \in A!Changes(job[p].plan)
    <3>1. project' = [project EXCEPT ![job[p].k] = A!Saw(job[p].plan, job[p].k)]
      BY <2>3 DEF A!Restore, A!Current, A!PutBack
    <3>2. A!Saw(job[p].plan, job[p].k) \in A!Ends(i.plan, job[p].k) \cup {Empty}
      BY <2>1 DEF A!Ends
    <3> QED
      BY <2>1, <2>2, <2>3, <3>1, <3>2, MovesStayBetween
  <2>4. CASE job[p].k \notin A!Changes(job[p].plan)
    <3>1. project' = project
      BY <2>4 DEF A!Restore, A!Current, A!PutBack
    <3> QED
      BY <2>2, <3>1
      DEF InstallsInv, BetweenEnds, ManifestUnedited, WholeWithoutIntent, A!Ends, A!Changes, A!Saw
  <2> QED
    BY <2>3, <2>4
<1>7. TrustHolds'
  BY MovesAreTheHolders
  DEF A!Restore, A!Ready, A!Fenced, InstallPlan, TrustHolds
<1> QED
  BY <1>1, <1>2, <1>3, <1>4, <1>5, <1>6, <1>7 DEF InstallsInv

LEMMA AdoptKeeps ==
  ASSUME AdapterConstants, InstallsInv, NEW p \in Installer, NEW v \in Release, A!Adopt(p, v)
  PROVE  InstallsInv'
<1>1. InstallsTyped'
  BY DEF InstallsInv, InstallsTyped, A!Adopt
<1>2. PlansStand'
  BY DEF InstallsInv, A!Adopt, PlansStand
<1>3. OneIntent'
  BY DEF A!Adopt, OneIntent
<1>4. HolderKnows'
  BY DEF InstallsInv, A!Adopt, HolderKnows, A!Holds, Untouched
<1>5. ReservationsLast'
  BY DEF InstallsInv, A!Adopt, ReservationsLast
<1>6. BetweenEnds'
  BY DEF A!Adopt, BetweenEnds
<1>7. ManifestUnedited'
  BY DEF InstallsInv, A!Adopt, ManifestUnedited
<1>8. WholeWithoutIntent'
  BY DEF A!Adopt, WholeWithoutIntent
<1>9. TrustHolds'
  BY DEF A!Adopt, TrustHolds
<1> QED
  BY <1>1, <1>2, <1>3, <1>4, <1>5, <1>6, <1>7, <1>8, <1>9 DEF InstallsInv

LEMMA DieKeeps ==
  ASSUME AdapterConstants, InstallsInv, NEW p \in Installer, A!Die(p)
  PROVE  InstallsInv'
<1>1. InstallsTyped'
  <2>1. project' \in [A!File -> A!Content]
    BY DEF InstallsInv, InstallsTyped, A!Die
  <2>2. trust' \in [digest : Release \cup {None}, pending : A!PlanRecord \cup {None}]
    BY DEF InstallsInv, InstallsTyped, A!Die
  <2>3. lease' \in [by : Installer \cup {None}, live : BOOLEAN]
    BY Zenon, OffIsIdle DEF InstallsInv, InstallsTyped, A!Die, A!Stop, A!Holds, A!Frozen,
       AdapterConstants
  <2>4. journal' \subseteq [by : Installer, plan : A!PlanRecord]
    BY DEF InstallsInv, InstallsTyped, A!Die
  <2>5. job' \in [Installer -> Installs]
    BY OffIsIdle DEF InstallsInv, InstallsTyped, A!Die, A!Stop
  <2> QED
    BY <2>1, <2>2, <2>3, <2>4, <2>5 DEF InstallsTyped
<1>2. PlansStand'
  BY OffIsIdle DEF InstallsInv, A!Die, A!Stop, PlansStand
<1>3. OneIntent'
  BY DEF InstallsInv, A!Die, OneIntent
<1>4. HolderKnows'
  BY OffIsIdle DEF InstallsInv, A!Die, A!Stop, A!Holds, HolderKnows, Untouched
<1>5. ReservationsLast'
  BY OffIsIdle DEF InstallsInv, A!Die, A!Stop, ReservationsLast, A!Current
<1>6. BetweenEnds'
  BY DEF InstallsInv, A!Die, BetweenEnds
<1>7. ManifestUnedited'
  BY DEF InstallsInv, A!Die, ManifestUnedited
<1>8. WholeWithoutIntent'
  BY DEF InstallsInv, A!Die, WholeWithoutIntent
<1>9. TrustHolds'
  BY DEF InstallsInv, A!Die, TrustHolds, Untouched
<1> QED
  BY <1>1, <1>2, <1>3, <1>4, <1>5, <1>6, <1>7, <1>8, <1>9 DEF InstallsInv

LEMMA OversleepKeeps ==
  ASSUME AdapterConstants, InstallsInv, NEW p \in Installer, A!Oversleep(p)
  PROVE  InstallsInv'
<1>1. InstallsTyped'
  <2>1. project' \in [A!File -> A!Content]
    BY DEF InstallsInv, InstallsTyped, A!Oversleep
  <2>2. trust' \in [digest : Release \cup {None}, pending : A!PlanRecord \cup {None}]
    BY DEF InstallsInv, InstallsTyped, A!Oversleep
  <2>3. lease' \in [by : Installer \cup {None}, live : BOOLEAN]
    BY Zenon DEF InstallsInv, InstallsTyped, A!Oversleep, A!Holds, A!Frozen, AdapterConstants
  <2>4. journal' \subseteq [by : Installer, plan : A!PlanRecord]
    BY DEF InstallsInv, InstallsTyped, A!Oversleep
  <2>5. job' \in [Installer -> Installs]
    BY DEF InstallsInv, InstallsTyped, A!Oversleep
  <2> QED
    BY <2>1, <2>2, <2>3, <2>4, <2>5 DEF InstallsTyped
<1>2. PlansStand'
  BY DEF InstallsInv, A!Oversleep, PlansStand
<1>3. OneIntent'
  BY DEF InstallsInv, A!Oversleep, OneIntent
<1>4. HolderKnows'
  BY DEF InstallsInv, A!Oversleep, A!Holds, HolderKnows, Untouched
<1>5. ReservationsLast'
  BY DEF InstallsInv, A!Oversleep, ReservationsLast, A!Current
<1>6. BetweenEnds'
  BY DEF InstallsInv, A!Oversleep, BetweenEnds
<1>7. ManifestUnedited'
  BY DEF InstallsInv, A!Oversleep, ManifestUnedited
<1>8. WholeWithoutIntent'
  BY DEF InstallsInv, A!Oversleep, WholeWithoutIntent
<1>9. TrustHolds'
  BY DEF InstallsInv, A!Oversleep, TrustHolds, Untouched
<1> QED
  BY <1>1, <1>2, <1>3, <1>4, <1>5, <1>6, <1>7, <1>8, <1>9 DEF InstallsInv

LEMMA EditFileKeeps ==
  ASSUME AdapterConstants, InstallsInv, NEW f \in A!File, NEW e \in Edits, A!EditFile(f, e)
  PROVE  InstallsInv'
<1>1. InstallsTyped'
  <2>1. project' \in [A!File -> A!Content]
    BY DEF InstallsInv, InstallsTyped, A!EditFile, A!Content
  <2>2. trust' \in [digest : Release \cup {None}, pending : A!PlanRecord \cup {None}]
    BY DEF InstallsInv, InstallsTyped, A!EditFile
  <2>3. lease' \in [by : Installer \cup {None}, live : BOOLEAN]
    BY DEF InstallsInv, InstallsTyped, A!EditFile
  <2>4. journal' \subseteq [by : Installer, plan : A!PlanRecord]
    BY DEF InstallsInv, InstallsTyped, A!EditFile
  <2>5. job' \in [Installer -> Installs]
    BY DEF InstallsInv, InstallsTyped, A!EditFile
  <2> QED
    BY <2>1, <2>2, <2>3, <2>4, <2>5 DEF InstallsTyped
<1>2. PlansStand'
  BY DEF InstallsInv, A!EditFile, PlansStand
<1>3. OneIntent'
  BY DEF InstallsInv, A!EditFile, OneIntent
<1>4. HolderKnows'
  BY DEF InstallsInv, A!EditFile, HolderKnows, A!Holds, Untouched
<1>5. ReservationsLast'
  BY DEF InstallsInv, A!EditFile, ReservationsLast, A!Current
<1>6. BetweenEnds'
  BY DEF InstallsInv, A!EditFile, BetweenEnds
<1>7. ManifestUnedited'
  BY DEF InstallsInv, A!EditFile, ManifestUnedited
<1>8. WholeWithoutIntent'
  BY DEF InstallsInv, A!EditFile, WholeWithoutIntent
<1>9. TrustHolds'
  BY DEF InstallsInv, A!EditFile, TrustHolds, Untouched
<1> QED
  BY <1>1, <1>2, <1>3, <1>4, <1>5, <1>6, <1>7, <1>8, <1>9 DEF InstallsInv

LEMMA ForgetKeeps ==
  ASSUME AdapterConstants, InstallsInv, A!Forget
  PROVE  InstallsInv'
<1>1. InstallsTyped'
  BY DEF InstallsInv, InstallsTyped, A!Forget
<1>2. PlansStand'
  BY DEF InstallsInv, A!Forget, PlansStand
<1>3. OneIntent'
  BY DEF InstallsInv, A!Forget, OneIntent
<1>4. HolderKnows'
  BY DEF InstallsInv, A!Forget, HolderKnows, A!Holds, Untouched
<1>5. ReservationsLast'
  BY DEF InstallsInv, A!Forget, ReservationsLast, A!Current
<1>6. BetweenEnds'
  BY DEF InstallsInv, A!Forget, BetweenEnds
<1>7. ManifestUnedited'
  BY DEF InstallsInv, A!Forget, ManifestUnedited
<1>8. WholeWithoutIntent'
  BY DEF InstallsInv, A!Forget, WholeWithoutIntent
<1>9. TrustHolds'
  BY DEF A!Forget, TrustHolds
<1> QED
  BY <1>1, <1>2, <1>3, <1>4, <1>5, <1>6, <1>7, <1>8, <1>9 DEF InstallsInv

-----------------------------------------------------------------------------
LEMMA AdapterStarts ==
  ASSUME AdapterConstants, A!AdapterInit
  PROVE  InstallsInv
<1>1. \A f \in A!File : A!Wanted(None, f) = None
  BY DEF A!Wanted
<1>2. project = [f \in A!File |-> None] /\ journal = {} /\ job = [p \in Installer |-> A!Off]
  BY DEF A!AdapterInit
<1>3. trust = [digest |-> None, pending |-> None] /\ lease = [by |-> None, live |-> FALSE]
  BY DEF A!AdapterInit
<1>4. InstallsTyped
  BY <1>2, <1>3, OffIsIdle DEF InstallsTyped, A!Content
<1>5. PlansStand /\ HolderKnows /\ ReservationsLast
  BY <1>2, <1>3, OffIsIdle DEF PlansStand, HolderKnows, ReservationsLast
<1>6. ManifestUnedited /\ WholeWithoutIntent
  BY <1>1, <1>2, ReleasesAreContents DEF ManifestUnedited, WholeWithoutIntent
<1>7. OneIntent /\ BetweenEnds /\ TrustHolds
  BY <1>2, <1>3 DEF OneIntent, BetweenEnds, TrustHolds
<1> QED
  BY <1>4, <1>5, <1>6, <1>7 DEF InstallsInv

LEMMA AdapterSteps ==
  ASSUME AdapterConstants, InstallsInv, [A!AdapterNext]_A!adapterVars
  PROVE  InstallsInv'
<1>1. ASSUME NEW p \in Installer, NEW v \in Release \cup {None}, A!Plan(p, v)
      PROVE  InstallsInv'
  BY <1>1, PlanKeeps
<1>2. ASSUME NEW p \in Installer, NEW v \in Release, A!Adopt(p, v)
      PROVE  InstallsInv'
  BY <1>2, AdoptKeeps
<1>3. ASSUME NEW p \in Installer, A!Apply(p)
      PROVE  InstallsInv'
  BY <1>3, AcquireKeeps, BeginTransitionKeeps, RefuseKeeps, StageKeeps, WriteIntentKeeps,
     SkipKeeps, ReserveKeeps, FillReservationKeeps, ReplaceOrRemoveKeeps, FailForwardKeeps,
     UndoKeeps, RetireKeeps, AbandonKeeps, SettleKeeps
  DEF A!Apply
<1>4. ASSUME NEW p \in Installer, A!Recover(p)
      PROVE  InstallsInv'
  BY <1>4, StartRecoveryKeeps, ClassifyKeeps, ConflictKeeps, RestoreKeeps DEF A!Recover
<1>5. ASSUME NEW p \in Installer, A!Die(p) \/ A!Oversleep(p)
      PROVE  InstallsInv'
  BY <1>5, DieKeeps, OversleepKeeps
<1>6. ASSUME NEW f \in A!File, NEW e \in Edits, A!EditFile(f, e)
      PROVE  InstallsInv'
  BY <1>6, EditFileKeeps
<1>7. CASE A!Forget
  BY <1>7, ForgetKeeps
<1>8. CASE UNCHANGED A!adapterVars
  BY <1>8
  DEF A!adapterVars, InstallsInv, InstallsTyped, PlansStand, OneIntent, HolderKnows,
      ReservationsLast, BetweenEnds, ManifestUnedited, WholeWithoutIntent, TrustHolds,
      InstallPlan, Untouched, A!Holds, A!Current, A!Changes, A!Saw, A!Ends
<1> QED
  BY <1>1, <1>2, <1>3, <1>4, <1>5, <1>6, <1>7, <1>8 DEF A!AdapterNext

(* The user's bytes in file f are no end of a plan and no reservation.     *)
LEMMA MovesPassEditsBy ==
  ASSUME AdapterConstants, InstallsInv, NEW p \in Installer,
         A!Reserve(p) \/ A!FillReservation(p) \/ A!ReplaceOrRemove(p) \/ A!Undo(p) \/ A!Restore(p),
         NEW f \in A!File, project[f] \in Edits
  PROVE  project'[f] \in Edits
<1>1. InstallPlan(job[p].plan)
  BY MovesAreTheHolders
  DEF A!Reserve, A!FillReservation, A!ReplaceOrRemove, A!Undo, A!Restore, A!Fenced
<1>2. project[f] \notin A!Ends(job[p].plan, f) \cup {Empty}
  BY <1>1, PlansAreOfReleases, ReleasesAreContents
<1>3. project[f] # A!Saw(job[p].plan, f)
  BY <1>2 DEF A!Ends
<1>4. CASE A!Reserve(p)
  BY <1>3, <1>4 DEF A!Reserve, A!Ready, A!Current, InstallsInv, InstallsTyped
<1>5. CASE A!FillReservation(p)
  BY <1>2, <1>5 DEF A!FillReservation, A!Current, InstallsInv, InstallsTyped
<1>6. CASE A!ReplaceOrRemove(p)
  BY <1>3, <1>6 DEF A!ReplaceOrRemove, A!Ready, A!Current, InstallsInv, InstallsTyped
<1>7. CASE A!Undo(p)
  BY <1>2, <1>7 DEF A!Undo, A!Undoable, A!PutBack, A!Current, InstallsInv, InstallsTyped
<1>8. CASE A!Restore(p)
  BY <1>2, <1>8 DEF A!Restore, A!Undoable, A!PutBack, A!Current, InstallsInv, InstallsTyped
<1> QED
  BY <1>4, <1>5, <1>6, <1>7, <1>8

LEMMA EditsOutlastSteps ==
  ASSUME AdapterConstants, InstallsInv, [A!AdapterNext]_A!adapterVars
  PROVE  \A f \in A!File : project[f] \in Edits => project'[f] \in Edits
<1> SUFFICES ASSUME NEW f \in A!File, project[f] \in Edits
             PROVE  project'[f] \in Edits
  OBVIOUS
<1>1. CASE UNCHANGED project
  BY <1>1
<1>2. ASSUME NEW g \in A!File, NEW e \in Edits, A!EditFile(g, e)
      PROVE  project'[f] \in Edits
  BY <1>2 DEF A!EditFile, InstallsInv, InstallsTyped
<1>3. ASSUME NEW p \in Installer,
             \/ A!Reserve(p) \/ A!FillReservation(p) \/ A!ReplaceOrRemove(p)
             \/ A!Undo(p) \/ A!Restore(p)
      PROVE  project'[f] \in Edits
  BY <1>3, MovesPassEditsBy
<1>4. ASSUME NEW p \in Installer, A!Apply(p) \/ A!Recover(p)
      PROVE  \/ UNCHANGED project
             \/ A!Reserve(p) \/ A!FillReservation(p) \/ A!ReplaceOrRemove(p)
             \/ A!Undo(p) \/ A!Restore(p)
  BY <1>4
  DEF A!Apply, A!Recover, A!Acquire, A!BeginTransition, A!Refuse, A!Stage, A!WriteIntent,
      A!Skip, A!FailForward, A!Retire, A!Abandon, A!Settle, A!StartRecovery, A!Classify,
      A!Conflict
<1>5. ASSUME NEW p \in Installer,
             \/ \E v \in Release \cup {None} : A!Plan(p, v)
             \/ \E v \in Release : A!Adopt(p, v)
             \/ A!Die(p) \/ A!Oversleep(p)
      PROVE  UNCHANGED project
  BY <1>5 DEF A!Plan, A!Adopt, A!Die, A!Oversleep
<1>6. A!Forget => UNCHANGED project
  BY DEF A!Forget
<1>7. UNCHANGED A!adapterVars => UNCHANGED project
  BY DEF A!adapterVars
<1> QED
  BY <1>1, <1>2, <1>3, <1>4, <1>5, <1>6, <1>7 DEF A!AdapterNext

(* What the invariant says of a state: what is trusted is whole, and what   *)
(* is torn is torn under the one intent.                                   *)
LEMMA TheInvariantTells ==
  ASSUME AdapterConstants, InstallsInv
  PROVE  A!TrustedIsWhole /\ A!TornOnlyUnderIntent /\ A!AdapterTypeOK
<1>1. A!TrustedIsWhole
  <2> SUFFICES ASSUME trust.digest # None, trust.pending = None
               PROVE  /\ project[N] = trust.digest
                      /\ \A f \in A!File :
                           project[f] \in {A!Wanted(trust.digest, f)} \cup Edits
    BY DEF A!TrustedIsWhole
  <2>1. CASE journal = {}
    BY <2>1 DEF InstallsInv, TrustHolds, WholeWithoutIntent
  <2>2. CASE journal # {}
    <3>1. PICK i \in journal : TRUE
      BY <2>2
    <3>2. i.plan.from = trust.digest /\ Untouched(i.plan) /\ InstallPlan(i.plan)
      BY DEF InstallsInv, TrustHolds, PlansStand
    <3>3. A!Saw(i.plan, N) = trust.digest /\ N \in A!File
      BY <3>2, PlansAreOfReleases, ReleasesAreContents
    <3> QED
      BY <3>2, <3>3 DEF Untouched, InstallPlan, InstallsInv, ManifestUnedited
  <2> QED
    BY <2>1, <2>2
<1>2. A!TornOnlyUnderIntent
  <2>1. \A i, j \in journal : i = j
    BY DEF InstallsInv, OneIntent
  <2>2. journal = {} => \E v \in Release \cup {None} :
                           \A f \in A!File : project[f] \in {A!Wanted(v, f)} \cup Edits
    BY DEF InstallsInv, WholeWithoutIntent
  <2> QED
    BY <2>1, <2>2 DEF A!TornOnlyUnderIntent
<1>3. A!AdapterTypeOK
  <2>1. \A p \in Installer : job[p].plan \in A!PlanRecord \cup {None} /\ job[p].k \in 0..N
    BY DEF InstallsInv, InstallsTyped, Installs
  <2>2. InstallsTyped
    BY DEF InstallsInv
  <2> QED
    BY <2>1, <2>2, Zenon DEF A!AdapterTypeOK, InstallsTyped
<1> QED
  BY <1>1, <1>2, <1>3

(* What is trusted is a whole installation, what is torn can be put back,  *)
(* and what the user has edited stays: however many installers plan, apply,*)
(* die, oversleep and recover, whatever the releases own (apply and recover*)
(* in adapters/agents/service.py, _transaction.py).                        *)
THEOREM InstallsStayWhole ==
  AdapterConstants /\ A!AdapterSpec => InstallsAreWhole /\ []A!AdapterTypeOK
<1> SUFFICES ASSUME AdapterConstants
             PROVE  A!AdapterSpec => InstallsAreWhole /\ []A!AdapterTypeOK
  OBVIOUS
<1>1. A!AdapterInit => InstallsInv
  BY AdapterStarts
<1>2. InstallsInv /\ [A!AdapterNext]_A!adapterVars => InstallsInv'
  BY AdapterSteps
<1>3. InstallsInv => A!TrustedIsWhole /\ A!TornOnlyUnderIntent /\ A!AdapterTypeOK
  BY TheInvariantTells
<1>4. InstallsInv /\ [A!AdapterNext]_A!adapterVars
        => [\A f \in A!File : project[f] \in Edits => project'[f] \in Edits]_A!adapterVars
  BY EditsOutlastSteps
<1> QED
  BY <1>1, <1>2, <1>3, <1>4, PTL DEF A!AdapterSpec, InstallsAreWhole, A!EditsSurvive
-----------------------------------------------------------------------------
(* Views.                                                                  *)

Versions == [V!Doc -> Nat]
Rebuilding == {"gate", "rescan", "scan", "drain"}
Transacting == {"analyse", "decided", "replaced", "close", "invalidate", "confirm"}
Looking == {"ask", "query", "documents", "compare", "done", "failed"}
At == {"idle"} \cup Rebuilding \cup Transacting \cup Looking
Why == {"none", "preflight", "refresh", "explicit", "ready"}
Told == {"none", "fresh", "stale", "unconfirmed", "shown", "changed"}
Jobs == [at : At, why : Why, scan : [V!Doc -> Nat \cup {None}],
         report : Versions \cup {None}, told : Told]
Replaced == [doc : V!Doc, was : Nat]
Counted ==
  [{"applies", "recoveries", "indexes", "views", "edits", "troubles", "versions"} -> Nat]

(* Of the constants: who transacts, indexes and views are not the same, and *)
(* None is none of what it stands for the absence of.                      *)
ViewConstants ==
  /\ Docs \in Nat
  /\ Engine \notin Indexer \cup Viewer /\ Indexer \cap Viewer = {} /\ Brief \subseteq Viewer
  /\ None \notin Nat \cup Versions \cup Replaced \cup V!Actor

ViewsTyped ==
  /\ tree \in Versions /\ ledger \in Seq(Versions) /\ ledger # <<>>
  /\ pending \in Replaced \cup {None} /\ db \in Versions \cup {None}
  /\ task \in [V!Actor -> Jobs]
  /\ crossed \in BOOLEAN /\ spoiled \in BOOLEAN
  /\ spent \in Counted
  /\ head \in [Viewer -> Nat] /\ shown \in [Viewer -> Seq(Versions)]
  /\ sound \in [Viewer -> BOOLEAN]

(* No document is older than the ledger says, nor will be once what is      *)
(* pending is put back; versions are numbered as they come.                *)
Aged ==
  /\ \A d \in V!Doc : V!Newest[d] <= tree[d] /\ tree[d] <= spent["versions"]
  /\ pending # None => /\ V!Newest[pending.doc] <= pending.was
                       /\ pending.was <= spent["versions"]

Unspoiled == ~spoiled /\ db # None => \A d \in V!Doc : db[d] <= V!Newest[d]

(* What each of them can be about.                                         *)
Staged(a, j) ==
  /\ j.at \notin {"rescan", "scan", "drain"} => j.scan = V!Nothing
  /\ a = Engine => /\ j.at \in Rebuilding => j.why \in {"preflight", "refresh"}
                   /\ j.at \notin {"ask", "query", "documents", "compare"}
  /\ a \in Indexer => /\ j.at \in Rebuilding \cup {"idle"}
                      /\ j.at \in Rebuilding => j.why = "explicit"
  /\ a \in Viewer => /\ j.at \in Rebuilding \cup Looking \cup {"idle"}
                     /\ j.at \in Rebuilding => j.why = "ready"
  /\ j.at = "rescan" => j.report # None /\ j.why = "refresh"
  /\ j.at = "drain" => \A d \in V!Doc : j.scan[d] # None

(* A transaction has the context lock, and so has who rebuilds a view.     *)
Locks(a, j) == a \in {Engine} \cup V!Builder /\ j.at # "idle" => writer = a

(* What a transaction has scanned is not older than the ledger, and until   *)
(* the refresh the index is the one of its preflight.                      *)
Current(j) ==
  /\ j.at # "idle" => \A d \in V!Doc : j.scan[d] # None => j.scan[d] >= V!Newest[d]
  /\ j.report # None /\ ~crossed /\ j.at \notin {"idle", "confirm", "done", "failed"} =>
       db = j.report
  /\ j.at \in {"analyse", "decided", "replaced"} =>
       j.report # None /\ \A d \in V!Doc : j.report[d] >= V!Newest[d]
  /\ j.at = "replaced" => pending # None
  /\ j.at = "done" /\ j.told = "fresh" /\ ~crossed =>
       db # None /\ \A d \in V!Doc : db[d] >= V!Newest[d]

Below(s, w) == \A i \in 1..2, d \in V!Doc : i <= Len(s) => s[i][d] <= w[d]

(* What a snapshot has read is not ahead of the ledger, and when all of it  *)
(* agreed at first, and nobody may change it, it still does.               *)
Viewing(v, j) ==
  /\ j.at # "idle" => head[v] \in 1..Len(ledger)
  /\ j.at # "idle" /\ ~spoiled => Below(shown[v], V!Newest)
  /\ j.at \in {"documents", "compare"} => Len(shown[v]) >= 2
  /\ j.told = "shown" => /\ j.at = "done" /\ Len(shown[v]) >= 2
                         /\ ~spoiled => Below(shown[v], ledger[head[v]])
  /\ v \in V!Builder /\ j.at # "idle" /\ sound[v] /\ ~crossed /\ spent["edits"] = 0 =>
       /\ db = V!Newest /\ tree = V!Newest /\ head[v] = Len(ledger) /\ j.at \in Looking
       /\ \A i \in 1..Len(shown[v]) : shown[v][i] = V!Newest

AllStaged == \A a \in V!Actor : Staged(a, task[a]) /\ Locks(a, task[a])

ViewsInv ==
  /\ ViewsTyped /\ Aged /\ Unspoiled /\ AllStaged
  /\ Current(task[Engine])
  /\ \A v \in Viewer : Viewing(v, task[v])
-----------------------------------------------------------------------------
LEMMA NewestIsLast ==
  ASSUME ViewsTyped
  PROVE  V!Newest \in Versions /\ Len(ledger) \in Nat /\ Len(ledger) >= 1
<1>1. Len(ledger) \in Nat /\ Len(ledger) >= 1 /\ Len(ledger) \in DOMAIN ledger
  BY DEF ViewsTyped
<1> QED
  BY <1>1 DEF ViewsTyped, V!Newest

LEMMA ViewsBegin ==
  ASSUME ViewConstants, V!ViewsInit
  PROVE  ViewsInv
<1> DEFINE first == [d \in V!Doc |-> 0]
<1>1. /\ tree = first /\ ledger = <<first>> /\ pending = None /\ db \in {None, first}
      /\ task = [a \in V!Actor |-> V!Idle] /\ crossed = FALSE /\ spoiled = FALSE
      /\ head = [v \in Viewer |-> 0] /\ shown = [v \in Viewer |-> <<>>]
      /\ sound = [v \in Viewer |-> FALSE]
      /\ spent = [k \in {"applies", "recoveries", "indexes", "views", "edits", "troubles",
                         "versions"} |-> 0]
  BY DEF V!ViewsInit, V!ProjectionInit
<1>2. first \in Versions /\ V!Newest = first
  BY <1>1 DEF Versions, V!Newest
<1>3. V!Idle \in Jobs
  <2>1. V!Nothing \in [V!Doc -> Nat \cup {None}]
    BY DEF V!Nothing
  <2> QED
    BY <2>1 DEF V!Idle, Jobs, At, Why, Told
<1>4. ViewsTyped
  <2> USE DEF Counted
  <2>1. ledger \in Seq(Versions) /\ ledger # <<>>
    BY <1>1, <1>2
  <2>2. shown \in [Viewer -> Seq(Versions)] /\ head \in [Viewer -> Nat]
    BY <1>1
  <2> QED
    BY <1>1, <1>2, <1>3, <2>1, <2>2 DEF ViewsTyped
<1>5. Aged /\ Unspoiled
  BY <1>1, <1>2 DEF Aged, Unspoiled
<1>6. AllStaged
  BY <1>1 DEF AllStaged, Staged, Locks, V!Idle, Rebuilding, Looking
<1>7. Engine \in V!Actor /\ Viewer \subseteq V!Actor
  BY DEF V!Actor
<1>8. Current(task[Engine]) /\ \A v \in Viewer : Viewing(v, task[v])
  BY <1>1, <1>7 DEF Current, Viewing, V!Idle
<1> QED
  BY <1>4, <1>5, <1>6, <1>8 DEF ViewsInv

LEMMA Resting ==
  ASSUME ViewConstants
  PROVE  /\ V!Idle \in Jobs /\ Engine \in V!Actor /\ Viewer \subseteq V!Actor
         /\ Indexer \subseteq V!Actor /\ None # Engine /\ None \notin Viewer
         /\ \A a \in V!Actor : Staged(a, V!Idle) /\ Locks(a, V!Idle)
         /\ Current(V!Idle) /\ \A v \in Viewer : Viewing(v, V!Idle)
<1>1. V!Idle \in Jobs
  <2>1. V!Nothing \in [V!Doc -> Nat \cup {None}]
    BY DEF V!Nothing
  <2> QED
    BY <2>1 DEF V!Idle, Jobs, At, Why, Told
<1>2. /\ Engine \in V!Actor /\ Viewer \subseteq V!Actor /\ Indexer \subseteq V!Actor
      /\ None # Engine /\ None \notin Viewer
  BY DEF V!Actor, ViewConstants
<1>3. \A a \in V!Actor : Staged(a, V!Idle) /\ Locks(a, V!Idle)
  BY DEF Staged, Locks, V!Idle, Rebuilding, Looking
<1>4. Current(V!Idle) /\ \A v \in Viewer : Viewing(v, V!Idle)
  BY DEF Current, Viewing, V!Idle
<1> QED
  BY <1>1, <1>2, <1>3, <1>4

(* A snapshot that does not take part in a step.                           *)
LEMMA OthersView ==
  ASSUME ViewsInv, ViewsTyped', NEW v \in Viewer,
         task'[v] = task[v], head'[v] = head[v], shown'[v] = shown[v], sound'[v] = sound[v],
         Len(ledger) <= Len(ledger'), \A i \in 1..Len(ledger) : ledger'[i] = ledger[i],
         \A d \in V!Doc : V!Newest[d] <= V!Newest'[d],
         spoiled => spoiled',
         v \in V!Builder /\ task[v].at # "idle" /\ ~crossed' /\ spent'["edits"] = 0 =>
           UNCHANGED <<db, tree, ledger, crossed, spent["edits"]>>
  PROVE  Viewing(v, task[v])'
<1> DEFINE j == task[v]
<1>1. Viewing(v, j) /\ j' = j
  BY DEF ViewsInv
<1>2. /\ V!Newest \in Versions /\ V!Newest' \in Versions /\ Len(ledger) \in Nat
      /\ Len(ledger') \in Nat /\ shown[v] \in Seq(Versions)
  <2>1. Len(ledger) \in DOMAIN ledger /\ Len(ledger') \in DOMAIN ledger'
    BY DEF ViewsInv, ViewsTyped
  <2> QED
    BY <2>1 DEF ViewsInv, ViewsTyped, V!Newest
<1> HIDE DEF j
<1>3. Below(shown[v], V!Newest) => Below(shown[v], V!Newest')
  <2>1. \A i \in 1..2 : i <= Len(shown[v]) => shown[v][i] \in Versions
    BY <1>2
  <2> QED
    BY <1>2, <2>1 DEF Below, Versions
<1>4. j.at # "idle" => head[v] \in 1..Len(ledger) /\ ledger'[head[v]] = ledger[head[v]]
  BY <1>1 DEF Viewing
<1>5. j.at # "idle" => head'[v] \in 1..Len(ledger')
  BY <1>2, <1>4
<1>6. j.at # "idle" /\ ~spoiled' => Below(shown'[v], V!Newest')
  BY <1>1, <1>3 DEF Viewing
<1>7. j.told = "shown" => /\ j.at = "done" /\ Len(shown'[v]) >= 2
                          /\ ~spoiled' => Below(shown'[v], ledger'[head'[v]])
  BY <1>1, <1>4 DEF Viewing
<1>8. v \in V!Builder /\ j.at # "idle" /\ sound'[v] /\ ~crossed' /\ spent'["edits"] = 0 =>
       /\ db' = V!Newest' /\ tree' = V!Newest' /\ head'[v] = Len(ledger') /\ j.at \in Looking
       /\ \A i \in 1..Len(shown'[v]) : shown'[v][i] = V!Newest'
  <2> SUFFICES ASSUME v \in V!Builder, j.at # "idle", sound'[v], ~crossed', spent'["edits"] = 0
      PROVE /\ db' = V!Newest' /\ tree' = V!Newest' /\ head'[v] = Len(ledger')
            /\ j.at \in Looking /\ \A i \in 1..Len(shown'[v]) : shown'[v][i] = V!Newest'
    OBVIOUS
  <2>1. UNCHANGED <<db, tree, ledger, crossed, spent["edits"]>>
    BY DEF j
  <2>2. UNCHANGED V!Newest
    BY <2>1 DEF V!Newest
  <2> QED
    BY <1>1, <2>1, <2>2 DEF Viewing
<1>9. j.at \in {"documents", "compare"} => Len(shown'[v]) >= 2
  BY <1>1 DEF Viewing
<1> QED
  <2>1. task'[v] = j
    BY DEF j
  <2>2. Viewing(v, j)'
    BY <1>1, <1>5, <1>6, <1>7, <1>8, <1>9 DEF Viewing
  <2> QED
    BY <1>1, <2>1, <2>2
(* A transaction that does not take part in one.                           *)
LEMMA EngineWaits ==
  ASSUME ViewsInv, task'[Engine] = task[Engine],
         task[Engine].at # "idle" =>
           UNCHANGED <<ledger, pending>> /\ (~crossed' => UNCHANGED <<crossed, db>>)
  PROVE  Current(task[Engine])'
<1>1. CASE task[Engine].at = "idle"
  BY <1>1 DEF Current
<1>2. CASE task[Engine].at # "idle"
  <2>1. UNCHANGED V!Newest
    BY <1>2 DEF V!Newest
  <2> QED
    BY <1>2, <2>1 DEF ViewsInv, Current
<1> QED
  BY <1>1, <1>2

(* Who holds the context lock rules the others out.                        *)
LEMMA OneAtATime ==
  ASSUME ViewConstants, ViewsInv
  PROVE  /\ writer # Engine => task[Engine].at = "idle"
         /\ \A v \in V!Builder : writer # v => task[v].at = "idle"
         /\ \A v \in V!Builder : v \in Viewer /\ v # Engine /\ v \in V!Actor
         /\ task[Engine] \in Jobs
BY DEF ViewConstants, ViewsInv, AllStaged, Locks, V!Builder, V!Actor, ViewsTyped

(* A step of one of them that leaves everything else as it is.             *)
LEMMA JobStep ==
  ASSUME ViewConstants, ViewsInv, NEW a \in V!Actor, NEW j \in Jobs,
         task' = [task EXCEPT ![a] = j],
         UNCHANGED <<tree, ledger, pending, db, crossed, spoiled, writer, head, shown, sound>>,
         spent' \in Counted, UNCHANGED <<spent["versions"], spent["edits"]>>,
         Staged(a, j), Locks(a, j), a = Engine => Current(j), a \in Viewer => Viewing(a, j)
  PROVE  ViewsInv'
<1>1. task \in [V!Actor -> Jobs] /\ task'[a] = j /\ \A b \in V!Actor : b # a => task'[b] = task[b]
  BY DEF ViewsInv, ViewsTyped
<1>2. Engine \in V!Actor /\ Viewer \subseteq V!Actor
  BY Resting
<1>3. UNCHANGED V!Newest
  BY DEF V!Newest
<1>4. Aged' /\ Unspoiled'
  BY <1>3 DEF ViewsInv, Aged, Unspoiled
<1>5. AllStaged'
  BY <1>1 DEF ViewsInv, AllStaged, Staged, Locks
<1>6. Current(task[Engine])'
  BY <1>1, <1>2, <1>3 DEF ViewsInv, Current
<1>7. \A v \in Viewer : Viewing(v, task[v])'
  <2> SUFFICES ASSUME NEW v \in Viewer PROVE Viewing(v, task[v])'
    OBVIOUS
  <2>1. Viewing(v, task'[v])
    BY <1>1, <1>2 DEF ViewsInv
  <2> QED
    BY <1>3, <2>1 DEF Viewing
<1>8. ViewsTyped'
  BY DEF ViewsInv, ViewsTyped
<1> QED
  BY <1>4, <1>5, <1>6, <1>7, <1>8 DEF ViewsInv

(* A step of a transaction, which no view that is rebuilt sees.            *)
LEMMA EngineStep ==
  ASSUME ViewConstants, ViewsInv, NEW j \in Jobs, task' = [task EXCEPT ![Engine] = j],
         writer \in {Engine, None}, writer' \in {Engine, None},
         UNCHANGED <<head, shown, sound>>, ViewsTyped', Aged', Unspoiled',
         Len(ledger) <= Len(ledger'), \A i \in 1..Len(ledger) : ledger'[i] = ledger[i],
         \A d \in V!Doc : V!Newest[d] <= V!Newest'[d],
         spoiled => spoiled',
         Staged(Engine, j), Locks(Engine, j)', Current(j)'
  PROVE  ViewsInv'
<1>1. /\ Engine \in V!Actor /\ Viewer \subseteq V!Actor /\ Engine \notin Viewer
      /\ task \in [V!Actor -> Jobs]
  BY Resting DEF ViewConstants, ViewsInv, ViewsTyped
<1>2. task'[Engine] = j /\ \A b \in V!Actor : b # Engine => task'[b] = task[b]
  BY <1>1
<1>3. AllStaged'
  <2> SUFFICES ASSUME NEW a \in V!Actor PROVE Staged(a, task'[a]) /\ Locks(a, task[a])'
    BY DEF AllStaged, Staged
  <2>1. CASE a = Engine
    BY <1>2, <2>1
  <2>2. CASE a # Engine
    <3>1. task'[a] = task[a] /\ Staged(a, task[a])
      BY <1>2, <2>2 DEF ViewsInv, AllStaged
    <3>2. a \in V!Builder => task[a].at = "idle"
      BY <2>2, OneAtATime, Resting
    <3> QED
      BY <2>2, <3>1, <3>2 DEF Locks
  <2> QED
    BY <2>1, <2>2
<1>4. Current(task[Engine])'
  BY <1>2
<1>5. \A v \in Viewer : Viewing(v, task[v])'
  <2> SUFFICES ASSUME NEW v \in Viewer PROVE Viewing(v, task[v])'
    OBVIOUS
  <2>1. task'[v] = task[v]
    BY <1>1, <1>2
  <2>2. v \in V!Builder => task[v].at = "idle"
    BY OneAtATime, Resting, <1>1
  <2> QED
    BY <2>1, <2>2, OthersView
<1> QED
  BY <1>3, <1>4, <1>5 DEF ViewsInv

(* A step of a snapshot that others do not see, but for the lock.          *)
LEMMA ViewerStep ==
  ASSUME ViewConstants, ViewsInv, NEW v \in Viewer, NEW j \in Jobs,
         task' = [task EXCEPT ![v] = j],
         UNCHANGED <<tree, ledger, pending, db, spoiled, spent["versions"], spent["edits"]>>,
         \/ UNCHANGED <<writer, crossed>>
         \/ writer \in {v, None} /\ writer' \in {v, None},
         \A w \in Viewer : w # v => /\ head'[w] = head[w] /\ shown'[w] = shown[w]
                                    /\ sound'[w] = sound[w],
         ViewsTyped', Staged(v, j), Locks(v, j)', Viewing(v, j)'
  PROVE  ViewsInv'
<1>1. /\ Engine \in V!Actor /\ Viewer \subseteq V!Actor /\ Engine # v
      /\ task \in [V!Actor -> Jobs] /\ v \in V!Actor
  BY Resting DEF ViewConstants, ViewsInv, ViewsTyped
<1>2. task'[v] = j /\ \A b \in V!Actor : b # v => task'[b] = task[b]
  BY <1>1
<1>3. UNCHANGED V!Newest
  BY DEF V!Newest
<1>4. Aged' /\ Unspoiled'
  BY <1>3 DEF ViewsInv, Aged, Unspoiled
<1>5. \/ UNCHANGED <<writer, crossed>>
      \/ /\ task[Engine].at = "idle"
         /\ \A w \in V!Builder : w # v => task[w].at = "idle"
  BY <1>1, OneAtATime, Resting
<1>6. AllStaged'
  <2> SUFFICES ASSUME NEW a \in V!Actor PROVE Staged(a, task'[a]) /\ Locks(a, task[a])'
    BY DEF AllStaged, Staged
  <2>1. CASE a = v
    BY <1>2, <2>1
  <2>2. CASE a # v
    <3>1. task'[a] = task[a] /\ Staged(a, task[a]) /\ Locks(a, task[a])
      BY <1>2, <2>2 DEF ViewsInv, AllStaged
    <3> QED
      BY <1>5, <2>2, <3>1 DEF Locks
  <2> QED
    BY <2>1, <2>2
<1>7. Current(task[Engine])'
  <2>1. task'[Engine] = task[Engine] /\ UNCHANGED <<ledger, pending, db>>
    BY <1>1, <1>2
  <2> QED
    BY <1>5, <2>1, EngineWaits
<1>8. \A w \in Viewer : Viewing(w, task[w])'
  <2> SUFFICES ASSUME NEW w \in Viewer PROVE Viewing(w, task[w])'
    OBVIOUS
  <2>1. CASE w = v
    BY <1>2, <2>1
  <2>2. CASE w # v
    <3>1. task'[w] = task[w] /\ \A d \in V!Doc : V!Newest[d] <= V!Newest'[d]
      <4>1. V!Newest \in Versions
        BY NewestIsLast DEF ViewsInv
      <4> QED
        BY <1>1, <1>2, <1>3, <2>2, <4>1 DEF Versions
    <3>2. Len(ledger) <= Len(ledger')
      BY NewestIsLast DEF ViewsInv
    <3> QED
      BY <1>5, <2>2, <3>1, <3>2, OthersView
  <2> QED
    BY <2>1, <2>2
<1> QED
  BY <1>4, <1>6, <1>7, <1>8 DEF ViewsInv

(* What is left of a rebuild.                                              *)
LEMMA RebuiltIs ==
  ASSUME ViewConstants, ViewsInv, NEW a \in V!Actor, task[a].at \in Rebuilding,
         task[a].why = "preflight" => task[a].scan \in Versions
  PROVE  LET j == V!Rebuilt(a) IN
         /\ j \in Jobs /\ j.scan = V!Nothing /\ j.why = task[a].why
         /\ a = Engine => \/ /\ j.why = "preflight" /\ j.at = "analyse"
                             /\ j.report = task[a].scan /\ j.told = task[a].told
                          \/ /\ j.why = "refresh" /\ j.at = "done"
                             /\ j.report = task[a].report /\ j.told = "fresh"
         /\ a \in Indexer => j.at = "idle"
         /\ a \in Viewer => /\ j.at = "query" /\ j.why = "ready" /\ j.told = task[a].told
                            /\ j.report = task[a].report
<1>1. task[a] \in Jobs /\ Staged(a, task[a])
  BY DEF ViewsInv, ViewsTyped, AllStaged
<1>2. a = Engine \/ a \in Indexer \/ a \in Viewer
  BY DEF V!Actor
<1>3. task[a].why \in {"preflight", "refresh", "explicit", "ready"}
  BY <1>1, <1>2 DEF Staged
<1>4. /\ V!AfterBuild["preflight"] = "analyse" /\ V!AfterBuild["refresh"] = "done"
      /\ V!AfterBuild["explicit"] = "idle" /\ V!AfterBuild["ready"] = "query"
  BY DEF V!AfterBuild
<1>5. V!AfterBuild[task[a].why] \in At
  BY <1>3, <1>4 DEF At, Transacting, Looking
<1>6. V!Nothing \in [V!Doc -> Nat \cup {None}]
  BY DEF V!Nothing
<1> DEFINE report == IF task[a].why = "preflight" THEN task[a].scan ELSE task[a].report
           told   == IF task[a].why = "refresh" THEN "fresh" ELSE task[a].told
<1>7. report \in Versions \cup {None} /\ told \in Told
  BY <1>1 DEF Jobs, Told
<1> HIDE DEF report, told
<1>8. V!Rebuilt(a) \in Jobs
  BY <1>1, <1>5, <1>6, <1>7 DEF V!Rebuilt, Jobs, report, told
<1>9. /\ V!Rebuilt(a).at = V!AfterBuild[task[a].why] /\ V!Rebuilt(a).why = task[a].why
      /\ V!Rebuilt(a).scan = V!Nothing
      /\ V!Rebuilt(a).report = report /\ V!Rebuilt(a).told = told
  BY <1>1 DEF V!Rebuilt, Jobs, report, told
<1> QED
  BY <1>1, <1>2, <1>3, <1>4, <1>8, <1>9 DEF Staged, ViewConstants, report, told

LEMMA UnbuiltIs ==
  ASSUME ViewConstants, ViewsInv, NEW a \in V!Actor, task[a].at \in Rebuilding
  PROVE  LET j == V!Unbuilt(a) IN
         /\ j \in Jobs /\ j.scan = V!Nothing /\ j.why = task[a].why
         /\ j.report = task[a].report /\ j.told = task[a].told
         /\ a = Engine => j.at \in {"failed", "invalidate"}
         /\ a \in Indexer => j.at = "idle"
         /\ a \in Viewer => j.at = "failed"
<1>1. task[a] \in Jobs /\ Staged(a, task[a])
  BY DEF ViewsInv, ViewsTyped, AllStaged
<1>2. a = Engine \/ a \in Indexer \/ a \in Viewer
  BY DEF V!Actor
<1>3. task[a].why \in {"preflight", "refresh", "explicit", "ready"}
  BY <1>1, <1>2 DEF Staged
<1>4. /\ V!AfterError["preflight"] = "failed" /\ V!AfterError["refresh"] = "invalidate"
      /\ V!AfterError["explicit"] = "idle" /\ V!AfterError["ready"] = "failed"
  BY DEF V!AfterError
<1>5. V!AfterError[task[a].why] \in At
  BY <1>3, <1>4 DEF At, Transacting, Looking
<1>6. V!Nothing \in [V!Doc -> Nat \cup {None}]
  BY DEF V!Nothing
<1>7. V!Unbuilt(a) \in Jobs
  BY <1>1, <1>5, <1>6 DEF V!Unbuilt, Jobs
<1>8. /\ V!Unbuilt(a).at = V!AfterError[task[a].why] /\ V!Unbuilt(a).why = task[a].why
      /\ V!Unbuilt(a).scan = V!Nothing
      /\ V!Unbuilt(a).report = task[a].report /\ V!Unbuilt(a).told = task[a].told
  BY <1>1 DEF V!Unbuilt, Jobs
<1> QED
  BY <1>1, <1>2, <1>3, <1>4, <1>7, <1>8 DEF Staged

LEMMA SpendKeeps ==
  ASSUME ViewsTyped, NEW k \in {"applies", "recoveries", "indexes", "views", "troubles"},
         V!Spend(k)
  PROVE  spent' \in Counted /\ UNCHANGED <<spent["versions"], spent["edits"]>>
<1>1. spent \in Counted /\ spent' = [spent EXCEPT ![k] = spent[k] + 1]
  BY DEF ViewsTyped, V!Spend
<1>2. spent[k] + 1 \in Nat
  BY <1>1 DEF Counted
<1> QED
  BY <1>1, <1>2 DEF Counted

(* A rebuild that goes on.                                                 *)
LEMMA StillRebuilding ==
  ASSUME ViewConstants, ViewsInv, NEW a \in V!Actor, NEW j \in Jobs,
         task' = [task EXCEPT ![a] = j],
         UNCHANGED <<tree, ledger, pending, db, crossed, spoiled, writer, head, shown, sound,
                     spent>>,
         task[a].at \in Rebuilding, j.at \in Rebuilding, j.why = task[a].why,
         j.report = task[a].report, j.told = task[a].told,
         j.at = "gate" => j.scan = V!Nothing,
         j.at = "rescan" => j.report # None /\ j.why = "refresh",
         j.at = "drain" => \A d \in V!Doc : j.scan[d] # None,
         \A d \in V!Doc : j.scan[d] # None => j.scan[d] \in {task[a].scan[d], tree[d]}
  PROVE  ViewsInv'
<1>1. Staged(a, task[a]) /\ Locks(a, task[a]) /\ task[a] \in Jobs
  BY DEF ViewsInv, AllStaged, ViewsTyped
<1>2. Staged(a, j) /\ Locks(a, j)
  BY <1>1 DEF Staged, Locks, Rebuilding
<1>3. a = Engine => Current(j)
  <2> SUFFICES ASSUME a = Engine PROVE Current(j)
    OBVIOUS
  <2>1. Current(task[a])
    BY DEF ViewsInv
  <2>2. \A d \in V!Doc : tree[d] >= V!Newest[d]
    BY NewestIsLast DEF ViewsInv, Aged, ViewsTyped, Versions
  <2> QED
    BY <2>1, <2>2 DEF Current, Rebuilding
<1>4. a \in Viewer => Viewing(a, j)
  BY DEF ViewsInv, Viewing, Rebuilding, Looking
<1>5. spent' \in Counted
  BY DEF ViewsInv, ViewsTyped
<1> QED
  BY <1>2, <1>3, <1>4, <1>5, JobStep

(* A rebuild that ends without a new index.                                *)
LEMMA RebuildEnds ==
  ASSUME ViewConstants, ViewsInv, NEW a \in V!Actor, task[a].at \in Rebuilding,
         UNCHANGED <<tree, ledger, pending, db, crossed, spoiled, writer, head, shown, sound>>,
         spent' \in Counted, UNCHANGED <<spent["versions"], spent["edits"]>>,
         \/ task' = [task EXCEPT ![a] = V!Unbuilt(a)]
         \/ task' = [task EXCEPT ![a] = V!Rebuilt(a)] /\ a \in Viewer
         \/ /\ task' = [task EXCEPT ![a] = V!Rebuilt(a)] /\ a = Engine
            /\ task[a].at = "rescan" /\ task[a].scan = task[a].report
  PROVE  ViewsInv'
<1>1. Staged(a, task[a]) /\ Locks(a, task[a]) /\ task[a] \in Jobs
  BY DEF ViewsInv, AllStaged, ViewsTyped
<1>2. a = Engine \/ a \in Indexer \/ a \in Viewer
  BY DEF V!Actor
<1> USE DEF ViewConstants, Rebuilding
<1>3. CASE task' = [task EXCEPT ![a] = V!Unbuilt(a)]
  <2> DEFINE j == V!Unbuilt(a)
  <2>1. /\ j \in Jobs /\ j.scan = V!Nothing /\ j.why = task[a].why
        /\ j.report = task[a].report /\ j.told = task[a].told
        /\ a = Engine => j.at \in {"failed", "invalidate"}
        /\ a \in Indexer => j.at = "idle"
        /\ a \in Viewer => j.at = "failed"
    BY UnbuiltIs
  <2> HIDE DEF j
  <2>2. Staged(a, j) /\ Locks(a, j)
    BY <1>1, <1>2, <2>1 DEF Staged, Locks, Looking
  <2>3. a = Engine => Current(j)
    <3>1. a = Engine => Current(task[a])
      BY DEF ViewsInv
    <3> QED
      BY <2>1, <3>1 DEF Current, V!Nothing
  <2>4. a \in Viewer => Viewing(a, j)
    BY <2>1 DEF ViewsInv, Viewing, Looking
  <2> QED
    BY <1>3, <2>1, <2>2, <2>3, <2>4, JobStep DEF j
<1>4. CASE task' = [task EXCEPT ![a] = V!Rebuilt(a)]
  <2> DEFINE j == V!Rebuilt(a)
  <2>1. CASE a \in Viewer
    <3>1. /\ j \in Jobs /\ j.scan = V!Nothing /\ j.at = "query" /\ j.why = "ready"
          /\ j.told = task[a].told
      BY <1>1, <2>1, RebuiltIs DEF Staged
    <3> HIDE DEF j
    <3>2. Staged(a, j) /\ Locks(a, j) /\ Viewing(a, j) /\ a # Engine
      BY <1>1, <2>1, <3>1 DEF Staged, Locks, ViewsInv, Viewing, Looking
    <3> QED
      BY <1>4, <2>1, <3>1, <3>2, JobStep DEF j
  <2>2. CASE a = Engine /\ task[a].at = "rescan" /\ task[a].scan = task[a].report /\ a \notin Viewer
    <3>1. /\ j \in Jobs /\ j.scan = V!Nothing /\ j.why = "refresh" /\ j.at = "done"
          /\ j.report = task[a].report /\ j.told = "fresh" /\ a \notin Indexer
      BY <1>1, <2>2, RebuiltIs DEF Staged
    <3> HIDE DEF j
    <3>2. Staged(a, j) /\ Locks(a, j)
      BY <1>1, <2>2, <3>1 DEF Staged, Locks, Looking
    <3>3. Current(task[a]) /\ task[a].report # None /\ task[a].report \in Versions
      BY <1>1, <2>2 DEF ViewsInv, Staged, Jobs
    <3>4. \A d \in V!Doc : task[a].scan[d] # None
      BY <2>2, <3>3 DEF Versions
    <3>5. Current(j)
      BY <2>2, <3>1, <3>3, <3>4 DEF Current, V!Nothing
    <3> QED
      BY <1>4, <2>2, <3>1, <3>2, <3>5, JobStep DEF j
  <2> QED
    BY <1>3, <1>4, <2>1, <2>2
<1> QED
  BY <1>3, <1>4

LEMMA RebuildKeepsViews ==
  ASSUME ViewConstants, ViewsInv, NEW a \in V!Actor, UNCHANGED V!viewVars,
         \/ V!EnterGate(a) \/ V!Reuse(a) \/ V!ShutGate(a) \/ V!RebuildFails(a)
         \/ \E d \in V!Doc : V!Scan(a, d)
  PROVE  ViewsInv'
<1>1. /\ Staged(a, task[a]) /\ Locks(a, task[a]) /\ task[a] \in Jobs
      /\ task \in [V!Actor -> Jobs] /\ spent \in Counted
  BY DEF ViewsInv, AllStaged, ViewsTyped
<1>2. /\ task[a].at \in Rebuilding
      /\ UNCHANGED <<tree, ledger, pending, db, crossed, spoiled, writer, head, shown, sound>>
  BY DEF V!EnterGate, V!Reuse, V!ShutGate, V!RebuildFails, V!Scan, V!files, V!index, V!viewVars,
         Rebuilding
<1>3. a = Engine \/ a \in Indexer \/ a \in Viewer
  BY DEF V!Actor
<1>4. V!Nothing \in [V!Doc -> Nat \cup {None}] /\ \A d \in V!Doc : V!Nothing[d] = None
  BY DEF V!Nothing
<1>5. CASE V!EnterGate(a)
  <2>1. CASE task[a].why = "ready" /\ db # None
    <3>1. task' = [task EXCEPT ![a] = V!Rebuilt(a)] /\ UNCHANGED spent
      BY <1>5, <2>1 DEF V!EnterGate
    <3>2. a \in Viewer
      BY <1>1, <1>2, <1>3, <2>1 DEF Staged
    <3> QED
      BY <1>1, <1>2, <3>1, <3>2, RebuildEnds
  <2>2. CASE ~(task[a].why = "ready" /\ db # None)
    <3> DEFINE next == IF task[a].why = "refresh" /\ task[a].report # None
                       THEN "rescan" ELSE "scan"
               j == [task[a] EXCEPT !.scan = V!Nothing, !.at = next]
    <3>1. /\ task' = [task EXCEPT ![a] = j] /\ UNCHANGED spent
      BY <1>1, <1>5, <2>2 DEF V!EnterGate
    <3>2. j \in Jobs
      BY <1>1, <1>4 DEF Jobs, At, Rebuilding
    <3>3. /\ j.at = next /\ j.scan = V!Nothing /\ j.why = task[a].why
          /\ j.report = task[a].report /\ j.told = task[a].told
      BY <1>1 DEF Jobs
    <3> HIDE DEF j
    <3>4. j.at \in Rebuilding /\ (j.at = "rescan" => j.report # None /\ j.why = "refresh")
      BY <3>3 DEF Rebuilding
    <3> QED
      BY <1>2, <1>4, <3>1, <3>2, <3>3, <3>4, StillRebuilding
  <2> QED
    BY <2>1, <2>2
<1>6. ASSUME NEW d \in V!Doc, V!Scan(a, d) PROVE ViewsInv'
  <2> DEFINE s == [task[a].scan EXCEPT ![d] = tree[d]]
             j == [task[a] EXCEPT !.scan = s]
  <2>1. task' = [task EXCEPT ![a] = j] /\ UNCHANGED spent /\ task[a].at \in {"rescan", "scan"}
    BY <1>6 DEF V!Scan
  <2>2. s \in [V!Doc -> Nat \cup {None}]
    BY <1>1 DEF Jobs, ViewsInv, ViewsTyped, Versions
  <2>3. \A e \in V!Doc : s[e] \in {task[a].scan[e], tree[e]}
    BY <1>1 DEF Jobs
  <2> HIDE DEF s
  <2>4. /\ j \in Jobs /\ j.at = task[a].at /\ j.scan = s /\ j.why = task[a].why
        /\ j.report = task[a].report /\ j.told = task[a].told
    BY <1>1, <2>2 DEF Jobs
  <2> HIDE DEF j
  <2> QED
    BY <1>1, <1>2, <2>1, <2>3, <2>4, StillRebuilding DEF Staged
<1>7. CASE V!Reuse(a)
  <2>1. task[a].at = "rescan" /\ UNCHANGED spent
    BY <1>7 DEF V!Reuse
  <2>2. CASE V!StillCurrent(a)
    <3>1. task' = [task EXCEPT ![a] = V!Rebuilt(a)] /\ task[a].scan = task[a].report
      BY <1>7, <2>2 DEF V!Reuse, V!StillCurrent
    <3>2. a = Engine
      BY <1>1, <1>2, <1>3, <2>1 DEF Staged, ViewConstants
    <3> QED
      BY <1>1, <1>2, <2>1, <3>1, <3>2, RebuildEnds
  <2>3. CASE ~V!StillCurrent(a)
    <3> DEFINE j == [task[a] EXCEPT !.at = "scan", !.scan = V!Nothing]
    <3>1. task' = [task EXCEPT ![a] = j]
      BY <1>1, <1>7, <2>3 DEF V!Reuse
    <3>2. j \in Jobs
      BY <1>1, <1>4 DEF Jobs, At, Rebuilding
    <3>3. /\ j.at = "scan" /\ j.scan = V!Nothing /\ j.why = task[a].why
          /\ j.report = task[a].report /\ j.told = task[a].told
      BY <1>1 DEF Jobs
    <3> HIDE DEF j
    <3> QED
      BY <1>2, <1>4, <2>1, <3>1, <3>2, <3>3, StillRebuilding DEF Rebuilding
  <2> QED
    BY <2>2, <2>3
<1>8. CASE V!ShutGate(a)
  <2> DEFINE j == [task[a] EXCEPT !.at = "drain"]
  <2>1. /\ task' = [task EXCEPT ![a] = j] /\ UNCHANGED spent
        /\ \A d \in V!Doc : task[a].scan[d] # None
    BY <1>8 DEF V!ShutGate, V!Goto, V!Scanned
  <2>2. /\ j \in Jobs /\ j.at = "drain" /\ j.scan = task[a].scan /\ j.why = task[a].why
        /\ j.report = task[a].report /\ j.told = task[a].told
    BY <1>1 DEF Jobs, At, Rebuilding
  <2> HIDE DEF j
  <2> QED
    BY <1>2, <2>1, <2>2, StillRebuilding DEF Rebuilding
<1>9. CASE V!RebuildFails(a)
  <2>1. task' = [task EXCEPT ![a] = V!Unbuilt(a)] /\ V!Spend("troubles")
    BY <1>9 DEF V!RebuildFails, V!Trouble
  <2>2. spent' \in Counted /\ UNCHANGED <<spent["versions"], spent["edits"]>>
    BY <2>1, SpendKeeps DEF ViewsInv
  <2> QED
    BY <1>2, <2>1, <2>2, RebuildEnds
<1> QED
  BY <1>5, <1>6, <1>7, <1>8, <1>9

(* The index is replaced, by a transaction or by somebody else.            *)
LEMMA SwapKeepsViews ==
  ASSUME ViewConstants, ViewsInv, NEW a \in V!Actor, UNCHANGED V!viewVars, V!Swap(a),
         V!Scanned(a)
  PROVE  ViewsInv'
<1>1. /\ Staged(a, task[a]) /\ Locks(a, task[a]) /\ task[a] \in Jobs
      /\ task \in [V!Actor -> Jobs] /\ task[a].at = "drain"
  BY DEF ViewsInv, AllStaged, ViewsTyped, V!Swap
<1>2. task[a].scan \in Versions /\ task[a].scan # None
  BY <1>1 DEF V!Scanned, Jobs, Versions, ViewConstants
<1>3. PICK j \in Jobs :
      /\ j = V!Rebuilt(a) /\ task' = [task EXCEPT ![a] = j]
  <2>1. task[a].at \in Rebuilding
    BY <1>1 DEF Rebuilding
  <2>2. V!Rebuilt(a) \in Jobs
    BY <1>2, <2>1, RebuiltIs
  <2> QED
    BY <2>2 DEF V!Swap
<1>4. /\ db' = task[a].scan /\ crossed' = (crossed \/ writer \notin {a, None})
      /\ spoiled' = (spoiled \/ \E d \in V!Doc : db'[d] > V!Newest[d])
      /\ UNCHANGED <<tree, ledger, pending, writer, spent, head, shown, sound>>
  BY DEF V!Swap, V!files, V!viewVars
<1>5. a = Engine \/ a \in Indexer \/ a \in Viewer
  BY DEF V!Actor
<1>6. /\ j \in Jobs /\ j.scan = V!Nothing /\ j.why = task[a].why
      /\ a = Engine => \/ /\ j.why = "preflight" /\ j.at = "analyse"
                          /\ j.report = task[a].scan /\ j.told = task[a].told
                       \/ /\ j.why = "refresh" /\ j.at = "done"
                          /\ j.report = task[a].report /\ j.told = "fresh"
      /\ a \in Indexer => j.at = "idle"
      /\ a \in Viewer => /\ j.at = "query" /\ j.why = "ready" /\ j.told = task[a].told
  <2>1. task[a].at \in Rebuilding
    BY <1>1 DEF Rebuilding
  <2> QED
    BY <1>2, <1>3, <2>1, RebuiltIs
<1>7. task'[a] = j /\ \A b \in V!Actor : b # a => task'[b] = task[b]
  BY <1>1, <1>3
<1>8. UNCHANGED V!Newest /\ V!Newest \in Versions
  BY <1>3, <1>4, NewestIsLast DEF V!Newest, ViewsInv
<1>9. ViewsTyped'
  BY <1>2, <1>3, <1>4, <1>6 DEF ViewsInv, ViewsTyped
<1>10. Aged'
  BY <1>3, <1>4, <1>8 DEF ViewsInv, Aged
<1>11. Unspoiled'
  <2>1. ~spoiled' => \A d \in V!Doc : ~(db'[d] > V!Newest[d])
    BY <1>4
  <2>2. \A d \in V!Doc : db'[d] \in Nat /\ V!Newest[d] \in Nat
    BY <1>2, <1>4, <1>8 DEF Versions
  <2> QED
    BY <1>8, <2>1, <2>2 DEF Unspoiled
<1>12. AllStaged'
  <2>1. Staged(a, j) /\ Locks(a, j)
    BY <1>1, <1>5, <1>6 DEF Staged, Locks, Rebuilding, Looking, ViewConstants
  <2> QED
    BY <1>3, <1>4, <1>7, <2>1 DEF ViewsInv, AllStaged, Staged, Locks
<1>13. Current(task[Engine])'
  <2>1. CASE a = Engine
    <3>1. Current(task[Engine])
      BY DEF ViewsInv
    <3>2. \A d \in V!Doc : task[a].scan[d] >= V!Newest[d]
      BY <1>1, <1>2, <2>1, <3>1 DEF Current, Versions, ViewConstants
    <3>3. Current(j)'
      BY <1>2, <1>3, <1>4, <1>6, <1>8, <2>1, <3>2 DEF Current, V!Nothing
    <3> QED
      BY <1>7, <2>1, <3>3
  <2>2. CASE a # Engine
    <3>1. task'[Engine] = task[Engine] /\ UNCHANGED <<ledger, pending>>
      BY <1>3, <1>4, <1>7, <2>2, Resting
    <3>2. task[Engine].at # "idle" => crossed'
      BY <1>3, <1>4, <2>2, OneAtATime, Resting
    <3> QED
      BY <3>1, <3>2, EngineWaits
  <2> QED
    BY <2>1, <2>2
<1>14. \A v \in Viewer : Viewing(v, task[v])'
  <2> SUFFICES ASSUME NEW v \in Viewer PROVE Viewing(v, task[v])'
    OBVIOUS
  <2>1. CASE v = a
    <3>1. Viewing(v, task[v]) /\ task[v].at = "drain" /\ task[v].told # "shown"
      BY <1>1, <2>1 DEF ViewsInv, Viewing
    <3>2. v \in V!Builder => writer = v
      BY <3>1, OneAtATime
    <3>3. v \in V!Builder /\ ~crossed' => ~crossed
      BY <1>4
    <3>4. Viewing(v, j)'
      BY <1>3, <1>4, <1>6, <1>8, <2>1, <3>1, <3>2, <3>3 DEF Viewing, Looking
    <3> QED
      BY <1>7, <2>1, <3>4
  <2>2. CASE v # a
    <3>1. task'[v] = task[v]
      BY <1>7, <2>2, Resting
    <3>2. v \in V!Builder /\ task[v].at # "idle" => crossed'
      BY <1>3, <1>4, <2>2, OneAtATime, Resting
    <3>3. /\ Len(ledger) <= Len(ledger') /\ \A d \in V!Doc : V!Newest[d] <= V!Newest'[d]
      BY <1>3, <1>4, <1>8, NewestIsLast DEF Versions, ViewsInv
    <3> QED
      BY <1>3, <1>4, <1>9, <3>1, <3>2, <3>3, OthersView
  <2> QED
    BY <2>1, <2>2
<1> QED
  BY <1>9, <1>10, <1>11, <1>12, <1>13, <1>14 DEF ViewsInv

(* What a step sets of what somebody is about.                             *)
LEMMA GotoIs ==
  ASSUME ViewsTyped, NEW a \in V!Actor, NEW x \in At, V!Goto(a, x)
  PROVE  \E j \in Jobs :
           /\ task' = [task EXCEPT ![a] = j]
           /\ j.at = x /\ j.why = task[a].why /\ j.told = task[a].told
           /\ j.scan = task[a].scan /\ j.report = task[a].report
<1>1. task[a] \in Jobs /\ task \in [V!Actor -> Jobs] /\ x \in At
  BY DEF ViewsTyped, At, Rebuilding, Looking
<1> DEFINE r == [task[a] EXCEPT !.at = x]
<1>2. task' = [task EXCEPT ![a] = r]
  BY <1>1 DEF V!Goto
<1>3. /\ r \in Jobs /\ r.at = x /\ r.why = task[a].why /\ r.told = task[a].told
      /\ r.scan = task[a].scan /\ r.report = task[a].report
  BY <1>1 DEF Jobs
<1> HIDE DEF r
<1> QED
  BY <1>2, <1>3

LEMMA AskForIs ==
  ASSUME ViewsTyped, NEW a \in V!Actor, NEW y \in Why, V!AskFor(a, y)
  PROVE  \E j \in Jobs :
           /\ task' = [task EXCEPT ![a] = j]
           /\ j.at = "gate" /\ j.why = y /\ j.told = task[a].told
           /\ j.scan = task[a].scan /\ j.report = task[a].report
<1>1. task[a] \in Jobs /\ task \in [V!Actor -> Jobs] /\ "gate" \in At
  BY DEF ViewsTyped, At, Rebuilding, Looking
<1> DEFINE r == [task[a] EXCEPT !.at = "gate"]
       q == [r EXCEPT !.why = y]
<1>2. r \in Jobs /\ task' = [task EXCEPT ![a] = q]
  BY <1>1 DEF Jobs, V!AskFor
<1>3. /\ q \in Jobs /\ q.at = "gate" /\ q.why = y /\ q.told = task[a].told
      /\ q.scan = task[a].scan /\ q.report = task[a].report
  BY <1>1, <1>2 DEF Jobs
<1> HIDE DEF q
<1> QED
  BY <1>2, <1>3

Tells(a, z) == task' = [task EXCEPT ![a].at = "done", ![a].told = z]

LEMMA TellIs ==
  ASSUME ViewsTyped, NEW a \in V!Actor, NEW z \in Told, Tells(a, z)
  PROVE  \E j \in Jobs :
           /\ task' = [task EXCEPT ![a] = j]
           /\ j.at = "done" /\ j.why = task[a].why /\ j.told = z
           /\ j.scan = task[a].scan /\ j.report = task[a].report
<1>1. task[a] \in Jobs /\ task \in [V!Actor -> Jobs] /\ "done" \in At
  BY DEF ViewsTyped, At, Rebuilding, Looking
<1> DEFINE r == [task[a] EXCEPT !.at = "done"]
       q == [r EXCEPT !.told = z]
<1>2. r \in Jobs /\ task' = [task EXCEPT ![a] = q]
  BY <1>1 DEF Jobs, Tells
<1>3. /\ q \in Jobs /\ q.at = "done" /\ q.why = task[a].why /\ q.told = z
      /\ q.scan = task[a].scan /\ q.report = task[a].report
  BY <1>1, <1>2 DEF Jobs
<1> HIDE DEF q
<1> QED
  BY <1>2, <1>3

LEMMA StartingIs ==
  ASSUME NEW y \in Why
  PROVE  LET j == [V!Idle EXCEPT !.at = "gate", !.why = y] IN
         /\ j \in Jobs /\ j.at = "gate" /\ j.why = y /\ j.scan = V!Nothing
         /\ j.report = None /\ j.told = "none"
<1>1. V!Nothing \in [V!Doc -> Nat \cup {None}]
  BY DEF V!Nothing
<1> QED
  BY <1>1 DEF V!Idle, Jobs, At, Told, Rebuilding

LEMMA AppendGrows ==
  ASSUME ViewsTyped, NEW w \in Versions, ledger' = Append(ledger, w)
  PROVE  /\ ledger' \in Seq(Versions) /\ ledger' # <<>> /\ V!Newest' = w
         /\ Len(ledger) <= Len(ledger') /\ \A i \in 1..Len(ledger) : ledger'[i] = ledger[i]
<1>1. ledger \in Seq(Versions)
  BY DEF ViewsTyped
<1>2. Len(ledger') = Len(ledger) + 1 /\ Len(ledger) \in Nat
  BY <1>1
<1> QED
  BY <1>1, <1>2 DEF V!Newest

(* What begins: an explicit rebuild, a transaction, a recovery.            *)
LEMMA BeginningsKeepViews ==
  ASSUME ViewConstants, ViewsInv, UNCHANGED V!viewVars,
         V!BeginApply \/ V!Recover \/ \E a \in Indexer : V!Index(a)
  PROVE  ViewsInv'
<1>1. /\ task \in [V!Actor -> Jobs] /\ spent \in Counted /\ ViewsTyped /\ Aged /\ Unspoiled
      /\ V!Newest \in Versions /\ Len(ledger) \in Nat
      /\ \A d \in V!Doc : V!Newest[d] <= V!Newest[d]
  <2>1. V!Newest \in Versions /\ Len(ledger) \in Nat
    BY NewestIsLast DEF ViewsInv
  <2> QED
    BY <2>1 DEF ViewsInv, ViewsTyped, Versions
<1>2. UNCHANGED <<head, shown, sound>> /\ Engine \notin Indexer /\ Engine \notin Viewer
  BY DEF V!viewVars, ViewConstants
<1>3. ASSUME NEW a \in Indexer, V!Index(a) PROVE ViewsInv'
  <2>1. /\ V!AskFor(a, "explicit")
        /\ V!Spend("indexes") /\ task[a].at = "idle" /\ a # Engine /\ a \notin Viewer
        /\ a \in V!Actor
        /\ UNCHANGED <<tree, ledger, pending, db, crossed, spoiled, writer>>
    BY <1>3, Resting DEF V!Index, V!Start, V!files, V!index, ViewConstants
  <2>2. "explicit" \in Why
    BY DEF Why
  <2>3. PICK j \in Jobs :
          /\ task' = [task EXCEPT ![a] = j] /\ j.at = "gate" /\ j.why = "explicit"
          /\ j.scan = task[a].scan
    BY <1>1, <2>1, <2>2, AskForIs
  <2>4. Staged(a, task[a])
    BY <2>1 DEF ViewsInv, AllStaged
  <2>5. Staged(a, j) /\ Locks(a, j)
    BY <2>1, <2>3, <2>4, OneAtATime DEF Staged, Locks, Rebuilding
  <2>6. spent' \in Counted /\ UNCHANGED <<spent["versions"], spent["edits"]>>
    BY <1>1, <2>1, SpendKeeps
  <2> QED
    BY <1>2, <2>1, <2>3, <2>5, <2>6, JobStep
<1>4. CASE V!BeginApply
  <2>1. PICK j \in Jobs :
          /\ task' = [task EXCEPT ![Engine] = j] /\ j.at = "gate" /\ j.why = "preflight"
          /\ j.scan = V!Nothing /\ j.report = None /\ j.told = "none"
    BY <1>2, <1>4, StartingIs DEF V!BeginApply, V!Start, Why
  <2>2. /\ writer = None /\ writer' = Engine /\ crossed' = FALSE /\ V!Spend("applies")
        /\ UNCHANGED <<tree, ledger, pending, db, spoiled>>
    BY <1>2, <1>4 DEF V!BeginApply, V!Start, V!LockContext, V!files
  <2>3. spent' \in Counted /\ UNCHANGED <<spent["versions"], spent["edits"]>>
    BY <1>1, <2>2, SpendKeeps
  <2>4. ViewsTyped'
    BY <1>1, <1>2, <2>1, <2>2, <2>3 DEF ViewsTyped
  <2>5. Aged' /\ Unspoiled' /\ UNCHANGED V!Newest
    BY <1>1, <2>2, <2>3 DEF Aged, Unspoiled, V!Newest
  <2>6. Staged(Engine, j) /\ Locks(Engine, j)' /\ Current(j)'
    BY <1>2, <2>1, <2>2 DEF Staged, Locks, Current, Rebuilding, V!Nothing
  <2>7. /\ Len(ledger) <= Len(ledger') /\ \A i \in 1..Len(ledger) : ledger'[i] = ledger[i]
        /\ \A d \in V!Doc : V!Newest[d] <= V!Newest'[d]
    BY <1>1, <2>2, <2>5
  <2> QED
    BY <1>2, <2>1, <2>2, <2>4, <2>5, <2>6, <2>7, EngineStep
<1>5. CASE V!Recover
  <2>1. PICK j \in Jobs :
          /\ task' = [task EXCEPT ![Engine] = j] /\ j.at = "gate" /\ j.why = "refresh"
          /\ j.scan = V!Nothing /\ j.report = None /\ j.told = "none"
    BY <1>5, StartingIs DEF V!Recover, Why
  <2>2. /\ writer = None /\ writer' = Engine /\ crossed' = FALSE /\ V!Spend("recoveries")
        /\ UNCHANGED <<db, spoiled>>
        /\ \/ /\ pending # None /\ tree' = V!Restored /\ pending' = None
              /\ ledger' = Append(ledger, V!Newest)
           \/ UNCHANGED <<tree, ledger, pending>>
    BY <1>5 DEF V!Recover, V!LockContext, V!files
  <2>3. spent' \in Counted /\ UNCHANGED <<spent["versions"], spent["edits"]>>
    BY <1>1, <2>2, SpendKeeps
  <2>4. /\ tree' \in Versions /\ pending' \in Replaced \cup {None}
        /\ ledger' \in Seq(Versions) /\ ledger' # <<>> /\ V!Newest' = V!Newest
        /\ Len(ledger) <= Len(ledger') /\ \A i \in 1..Len(ledger) : ledger'[i] = ledger[i]
        /\ Aged'
    <3>1. CASE UNCHANGED <<tree, ledger, pending>>
      BY <1>1, <2>3, <3>1 DEF ViewsTyped, Aged, V!Newest
    <3>2. CASE /\ pending # None /\ tree' = V!Restored /\ pending' = None
               /\ ledger' = Append(ledger, V!Newest)
      <4>1. /\ ledger' \in Seq(Versions) /\ ledger' # <<>> /\ V!Newest' = V!Newest
            /\ Len(ledger) <= Len(ledger') /\ \A i \in 1..Len(ledger) : ledger'[i] = ledger[i]
        BY <1>1, <3>2, AppendGrows
      <4>2. pending \in Replaced /\ tree' = [tree EXCEPT ![pending.doc] = pending.was]
        BY <1>1, <3>2 DEF ViewsTyped, V!Restored
      <4>3. tree' \in Versions
        BY <1>1, <4>2 DEF ViewsTyped, Versions, Replaced
      <4>4. Aged'
        BY <1>1, <2>3, <3>2, <4>1, <4>2 DEF Aged, Replaced, ViewsTyped, Versions
      <4> QED
        BY <3>2, <4>1, <4>3, <4>4
    <3> QED
      BY <2>2, <3>1, <3>2
  <2>5. ViewsTyped' /\ Unspoiled'
    BY <1>1, <1>2, <2>1, <2>2, <2>3, <2>4 DEF ViewsTyped, Unspoiled
  <2>6. Staged(Engine, j) /\ Locks(Engine, j)' /\ Current(j)'
    BY <1>2, <2>1, <2>2 DEF Staged, Locks, Current, Rebuilding, V!Nothing
  <2>7. \A d \in V!Doc : V!Newest[d] <= V!Newest'[d]
    BY <1>1, <2>4
  <2> QED
    BY <2>7, <1>1, <1>2, <2>1, <2>2, <2>4, <2>5, <2>6, EngineStep
<1> QED
  BY <1>3, <1>4, <1>5

(* A transaction replaces a document, and commits it or puts it back.      *)
LEMMA TransactKeepsViews ==
  ASSUME ViewConstants, ViewsInv, UNCHANGED V!viewVars,
         \/ \E d \in V!Doc : V!Replace(d)
         \/ V!Commit \/ V!CommitElsewhere \/ V!RollBack
  PROVE  ViewsInv'
<1>1. /\ task \in [V!Actor -> Jobs] /\ spent \in Counted /\ ViewsTyped /\ Aged /\ Unspoiled
      /\ V!Newest \in Versions /\ Len(ledger) \in Nat
      /\ \A d \in V!Doc : V!Newest[d] <= V!Newest[d]
  <2>1. V!Newest \in Versions /\ Len(ledger) \in Nat
    BY NewestIsLast DEF ViewsInv
  <2> QED
    BY <2>1 DEF ViewsInv, ViewsTyped, Versions
<1>2. /\ UNCHANGED <<head, shown, sound, db, crossed, spoiled, writer>>
      /\ Engine \notin Indexer /\ Engine \notin Viewer /\ Engine \in V!Actor
  BY Resting DEF V!viewVars, ViewConstants, V!Replace, V!Commit, V!CommitElsewhere, V!RollBack,
                 V!index
<1>3. /\ task[Engine].at \in {"decided", "replaced"} /\ writer = Engine
      /\ Staged(Engine, task[Engine]) /\ Current(task[Engine]) /\ task[Engine] \in Jobs
  BY <1>1, <1>2 DEF ViewsInv, AllStaged, Locks, V!Replace, V!Commit, V!CommitElsewhere, V!RollBack
<1>4. task[Engine].scan = V!Nothing
  BY <1>3 DEF Staged
<1>5. ASSUME NEW d \in V!Doc, V!Replace(d) PROVE ViewsInv'
  <2>1. "replaced" \in At /\ V!Goto(Engine, "replaced")
    BY <1>5 DEF V!Replace, At, Transacting
  <2>2. PICK j \in Jobs :
          /\ task' = [task EXCEPT ![Engine] = j] /\ j.at = "replaced"
          /\ j.scan = V!Nothing /\ j.report = task[Engine].report
    BY <1>1, <1>2, <1>4, <2>1, GotoIs
  <2>3. /\ spent' = [spent EXCEPT !["versions"] = spent["versions"] + 1]
        /\ tree' = [tree EXCEPT ![d] = spent'["versions"]]
        /\ pending' = [doc |-> d, was |-> tree[d]] /\ UNCHANGED ledger
        /\ task[Engine].at = "decided"
    BY <1>5 DEF V!Replace, V!Spend
  <2>4. spent["versions"] \in Nat /\ spent' \in Counted /\
          spent'["versions"] = spent["versions"] + 1
    BY <1>1, <2>3 DEF Counted
  <2>5. tree \in Versions /\ tree' \in Versions /\ pending' \in Replaced /\ pending' # None
    BY <1>1, <2>3, <2>4 DEF ViewsTyped, Versions, Replaced, ViewConstants
  <2>6. ViewsTyped'
    BY <1>1, <1>2, <2>2, <2>3, <2>4, <2>5 DEF ViewsTyped
  <2>7. UNCHANGED V!Newest
    BY <2>3 DEF V!Newest
  <2>8. Aged'
    BY <1>1, <2>3, <2>4, <2>5, <2>7 DEF Aged, Versions
  <2>9. Unspoiled'
    BY <1>1, <1>2, <2>7 DEF Unspoiled
  <2>10. Staged(Engine, j) /\ Locks(Engine, j)'
    BY <1>2, <1>3, <2>2 DEF Staged, Locks, Rebuilding
  <2>11. Current(j)'
    BY <1>2, <1>3, <2>2, <2>3, <2>5, <2>7 DEF Current, V!Nothing
  <2>12. /\ Len(ledger) <= Len(ledger') /\ \A i \in 1..Len(ledger) : ledger'[i] = ledger[i]
         /\ \A e \in V!Doc : V!Newest[e] <= V!Newest'[e]
    BY <1>1, <2>3, <2>7
  <2> QED
    BY <1>2, <1>3, <2>2, <2>6, <2>8, <2>9, <2>10, <2>11, <2>12, EngineStep
<1>6. CASE V!Commit \/ V!CommitElsewhere
  <2>1. "close" \in At /\ V!Goto(Engine, "close") /\ UNCHANGED spent
    BY <1>6 DEF V!Commit, V!CommitElsewhere, At, Transacting
  <2>2. PICK j \in Jobs :
          /\ task' = [task EXCEPT ![Engine] = j] /\ j.at = "close"
          /\ j.scan = V!Nothing /\ j.report = task[Engine].report
    BY <1>1, <1>2, <1>4, <2>1, GotoIs
  <2>3. PICK w \in Versions :
          /\ ledger' = Append(ledger, w) /\ UNCHANGED tree
          /\ pending' \in {pending, None}
          /\ \A d \in V!Doc : w[d] \in {V!Newest[d], tree[d]}
          /\ pending' # None => w = V!Newest
    <3>1. CASE V!CommitElsewhere
      BY <1>1, <3>1 DEF V!CommitElsewhere
    <3>2. CASE V!Commit
      <4> DEFINE w == [V!Newest EXCEPT ![pending.doc] = tree[pending.doc]]
      <4>1. task[Engine].at = "replaced" /\ pending # None /\ pending.doc \in V!Doc
        BY <1>1, <1>3, <3>2 DEF V!Commit, Current, ViewsTyped, Replaced
      <4>2. w \in Versions /\ \A d \in V!Doc : w[d] \in {V!Newest[d], tree[d]}
        BY <1>1, <4>1 DEF ViewsTyped, Versions
      <4>3. ledger' = Append(ledger, w) /\ pending' = None /\ UNCHANGED tree
        BY <3>2 DEF V!Commit
      <4> QED
        BY <4>2, <4>3
    <3> QED
      BY <1>6, <3>1, <3>2
  <2>4. /\ ledger' \in Seq(Versions) /\ ledger' # <<>> /\ V!Newest' = w
        /\ Len(ledger) <= Len(ledger') /\ \A i \in 1..Len(ledger) : ledger'[i] = ledger[i]
    BY <1>1, <2>3, AppendGrows
  <2>5. \A d \in V!Doc : V!Newest[d] <= w[d] /\ w[d] <= tree[d] /\ w[d] \in Nat
    <3>1. \A d \in V!Doc : V!Newest[d] \in Nat /\ tree[d] \in Nat /\ V!Newest[d] <= tree[d]
      BY <1>1 DEF Aged, Versions, ViewsTyped
    <3> QED
      BY <2>3, <3>1
  <2>6. Aged'
    BY <1>1, <2>1, <2>3, <2>4, <2>5 DEF Aged
  <2>7. Unspoiled'
    <3>1. db # None => \A d \in V!Doc : db[d] \in Nat
      BY <1>1 DEF ViewsTyped, Versions
    <3>2. \A d \in V!Doc : V!Newest[d] \in Nat
      BY <1>1 DEF Versions
    <3> QED
      BY <1>1, <1>2, <2>4, <2>5, <3>1, <3>2 DEF Unspoiled
  <2>8. ViewsTyped'
    BY <1>1, <1>2, <2>1, <2>2, <2>3, <2>4 DEF ViewsTyped
  <2>9. Staged(Engine, j) /\ Locks(Engine, j)'
    BY <1>2, <1>3, <2>2 DEF Staged, Locks, Rebuilding
  <2>10. Current(j)'
    BY <1>2, <1>3, <2>2 DEF Current, V!Nothing
  <2> QED
    BY <1>2, <1>3, <2>2, <2>4, <2>5, <2>6, <2>7, <2>8, <2>9, <2>10, EngineStep
<1>7. CASE V!RollBack
  <2>1. "fresh" \in Told /\ Tells(Engine, "fresh") /\ UNCHANGED spent
    BY <1>7 DEF V!RollBack, Tells, Told
  <2>2. PICK j \in Jobs :
          /\ task' = [task EXCEPT ![Engine] = j] /\ j.at = "done"
          /\ j.scan = V!Nothing /\ j.report = task[Engine].report
    BY <1>1, <1>2, <1>4, <2>1, TellIs
  <2>3. /\ pending \in Replaced /\ pending # None /\ task[Engine].at = "replaced"
        /\ tree' = [tree EXCEPT ![pending.doc] = pending.was]
        /\ pending' = None /\ ledger' = Append(ledger, V!Newest)
    BY <1>1, <1>3, <1>7 DEF V!RollBack, V!Restored, Current, ViewsTyped
  <2>4. /\ ledger' \in Seq(Versions) /\ ledger' # <<>> /\ V!Newest' = V!Newest
        /\ Len(ledger) <= Len(ledger') /\ \A i \in 1..Len(ledger) : ledger'[i] = ledger[i]
    BY <1>1, <2>3, AppendGrows
  <2>5. tree' \in Versions
    BY <1>1, <2>3 DEF ViewsTyped, Versions, Replaced
  <2>6. Aged'
    BY <1>1, <2>1, <2>3, <2>4 DEF Aged, Replaced, ViewsTyped, Versions
  <2>7. Unspoiled'
    BY <1>1, <1>2, <2>4 DEF Unspoiled
  <2>8. ViewsTyped'
    BY <1>1, <1>2, <2>1, <2>2, <2>3, <2>4, <2>5 DEF ViewsTyped
  <2>9. Staged(Engine, j) /\ Locks(Engine, j)'
    BY <1>2, <1>3, <2>2 DEF Staged, Locks, Rebuilding
  <2>10. Current(j)'
    BY <1>2, <1>3, <2>2, <2>3, <2>4 DEF Current, V!Nothing
  <2>11. \A d \in V!Doc : V!Newest[d] <= V!Newest'[d]
    BY <1>1, <2>4
  <2> QED
    BY <1>2, <1>3, <2>2, <2>4, <2>6, <2>7, <2>8, <2>9, <2>10, <2>11, EngineStep
<1> QED
  BY <1>5, <1>6, <1>7

(* What precedes the replacement and what follows it.                      *)
LEMMA TransactionKeepsViews ==
  ASSUME ViewConstants, ViewsInv, UNCHANGED V!viewVars,
         V!Analyse \/ V!CloseReader \/ V!Invalidate \/ V!Confirm \/ V!EndApply
  PROVE  ViewsInv'
<1>1. /\ task \in [V!Actor -> Jobs] /\ spent \in Counted /\ ViewsTyped /\ Aged /\ Unspoiled
      /\ V!Newest \in Versions /\ Len(ledger) \in Nat
      /\ \A d \in V!Doc : V!Newest[d] <= V!Newest[d]
  <2>1. V!Newest \in Versions /\ Len(ledger) \in Nat
    BY NewestIsLast DEF ViewsInv
  <2> QED
    BY <2>1 DEF ViewsInv, ViewsTyped, Versions
<1>2. /\ UNCHANGED <<head, shown, sound, tree, ledger, pending, crossed, spoiled>>
      /\ Engine \notin Indexer /\ Engine \notin Viewer /\ Engine \in V!Actor
      /\ UNCHANGED V!Newest
  BY Resting DEF V!viewVars, ViewConstants, V!Analyse, V!CloseReader, V!Invalidate, V!Confirm,
                 V!EndApply, V!index, V!files, V!Newest
<1>3. /\ task[Engine].at \in {"analyse", "close", "invalidate", "confirm", "done", "failed"}
      /\ Staged(Engine, task[Engine]) /\ Current(task[Engine]) /\ task[Engine] \in Jobs
      /\ writer = Engine
  BY <1>1, <1>2 DEF ViewsInv, AllStaged, Locks, V!Analyse, V!CloseReader, V!Invalidate, V!Confirm,
                    V!EndApply
<1>4. task[Engine].scan = V!Nothing
  BY <1>3 DEF Staged
<1>5. CASE V!Analyse
  <2>1. PICK x \in {"decided", "failed"} : V!Goto(Engine, x)
    BY <1>5 DEF V!Analyse
  <2>2. x \in At
    BY <2>1 DEF At, Transacting, Looking
  <2>3. PICK j \in Jobs :
          /\ task' = [task EXCEPT ![Engine] = j] /\ j.at = x /\ j.told = task[Engine].told
          /\ j.scan = V!Nothing /\ j.report = task[Engine].report
    BY <1>1, <1>2, <1>4, <2>1, <2>2, GotoIs
  <2>4. Staged(Engine, j) /\ Locks(Engine, j) /\ Current(j)
    BY <1>2, <1>3, <1>5, <2>1, <2>3 DEF Staged, Locks, Rebuilding, Current, V!Analyse, V!Nothing
  <2>5. UNCHANGED <<db, writer, spent>>
    BY <1>5 DEF V!Analyse, V!index
  <2> QED
    BY <1>1, <1>2, <2>3, <2>4, <2>5, JobStep
<1>6. CASE V!CloseReader
  <2>1. "refresh" \in Why /\ V!AskFor(Engine, "refresh") /\ task[Engine].at = "close"
    BY <1>6 DEF V!CloseReader, Why
  <2>2. PICK j \in Jobs :
          /\ task' = [task EXCEPT ![Engine] = j] /\ j.at = "gate" /\ j.why = "refresh"
          /\ j.scan = V!Nothing /\ j.report = task[Engine].report
    BY <1>1, <1>2, <1>4, <2>1, AskForIs
  <2>3. Staged(Engine, j) /\ Locks(Engine, j) /\ Current(j)
    BY <1>2, <1>3, <2>1, <2>2 DEF Staged, Locks, Rebuilding, Current, V!Nothing
  <2>4. UNCHANGED <<db, writer, spent>>
    BY <1>6 DEF V!CloseReader, V!index
  <2> QED
    BY <1>1, <1>2, <2>2, <2>3, <2>4, JobStep
<1>7. CASE V!Invalidate
  <2>1. "confirm" \in At /\ V!Goto(Engine, "confirm") /\ db' \in {db, None} /\ UNCHANGED writer
    BY <1>7 DEF V!Invalidate, At, Transacting
  <2>2. PICK j \in Jobs :
          /\ task' = [task EXCEPT ![Engine] = j] /\ j.at = "confirm"
          /\ j.scan = V!Nothing /\ j.report = task[Engine].report
    BY <1>1, <1>2, <1>4, <2>1, GotoIs
  <2>3. UNCHANGED spent \/ V!Spend("troubles")
    BY <1>7 DEF V!Invalidate, V!Trouble
  <2>4. spent' \in Counted /\ UNCHANGED <<spent["versions"], spent["edits"]>>
    BY <1>1, <2>3, SpendKeeps
  <2>5. ViewsTyped' /\ Aged' /\ Unspoiled'
    BY <1>1, <1>2, <2>1, <2>2, <2>4 DEF ViewsTyped, Aged, Unspoiled
  <2>6. Staged(Engine, j) /\ Locks(Engine, j)' /\ Current(j)'
    BY <1>2, <1>3, <2>1, <2>2 DEF Staged, Locks, Rebuilding, Current, V!Nothing
  <2>7. /\ Len(ledger) <= Len(ledger') /\ \A i \in 1..Len(ledger) : ledger'[i] = ledger[i]
        /\ \A d \in V!Doc : V!Newest[d] <= V!Newest'[d]
    BY <1>1, <1>2
  <2> QED
    BY <1>2, <1>3, <2>1, <2>2, <2>5, <2>6, <2>7, EngineStep
<1>8. CASE V!Confirm
  <2>1. PICK z \in {"stale", "unconfirmed"} : Tells(Engine, z)
    BY <1>8 DEF V!Confirm, Tells
  <2>2. z \in Told /\ UNCHANGED <<db, writer, spent>>
    BY <1>8 DEF V!Confirm, V!index, Told
  <2>3. PICK j \in Jobs :
          /\ task' = [task EXCEPT ![Engine] = j] /\ j.at = "done" /\ j.told = z
          /\ j.scan = V!Nothing
    BY <1>1, <1>2, <1>4, <2>1, <2>2, TellIs
  <2>4. Staged(Engine, j) /\ Locks(Engine, j) /\ Current(j)
    BY <1>2, <1>3, <2>3 DEF Staged, Locks, Rebuilding, Current, V!Nothing
  <2> QED
    BY <1>1, <1>2, <2>2, <2>3, <2>4, JobStep
<1>9. CASE V!EndApply
  <2>1. task' = [task EXCEPT ![Engine] = V!Idle] /\ writer' = None /\ UNCHANGED <<db, spent>>
    BY <1>9 DEF V!EndApply, V!index
  <2>2. V!Idle \in Jobs /\ V!Idle.at = "idle"
    BY Resting DEF V!Idle
  <2>3. ViewsTyped' /\ Aged' /\ Unspoiled'
    BY <1>1, <1>2, <2>1, <2>2 DEF ViewsTyped, Aged, Unspoiled
  <2>4. PICK j \in Jobs : j = V!Idle /\ j.at = "idle"
    BY <2>2
  <2>5. Staged(Engine, j) /\ Locks(Engine, j)'
    BY <1>2, <2>4, Resting DEF Locks
  <2>6. Current(j)'
    BY <2>4 DEF Current
  <2>7. /\ Len(ledger) <= Len(ledger') /\ \A i \in 1..Len(ledger) : ledger'[i] = ledger[i]
        /\ \A d \in V!Doc : V!Newest[d] <= V!Newest'[d]
    BY <1>1, <1>2
  <2> QED
    BY <1>2, <1>3, <2>1, <2>3, <2>4, <2>5, <2>6, <2>7, EngineStep
<1> QED
  BY <1>5, <1>6, <1>7, <1>8, <1>9

(* Edits by hand, and the end of a process with all it is about.           *)
LEMMA TroublesKeepViews ==
  ASSUME ViewConstants, ViewsInv, UNCHANGED V!viewVars,
         \/ \E d \in V!Doc : V!EditDoc(d)
         \/ \E p \in V!Process : V!Die(p)
  PROVE  ViewsInv'
<1>1. /\ task \in [V!Actor -> Jobs] /\ spent \in Counted /\ ViewsTyped /\ Aged /\ Unspoiled
      /\ V!Newest \in Versions /\ Len(ledger) \in Nat /\ tree \in Versions
      /\ \A d \in V!Doc : V!Newest[d] <= V!Newest[d]
  <2>1. V!Newest \in Versions /\ Len(ledger) \in Nat
    BY NewestIsLast DEF ViewsInv
  <2> QED
    BY <2>1 DEF ViewsInv, ViewsTyped, Versions
<1>2. /\ UNCHANGED <<head, shown, sound, ledger, pending, db, crossed, spoiled>>
      /\ Engine \in V!Actor /\ Viewer \subseteq V!Actor
      /\ UNCHANGED V!Newest
  BY Resting DEF V!viewVars, V!EditDoc, V!Die, V!index, V!files, V!Newest
<1>3. /\ Len(ledger) <= Len(ledger') /\ \A i \in 1..Len(ledger) : ledger'[i] = ledger[i]
      /\ \A d \in V!Doc : V!Newest[d] <= V!Newest'[d]
  BY <1>1, <1>2
<1>4. ASSUME NEW d \in V!Doc, V!EditDoc(d) PROVE ViewsInv'
  <2>1. /\ UNCHANGED <<writer, task>>
        /\ spent' = [spent EXCEPT !["edits"] = spent["edits"] + 1,
                       !["troubles"] = spent["troubles"] + 1,
                       !["versions"] = spent["versions"] + 1]
        /\ tree' = [tree EXCEPT ![d] = spent'["versions"]]
    BY <1>4 DEF V!EditDoc
  <2>2. /\ spent' \in Counted /\ spent'["versions"] = spent["versions"] + 1
        /\ spent["versions"] \in Nat /\ spent["edits"] \in Nat
        /\ spent'["edits"] = spent["edits"] + 1
    BY <1>1, <2>1 DEF Counted
  <2>3. tree' \in Versions
    BY <1>1, <2>1, <2>2 DEF Versions
  <2>4. ViewsTyped' /\ Unspoiled'
    BY <1>1, <1>2, <2>1, <2>2, <2>3 DEF ViewsTyped, Unspoiled
  <2>5. Aged'
    <3>1. \A e \in V!Doc : V!Newest[e] <= tree'[e] /\ tree'[e] <= spent'["versions"]
      BY <1>1, <2>1, <2>2 DEF Aged, Versions
    <3>2. pending # None => pending.was <= spent'["versions"]
      BY <1>1, <2>2 DEF Aged, ViewsTyped, Replaced
    <3> QED
      BY <1>1, <1>2, <3>1, <3>2 DEF Aged
  <2>6. AllStaged'
    BY <2>1 DEF ViewsInv, AllStaged, Staged, Locks
  <2>7. Current(task[Engine])'
    BY <1>2, <2>1, EngineWaits
  <2>8. ASSUME NEW v \in Viewer PROVE Viewing(v, task[v])'
    <3>1. spent'["edits"] # 0
      BY <2>2
    <3> QED
      BY <1>2, <1>3, <2>1, <2>4, <3>1, OthersView
  <2> QED
    BY <2>4, <2>5, <2>6, <2>7, <2>8 DEF ViewsInv
<1>5. ASSUME NEW p \in V!Process, V!Die(p) PROVE ViewsInv'
  <2> DEFINE gone == {a \in V!Actor : Side[a] = p}
  <2>1. /\ task' = [a \in V!Actor |-> IF a \in gone THEN V!Idle ELSE task[a]]
        /\ writer' = IF writer \in gone THEN None ELSE writer
        /\ V!Spend("troubles") /\ UNCHANGED tree
    BY <1>5 DEF V!Die, V!Trouble, V!files
  <2>2. spent' \in Counted /\ UNCHANGED <<spent["versions"], spent["edits"]>>
    BY <1>1, <2>1, SpendKeeps
  <2> HIDE DEF gone
  <2>3. /\ V!Idle \in Jobs /\ \A a \in V!Actor : Staged(a, V!Idle)
        /\ V!Idle.at = "idle" /\ V!Idle.told = "none"
    BY Resting DEF V!Idle
  <2>4. task' \in [V!Actor -> Jobs]
    BY <1>1, <2>1, <2>3
  <2>5. ViewsTyped' /\ Aged' /\ Unspoiled'
    BY <1>1, <1>2, <2>1, <2>2, <2>4 DEF ViewsTyped, Aged, Unspoiled
  <2>6. AllStaged'
    <3> SUFFICES ASSUME NEW a \in V!Actor PROVE Staged(a, task'[a]) /\ Locks(a, task[a])'
      BY DEF AllStaged, Staged
    <3>1. CASE a \in gone
      BY <2>1, <2>3, <3>1 DEF Locks
    <3>2. CASE a \notin gone
      BY <2>1, <3>2 DEF ViewsInv, AllStaged, Locks
    <3> QED
      BY <3>1, <3>2
  <2>7. Current(task[Engine])'
    <3>1. CASE Engine \in gone
      BY <1>2, <2>1, <2>3, <3>1 DEF Current
    <3>2. CASE Engine \notin gone
      <4>1. task'[Engine] = task[Engine]
        BY <1>2, <2>1, <3>2
      <4> QED
        BY <1>2, <4>1, EngineWaits
    <3> QED
      BY <3>1, <3>2
  <2>8. ASSUME NEW v \in Viewer PROVE Viewing(v, task[v])'
    <3>1. CASE v \in gone
      BY <1>2, <2>1, <2>3, <3>1 DEF Viewing
    <3>2. CASE v \notin gone
      <4>1. task'[v] = task[v]
        BY <1>2, <2>1, <3>2
      <4> QED
        BY <1>2, <1>3, <2>1, <2>2, <2>5, <4>1, OthersView
    <3> QED
      BY <3>1, <3>2
  <2> QED
    BY <2>5, <2>6, <2>7, <2>8 DEF ViewsInv
<1> QED
  BY <1>4, <1>5

(* The steps of a snapshot.                                                *)
LEMMA OpenKeepsViews ==
  ASSUME ViewConstants, ViewsInv, NEW v \in Viewer, V!OpenBrief(v) \/ V!OpenView(v)
  PROVE  ViewsInv'
<1>1. /\ task \in [V!Actor -> Jobs] /\ spent \in Counted /\ ViewsTyped
      /\ V!Newest \in Versions /\ Len(ledger) \in Nat /\ Len(ledger) >= 1
      /\ v \in V!Actor /\ v # Engine /\ v \notin Indexer
  BY NewestIsLast, Resting DEF ViewsInv, ViewsTyped, ViewConstants
<1>2. /\ head' = [head EXCEPT ![v] = Len(ledger)] /\ shown' = [shown EXCEPT ![v] = <<>>]
      /\ sound' = [sound EXCEPT ![v] = db = V!Newest /\ tree = V!Newest]
      /\ UNCHANGED <<tree, ledger, pending, db, spoiled>> /\ V!Spend("views")
      /\ task' = [task EXCEPT ![v] = [V!Idle EXCEPT !.at = "ask"]]
      /\ \/ v \notin V!Builder /\ UNCHANGED <<writer, crossed>>
         \/ v \in V!Builder /\ writer = None /\ writer' = v /\ crossed' = FALSE
  BY <1>1 DEF V!OpenBrief, V!OpenView, V!Open, V!Start, V!LockContext, V!files, V!Builder
<1>3. PICK j \in Jobs : /\ task' = [task EXCEPT ![v] = j] /\ j.at = "ask" /\ j.scan = V!Nothing
                        /\ j.told = "none" /\ j.report = None
  <2> DEFINE j == [V!Idle EXCEPT !.at = "ask"]
  <2>1. /\ j \in Jobs /\ j.at = "ask" /\ j.scan = V!Nothing /\ j.told = "none"
        /\ j.report = None
    BY Resting DEF V!Idle, Jobs, At, Looking
  <2> QED
    BY <1>2, <2>1
<1>4. spent' \in Counted /\ UNCHANGED <<spent["versions"], spent["edits"]>>
  BY <1>1, <1>2, SpendKeeps
<1>5. /\ head' \in [Viewer -> Nat] /\ shown' \in [Viewer -> Seq(Versions)]
      /\ sound' \in [Viewer -> BOOLEAN]
      /\ head'[v] = Len(ledger) /\ shown'[v] = <<>>
      /\ sound'[v] = (db = V!Newest /\ tree = V!Newest)
  BY <1>1, <1>2 DEF ViewsTyped
<1>6. ViewsTyped'
  <2>1. crossed' \in BOOLEAN /\ UNCHANGED <<tree, ledger, pending, db, spoiled>>
    BY <1>1, <1>2 DEF ViewsTyped
  <2>2. task' \in [V!Actor -> Jobs]
    BY <1>1, <1>3
  <2> QED
    BY <1>1, <1>4, <1>5, <2>1, <2>2 DEF ViewsTyped
<1>7. Staged(v, j) /\ Locks(v, j)'
  BY <1>1, <1>2, <1>3 DEF Staged, Locks, Rebuilding, Looking
<1>8. UNCHANGED V!Newest
  BY <1>2 DEF V!Newest
<1>9. Viewing(v, j)'
  <2>1. Len(shown'[v]) = 0 /\ Len(shown'[v]) \in Nat
    BY <1>5
  <2>2. Below(shown'[v], V!Newest') /\ \A i \in 1..Len(shown'[v]) : shown'[v][i] = V!Newest'
    BY <2>1 DEF Below
  <2>3. head'[v] \in 1..Len(ledger') /\ head'[v] = Len(ledger')
    BY <1>1, <1>2, <1>5
  <2>4. sound'[v] => db' = V!Newest' /\ tree' = V!Newest'
    BY <1>2, <1>5, <1>8
  <2> QED
    BY <1>3, <2>2, <2>3, <2>4 DEF Viewing, Looking
<1>10. \A w \in Viewer : w # v => /\ head'[w] = head[w] /\ shown'[w] = shown[w]
                                  /\ sound'[w] = sound[w]
  BY <1>1, <1>2 DEF ViewsTyped
<1> QED
  BY <1>2, <1>3, <1>4, <1>6, <1>7, <1>9, <1>10, ViewerStep

(* What was read so far, and one more.                                     *)
LEMMA ReadingIsBelow ==
  ASSUME NEW s \in Seq(Versions), NEW w \in Versions, NEW n \in Versions, Below(s, n),
         Len(s) < 2 => \A d \in V!Doc : w[d] <= n[d]
  PROVE  Below(Append(s, w), n)
<1>1. Len(s) \in Nat /\ Len(Append(s, w)) = Len(s) + 1
  OBVIOUS
<1>2. \A i \in 1..2 : i <= Len(s) => Append(s, w)[i] = s[i]
  BY <1>1
<1>3. \A i \in 1..2 : i <= Len(s) + 1 /\ ~(i <= Len(s)) => Append(s, w)[i] = w /\ Len(s) < 2
  BY <1>1
<1> QED
  BY <1>1, <1>2, <1>3 DEF Below

LEMMA ReadKeepsViews ==
  ASSUME ViewConstants, ViewsInv, NEW v \in Viewer, V!Query(v) \/ V!ReadDocuments(v)
  PROVE  ViewsInv'
<1>1. /\ task \in [V!Actor -> Jobs] /\ ViewsTyped /\ Unspoiled
      /\ V!Newest \in Versions /\ Len(ledger) \in Nat /\ Len(ledger) >= 1
      /\ v \in V!Actor /\ v # Engine /\ v \notin Indexer /\ shown[v] \in Seq(Versions)
  BY NewestIsLast, Resting DEF ViewsInv, ViewsTyped, ViewConstants
<1>2. /\ UNCHANGED <<tree, ledger, pending, db, spoiled, crossed, writer, spent, head, sound>>
      /\ task[v].at \in {"query", "documents"}
  BY DEF V!Query, V!ReadDocuments, V!files, V!index
<1>3. /\ Staged(v, task[v]) /\ Locks(v, task[v]) /\ Viewing(v, task[v])
      /\ task[v].told # "shown" /\ UNCHANGED V!Newest
  BY <1>1, <1>2 DEF ViewsInv, AllStaged, Viewing, V!Newest
<1>4. PICK x \in At :
        /\ V!Goto(v, x)
        /\ \/ x = "failed" /\ UNCHANGED shown
           \/ \E w \in Versions :
                /\ shown' = [shown EXCEPT ![v] = Append(shown[v], w)]
                /\ \/ w = db /\ db # None
                   \/ w = tree /\ task[v].at = "documents"
                /\ x \in {"ask", "documents", "compare"}
                /\ x # "ask" => Len(shown'[v]) >= 2
  <2>1. CASE V!Query(v) /\ db = None
    BY <2>1 DEF V!Query, At, Looking
  <2>2. CASE V!Query(v) /\ db # None
    <3> DEFINE x == IF Len(shown'[v]) < 2 THEN "ask"
                    ELSE IF v \in Brief THEN "compare" ELSE "documents"
    <3>1. V!Goto(v, x) /\ shown' = [shown EXCEPT ![v] = Append(shown[v], db)] /\ db \in Versions
      BY <1>1, <2>2 DEF V!Query, ViewsTyped
    <3>2. shown'[v] = Append(shown[v], db)
      BY <1>1, <3>1 DEF ViewsTyped
    <3>3. x \in {"ask", "documents", "compare"} /\ (x # "ask" => Len(shown'[v]) >= 2)
      BY <1>1, <3>1, <3>2
    <3> HIDE DEF x
    <3> QED
      BY <2>2, <3>1, <3>3 DEF At, Looking
  <2>3. CASE V!ReadDocuments(v)
    <3>1. /\ V!Goto(v, "compare") /\ shown' = [shown EXCEPT ![v] = Append(shown[v], tree)]
          /\ tree \in Versions /\ task[v].at = "documents"
      BY <1>1, <2>3 DEF V!ReadDocuments, ViewsTyped
    <3>2. shown'[v] = Append(shown[v], tree)
      BY <1>1, <3>1 DEF ViewsTyped
    <3>3. Len(shown'[v]) >= 2
      BY <1>1, <1>3, <3>1, <3>2 DEF Viewing
    <3> QED
      BY <3>1, <3>3 DEF At, Looking
  <2> QED
    BY <2>1, <2>2, <2>3
<1>5. PICK j \in Jobs : /\ task' = [task EXCEPT ![v] = j] /\ j.at = x /\ j.told = task[v].told
                        /\ j.scan = task[v].scan
  BY <1>1, <1>4, GotoIs
<1>6. x \in {"ask", "documents", "compare", "failed"}
  BY <1>4
<1>7. Staged(v, j) /\ Locks(v, j)'
  BY <1>1, <1>2, <1>3, <1>5, <1>6 DEF Staged, Locks, Rebuilding, Looking
<1>8. CASE x = "failed" /\ UNCHANGED shown
  <2>1. Viewing(v, j)'
    BY <1>2, <1>3, <1>5, <1>8 DEF Viewing, Looking
  <2>2. ViewsTyped'
    BY <1>1, <1>2, <1>5, <1>8 DEF ViewsTyped
  <2> QED
    BY <1>2, <1>5, <1>7, <1>8, <2>1, <2>2, ViewerStep
<1>9. ASSUME NEW w \in Versions,
             shown' = [shown EXCEPT ![v] = Append(shown[v], w)],
             \/ w = db /\ db # None
             \/ w = tree /\ task[v].at = "documents",
             x \in {"ask", "documents", "compare"},
             x # "ask" => Len(shown'[v]) >= 2
      PROVE  ViewsInv'
  <2>1. /\ shown' \in [Viewer -> Seq(Versions)] /\ shown'[v] = Append(shown[v], w)
        /\ \A u \in Viewer : u # v => shown'[u] = shown[u]
    BY <1>1, <1>9 DEF ViewsTyped
  <2>2. ViewsTyped'
    BY <1>1, <1>2, <1>5, <2>1 DEF ViewsTyped
  <2>3. ~spoiled' => Below(shown'[v], V!Newest')
    <3> SUFFICES ASSUME ~spoiled PROVE Below(shown'[v], V!Newest)
      BY <1>2, <1>3
    <3>1. Below(shown[v], V!Newest)
      BY <1>2, <1>3 DEF Viewing
    <3>2. Len(shown[v]) < 2 => \A d \in V!Doc : w[d] <= V!Newest[d]
      BY <1>1, <1>2, <1>3, <1>9 DEF Viewing, Unspoiled
    <3> QED
      BY <1>1, <2>1, <3>1, <3>2, ReadingIsBelow
  <2>4. v \in V!Builder /\ sound[v] /\ ~crossed /\ spent["edits"] = 0 =>
          /\ db = V!Newest /\ tree = V!Newest /\ head[v] = Len(ledger)
          /\ \A i \in 1..Len(shown'[v]) : shown'[v][i] = V!Newest
    <3> SUFFICES ASSUME v \in V!Builder, sound[v], ~crossed, spent["edits"] = 0
        PROVE /\ db = V!Newest /\ tree = V!Newest /\ head[v] = Len(ledger)
              /\ \A i \in 1..Len(shown'[v]) : shown'[v][i] = V!Newest
      OBVIOUS
    <3>1. /\ db = V!Newest /\ tree = V!Newest /\ head[v] = Len(ledger)
          /\ \A i \in 1..Len(shown[v]) : shown[v][i] = V!Newest
      BY <1>2, <1>3 DEF Viewing
    <3>2. w = V!Newest
      BY <1>9, <3>1
    <3> QED
      BY <1>1, <2>1, <3>1, <3>2
  <2>5. Viewing(v, j)'
    BY <1>2, <1>3, <1>5, <1>9, <2>3, <2>4 DEF Viewing, Looking
  <2> QED
    BY <1>2, <1>5, <1>7, <2>1, <2>2, <2>5, ViewerStep
<1> QED
  BY <1>4, <1>8, <1>9

LEMMA ShowKeepsViews ==
  ASSUME ViewConstants, ViewsInv, NEW v \in Viewer, V!Ask(v) \/ V!Compare(v) \/ V!EndView(v)
  PROVE  ViewsInv'
<1>1. /\ task \in [V!Actor -> Jobs] /\ ViewsTyped /\ spent \in Counted
      /\ V!Newest \in Versions /\ V!Newest # None /\ Len(ledger) \in Nat /\ Len(ledger) >= 1
      /\ v \in V!Actor /\ v # Engine /\ v \notin Indexer /\ shown[v] \in Seq(Versions)
  BY NewestIsLast, Resting DEF ViewsInv, ViewsTyped, ViewConstants
<1>2. /\ UNCHANGED <<tree, ledger, pending, db, spoiled, crossed, spent>>
      /\ task[v].at \in Looking
  BY DEF V!Ask, V!Compare, V!EndView, V!files, V!index, Looking
<1>3. /\ Staged(v, task[v]) /\ Locks(v, task[v]) /\ Viewing(v, task[v])
      /\ UNCHANGED V!Newest
  BY <1>1, <1>2 DEF ViewsInv, AllStaged, V!Newest
<1>4. CASE V!Ask(v)
  <2>1. UNCHANGED <<head, shown, sound, writer>> /\ task[v].at = "ask" /\ task[v].told # "shown"
    BY <1>3, <1>4 DEF V!Ask, V!viewVars, Viewing
  <2>2. CASE db # None
    <3>1. "query" \in At /\ V!Goto(v, "query")
      BY <1>4, <2>2 DEF V!Ask, At, Looking
    <3>2. PICK j \in Jobs : /\ task' = [task EXCEPT ![v] = j] /\ j.at = "query"
                            /\ j.told = task[v].told /\ j.scan = task[v].scan
      BY <1>1, <3>1, GotoIs
    <3>3. Staged(v, j) /\ Locks(v, j) /\ Viewing(v, j)
      BY <1>1, <1>3, <2>1, <3>2 DEF Staged, Locks, Viewing, Rebuilding, Looking
    <3> QED
      BY <1>1, <1>2, <2>1, <3>2, <3>3, JobStep
  <2>3. CASE db = None
    <3>1. "ready" \in Why /\ V!AskFor(v, "ready")
      BY <1>4, <2>3 DEF V!Ask, Why
    <3>2. PICK j \in Jobs : /\ task' = [task EXCEPT ![v] = j] /\ j.at = "gate" /\ j.why = "ready"
                            /\ j.told = task[v].told /\ j.scan = task[v].scan
      BY <1>1, <3>1, AskForIs
    <3>3. Staged(v, j) /\ Locks(v, j) /\ Viewing(v, j)
      BY <1>1, <1>3, <2>1, <2>3, <3>2 DEF Staged, Locks, Viewing, Rebuilding, Looking
    <3> QED
      BY <1>1, <1>2, <2>1, <3>2, <3>3, JobStep
  <2> QED
    BY <2>2, <2>3
<1>5. CASE V!Compare(v)
  <2> DEFINE z == IF head[v] = Len(ledger) THEN "shown" ELSE "changed"
  <2>1. /\ UNCHANGED <<head, shown, sound, writer>> /\ task[v].at = "compare" /\ Tells(v, z)
        /\ z \in Told
    BY <1>5 DEF V!Compare, V!viewVars, Tells, Told
  <2>2. z = "shown" => head[v] = Len(ledger)
    OBVIOUS
  <2> HIDE DEF z
  <2>3. PICK j \in Jobs : /\ task' = [task EXCEPT ![v] = j] /\ j.at = "done"
                          /\ j.told = z /\ j.scan = task[v].scan
    BY <1>1, <2>1, TellIs
  <2>4. j.told = "shown" => ledger[head[v]] = V!Newest
    BY <2>2, <2>3 DEF V!Newest
  <2>5. Staged(v, j) /\ Locks(v, j) /\ Viewing(v, j)
    BY <1>1, <1>3, <2>1, <2>3, <2>4 DEF Staged, Locks, Viewing, Rebuilding, Looking
  <2> QED
    BY <1>1, <1>2, <2>1, <2>3, <2>5, JobStep
<1>6. CASE V!EndView(v)
  <2>1. /\ task' = [task EXCEPT ![v] = V!Idle]
        /\ writer' = IF writer = v THEN None ELSE writer
        /\ head' = [head EXCEPT ![v] = 0] /\ shown' = [shown EXCEPT ![v] = <<>>]
        /\ sound' = [sound EXCEPT ![v] = FALSE]
    BY <1>6 DEF V!EndView
  <2>2. PICK j \in Jobs : /\ j = V!Idle /\ j.at = "idle" /\ j.told = "none" /\ Staged(v, j)
    BY <1>1, Resting DEF V!Idle
  <2>3. /\ head' \in [Viewer -> Nat] /\ shown' \in [Viewer -> Seq(Versions)]
        /\ sound' \in [Viewer -> BOOLEAN]
        /\ \A w \in Viewer : w # v => /\ head'[w] = head[w] /\ shown'[w] = shown[w]
                                      /\ sound'[w] = sound[w]
    BY <1>1, <2>1 DEF ViewsTyped
  <2>4. ViewsTyped'
    BY <1>1, <1>2, <2>1, <2>2, <2>3 DEF ViewsTyped
  <2>5. Locks(v, j)' /\ Viewing(v, j)'
    BY <2>2 DEF Locks, Viewing
  <2> QED
    BY <1>2, <2>1, <2>2, <2>3, <2>4, <2>5, ViewerStep
<1> QED
  BY <1>4, <1>5, <1>6

LEMMA ViewsStep ==
  ASSUME ViewConstants, ViewsInv, [V!ViewsNext]_(V!viewsVars)
  PROVE  ViewsInv'
<1>1. CASE UNCHANGED V!viewsVars
  <2>1. UNCHANGED <<tree, ledger, pending, db, gate, swapping, readers, writer, task, spent,
                    crossed, spoiled, head, shown, sound>>
    BY <1>1 DEF V!viewsVars, V!projectionVars, V!viewVars
  <2>2. UNCHANGED V!Newest
    BY <2>1 DEF V!Newest
  <2>3. ViewsTyped' /\ Aged' /\ Unspoiled'
    BY <2>1, <2>2 DEF ViewsInv, ViewsTyped, Aged, Unspoiled
  <2>4. AllStaged'
    BY <2>1 DEF ViewsInv, AllStaged, Staged, Locks
  <2>5. Current(task[Engine])'
    BY <2>1, <2>2 DEF ViewsInv, Current
  <2>6. ASSUME NEW v \in Viewer PROVE Viewing(v, task[v])'
    BY <2>1, <2>2 DEF ViewsInv, Viewing
  <2> QED
    BY <2>3, <2>4, <2>5, <2>6 DEF ViewsInv
<1>2. CASE V!ProjectionNext /\ UNCHANGED V!viewVars
  <2>1. ASSUME NEW a \in V!Actor, V!Rebuild(a) PROVE ViewsInv'
    <3>1. CASE V!Swap(a)
      <4>1. task[a].at = "drain"
        BY <3>1 DEF V!Swap
      <4>2. V!Scanned(a)
        BY <4>1 DEF ViewsInv, AllStaged, Staged, V!Scanned
      <4> QED
        BY <1>2, <3>1, <4>2, SwapKeepsViews
    <3> QED
      BY <1>2, <2>1, <3>1, RebuildKeepsViews DEF V!Rebuild
  <2> QED
    BY <1>2, <2>1, BeginningsKeepViews, TransactKeepsViews, TransactionKeepsViews,
       TroublesKeepViews DEF V!ProjectionNext, V!Transact
<1>3. ASSUME NEW v \in Viewer, V!OpenBrief(v) \/ V!OpenView(v) \/ V!Show(v) PROVE ViewsInv'
  BY <1>3, OpenKeepsViews, ReadKeepsViews, ShowKeepsViews DEF V!Show
<1> QED
  BY <1>1, <1>2, <1>3 DEF V!ViewsNext

(* What a transaction calls fresh is current, no snapshot is ahead of the   *)
(* revision it is stamped with, and a view that is rebuilt under the lock   *)
(* shows that revision.                                                    *)
LEMMA ViewsAreStamped ==
  ASSUME ViewConstants, ViewsInv
  PROVE  ViewsShowTheirRevision
<1>1. V!FreshMeansCurrent
  BY DEF ViewsInv, Current, V!FreshMeansCurrent
<1>2. V!NotAhead
  <2> SUFFICES ASSUME NEW v \in Viewer, V!Shown(v), ~spoiled, NEW i \in 1..2, NEW d \in V!Doc
      PROVE  shown[v][i][d] <= ledger[head[v]][d]
    BY DEF V!NotAhead
  <2>1. Len(shown[v]) >= 2 /\ Below(shown[v], ledger[head[v]])
    BY DEF ViewsInv, Viewing, V!Shown
  <2>2. Len(shown[v]) \in Nat
    BY DEF ViewsInv, ViewsTyped
  <2> QED
    BY <2>1, <2>2 DEF Below
<1>3. V!LockedViewsAreExact
  <2> SUFFICES ASSUME NEW v \in V!Builder, V!Shown(v), sound[v], ~crossed, spent["edits"] = 0,
                      NEW i \in 1..Len(shown[v])
      PROVE  shown[v][i] = ledger[head[v]]
    BY DEF V!LockedViewsAreExact
  <2>1. Viewing(v, task[v]) /\ v \in Viewer
    BY DEF ViewsInv, V!Builder
  <2>2. task[v].at = "done"
    BY <2>1 DEF Viewing, V!Shown
  <2>3. head[v] = Len(ledger) /\ shown[v][i] = V!Newest
    BY <2>1, <2>2 DEF Viewing
  <2> QED
    BY <2>3 DEF V!Newest
<1> QED
  BY <1>1, <1>2, <1>3 DEF ViewsShowTheirRevision, V!ViewsShowTheirRevision

(* The projection and what is shown of it (adapters/sqlite/projection.py,   *)
(* views/service.py): whoever rebuilds the index, whatever fails or dies,   *)
(* and however many documents, processes and snapshots there are.          *)
THEOREM ViewsAreOfTheirRevision ==
  ViewConstants /\ V!ViewsSpec => []ViewsShowTheirRevision
<1> SUFFICES ASSUME ViewConstants PROVE V!ViewsSpec => []ViewsShowTheirRevision
  OBVIOUS
<1>1. V!ViewsInit => ViewsInv
  BY ViewsBegin
<1>2. ViewsInv /\ [V!ViewsNext]_(V!viewsVars) => ViewsInv'
  BY ViewsStep
<1>3. ViewsInv => ViewsShowTheirRevision
  BY ViewsAreStamped
<1> QED
  BY <1>1, <1>2, <1>3, PTL DEF V!ViewsSpec
-----------------------------------------------------------------------------
(* Context packs.                                                          *)

PackFields ==
  {"stamp", "focal", "edges", "nodes", "cited", "observed", "claims", "tasks", "people"}

Gathering(l) ==
  CASE l = "edges"    -> {"edges"}
    [] l = "nodes"    -> {"edges", "nodes"}
    [] l = "cited"    -> {"edges", "nodes", "cited"}
    [] l = "observed" -> {"edges", "nodes", "cited", "observed"}
    [] l = "claims"   -> {"edges", "nodes", "cited", "observed", "claims"}
    [] l = "tasks"    -> {"edges", "nodes", "cited", "observed", "claims", "tasks"}
    [] l = "people"   -> {"edges", "nodes", "cited", "observed", "claims", "tasks", "people"}
    [] l = "after"    -> {"edges", "nodes", "cited", "observed", "claims", "tasks", "people",
                          "after"}
    [] OTHER -> {}

(* The stages that come after one of these: what it asks for is known then. *)
Since(l) == l # pc /\ l \in Gathering(pc)

(* An attempt has a stamp once it has begun, and builds are numbered.      *)
Stamped ==
  /\ DOMAIN found = PackFields
  /\ attempt = 2 => index.build >= 1
  /\ pc = "focal" \/ Gathering(pc) # {} =>
       /\ found.stamp \in [graph : Graph, build : Nat] /\ found.stamp.build <= index.build
       /\ found.stamp.build = index.build => found.stamp = index
       /\ attempt = 2 => found.stamp.build >= 1
  /\ pc = "focal" => found.tasks = <<>> /\ found.people = <<>>

(* As long as the index is what it was, what has been gathered is what it  *)
(* has.                                                                    *)
Gathered ==
  LET g == index.graph IN
  found.stamp = index /\ Gathering(pc) # {} =>
    /\ found.focal = g.focal
    /\ Since("edges") => found.edges = g.edges
    /\ Since("nodes") => found.nodes = P!Nodes(g, found)
    /\ Since("cited") => found.cited = P!CitedBy(g)
    /\ Since("observed") => found.observed = P!Observed(g, found)
    /\ Since("claims") => found.claims = g.claims
    /\ found.tasks = IF Since("tasks") /\ g.focal.task THEN P!TaskLinks(g, found) ELSE <<>>
    /\ found.people = IF Since("people") /\ g.focal.task THEN P!PeopleLinks(g, found) ELSE <<>>

PackInv == P!PackTypeOK /\ Stamped /\ Gathered /\ P!PacksOfOneGeneration

LEMMA StageNames ==
  /\ Gathering("edges") = {"edges"} /\ Gathering("nodes") = {"edges", "nodes"}
  /\ Gathering("cited") = {"edges", "nodes", "cited"}
  /\ Gathering("observed") = {"edges", "nodes", "cited", "observed"}
  /\ Gathering("claims") = {"edges", "nodes", "cited", "observed", "claims"}
  /\ Gathering("tasks") = {"edges", "nodes", "cited", "observed", "claims", "tasks"}
  /\ Gathering("people") = {"edges", "nodes", "cited", "observed", "claims", "tasks", "people"}
  /\ Gathering("after")
       = {"edges", "nodes", "cited", "observed", "claims", "tasks", "people", "after"}
  /\ \A l \in {"resolve", "before", "focal"} \cup P!Ended : Gathering(l) = {}
BY DEF Gathering, P!Ended

PackConstants == MaxBuilds \in Nat

LEMMA PackBegins ==
  ASSUME PackConstants, P!PackInit
  PROVE  PackInv
<1>1. /\ pc = "resolve" /\ attempt = 1 /\ Gathering(pc) = {} /\ found = P!Blank
      /\ index \in [graph : Graph, build : {0}]
  BY StageNames DEF P!PackInit
<1>2. P!PackTypeOK
  BY <1>1 DEF PackConstants, P!PackTypeOK
<1>3. Stamped
  BY <1>1 DEF Stamped, P!Blank, PackFields
<1>4. Gathered /\ P!PacksOfOneGeneration
  BY <1>1 DEF Gathered, P!PacksOfOneGeneration
<1> QED
  BY <1>2, <1>3, <1>4 DEF PackInv

(* A rebuild gives the index another number than any stamp has.            *)
LEMMA RebuildKeepsPack ==
  ASSUME PackConstants, PackInv, P!Rebuild
  PROVE  PackInv'
<1>1. /\ pc \notin P!Ended /\ index.build < MaxBuilds
      /\ UNCHANGED <<asked, pc, attempt, found, pack>>
  BY DEF P!Rebuild
<1>2. PICK g \in Graph : index' = [graph |-> g, build |-> index.build + 1]
  BY DEF P!Rebuild
<1>3. index \in [graph : Graph, build : 0..MaxBuilds] /\ index.build \in Nat
  BY DEF PackInv, P!PackTypeOK, PackConstants
<1>4. index'.build = index.build + 1
  BY <1>2
<1>5. P!PackTypeOK'
  <2>1. index' \in [graph : Graph, build : 0..MaxBuilds]
    BY <1>1, <1>2, <1>3 DEF PackConstants
  <2> QED
    BY <1>1, <2>1 DEF PackInv, P!PackTypeOK
<1>6. Stamped'
  <2>1. Stamped /\ UNCHANGED Gathering(pc)
    BY <1>1 DEF PackInv, Gathering
  <2> QED
    BY <1>1, <1>3, <1>4, <2>1 DEF Stamped
<1>7. Gathered'
  <2>1. Gathering(pc) # {} => found.stamp.build <= index.build
    BY DEF PackInv, Stamped
  <2>2. Gathering(pc) # {} => found.stamp.build \in Nat
    BY DEF PackInv, Stamped
  <2>3. UNCHANGED Gathering(pc)
    BY <1>1 DEF Gathering
  <2>4. found'.stamp = index' => Gathering(pc)' = {}
    BY <1>1, <1>3, <1>4, <2>1, <2>2, <2>3
  <2> QED
    BY <2>4 DEF Gathered
<1>8. P!PacksOfOneGeneration'
  BY <1>1 DEF P!PacksOfOneGeneration, P!Ended
<1> QED
  BY <1>5, <1>6, <1>7, <1>8 DEF PackInv

(* The answers of an attempt.                                              *)
GatherAs(from, to, reply) ==
  /\ pc = from /\ pc' = to /\ found' = reply
  /\ UNCHANGED <<index, asked, attempt, pack>>

LEMMA GatherCases ==
  ASSUME NEW i \in 1..Len(P!Stages)-1, P!Gather(i)
  PROVE  LET g == index.graph IN
         \/ GatherAs("edges", "nodes", [found EXCEPT !.edges = g.edges])
         \/ GatherAs("nodes", "cited", [found EXCEPT !.nodes = P!Nodes(g, found)])
         \/ GatherAs("cited", "observed", [found EXCEPT !.cited = P!CitedBy(g)])
         \/ GatherAs("observed", "claims", [found EXCEPT !.observed = P!Observed(g, found)])
         \/ GatherAs("claims", "tasks", [found EXCEPT !.claims = g.claims])
         \/ GatherAs("tasks", "people",
                     IF found.focal.task THEN [found EXCEPT !.tasks = P!TaskLinks(g, found)]
                     ELSE found)
         \/ GatherAs("people", "after",
                     IF found.focal.task THEN [found EXCEPT !.people = P!PeopleLinks(g, found)]
                     ELSE found)
<1>1. i \in 1..7
  BY DEF P!Stages
<1>2. /\ pc = P!Stages[i] /\ found' = P!Reply(P!Stages[i], index.graph, found)
      /\ pc' = P!Stages[i+1] /\ UNCHANGED <<index, asked, attempt, pack>>
  BY DEF P!Gather
<1>3. CASE i = 1
  <2>1. P!Stages[i] = "edges" /\ P!Stages[i+1] = "nodes"
    BY <1>3 DEF P!Stages
  <2> QED
    BY <1>2, <2>1 DEF GatherAs, P!Reply
<1>4. CASE i = 2
  <2>1. P!Stages[i] = "nodes" /\ P!Stages[i+1] = "cited"
    BY <1>4 DEF P!Stages
  <2> QED
    BY <1>2, <2>1 DEF GatherAs, P!Reply
<1>5. CASE i = 3
  <2>1. P!Stages[i] = "cited" /\ P!Stages[i+1] = "observed"
    BY <1>5 DEF P!Stages
  <2> QED
    BY <1>2, <2>1 DEF GatherAs, P!Reply
<1>6. CASE i = 4
  <2>1. P!Stages[i] = "observed" /\ P!Stages[i+1] = "claims"
    BY <1>6 DEF P!Stages
  <2> QED
    BY <1>2, <2>1 DEF GatherAs, P!Reply
<1>7. CASE i = 5
  <2>1. P!Stages[i] = "claims" /\ P!Stages[i+1] = "tasks"
    BY <1>7 DEF P!Stages
  <2> QED
    BY <1>2, <2>1 DEF GatherAs, P!Reply
<1>8. CASE i = 6
  <2>1. P!Stages[i] = "tasks" /\ P!Stages[i+1] = "people"
    BY <1>8 DEF P!Stages
  <2> QED
    BY <1>2, <2>1 DEF GatherAs, P!Reply
<1>9. CASE i = 7
  <2>1. P!Stages[i] = "people" /\ P!Stages[i+1] = "after"
    BY <1>9 DEF P!Stages
  <2> QED
    BY <1>2, <2>1 DEF GatherAs, P!Reply
<1> QED
  BY <1>1, <1>3, <1>4, <1>5, <1>6, <1>7, <1>8, <1>9

LEMMA GatherKeepsPack ==
  ASSUME PackInv, NEW from, NEW to, NEW reply, GatherAs(from, to, reply),
         <<from, to>> \in {<<"edges", "nodes">>, <<"nodes", "cited">>, <<"cited", "observed">>,
                           <<"observed", "claims">>, <<"claims", "tasks">>,
                           <<"tasks", "people">>, <<"people", "after">>},
         DOMAIN reply = PackFields, reply.stamp = found.stamp,
         Gathered'
  PROVE  PackInv'
<1>1. /\ pc = from /\ pc' = to /\ found' = reply /\ UNCHANGED <<index, asked, attempt, pack>>
  BY DEF GatherAs
<1>2. /\ Gathering(pc) # {} /\ pc' # "focal"
      /\ pc' \notin {"built", "changed"}
      /\ pc' \in {"nodes", "cited", "observed", "claims", "tasks", "people", "after"}
  BY <1>1, StageNames
<1>3. P!PackTypeOK'
  <2>1. DOMAIN P!Stages = 1..8
    BY DEF P!Stages
  <2>2. \A l \in {"nodes", "cited", "observed", "claims", "tasks", "people", "after"} :
          \E j \in 1..8 : P!Stages[j] = l
    <3>1. /\ P!Stages[2] = "nodes" /\ P!Stages[3] = "cited" /\ P!Stages[4] = "observed"
          /\ P!Stages[5] = "claims" /\ P!Stages[6] = "tasks" /\ P!Stages[7] = "people"
          /\ P!Stages[8] = "after"
      BY DEF P!Stages
    <3> QED
      BY <3>1
  <2>3. pc' \in P!ToSet(P!Stages)
    BY <1>2, <2>1, <2>2 DEF P!ToSet
  <2> QED
    BY <1>1, <2>3 DEF PackInv, P!PackTypeOK
<1>4. Stamped'
  BY <1>1, <1>2 DEF PackInv, Stamped
<1>5. P!PacksOfOneGeneration'
  BY <1>2 DEF P!PacksOfOneGeneration
<1> QED
  BY <1>3, <1>4, <1>5 DEF PackInv

LEMMA SameAnswers ==
  ASSUME NEW g, NEW r, NEW q
  PROVE  /\ r.edges = q.edges => P!Nodes(g, r) = P!Nodes(g, q)
         /\ r.cited = q.cited => P!Observed(g, r) = P!Observed(g, q)
         /\ r.focal = q.focal => /\ P!TaskLinks(g, r) = P!TaskLinks(g, q)
                                /\ P!PeopleLinks(g, r) = P!PeopleLinks(g, q)
<1>1. r.edges = q.edges => P!Nodes(g, r) = P!Nodes(g, q)
  BY DEF P!Nodes
<1>2. r.cited = q.cited => P!Observed(g, r) = P!Observed(g, q)
  BY DEF P!Observed
<1>3. r.focal = q.focal => P!TaskLinks(g, r) = P!TaskLinks(g, q)
  BY Zenon DEF P!TaskLinks
<1>4. r.focal = q.focal => P!PeopleLinks(g, r) = P!PeopleLinks(g, q)
  BY Zenon DEF P!PeopleLinks
<1> QED
  BY <1>1, <1>2, <1>3, <1>4

LEMMA GatheringKeepsPack ==
  ASSUME PackInv, NEW i \in 1..Len(P!Stages)-1, P!Gather(i)
  PROVE  PackInv'
<1> DEFINE g == index.graph
<1>1. DOMAIN found = PackFields
  BY DEF PackInv, Stamped
<1> USE <1>1, StageNames DEF GatherAs, PackFields
<1>2. ASSUME GatherAs("edges", "nodes", [found EXCEPT !.edges = g.edges]) PROVE PackInv'
  <2>1. Gathered'
    BY <1>2 DEF PackInv, Gathered, Since
  <2> QED
    BY <1>2, <2>1, GatherKeepsPack
<1>3. ASSUME GatherAs("nodes", "cited", [found EXCEPT !.nodes = P!Nodes(g, found)]) PROVE PackInv'
  <2>1. P!Nodes(g, found) = P!Nodes(g, found')
    BY <1>3, SameAnswers
  <2>2. Gathered'
    BY <1>3, <2>1 DEF PackInv, Gathered, Since
  <2> QED
    BY <1>3, <2>2, GatherKeepsPack
<1>4. ASSUME GatherAs("cited", "observed", [found EXCEPT !.cited = P!CitedBy(g)]) PROVE PackInv'
  <2>1. P!Nodes(g, found) = P!Nodes(g, found')
    BY <1>4, SameAnswers
  <2>2. Gathered'
    BY <1>4, <2>1 DEF PackInv, Gathered, Since
  <2> QED
    BY <1>4, <2>2, GatherKeepsPack
<1>5. ASSUME GatherAs("observed", "claims", [found EXCEPT !.observed = P!Observed(g, found)])
      PROVE  PackInv'
  <2>1. P!Nodes(g, found) = P!Nodes(g, found') /\ P!Observed(g, found) = P!Observed(g, found')
    BY <1>5, SameAnswers
  <2>2. Gathered'
    BY <1>5, <2>1 DEF PackInv, Gathered, Since
  <2> QED
    BY <1>5, <2>2, GatherKeepsPack
<1>6. ASSUME GatherAs("claims", "tasks", [found EXCEPT !.claims = g.claims]) PROVE PackInv'
  <2>1. P!Nodes(g, found) = P!Nodes(g, found') /\ P!Observed(g, found) = P!Observed(g, found')
    BY <1>6, SameAnswers
  <2>2. Gathered'
    BY <1>6, <2>1 DEF PackInv, Gathered, Since
  <2> QED
    BY <1>6, <2>2, GatherKeepsPack
<1>7. ASSUME GatherAs("tasks", "people",
                      IF found.focal.task THEN [found EXCEPT !.tasks = P!TaskLinks(g, found)]
                      ELSE found)
      PROVE  PackInv'
  <2>1. /\ P!Nodes(g, found) = P!Nodes(g, found') /\ P!Observed(g, found) = P!Observed(g, found')
        /\ P!TaskLinks(g, found) = P!TaskLinks(g, found')
    BY <1>7, SameAnswers
  <2>2. Gathered'
    BY <1>7, <2>1 DEF PackInv, Gathered, Since
  <2> QED
    BY <1>7, <2>2, GatherKeepsPack
<1>8. ASSUME GatherAs("people", "after",
                      IF found.focal.task THEN [found EXCEPT !.people = P!PeopleLinks(g, found)]
                      ELSE found)
      PROVE  PackInv'
  <2>1. /\ P!Nodes(g, found) = P!Nodes(g, found') /\ P!Observed(g, found) = P!Observed(g, found')
        /\ P!TaskLinks(g, found) = P!TaskLinks(g, found')
        /\ P!PeopleLinks(g, found) = P!PeopleLinks(g, found')
    BY <1>8, SameAnswers
  <2>2. Gathered'
    BY <1>8, <2>1 DEF PackInv, Gathered, Since
  <2> QED
    BY <1>8, <2>2, GatherKeepsPack
<1> QED
  BY <1>2, <1>3, <1>4, <1>5, <1>6, <1>7, <1>8, GatherCases

(* The focal document, before the metadata and after it, and the metadata. *)
LEMMA FocalKeepsPack ==
  ASSUME PackInv, P!Resolve \/ P!Refocus \/ P!Before \/ P!Fail
  PROVE  PackInv'
<1> USE StageNames
<1>1. DOMAIN found = PackFields /\ UNCHANGED <<index, asked, attempt, pack>>
  BY DEF PackInv, Stamped, P!Resolve, P!Refocus, P!ResolveFocal, P!Before, P!Fail
<1>2. "edges" \in P!ToSet(P!Stages) /\ pc' \notin {"built", "changed"}
  <2>1. P!Stages[1] = "edges" /\ DOMAIN P!Stages = 1..8
    BY DEF P!Stages
  <2>2. "edges" \in P!ToSet(P!Stages)
    BY <2>1 DEF P!ToSet
  <2> QED
    BY <2>2 DEF P!Resolve, P!Refocus, P!ResolveFocal, P!Before, P!Fail
<1>3. P!PackTypeOK' /\ P!PacksOfOneGeneration'
  BY <1>1, <1>2 DEF PackInv, P!PackTypeOK, P!PacksOfOneGeneration, P!Ended,
                    P!Resolve, P!Refocus, P!ResolveFocal, P!Before, P!Fail
<1>4. CASE P!Resolve
  <2>1. pc' \in {"not_found", "before"} /\ found' = [found EXCEPT !.focal = index.graph.focal]
    BY <1>4 DEF P!Resolve, P!ResolveFocal
  <2>2. Stamped' /\ Gathered'
    BY <1>1, <2>1 DEF PackInv, Stamped, Gathered, P!Ended
  <2> QED
    BY <1>3, <2>2 DEF PackInv
<1>5. CASE P!Refocus
  <2>1. /\ pc = "focal" /\ pc' \in {"not_found", "edges"}
        /\ found' = [found EXCEPT !.focal = index.graph.focal]
    BY <1>5 DEF P!Refocus, P!ResolveFocal
  <2>2. /\ found'.stamp = found.stamp /\ found'.tasks = <<>> /\ found'.people = <<>>
        /\ found'.focal = index.graph.focal /\ DOMAIN found' = PackFields
    BY <1>1, <2>1 DEF PackInv, Stamped, PackFields
  <2>3. Stamped'
    BY <1>1, <2>1, <2>2 DEF PackInv, Stamped
  <2>4. Gathered'
    BY <1>1, <2>1, <2>2 DEF Gathered, Since, P!Ended
  <2> QED
    BY <1>3, <2>3, <2>4 DEF PackInv
<1>6. CASE P!Before
  <2>1. pc' = "focal" /\ found' = [P!Blank EXCEPT !.stamp = index]
    BY <1>6 DEF P!Before
  <2>2. /\ found'.stamp = index /\ found'.tasks = <<>> /\ found'.people = <<>>
        /\ DOMAIN found' = PackFields
    BY <2>1 DEF P!Blank, PackFields
  <2>3. index \in [graph : Graph, build : Nat]
    BY DEF PackInv, P!PackTypeOK
  <2>4. Stamped'
    BY <1>1, <2>1, <2>2, <2>3 DEF PackInv, Stamped
  <2>5. Gathered'
    BY <2>1 DEF Gathered
  <2> QED
    BY <1>3, <2>4, <2>5 DEF PackInv
<1>7. CASE P!Fail
  <2>1. pc' = "failed" /\ UNCHANGED found
    BY <1>7 DEF P!Fail
  <2>2. Stamped' /\ Gathered'
    BY <1>1, <2>1 DEF PackInv, Stamped, Gathered, P!Ended
  <2> QED
    BY <1>3, <2>2 DEF PackInv
<1> QED
  BY <1>4, <1>5, <1>6, <1>7

(* A pack is built of what the index had all along, and only what has seen  *)
(* two rebuilds gives up.                                                  *)
LEMMA AfterKeepsPack ==
  ASSUME PackInv, P!After
  PROVE  PackInv'
<1> USE StageNames
<1>1. /\ pc = "after" /\ UNCHANGED <<index, found>> /\ pc' \in {"built", "before", "changed"}
      /\ attempt \in 1..2
  BY DEF P!After, PackInv, P!PackTypeOK
<1>2. /\ found.stamp \in [graph : Graph, build : Nat] /\ found.stamp.build <= index.build
      /\ found.stamp.build = index.build => found.stamp = index
      /\ attempt = 2 => found.stamp.build >= 1
      /\ index.build \in Nat
  BY <1>1 DEF PackInv, Stamped, P!PackTypeOK
<1>3. Gathering(pc') = {} /\ pc' # "focal"
  BY <1>1 DEF P!Ended, Gathering
<1>4. Gathered'
  BY <1>3 DEF Gathered
<1>5. CASE pc' = "built"
  <2>1. found.stamp = index /\ UNCHANGED attempt
    BY <1>1, <1>5 DEF P!After, P!SameProjection
  <2>2. P!OfGeneration(index.graph)
    BY <1>1, <2>1 DEF PackInv, Gathered, Since, P!OfGeneration
  <2>3. P!PacksOfOneGeneration'
    BY <1>1, <1>5, <2>1, <2>2 DEF P!PacksOfOneGeneration, P!OfGeneration
  <2>4. P!PackTypeOK' /\ Stamped'
    BY <1>1, <1>3, <1>5, <2>1 DEF PackInv, P!PackTypeOK, Stamped, P!Ended
  <2> QED
    BY <1>4, <2>3, <2>4 DEF PackInv
<1>6. CASE pc' # "built"
  <2>1. found.stamp # index /\ attempt' \in 1..2 /\ (pc' = "changed" => attempt = 2)
    BY <1>1, <1>6 DEF P!After, P!SameProjection
  <2>2. index.build > found.stamp.build /\ found.stamp.build \in Nat
    BY <1>2, <2>1
  <2>3. P!PacksOfOneGeneration'
    BY <1>1, <1>2, <1>6, <2>1, <2>2 DEF P!PacksOfOneGeneration
  <2>4. P!PackTypeOK'
    BY <1>1, <2>1 DEF PackInv, P!PackTypeOK, P!Ended
  <2>5. Stamped'
    BY <1>1, <1>2, <1>3, <2>2 DEF PackInv, Stamped
  <2> QED
    BY <1>4, <2>3, <2>4, <2>5 DEF PackInv
<1> QED
  BY <1>5, <1>6

LEMMA PackStep ==
  ASSUME PackConstants, PackInv, [P!PackNext]_(P!packVars)
  PROVE  PackInv'
<1>1. CASE UNCHANGED P!packVars
  <2>1. UNCHANGED <<index, asked, pc, attempt, found, pack>> /\ UNCHANGED Gathering(pc)
    BY <1>1 DEF P!packVars, Gathering
  <2>2. UNCHANGED <<Since("edges"), Since("nodes"), Since("cited"), Since("observed"),
                    Since("claims"), Since("tasks"), Since("people")>>
    BY <2>1 DEF Since
  <2>3. P!PackTypeOK' /\ Stamped' /\ Gathered' /\ P!PacksOfOneGeneration'
    BY <2>1, <2>2 DEF PackInv, P!PackTypeOK, Stamped, Gathered, P!PacksOfOneGeneration,
                      P!OfGeneration
  <2> QED
    BY <2>3 DEF PackInv
<1> QED
  BY <1>1, RebuildKeepsPack, GatheringKeepsPack, FocalKeepsPack, AfterKeepsPack DEF P!PackNext

(* A pack never mixes generations of the index, however often that is       *)
(* rebuilt under it, and a call that gives up has seen two rebuilds         *)
(* (retrieval/builder.py, build_pack).                                     *)
THEOREM PacksAreOfOneGeneration ==
  PackConstants /\ P!PackSpec => [](P!PacksOfOneGeneration /\ P!PackTypeOK)
<1> SUFFICES ASSUME PackConstants
    PROVE P!PackSpec => [](P!PacksOfOneGeneration /\ P!PackTypeOK)
  OBVIOUS
<1>1. P!PackInit => PackInv
  BY PackBegins
<1>2. PackInv /\ [P!PackNext]_(P!packVars) => PackInv'
  BY PackStep
<1>3. PackInv => P!PacksOfOneGeneration /\ P!PackTypeOK
  BY DEF PackInv
<1> QED
  BY <1>1, <1>2, <1>3, PTL DEF P!PackSpec
-----------------------------------------------------------------------------
(* Checkpoints.                                                            *)

(* Of the constants: items come in some order, and a document has a text.  *)
CheckpointConstants == Item \in Seq(C!Doc) /\ Body # {}

Sheet ==
  [path : {"here", "there"}, body : Body, updated : Nat,
   by : C!Doc \cup {None}, over : C!Doc \cup {None}]
Digest == [body : Body, updated : Nat, by : C!Doc \cup {None}, over : C!Doc \cup {None}]
Look   == [path : {"here", "there"}, hash : Digest \cup {None}, updated : Nat]
Base   == [base : Nat]
Verdict == {"unchanged", "changed", "moved", "deleted", "superseded"}

Sight(x) == [path |-> x.path, hash |-> C!Hash(x)]
Said(t)  == [path |-> t.path, hash |-> t.hash]

CheckpointsTyped ==
  /\ disk \in [C!Doc -> Sheet \cup {None}] /\ known \in [C!Doc -> Sheet \cup {None}]
  /\ revision \in Nat /\ taken \in Seq(Look \cup Base) /\ verdict \in Seq(Verdict)
  /\ saver \in 0..(2*Len(Item) + 2) \cup {C!Refused}
  /\ checker \in 0..(3*Len(Item)) \cup {C!Refused}
  /\ DOMAIN sighted = C!Phase /\ \A p \in C!Phase : DOMAIN sighted[p] = C!Doc

(* A save has looked at one item after the other, and what it is done with  *)
(* was a document at that moment.                                          *)
Saving ==
  /\ saver = 0 => taken = <<>>
  /\ \A i \in DOMAIN Item : saver \in {2*i - 1, 2*i} => Len(taken) = i
  /\ saver # C!Refused => \A i \in DOMAIN Item : i <= Len(taken) => taken[i] \in Look
  /\ saver # C!Refused => \A i \in DOMAIN Item : 2*i <= saver =>
       Said(taken[i]) \in sighted["save"][Item[i]]

(* There is a checkpoint once a save has ended, and a check needs one.     *)
Saved ==
  /\ checkpoint # None => saver = 2*Len(Item) + 2
  /\ checkpoint # None => \A i \in DOMAIN Item : Said(checkpoint[i]) \in sighted["save"][Item[i]]
  /\ checker # 0 => checkpoint # None

Checking ==
  /\ checker = 0 => verdict = <<>>
  /\ Len(verdict) <= Len(Item)
  /\ \A i \in DOMAIN Item : /\ checker \in {3*i - 2, 3*i - 1} => Len(verdict) = i - 1
                            /\ checker = 3*i => Len(verdict) = i
  /\ \A i \in DOMAIN verdict : verdict[i] = "unchanged" =>
       Said(checkpoint[i]) \in sighted["check"][Item[i]]

(* Whatever a document is during a save, or a check, is sighted.           *)
Watched ==
  \A p \in C!Underway, d \in C!Doc : disk[d] # None => Sight(disk[d]) \in sighted[p][d]

CheckpointsInv == CheckpointsTyped /\ Saving /\ Saved /\ Checking /\ Watched
-----------------------------------------------------------------------------
LEMMA ItemsAreDocuments ==
  ASSUME CheckpointConstants
  PROVE  /\ Len(Item) \in Nat /\ DOMAIN Item = 1..Len(Item)
         /\ \A i \in DOMAIN Item : Item[i] \in C!Doc
         /\ C!Refused = 3*Len(Item) + 3 /\ C!First \in Body
         /\ C!Document(C!First) \in Sheet
<1>1. C!First \in Body
  BY DEF CheckpointConstants, C!First
<1> QED
  BY <1>1 DEF CheckpointConstants, C!Refused, C!Document, Sheet

LEMMA SightedGrows ==
  ASSUME NEW phases \in SUBSET C!Phase, C!Sighted(phases)
  PROVE  /\ DOMAIN sighted' = C!Phase /\ \A p \in C!Phase : DOMAIN sighted'[p] = C!Doc
         /\ \A p \in C!Phase, d \in C!Doc :
              /\ sighted[p][d] \subseteq sighted'[p][d]
              /\ p \in phases /\ disk'[d] # None => Sight(disk'[d]) \in sighted'[p][d]
BY DEF C!Sighted, Sight

LEMMA CheckpointsBegin ==
  ASSUME CheckpointConstants, C!CheckpointsInit
  PROVE  CheckpointsInv
<1> USE DEF C!CheckpointsInit
<1>1. CheckpointsTyped
  BY ItemsAreDocuments DEF CheckpointsTyped
<1>2. Saving
  BY ItemsAreDocuments DEF Saving
<1>3. Saved
  BY DEF Saved
<1>4. Checking
  BY ItemsAreDocuments DEF Checking
<1>5. Watched
  BY ItemsAreDocuments DEF Watched, C!Underway
<1> QED
  BY <1>1, <1>2, <1>3, <1>4, <1>5 DEF CheckpointsInv

(* Documents change under a save and a check.                              *)
LEMMA ChangeKeeps ==
  ASSUME CheckpointConstants, CheckpointsInv, disk' \in [C!Doc -> Sheet \cup {None}],
         revision' \in {revision, revision + 1}, C!Sighted(C!Underway),
         UNCHANGED <<known, saver, checker, taken, checkpoint, looked, verdict>>
  PROVE  CheckpointsInv'
<1>1. C!Underway \in SUBSET C!Phase /\ C!Underway' = C!Underway
  BY DEF C!Underway, C!Phase
<1>2. /\ DOMAIN sighted' = C!Phase /\ \A p \in C!Phase : DOMAIN sighted'[p] = C!Doc
      /\ \A p \in C!Phase, d \in C!Doc :
           /\ sighted[p][d] \subseteq sighted'[p][d]
           /\ p \in C!Underway /\ disk'[d] # None => Sight(disk'[d]) \in sighted'[p][d]
  BY <1>1, SightedGrows
<1>3. CheckpointsTyped'
  BY <1>2 DEF CheckpointsInv, CheckpointsTyped
<1>4. "save" \in C!Phase /\ "check" \in C!Phase
  BY DEF C!Phase
<1>5. Saving'
  BY <1>2, <1>4, ItemsAreDocuments DEF CheckpointsInv, Saving
<1>6. Saved'
  BY <1>2, <1>4, ItemsAreDocuments DEF CheckpointsInv, Saved
<1>7. Checking'
  <2>1. \A i \in DOMAIN verdict : i \in DOMAIN Item
    BY ItemsAreDocuments DEF CheckpointsInv, CheckpointsTyped, Checking
  <2> QED
    BY <1>2, <1>4, <2>1, ItemsAreDocuments DEF CheckpointsInv, Checking
<1>8. Watched'
  BY <1>1, <1>2 DEF Watched
<1> QED
  BY <1>3, <1>5, <1>6, <1>7, <1>8 DEF CheckpointsInv

LEMMA OthersKeepCheckpoints ==
  ASSUME CheckpointConstants, CheckpointsInv, NEW d \in C!Doc,
         C!Edit(d) \/ C!Move(d) \/ C!Delete(d) \/ C!Supersede(d)
  PROVE  CheckpointsInv'
<1> USE DEF CheckpointsInv, CheckpointsTyped
<1>1. /\ Successor \in C!Doc /\ C!Document(C!First) \in Sheet
      /\ C!Document(C!First).over = None
  BY ItemsAreDocuments DEF C!Doc, C!Document
<1>2. CASE C!Edit(d)
  <2>1. PICK b \in Body, n \in {0, 1} :
          disk[d] # None /\
            C!Change(d, [disk[d] EXCEPT !.body = b, !.updated = disk[d].updated + n])
    BY <1>2 DEF C!Edit
  <2>2. [disk[d] EXCEPT !.body = b, !.updated = disk[d].updated + n] \in Sheet
    <3>1. disk[d] \in Sheet /\ disk[d].updated + n \in Nat
      BY <2>1 DEF Sheet
    <3> QED
      BY <3>1 DEF Sheet
  <2>3. disk' \in [C!Doc -> Sheet \cup {None}]
    BY <2>1, <2>2 DEF C!Change
  <2> QED
    BY <2>1, <2>3, ChangeKeeps DEF C!Change
<1>3. CASE C!Move(d)
  <2>1. /\ disk[d] # None
        /\ C!Change(d, [disk[d] EXCEPT !.path = IF disk[d].path = "here" THEN "there" ELSE "here"])
    BY <1>3 DEF C!Move
  <2>2. [disk[d] EXCEPT !.path = IF disk[d].path = "here" THEN "there" ELSE "here"] \in Sheet
    BY <2>1 DEF Sheet
  <2>3. disk' \in [C!Doc -> Sheet \cup {None}]
    BY <2>1, <2>2 DEF C!Change
  <2> QED
    BY <2>1, <2>3, ChangeKeeps DEF C!Change
<1>4. CASE C!Delete(d)
  BY <1>4, ChangeKeeps DEF C!Delete, C!Change
<1>5. CASE C!Supersede(d)
  <2>1. disk[d] # None /\ disk[d] \in Sheet
    BY <1>5 DEF C!Supersede
  <2>2. [disk[d] EXCEPT !.by = Successor] \in Sheet
    BY <1>1, <2>1 DEF Sheet
  <2>3. [C!Document(C!First) EXCEPT !.over = d] \in Sheet
    BY <1>1 DEF Sheet
  <2>4. disk' \in [C!Doc -> Sheet \cup {None}]
    <3>1. CASE disk' = [disk EXCEPT ![d].by = Successor, ![Successor] = C!Document(C!First)]
      <4>1. \A e \in C!Doc : disk'[e] \in Sheet \cup {None}
        BY <3>1, <2>2, <1>1
      <4> QED
        BY <3>1, <4>1
    <3>2. CASE disk' = [disk EXCEPT ![Successor] = [C!Document(C!First) EXCEPT !.over = d]]
      BY <3>2, <2>3
    <3> QED
      BY <1>5, <3>1, <3>2 DEF C!Supersede
  <2> QED
    BY <1>5, <2>4, ChangeKeeps DEF C!Supersede
<1> QED
  BY <1>2, <1>3, <1>4, <1>5

(* The steps of a save.                                                    *)
LEMMA SaveLookKeeps ==
  ASSUME CheckpointConstants, CheckpointsInv, NEW i \in DOMAIN Item, C!SaveLook(i)
  PROVE  CheckpointsInv'
<1> DEFINE phases == IF i = 1 THEN {"save"} ELSE {}
<1>1. phases \in SUBSET C!Phase /\ C!Sighted(phases) /\ UNCHANGED disk
  BY DEF C!SaveLook, C!Phase
<1>2. /\ DOMAIN sighted' = C!Phase /\ \A p \in C!Phase : DOMAIN sighted'[p] = C!Doc
      /\ \A p \in C!Phase, d \in C!Doc :
           /\ sighted[p][d] \subseteq sighted'[p][d]
           /\ p \in phases /\ disk'[d] # None => Sight(disk'[d]) \in sighted'[p][d]
  BY <1>1, SightedGrows
<1> HIDE DEF phases
<1>3. /\ Item[i] \in C!Doc /\ i \in 1..Len(Item) /\ Len(Item) \in Nat
      /\ "save" \in C!Phase /\ "check" \in C!Phase
  BY ItemsAreDocuments DEF C!Phase
<1>4. Len(taken) = i - 1 /\ taken \in Seq(Look \cup Base)
  <2>1. CASE i = 1
    BY <2>1 DEF C!SaveLook, CheckpointsInv, CheckpointsTyped, Saving
  <2>2. CASE i # 1
    <3>1. i - 1 \in DOMAIN Item /\ saver = 2 * (i - 1)
      BY <1>3, <2>2, ItemsAreDocuments DEF C!SaveLook
    <3> QED
      BY <3>1 DEF CheckpointsInv, CheckpointsTyped, Saving
  <2> QED
    BY <2>1, <2>2
<1>5. \/ /\ saver' = saver + 1 /\ known[Item[i]] # None
         /\ taken' = Append(taken, [path |-> known[Item[i]].path, hash |-> None,
                                    updated |-> known[Item[i]].updated])
      \/ saver' = C!Refused /\ UNCHANGED taken
  BY DEF C!SaveLook
<1>6. CheckpointsTyped' /\ Saving'
  <2>1. CASE saver' = C!Refused /\ UNCHANGED taken
    <3>1. CheckpointsTyped'
      BY <1>2, <2>1 DEF C!SaveLook, CheckpointsInv, CheckpointsTyped
    <3>2. Saving'
      BY <2>1, ItemsAreDocuments DEF Saving
    <3> QED
      BY <3>1, <3>2
  <2>2. CASE saver' = saver + 1 /\ known[Item[i]] # None
    <3> DEFINE look == [path |-> known[Item[i]].path, hash |-> None,
                        updated |-> known[Item[i]].updated]
    <3>1. look \in Look
      BY <2>2, <1>3 DEF CheckpointsInv, CheckpointsTyped, Look, Sheet
    <3>2. taken' = Append(taken, look)
      BY <1>3, <1>5, <2>2, ItemsAreDocuments DEF C!SaveLook
    <3> HIDE DEF look
    <3>3. /\ taken' \in Seq(Look \cup Base) /\ Len(taken') = i /\ taken'[i] \in Look
          /\ \A j \in 1..(i-1) : taken'[j] = taken[j]
      BY <3>1, <3>2, <1>3, <1>4
    <3>4. saver' = 2*i - 1 /\ saver = 2*i - 2
      BY <1>3, <2>2 DEF C!SaveLook
    <3>5. CheckpointsTyped'
      <4>1. saver' \in 0..(2*Len(Item) + 2)
        BY <1>3, <3>4
      <4>2. UNCHANGED <<disk, known, revision, verdict, checker, Item, C!Refused>>
        BY DEF C!SaveLook, C!Refused
      <4>3. CheckpointsTyped
        BY DEF CheckpointsInv
      <4> QED
        BY <1>2, <3>3, <4>1, <4>2, <4>3 DEF CheckpointsTyped
    <3>6. \A j \in DOMAIN Item : j <= Len(taken') => taken'[j] \in Look
      BY <1>3, <1>4, <3>3, <3>4, ItemsAreDocuments DEF CheckpointsInv, Saving
    <3>7. \A j \in DOMAIN Item : 2*j <= saver' => Said(taken'[j]) \in sighted'["save"][Item[j]]
      <4>1. \A j \in DOMAIN Item : 2*j <= saver' => 2*j <= saver /\ j \in 1..(i-1)
        BY <1>3, <3>4, ItemsAreDocuments
      <4>2. saver # C!Refused
        BY <1>3, <3>4, ItemsAreDocuments
      <4>3. \A j \in DOMAIN Item : 2*j <= saver => Said(taken[j]) \in sighted["save"][Item[j]]
        BY <4>2 DEF CheckpointsInv, Saving
      <4> QED
        BY <1>2, <1>3, <3>3, <4>1, <4>3, ItemsAreDocuments
    <3>8. Saving'
      BY <1>3, <3>3, <3>4, <3>6, <3>7, ItemsAreDocuments DEF Saving
    <3> QED
      BY <3>5, <3>8
  <2> QED
    BY <1>5, <2>1, <2>2
<1>7. Saved' /\ UNCHANGED <<checker, verdict, checkpoint>>
  BY <1>2, <1>3, ItemsAreDocuments DEF C!SaveLook, CheckpointsInv, Saved
<1>8. Checking'
  <2>1. \A j \in DOMAIN verdict : j \in DOMAIN Item
    BY ItemsAreDocuments DEF CheckpointsInv, CheckpointsTyped, Checking
  <2> QED
    BY <1>2, <1>3, <1>7, <2>1, ItemsAreDocuments DEF CheckpointsInv, Checking
<1>9. Watched'
  <2>1. "save" \in C!Underway' => "save" \in C!Underway \/ i = 1
    BY <1>3, ItemsAreDocuments DEF C!Underway, C!SaveLook, CheckpointsInv, CheckpointsTyped
  <2>2. "check" \in C!Underway' => "check" \in C!Underway
    BY <1>7 DEF C!Underway
  <2>3. C!Underway \subseteq C!Phase /\ C!Underway' \subseteq C!Phase
    BY DEF C!Underway, C!Phase
  <2>4. i = 1 => phases = {"save"}
    BY DEF phases
  <2> QED
    BY <1>1, <1>2, <2>1, <2>2, <2>3, <2>4 DEF Watched, CheckpointsInv, C!Phase
<1> QED
  BY <1>6, <1>7, <1>8, <1>9 DEF CheckpointsInv

LEMMA SaveHashKeeps ==
  ASSUME CheckpointConstants, CheckpointsInv, NEW i \in DOMAIN Item, C!SaveHash(i)
  PROVE  CheckpointsInv'
<1>1. /\ Item[i] \in C!Doc /\ i \in 1..Len(Item) /\ Len(Item) \in Nat
      /\ C!Refused = 3*Len(Item) + 3 /\ saver = 2*i - 1 /\ saver # C!Refused
      /\ DOMAIN Item = 1..Len(Item)
  BY ItemsAreDocuments DEF C!SaveHash
<1>2. UNCHANGED <<disk, known, revision, changes, checker, checkpoint, looked, verdict, sighted>>
  BY DEF C!SaveHash
<1>3. /\ Len(taken) = i /\ taken \in Seq(Look \cup Base) /\ taken[i] \in Look
      /\ checkpoint = None
  BY <1>1 DEF CheckpointsInv, CheckpointsTyped, Saving, Saved
<1>4. CASE saver' = C!Refused /\ UNCHANGED taken
  <2>1. CheckpointsTyped'
    BY <1>2, <1>4 DEF CheckpointsInv, CheckpointsTyped
  <2>2. Saving'
    BY <1>1, <1>4 DEF Saving
  <2>3. Saved'
    BY <1>2, <1>3 DEF CheckpointsInv, Saved
  <2>4. Checking'
    BY <1>2 DEF CheckpointsInv, Checking
  <2>5. C!Underway' \subseteq C!Underway
    BY <1>1, <1>2, <1>4 DEF C!Underway
  <2>6. Watched'
    BY <1>2, <2>5 DEF CheckpointsInv, Watched
  <2> QED
    BY <2>1, <2>2, <2>3, <2>4, <2>6 DEF CheckpointsInv
<1>5. CASE /\ C!Readable(Item[i], taken[i]) /\ saver' = saver + 1
           /\ taken' = [taken EXCEPT ![i].hash = C!Hash(disk[Item[i]])]
  <2> DEFINE look == [taken[i] EXCEPT !.hash = C!Hash(disk[Item[i]])]
  <2>1. /\ disk[Item[i]] # None /\ disk[Item[i]] \in Sheet
        /\ disk[Item[i]].path = taken[i].path
    BY <1>1, <1>5 DEF C!Readable, CheckpointsInv, CheckpointsTyped
  <2>2. look \in Look /\ Said(look) = Sight(disk[Item[i]])
    <3>1. C!Hash(disk[Item[i]]) \in Digest
      BY <2>1 DEF C!Hash, Digest, Sheet
    <3> QED
      BY <1>3, <2>1, <3>1 DEF Look, Said, Sight
  <2>3. taken' = [taken EXCEPT ![i] = look]
    BY <1>5
  <2> HIDE DEF look
  <2>4. /\ taken' \in Seq(Look \cup Base) /\ Len(taken') = i /\ taken'[i] = look
        /\ \A j \in 1..(i-1) : taken'[j] = taken[j]
    BY <1>1, <1>3, <2>2, <2>3
  <2>5. saver' = 2*i
    BY <1>1, <1>5
  <2>6. CheckpointsTyped'
    <3>1. saver' \in 0..(2*Len(Item) + 2)
      BY <1>1, <2>5
    <3>2. CheckpointsTyped /\ UNCHANGED C!Refused
      BY DEF CheckpointsInv, C!Refused
    <3> QED
      BY <1>2, <2>4, <3>1, <3>2 DEF CheckpointsTyped
  <2>7. Sight(disk[Item[i]]) \in sighted["save"][Item[i]]
    <3>1. "save" \in C!Underway
      BY <1>1 DEF C!Underway
    <3> QED
      BY <1>1, <2>1, <3>1 DEF CheckpointsInv, Watched
  <2>8. \A j \in DOMAIN Item : j <= Len(taken') => taken'[j] \in Look
    BY <1>1, <1>3, <2>2, <2>4 DEF CheckpointsInv, Saving
  <2>9. \A j \in DOMAIN Item : 2*j <= saver' => Said(taken'[j]) \in sighted'["save"][Item[j]]
    <3>1. \A j \in DOMAIN Item : 2*j <= saver' => j = i \/ (2*j <= saver /\ j \in 1..(i-1))
      BY <1>1, <2>5
    <3>2. \A j \in DOMAIN Item : 2*j <= saver => Said(taken[j]) \in sighted["save"][Item[j]]
      BY <1>1 DEF CheckpointsInv, Saving
    <3> QED
      BY <1>2, <2>2, <2>4, <2>7, <3>1, <3>2
  <2>10. Saving'
    BY <1>1, <2>4, <2>5, <2>8, <2>9 DEF Saving
  <2>11. Saved' /\ Checking'
    BY <1>2, <1>3 DEF CheckpointsInv, Saved, Checking
  <2>12. C!Underway' \subseteq C!Underway
    BY <1>1, <1>2 DEF C!Underway
  <2>13. Watched'
    BY <1>2, <2>12 DEF CheckpointsInv, Watched
  <2> QED
    BY <2>6, <2>10, <2>11, <2>13 DEF CheckpointsInv
<1> QED
  BY <1>4, <1>5 DEF C!SaveHash

LEMMA SaveEndsKeep ==
  ASSUME CheckpointConstants, CheckpointsInv, C!SaveHead \/ C!SaveApply
  PROVE  CheckpointsInv'
<1>1. /\ Len(Item) \in Nat /\ DOMAIN Item = 1..Len(Item) /\ C!Refused = 3*Len(Item) + 3
      /\ UNCHANGED C!Refused
  BY ItemsAreDocuments DEF C!Refused
<1>2. UNCHANGED <<disk, known, changes, checker, looked, verdict, sighted>>
  BY DEF C!SaveHead, C!SaveApply
<1>3. /\ saver \in {2*Len(Item), 2*Len(Item) + 1} /\ saver # C!Refused
      /\ checkpoint = None /\ checker = 0 /\ verdict = <<>>
  BY <1>1 DEF C!SaveHead, C!SaveApply, CheckpointsInv, Saved, Checking
<1>4. /\ taken \in Seq(Look \cup Base)
      /\ saver = 2*Len(Item) => Len(taken) = Len(Item)
      /\ \A j \in DOMAIN Item : Said(taken[j]) \in sighted["save"][Item[j]]
  <2>1. saver = 2*Len(Item) => Len(taken) = Len(Item)
    <3>1. CASE Len(Item) = 0
      BY <1>1, <3>1 DEF CheckpointsInv, CheckpointsTyped, Saving
    <3>2. CASE Len(Item) # 0
      <4>1. Len(Item) \in DOMAIN Item
        BY <1>1, <3>2
      <4> QED
        BY <4>1 DEF CheckpointsInv, Saving
    <3> QED
      BY <3>1, <3>2
  <2>2. \A j \in DOMAIN Item : 2*j <= saver
    BY <1>1, <1>3
  <2> QED
    BY <1>3, <2>1, <2>2 DEF CheckpointsInv, CheckpointsTyped, Saving
<1>5. C!Underway' \subseteq C!Underway
  BY <1>1, <1>2, <1>3 DEF C!Underway, C!SaveHead, C!SaveApply
<1>6. Watched' /\ Checking'
  BY <1>2, <1>3, <1>5 DEF CheckpointsInv, Watched, Checking
<1>7. CASE C!SaveHead
  <2>1. taken' = Append(taken, [base |-> revision]) /\ saver' = saver + 1 /\ saver = 2*Len(Item)
        /\ UNCHANGED <<revision, checkpoint>>
    BY <1>7 DEF C!SaveHead
  <2>2. [base |-> revision] \in Look \cup Base
    BY DEF CheckpointsInv, CheckpointsTyped, Base
  <2>3. /\ taken' \in Seq(Look \cup Base) /\ Len(taken') = Len(Item) + 1
        /\ \A j \in DOMAIN Item : taken'[j] = taken[j]
    BY <1>1, <1>4, <2>1, <2>2
  <2>4. CheckpointsTyped'
    <3>1. saver' \in 0..(2*Len(Item) + 2)
      BY <1>1, <2>1
    <3>2. CheckpointsTyped
      BY DEF CheckpointsInv
    <3> QED
      BY <1>1, <1>2, <2>1, <2>3, <3>1, <3>2 DEF CheckpointsTyped
  <2>5. \A j \in DOMAIN Item : taken'[j] \in Look
    BY <1>1, <1>3, <1>4, <2>1, <2>3 DEF CheckpointsInv, Saving
  <2>6. Saving'
    BY <1>1, <1>2, <1>4, <2>1, <2>3, <2>5 DEF Saving
  <2>7. Saved'
    BY <1>2, <1>3, <2>1 DEF Saved
  <2> QED
    BY <1>6, <2>4, <2>6, <2>7 DEF CheckpointsInv
<1>8. CASE C!SaveApply
  <2>1. /\ saver = 2*Len(Item) + 1 /\ UNCHANGED taken
        /\ \/ /\ checkpoint' = [j \in DOMAIN Item |-> taken[j]]
              /\ saver' = saver + 1 /\ revision' = revision + 1
           \/ saver' = C!Refused /\ UNCHANGED <<checkpoint, revision>>
    BY <1>8 DEF C!SaveApply
  <2>2. saver' \in {2*Len(Item) + 2, C!Refused}
    BY <1>1, <2>1
  <2>3. CheckpointsTyped'
    <3>1. saver' \in 0..(2*Len(Item) + 2) \cup {C!Refused}
      BY <1>1, <2>2
    <3>2. CheckpointsTyped /\ revision' \in Nat
      BY <2>1 DEF CheckpointsInv, CheckpointsTyped
    <3> QED
      BY <1>1, <1>2, <2>1, <3>1, <3>2 DEF CheckpointsTyped
  <2>4. Saving'
    <3>1. \A j \in DOMAIN Item : saver' \notin {2*j - 1, 2*j} /\ saver' # 0
      BY <1>1, <2>2
    <3>2. \A j \in DOMAIN Item : j <= Len(taken) => taken[j] \in Look
      BY <1>3 DEF CheckpointsInv, Saving
    <3> QED
      BY <1>1, <1>2, <1>4, <2>1, <3>1, <3>2 DEF Saving
  <2>5. Saved'
    <3>1. CASE checkpoint' = [j \in DOMAIN Item |-> taken[j]] /\ saver' = saver + 1
      <4>1. \A j \in DOMAIN Item : Said(checkpoint'[j]) \in sighted'["save"][Item[j]]
        BY <1>2, <1>4, <3>1
      <4> QED
        BY <1>1, <1>2, <1>3, <2>1, <3>1, <4>1 DEF Saved
    <3>2. CASE UNCHANGED checkpoint
      BY <1>2, <1>3, <3>2 DEF Saved
    <3> QED
      BY <2>1, <3>1, <3>2
  <2> QED
    BY <1>6, <2>3, <2>4, <2>5 DEF CheckpointsInv
<1> QED
  BY <1>7, <1>8

(* The steps of a check.                                                   *)
LEMMA CheckKeeps ==
  ASSUME CheckpointConstants, CheckpointsInv, NEW i \in DOMAIN Item,
         C!CheckLook(i) \/ C!CheckSuccessors(i) \/ C!CheckHash(i)
  PROVE  CheckpointsInv'
<1>1. /\ Item[i] \in C!Doc /\ i \in 1..Len(Item) /\ Len(Item) \in Nat
      /\ DOMAIN Item = 1..Len(Item) /\ C!Refused = 3*Len(Item) + 3
      /\ UNCHANGED C!Refused /\ "save" \in C!Phase /\ "check" \in C!Phase
  BY ItemsAreDocuments DEF C!Refused, C!Phase
<1>2. UNCHANGED <<disk, known, revision, changes, saver, taken, checkpoint>>
  BY DEF C!CheckLook, C!CheckSuccessors, C!CheckHash
<1>3. /\ checkpoint # None /\ checker \in {3*i - 3, 3*i - 2, 3*i - 1} /\ checker # C!Refused
      /\ checker' \in {checker + 1, C!Refused} /\ checker' # 0
  <2>1. checker \in {3*i - 3, 3*i - 2, 3*i - 1} /\ checker' \in {checker + 1, C!Refused}
    BY DEF C!CheckLook, C!CheckSuccessors, C!CheckHash
  <2>2. checkpoint # None
    BY <1>1 DEF C!CheckLook, C!CheckSuccessors, C!CheckHash, CheckpointsInv, Saved
  <2> QED
    BY <1>1, <2>1, <2>2
<1>4. verdict \in Seq(Verdict) /\ Len(verdict) = i - 1
  <2>1. CASE checker = 3*i - 3
    <3>1. CASE i = 1
      BY <2>1, <3>1 DEF CheckpointsInv, CheckpointsTyped, Checking
    <3>2. CASE i # 1
      <4>1. i - 1 \in DOMAIN Item /\ checker = 3*(i - 1)
        BY <1>1, <2>1, <3>2
      <4> QED
        BY <4>1 DEF CheckpointsInv, CheckpointsTyped, Checking
    <3> QED
      BY <3>1, <3>2
  <2>2. CASE checker # 3*i - 3
    BY <1>3, <2>2 DEF CheckpointsInv, CheckpointsTyped, Checking
  <2> QED
    BY <2>1, <2>2
<1>5. /\ DOMAIN sighted' = C!Phase /\ \A p \in C!Phase : DOMAIN sighted'[p] = C!Doc
      /\ \A p \in C!Phase, d \in C!Doc :
           /\ sighted[p][d] \subseteq sighted'[p][d]
           /\ p \in C!Underway' \ C!Underway /\ disk'[d] # None
                => Sight(disk'[d]) \in sighted'[p][d]
  <2>1. CASE C!CheckLook(i)
    <3> DEFINE phases == IF i = 1 THEN {"check"} ELSE {}
    <3>1. phases \in SUBSET C!Phase /\ C!Sighted(phases)
      BY <2>1 DEF C!CheckLook, C!Phase
    <3>2. C!Underway' \ C!Underway \subseteq phases
      <4>1. i # 1 => checker \in 1..3*Len(Item)
        BY <1>1, <2>1 DEF C!CheckLook
      <4> QED
        BY <1>2, <4>1 DEF C!Underway
    <3> HIDE DEF phases
    <3> QED
      BY <3>1, <3>2, SightedGrows
  <2>2. CASE UNCHANGED sighted /\ checker # 3*i - 3
    <3>1. checker \in 1..3*Len(Item)
      BY <1>1, <1>3, <2>2
    <3>2. C!Underway' \subseteq C!Underway
      BY <1>2, <3>1 DEF C!Underway
    <3> QED
      BY <2>2, <3>2 DEF CheckpointsInv, CheckpointsTyped
  <2> QED
    BY <1>1, <2>1, <2>2 DEF C!CheckSuccessors, C!CheckHash
<1>6. Saving' /\ Saved'
  <2>1. \A j \in DOMAIN Item : sighted["save"][Item[j]] \subseteq sighted'["save"][Item[j]]
    BY <1>1, <1>5, ItemsAreDocuments
  <2>2. Saving'
    BY <1>1, <1>2, <2>1 DEF CheckpointsInv, Saving
  <2>3. Saved'
    BY <1>1, <1>2, <1>3, <2>1 DEF CheckpointsInv, Saved
  <2> QED
    BY <2>2, <2>3
<1>7. Watched'
  <2>1. C!Underway \subseteq C!Phase /\ C!Underway' \subseteq C!Phase
    BY DEF C!Underway, C!Phase
  <2> QED
    BY <1>2, <1>5, <2>1 DEF CheckpointsInv, Watched
<1>8. checker' \in 0..(3*Len(Item)) \cup {C!Refused}
  BY <1>1, <1>3
<1>9. \A j \in DOMAIN Item : 3*j = checker + 1 => j = i
  BY <1>1, <1>3
<1>10. CASE UNCHANGED verdict
  <2>1. CheckpointsTyped'
    <3>1. CheckpointsTyped
      BY DEF CheckpointsInv
    <3> QED
      BY <1>1, <1>2, <1>5, <1>8, <1>10, <3>1 DEF CheckpointsTyped
  <2>2. checker' # 3*i
    BY <1>1, <1>3, <1>10, <1>4 DEF C!CheckLook, C!CheckSuccessors, C!CheckHash
  <2>3. Checking'
    <3>1. \A j \in DOMAIN Item : /\ checker' \in {3*j - 2, 3*j - 1} => j = i
                                 /\ checker' # 3*j
      BY <1>1, <1>3, <2>2
    <3>2. \A j \in DOMAIN verdict : sighted["check"][Item[j]] \subseteq sighted'["check"][Item[j]]
      BY <1>1, <1>4, <1>5, ItemsAreDocuments
    <3>3. /\ Len(verdict') <= Len(Item)
          /\ \A j \in DOMAIN Item : /\ checker' \in {3*j - 2, 3*j - 1} => Len(verdict') = j - 1
                                    /\ checker' = 3*j => Len(verdict') = j
      BY <1>1, <1>4, <1>10, <3>1
    <3>4. \A j \in DOMAIN verdict' : verdict'[j] = "unchanged" =>
            Said(checkpoint'[j]) \in sighted'["check"][Item[j]]
      BY <1>2, <1>10, <3>2 DEF CheckpointsInv, Checking
    <3> QED
      BY <1>1, <1>3, <3>3, <3>4 DEF Checking
  <2> QED
    BY <1>6, <1>7, <2>1, <2>3 DEF CheckpointsInv
<1>11. CASE ~UNCHANGED verdict
  <2> DEFINE r == looked.record
             h == IF r = None THEN None ELSE C!Hash(disk[Item[i]])
             v == C!Judge(checkpoint[i], r, looked.by, h)
  <2>1. /\ checker = 3*i - 1 /\ checker' = checker + 1 /\ UNCHANGED sighted
        /\ r = None \/ C!Readable(Item[i], r)
        /\ verdict' = Append(verdict, v)
    BY <1>11 DEF C!CheckLook, C!CheckSuccessors, C!CheckHash
  <2>2. v \in Verdict
    BY DEF C!Judge, Verdict
  <2>3. v = "unchanged" => Said(checkpoint[i]) \in sighted["check"][Item[i]]
    <3> SUFFICES ASSUME v = "unchanged" PROVE Said(checkpoint[i]) \in sighted["check"][Item[i]]
      OBVIOUS
    <3>1. r # None /\ r.path = checkpoint[i].path /\ h = checkpoint[i].hash
      BY DEF C!Judge, C!Differs
    <3>2. disk[Item[i]] # None /\ Sight(disk[Item[i]]) = Said(checkpoint[i])
      BY <2>1, <3>1 DEF C!Readable, Sight, Said
    <3>3. "check" \in C!Underway
      BY <1>1, <2>1 DEF C!Underway
    <3> QED
      BY <1>1, <3>2, <3>3 DEF CheckpointsInv, Watched
  <2> HIDE DEF v, r, h
  <2>4. /\ verdict' \in Seq(Verdict) /\ Len(verdict') = i /\ verdict'[i] = v
        /\ DOMAIN verdict' = 1..i /\ \A j \in 1..(i-1) : verdict'[j] = verdict[j] /\
           j \in DOMAIN verdict
    BY <1>1, <1>4, <2>1, <2>2
  <2>5. CheckpointsTyped'
    <3>1. CheckpointsTyped
      BY DEF CheckpointsInv
    <3> QED
      BY <1>1, <1>2, <1>5, <1>8, <2>4, <3>1 DEF CheckpointsTyped
  <2>6. \A j \in DOMAIN verdict' : verdict'[j] = "unchanged" =>
          Said(checkpoint'[j]) \in sighted'["check"][Item[j]]
    <3>1. \A j \in DOMAIN verdict' : j = i \/ j \in 1..(i-1)
      BY <1>1, <2>4
    <3>2. \A j \in 1..(i-1) : verdict[j] = "unchanged" =>
            Said(checkpoint[j]) \in sighted["check"][Item[j]]
      BY <2>4 DEF CheckpointsInv, Checking
    <3> QED
      BY <1>2, <2>1, <2>3, <2>4, <3>1, <3>2
  <2>7. Checking'
    <3>1. \A j \in DOMAIN Item : /\ checker' = 3*j => j = i
                                 /\ checker' \notin {3*j - 2, 3*j - 1}
      BY <1>1, <2>1
    <3> QED
      BY <1>1, <1>3, <2>4, <2>6, <3>1 DEF Checking
  <2> QED
    BY <1>6, <1>7, <2>5, <2>7 DEF CheckpointsInv
<1> QED
  BY <1>10, <1>11

LEMMA CheckpointsStep ==
  ASSUME CheckpointConstants, CheckpointsInv, [C!CheckpointsNext]_(C!checkpointVars)
  PROVE  CheckpointsInv'
<1>1. CASE UNCHANGED C!checkpointVars
  <2>1. UNCHANGED <<C!Refused, C!Underway>>
    BY <1>1 DEF C!checkpointVars, C!Refused, C!Underway
  <2>2. CheckpointsTyped' /\ Saving' /\ Saved' /\ Checking' /\ Watched'
    BY <1>1, <2>1 DEF C!checkpointVars, CheckpointsInv, CheckpointsTyped, Saving, Saved, Checking,
                      Watched
  <2> QED
    BY <2>2 DEF CheckpointsInv
<1>2. CASE C!Refresh
  <2>1. UNCHANGED <<C!Refused, C!Underway>>
    BY <1>2 DEF C!Refresh, C!Refused, C!Underway
  <2>2. CheckpointsTyped' /\ Saving' /\ Saved' /\ Checking' /\ Watched'
    BY <1>2, <2>1 DEF C!Refresh, CheckpointsInv, CheckpointsTyped, Saving, Saved, Checking, Watched
  <2> QED
    BY <2>2 DEF CheckpointsInv
<1> QED
  BY <1>1, <1>2, OthersKeepCheckpoints, SaveLookKeeps, SaveHashKeeps, SaveEndsKeep, CheckKeeps
     DEF C!CheckpointsNext, C!Save, C!Check

LEMMA SightsShowTheSame ==
  ASSUME CheckpointConstants, CheckpointsInv
  PROVE  C!UnchangedIsTheSame /\ C!CheckpointsTypeOK
<1>1. C!UnchangedIsTheSame
  <2> SUFFICES ASSUME NEW i \in DOMAIN verdict, verdict[i] = "unchanged"
      PROVE \E s \in sighted["save"][Item[i]] \cap sighted["check"][Item[i]] :
               s.path = checkpoint[i].path /\ s.hash = checkpoint[i].hash
    BY DEF C!UnchangedIsTheSame
  <2>1. i \in DOMAIN Item /\ checker # 0
    BY ItemsAreDocuments DEF CheckpointsInv, CheckpointsTyped, Checking
  <2>2. Said(checkpoint[i]) \in sighted["save"][Item[i]] \cap sighted["check"][Item[i]]
    BY <2>1 DEF CheckpointsInv, Saved, Checking
  <2> QED
    BY <2>2 DEF Said
<1>2. C!CheckpointsTypeOK
  BY DEF CheckpointsInv, CheckpointsTyped, C!CheckpointsTypeOK, Verdict
<1> QED
  BY <1>1, <1>2

(* What a check calls unchanged had the same bytes at the same path at some *)
(* moment of the save and at some moment of the check, whatever happened to *)
(* the documents and however old the index was (checkpoints/service.py).   *)
THEOREM UnchangedIsUnchanged ==
  CheckpointConstants /\ C!CheckpointsSpec => [](C!UnchangedIsTheSame /\ C!CheckpointsTypeOK)
<1> SUFFICES ASSUME CheckpointConstants
    PROVE C!CheckpointsSpec => [](C!UnchangedIsTheSame /\ C!CheckpointsTypeOK)
  OBVIOUS
<1>1. C!CheckpointsInit => CheckpointsInv
  BY CheckpointsBegin
<1>2. CheckpointsInv /\ [C!CheckpointsNext]_(C!checkpointVars) => CheckpointsInv'
  BY CheckpointsStep
<1>3. CheckpointsInv => C!UnchangedIsTheSame /\ C!CheckpointsTypeOK
  BY SightsShowTheSame
<1> QED
  BY <1>1, <1>2, <1>3, PTL DEF C!CheckpointsSpec
-----------------------------------------------------------------------------
(* Whatever changes meanwhile, a pack is of one generation of the index and *)
(* an item that a check calls unchanged had the same bytes at the same     *)
(* path during the save and during the check (retrieval/builder.py,        *)
(* checkpoints/service.py).                                                *)
THEOREM ReadingsStayAgreed ==
  ASSUME PackConstants, CheckpointConstants
  PROVE  P!PackSpec /\ C!CheckpointsSpec => []ReadingsAgree
<1>1. P!PackSpec => [](P!PacksOfOneGeneration /\ P!PackTypeOK)
  BY PacksAreOfOneGeneration
<1>2. C!CheckpointsSpec => [](C!UnchangedIsTheSame /\ C!CheckpointsTypeOK)
  BY UnchangedIsUnchanged
<1> QED
  BY <1>1, <1>2, PTL DEF ReadingsAgree

(* Installations, packs and checkpoints side by side keep their types       *)
(* (adapters/agents/service.py, retrieval/builder.py,                      *)
(* checkpoints/service.py).                                                *)
THEOREM DerivedTyped ==
  ASSUME AdapterConstants, PackConstants, CheckpointConstants
  PROVE  DerivedSpec => []DerivedTypeOK
<1>1. A!AdapterSpec => InstallsAreWhole /\ []A!AdapterTypeOK
  BY InstallsStayWhole
<1>2. P!PackSpec => [](P!PacksOfOneGeneration /\ P!PackTypeOK)
  BY PacksAreOfOneGeneration
<1>3. C!CheckpointsSpec => [](C!UnchangedIsTheSame /\ C!CheckpointsTypeOK)
  BY UnchangedIsUnchanged
<1> QED
  BY <1>1, <1>2, <1>3, PTL DEF DerivedSpec, DerivedTypeOK
=============================================================================
