---------------------------- MODULE ContextLock ----------------------------
(***************************************************************************)
(* The writer lock of a context: lock.json names the lease that may write, *)
(* and a heartbeat keeps it fresh.  Acquiring, refreshing and releasing a  *)
(* lease happen inside the mutation guard, whose promise (MutationGuard)   *)
(* is taken as given here: one process at a time is inside, and the ticket *)
(* of a dead one is collected by somebody on its own host.  MaxBreaches    *)
(* lets that promise be broken, to see what the lock's own checks hold.    *)
(*                                                                         *)
(* A lease stands for one call of acquire and the nonce it writes.  The    *)
(* file it creates and each file its heartbeats put in place are told      *)
(* apart, as the code tells them apart by their inode, time and content.   *)
(***************************************************************************)
EXTENDS Naturals

CONSTANTS Lease, Nobody,
          Host,         \* the host each lease's process runs on
          MaxTries,     \* creations tried before acquire gives up
          MaxBeats,     \* bound on the heartbeats of a lease
          MaxFailures,  \* bound on calls that fail for good
          MaxExits,     \* bound on processes that die or exit
          MaxBreaches   \* entries into a guard that somebody holds

ASSUME NobodyAssumption == Nobody \notin Lease
ASSUME BeatsAssumption == MaxBeats \in Nat

VARIABLES
  lock,      \* the file at lock.json: the lease that wrote it, its beats
  old,       \* is that file older than stale_after?
  file,      \* the file each lease has created: torn, then whole
  beats,     \* heartbeats each lease has written
  evidence,  \* lock.stale-*.json: the files archived, and by whom
  inside,    \* who has a ticket of the mutation guard
  pc,        \* where each lease's process is
  saw,       \* the snapshot it means to archive
  late,      \* processes whose time stamp has expired before its use
  tries,     \* creations tried
  failures, exits, breaches

spent == <<failures, exits, breaches>>
vars == <<lock, old, file, beats, evidence, inside, pc, saw, late, tries, spent>>

Absent == [of |-> Nobody, beat |-> 0]
Nothing == [of |-> Nobody, beat |-> 0, torn |-> FALSE]

File     == [of : Lease \cup {Nobody}, beat : Nat]
Sighting == [of : Lease \cup {Nobody}, beat : Nat, torn : BOOLEAN]
Copy     == [by : Lease, try : Nat, of : Lease \cup {Nobody}, beat : Nat]

(* Steps under way inside the guard, by what the process is about. *)
Acquiring == {"create", "fill", "inspect", "recheck", "link", "compare", "unlink"}
Beating   == {"fence", "replace"}
Releasing == {"give", "drop"}
Leaving   == {"taken", "refused", "back", "dropped", "fenced"}
InGuard   == Acquiring \cup Beating \cup Releasing \cup Leaving

Label == InGuard \cup {"idle", "held", "stamp", "done", "lost", "dead"}

Goto(n, l) == pc' = [pc EXCEPT ![n] = l]

Snapshot(f) ==
  [of |-> f.of, beat |-> f.beat,
   torn |-> f.of # Nobody /\ f.beat = 0 /\ file[f.of] = "torn"]

(* A file with no valid content is stale when it has not changed for        *)
(* stale_after, any other one also when its owner has died on this host.    *)
StaleTo(n) ==
  \/ old
  \/ /\ lock.of # Nobody /\ ~Snapshot(lock).torn
     /\ pc[lock.of] = "dead" /\ Host[lock.of] = Host[n]

Fenced(n) == lock.of = n /\ file[n] = "whole"

Init ==
  /\ lock = Absent /\ old = FALSE
  /\ file = [n \in Lease |-> "none"]
  /\ beats = [n \in Lease |-> 0]
  /\ evidence = {} /\ inside = {} /\ late = {}
  /\ pc = [n \in Lease |-> "idle"]
  /\ saw = [n \in Lease |-> Nothing]
  /\ tries = [n \in Lease |-> 0]
  /\ failures = 0 /\ exits = 0 /\ breaches = 0
-----------------------------------------------------------------------------
(* The mutation guard. *)

EnterGuard(n) ==
  /\ inside' = inside \cup {n}
  /\ \/ inside = {} /\ UNCHANGED spent
     \/ /\ inside # {} /\ n \notin inside
        /\ breaches < MaxBreaches /\ breaches' = breaches + 1
        /\ UNCHANGED <<failures, exits>>

(* What a call has come to when it has left the guard. *)
After(l) ==
  IF l \in {"taken", "back"} THEN "held" ELSE IF l = "fenced" THEN "lost" ELSE "done"

LeaveGuard(n) ==
  /\ pc[n] \in Leaving
  /\ inside' = inside \ {n}
  /\ Goto(n, After(pc[n]))
  /\ saw' = [saw EXCEPT ![n] = Nothing]
  /\ tries' = [tries EXCEPT ![n] = 0]
  /\ late' = late \ {n}
  /\ UNCHANGED <<lock, old, file, beats, evidence, spent>>

(* The ticket of a dead process, found by somebody alive on its host. *)
Collect(m) ==
  /\ m \in inside /\ pc[m] = "dead"
  /\ \E n \in Lease : Host[n] = Host[m] /\ pc[n] \in {"idle", "held", "stamp"}
  /\ inside' = inside \ {m}
  /\ UNCHANGED <<lock, old, file, beats, evidence, pc, saw, late, tries, spent>>
-----------------------------------------------------------------------------
(* acquire *)

Acquire(n) ==
  /\ pc[n] = "idle" /\ EnterGuard(n)
  /\ Goto(n, "create")
  /\ UNCHANGED <<lock, old, file, beats, evidence, saw, late, tries>>

Try(n) == UNCHANGED <<beats, inside, tries, spent>>

(* Fault of Retry: acquire gives up when one creation is left. *)
RetryTooSeldom(n) ==
  /\ tries' = [tries EXCEPT ![n] = @ + 1]
  /\ Goto(n, IF tries[n] + 2 < MaxTries THEN "create" ELSE "refused")
  /\ late' = late \ {n}
  /\ saw' = [saw EXCEPT ![n] = Nothing]
  /\ UNCHANGED <<file, beats, inside, spent>>

(* The next attempt takes a new time stamp. *)
Retry(n) ==
  /\ tries' = [tries EXCEPT ![n] = @ + 1]
  /\ Goto(n, IF tries[n] + 1 < MaxTries THEN "create" ELSE "refused")
  /\ late' = late \ {n}
  /\ saw' = [saw EXCEPT ![n] = Nothing]
  /\ UNCHANGED <<file, beats, inside, spent>>

Create(n) ==
  /\ pc[n] = "create"
  /\ \/ /\ lock = Absent
        /\ lock' = [of |-> n, beat |-> 0]
        /\ file' = [file EXCEPT ![n] = "torn"]
        /\ old' = FALSE
        /\ Goto(n, "fill")
     \/ lock # Absent /\ Goto(n, "inspect") /\ UNCHANGED <<lock, file, old>>
  /\ UNCHANGED <<evidence, saw, late>> /\ Try(n)

(* The content arrives in the file that was created, wherever it is now. *)
Fill(n) ==
  /\ pc[n] = "fill"
  /\ file' = [file EXCEPT ![n] = "whole"]
  /\ old' = IF lock = [of |-> n, beat |-> 0] THEN n \in late ELSE old
  /\ Goto(n, "taken")
  /\ UNCHANGED <<lock, evidence, saw, late>> /\ Try(n)

(* Fault of Inspect: acquire waits for a lock that is not stale. *)
InspectAndWait(n) ==
  /\ pc[n] = "inspect"
  /\ \/ ~StaleTo(n) /\ Goto(n, "create") /\ UNCHANGED saw
     \/ /\ StaleTo(n)
        /\ saw' = [saw EXCEPT ![n] = Snapshot(lock)]
        /\ Goto(n, "recheck")
  /\ UNCHANGED <<lock, old, file, evidence, late>> /\ Try(n)

Inspect(n) ==
  /\ pc[n] = "inspect"
  /\ \/ lock = Absent /\ Retry(n) /\ UNCHANGED <<lock, old, evidence>>
     \/ /\ lock # Absent /\ ~StaleTo(n)
        /\ Goto(n, "refused")
        /\ UNCHANGED <<lock, old, file, evidence, saw, late>> /\ Try(n)
     \/ /\ lock # Absent /\ StaleTo(n)
        /\ saw' = [saw EXCEPT ![n] = Snapshot(lock)]
        /\ Goto(n, "recheck")
        /\ UNCHANGED <<lock, old, file, evidence, late>> /\ Try(n)

Recheck(n) ==
  /\ pc[n] = "recheck"
  /\ \/ Snapshot(lock) # saw[n] /\ Retry(n) /\ UNCHANGED <<lock, old, evidence>>
     \/ /\ Snapshot(lock) = saw[n]
        /\ Goto(n, "link")
        /\ UNCHANGED <<lock, old, file, evidence, saw, late>> /\ Try(n)

(* The archive is a second name of whatever file is there. *)
Archive(n) == [by |-> n, try |-> tries[n], of |-> lock.of, beat |-> lock.beat]

(* Fault of Link: the evidence is not preserved. *)
LinkNothing(n) ==
  /\ pc[n] = "link"
  /\ Goto(n, "unlink")
  /\ UNCHANGED <<lock, old, file, evidence, saw, late>> /\ Try(n)

Link(n) ==
  /\ pc[n] = "link"
  /\ \/ lock = Absent /\ Retry(n) /\ UNCHANGED <<lock, old, evidence>>
     \/ /\ lock # Absent
        /\ evidence' = evidence \cup {Archive(n)}
        /\ Goto(n, "compare")
        /\ UNCHANGED <<lock, old, file, saw, late>> /\ Try(n)

Content(a) == Snapshot([of |-> a.of, beat |-> a.beat])

Linked(n, a) == a \in evidence /\ a.by = n /\ a.try = tries[n]

(* Fault of Compare: only lock.json is compared with the snapshot, and the   *)
(* archive of something else stays.                                        *)
CompareLockOnly(n) ==
  /\ pc[n] = "compare"
  /\ \/ Snapshot(lock) # saw[n] /\ Retry(n) /\ UNCHANGED <<lock, old, evidence>>
     \/ /\ Snapshot(lock) = saw[n]
        /\ Goto(n, "unlink")
        /\ UNCHANGED <<lock, old, file, evidence, saw, late>> /\ Try(n)

Compare(n) ==
  /\ pc[n] = "compare"
  /\ \E a \in evidence :
       /\ Linked(n, a)
       /\ \/ /\ Content(a) # saw[n] \/ Snapshot(lock) # saw[n]
             /\ evidence' = evidence \ {a}
             /\ Retry(n) /\ UNCHANGED <<lock, old>>
          \/ /\ Content(a) = saw[n] /\ Snapshot(lock) = saw[n]
             /\ Goto(n, "unlink")
             /\ UNCHANGED <<lock, old, file, evidence, saw, late>> /\ Try(n)

(* The unlink takes whatever file bears the name by then. *)
Remove == lock' = Absent /\ old' = FALSE

Unlink(n) ==
  /\ pc[n] = "unlink"
  /\ \/ lock # Absent /\ Remove /\ Retry(n)
     \/ /\ lock = Absent /\ Goto(n, "refused")
        /\ UNCHANGED <<lock, old, file, saw, late>> /\ Try(n)
  /\ UNCHANGED evidence
-----------------------------------------------------------------------------
(* heartbeat and release *)

(* The heartbeat's time stamp is taken before the guard is entered. *)
Stamp(n) ==
  /\ pc[n] = "held" /\ beats[n] < MaxBeats
  /\ Goto(n, "stamp")
  /\ UNCHANGED <<lock, old, file, beats, evidence, inside, saw, late, tries, spent>>

(* Fault of Heartbeat: the file is refreshed outside the guard. *)
HeartbeatUnguarded(n) ==
  /\ pc[n] = "stamp"
  /\ Goto(n, "fence")
  /\ UNCHANGED <<lock, old, file, beats, evidence, inside, saw, late, tries, spent>>

Heartbeat(n) ==
  /\ pc[n] = "stamp" /\ EnterGuard(n)
  /\ Goto(n, "fence")
  /\ UNCHANGED <<lock, old, file, beats, evidence, saw, late, tries>>

(* The guard refuses an attempt, and the lease is kept without the beat. *)
Unheard(n) ==
  /\ pc[n] = "stamp"
  /\ Goto(n, "held")
  /\ late' = late \ {n}
  /\ UNCHANGED <<lock, old, file, beats, evidence, inside, saw, tries, spent>>

Verify(n, next) ==
  /\ Goto(n, IF Fenced(n) THEN next ELSE "fenced")
  /\ UNCHANGED <<lock, old, file, evidence, saw, late>> /\ Try(n)

(* Fault of Fence: the refreshed file replaces whatever is there. *)
FenceNothing(n) ==
  /\ pc[n] = "fence"
  /\ Goto(n, "replace")
  /\ UNCHANGED <<lock, old, file, evidence, saw, late>> /\ Try(n)

Fence(n) == pc[n] = "fence" /\ Verify(n, "replace")

Replace(n) ==
  /\ pc[n] = "replace"
  /\ beats' = [beats EXCEPT ![n] = @ + 1]
  /\ lock' = [of |-> n, beat |-> beats[n] + 1]
  /\ old' = (n \in late)
  /\ Goto(n, "back")
  /\ UNCHANGED <<file, evidence, inside, saw, late, tries, spent>>

Release(n) ==
  /\ pc[n] = "held" /\ EnterGuard(n)
  /\ Goto(n, "give")
  /\ UNCHANGED <<lock, old, file, beats, evidence, saw, late, tries>>

Give(n) == pc[n] = "give" /\ Verify(n, "drop")

Drop(n) ==
  /\ pc[n] = "drop"
  /\ \/ lock # Absent /\ Remove /\ Goto(n, "dropped")
     \/ lock = Absent /\ Goto(n, "fenced") /\ UNCHANGED <<lock, old>>
  /\ UNCHANGED <<file, evidence, saw, late>> /\ Try(n)
-----------------------------------------------------------------------------
(* Failures and time. *)

(* A call fails for good inside the guard.  A lease that was being acquired *)
(* is given up, with the file it was writing; one that was held is kept.   *)
Fail(n) ==
  /\ pc[n] \in Acquiring \cup Beating \cup Releasing
  /\ failures < MaxFailures /\ failures' = failures + 1
  /\ Goto(n, IF pc[n] \in Acquiring THEN "refused" ELSE "back")
  /\ IF pc[n] = "fill" THEN Remove ELSE UNCHANGED <<lock, old>>
  /\ UNCHANGED <<file, beats, evidence, inside, saw, late, tries, exits, breaches>>

(* The ticket cannot be withdrawn: it stays as long as the process lives,   *)
(* and a lease that was just acquired is known to nobody.                  *)
Leak(n) ==
  /\ pc[n] \in Leaving
  /\ failures < MaxFailures /\ failures' = failures + 1
  /\ Goto(n, IF pc[n] = "taken" THEN "done" ELSE After(pc[n]))
  /\ saw' = [saw EXCEPT ![n] = Nothing]
  /\ tries' = [tries EXCEPT ![n] = 0]
  /\ late' = late \ {n}
  /\ UNCHANGED <<lock, old, file, beats, evidence, inside, exits, breaches>>

(* The process dies, or exits, with a ticket or a lock left behind. *)
Exit(n) ==
  /\ pc[n] # "dead" /\ (n \in inside \/ lock.of = n)
  /\ exits < MaxExits /\ exits' = exits + 1
  /\ Goto(n, "dead")
  /\ saw' = [saw EXCEPT ![n] = Nothing]
  /\ tries' = [tries EXCEPT ![n] = 0]
  /\ late' = late \ {n}
  /\ UNCHANGED <<lock, old, file, beats, evidence, inside, failures, breaches>>

(* lock.json has not been refreshed for stale_after. *)
Expire ==
  /\ lock # Absent /\ ~old
  /\ old' = TRUE
  /\ late' = IF Snapshot(lock).torn /\ pc[lock.of] = "fill" THEN late \cup {lock.of} ELSE late
  /\ UNCHANGED <<lock, file, beats, evidence, inside, pc, saw, tries, spent>>

(* A process is held up for stale_after between its time stamp and its use; *)
(* what a heartbeat is to replace is older still.                          *)
Stall(n) ==
  /\ pc[n] \in {"create", "fill", "stamp"} \cup Beating /\ n \notin late
  /\ late' = late \cup {n}
  /\ old' = (old \/ (lock.of = n /\ pc[n] # "fill"))
  /\ UNCHANGED <<lock, file, beats, evidence, inside, pc, saw, tries, spent>>
-----------------------------------------------------------------------------
(* The steps of a call that has entered the guard. *)
Step(n) ==
  \/ Create(n) \/ Fill(n) \/ Inspect(n) \/ Recheck(n) \/ Link(n) \/ Compare(n)
  \/ Unlink(n) \/ Fence(n) \/ Replace(n) \/ Give(n) \/ Drop(n) \/ LeaveGuard(n)

Next ==
  \/ \E n \in Lease :
       \/ Acquire(n) \/ Stamp(n) \/ Heartbeat(n) \/ Unheard(n) \/ Release(n)
       \/ Step(n) \/ Collect(n)
       \/ Fail(n) \/ Leak(n) \/ Exit(n) \/ Stall(n)
  \/ Expire

Spec == Init /\ [][Next]_vars

(* A call inside the guard goes on unless its process dies. *)
FairSpec == Spec /\ \A n \in Lease : WF_vars(Step(n))
-----------------------------------------------------------------------------
(* Types, and: whoever is at work on lock.json has a ticket of the guard. *)
TypeOK ==
  /\ \A n \in Lease : pc[n] \in InGuard => n \in inside
  /\ lock \in File
  /\ old \in BOOLEAN
  /\ file \in [Lease -> {"none", "torn", "whole"}]
  /\ beats \in [Lease -> Nat]
  /\ evidence \subseteq Copy
  /\ inside \subseteq Lease /\ late \subseteq Lease
  /\ pc \in [Lease -> Label]
  /\ saw \in [Lease -> Sighting]
  /\ tries \in [Lease -> Nat]
  /\ failures \in Nat /\ exits \in Nat /\ breaches \in Nat

(* The lock is the lease the engine relies on: a heartbeat or a release      *)
(* never touches a successor's file, a takeover ends a stale lease only,   *)
(* and a lease that was lost never owns the lock again.                    *)
Owned == lock.of # Nobody

Implemented == INSTANCE Lease WITH
  Holder <- Lease,
  owner  <- lock.of,
  stale  <- \E n \in Lease : StaleTo(n),
  giving <- Owned /\ pc[lock.of] \in {"drop", "fill"},
  past   <- {n \in Lease : file[n] # "none" /\ lock.of # n}

ImplementsLease == Implemented!Spec

(* A lease is taken over only under the eyes of a later reader: when its    *)
(* file goes without its own doing, that file is in an archive.            *)
Archived(f) == \E a \in evidence : a.of = f.of /\ a.beat = f.beat

EvidenceKept ==
  [][\A m \in Lease :
       lock.of = m /\ lock'.of # m /\ pc'[m] = pc[m] => Archived(lock)]_vars

(* Even if two processes get into the guard, an archive that an archiver    *)
(* has checked shows a file that is no longer the lock or that is stale:   *)
(* what was linked while somebody else changed the lock is thrown away.    *)
NoFreshEvidence ==
  \A a \in evidence :
    \/ pc[a.by] \in {"compare", "dead"}
    \/ lock # [of |-> a.of, beat |-> a.beat]
    \/ StaleTo(a.by)

(* acquire ends, whatever it meets on its way. *)
AcquireEnds ==
  \A n \in Lease : (pc[n] = "create") ~> (pc[n] \in {"held", "done", "dead"})

(* A stale lock, or none, stops nobody who is alone in the guard: whoever   *)
(* tries to acquire gets the lease unless one of its own calls fails.      *)
StaleYields ==
  \A n \in Lease :
    (pc[n] = "create" /\ (lock = Absent \/ StaleTo(n)) /\ failures = MaxFailures)
      ~> (pc[n] \in {"held", "dead"})
=============================================================================
