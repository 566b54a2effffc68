------------------------------ MODULE UsageLog ------------------------------
(***************************************************************************)
(* Usage recording (usage/recording.py): a best-effort log of read events, *)
(* appended to usage.jsonl and rotated through .1 to .Keep before an event *)
(* that would take it over its limit.  A lock serializes the threads of    *)
(* one process; nothing serializes two processes.  A file is a name for an *)
(* inode: an event goes to the inode the name meant when it was opened.    *)
(***************************************************************************)
EXTENDS Integers, Sequences, FiniteSets

CONSTANTS Recorder,            \* threads
          ProcessOf,           \* ProcessOf[r]: the process of thread r
          Void,
          MaxBytes, Keep,      \* the limit of a file (events are one unit), rotated files
          MaxEvents, MaxKills

VARIABLES name,       \* name[i]: the inode of .i (0: usage.jsonl), or Void
          inode,      \* inode[f]: the events written to inode f, oldest first
          mutex,      \* mutex[p]: the thread of process p that holds its lock
          rec,        \* rec[r]: where thread r is, the inode it opened, its index
          history,    \* history: every event that was written, in order
          mixed,      \* history: two processes were recording at once
          kills

usageVars == <<name, inode, mutex, rec, history, mixed, kills>>

Process == {ProcessOf[r] : r \in Recorder}
Aside == [at |-> "idle", i |-> 0, file |-> Void]

UsageInit ==
  /\ name = [i \in 0..Keep |-> Void]
  /\ inode = <<>>
  /\ mutex = [p \in Process |-> Void]
  /\ rec = [r \in Recorder |-> Aside]
  /\ history = 0
  /\ mixed = FALSE
  /\ kills = 0

Inside == {p \in Process : mutex[p] # Void}
To(r, at) == rec' = [rec EXCEPT ![r].at = at]

(* record, when the context opted in; the lock of the process.             *)
Record(r) ==
  /\ rec[r].at = "idle"
  /\ mutex[ProcessOf[r]] = Void
  /\ history + Cardinality(Inside) < MaxEvents
  /\ mutex' = [mutex EXCEPT ![ProcessOf[r]] = r]
  /\ mixed' = (mixed \/ Inside # {})
  /\ To(r, "size")
  /\ UNCHANGED <<name, inode, history, kills>>

Size(i) == IF name[i] = Void THEN 0 ELSE Len(inode[name[i]])

(* Whether the event would take the current file over the limit.           *)
Full == Size(0) > 0 /\ Size(0) + 1 > MaxBytes

CheckSize(r) ==
  /\ rec[r].at = "size"
  /\ To(r, IF ~Full THEN "open" ELSE "oldest")
  /\ UNCHANGED <<name, inode, mutex, history, mixed, kills>>

StepOut(r) ==
  /\ rec' = [rec EXCEPT ![r] = Aside]
  /\ mutex' = [mutex EXCEPT ![ProcessOf[r]] = Void]

(* _rotate: the oldest file goes, then the others move up one by one, the  *)
(* current one last.  Every file is looked for and then touched; one that  *)
(* another process took in between makes the call fail, the event is given *)
(* up and the failure swallowed.                                           *)
NextShift(i) == [at |-> "look", i |-> i, file |-> Void]

LookOldest(r) ==
  /\ rec[r].at = "oldest"
  /\ rec' = [rec EXCEPT ![r] = IF name[Keep] # Void THEN [@ EXCEPT !.at = "unlink"]
                               ELSE NextShift(Keep - 1)]
  /\ UNCHANGED <<name, inode, mutex, history, mixed, kills>>

UnlinkOldest(r) ==
  /\ rec[r].at = "unlink"
  /\ name[Keep] # Void
  /\ name' = [name EXCEPT ![Keep] = Void]
  /\ rec' = [rec EXCEPT ![r] = NextShift(Keep - 1)]
  /\ UNCHANGED <<inode, mutex, history, mixed, kills>>

Look(r) ==
  LET i == rec[r].i IN
    /\ rec[r].at = "look"
    /\ rec' = [rec EXCEPT ![r] = IF i > 0 /\ name[i] = Void THEN NextShift(i - 1)
                                 ELSE [@ EXCEPT !.at = "move"]]
    /\ UNCHANGED <<name, inode, mutex, history, mixed, kills>>

(* Fault: a rotation that copies the name instead of moving it.           *)
ShiftCopy(r) ==
  LET i == rec[r].i IN
    /\ rec[r].at = "move"
    /\ name[i] # Void
    /\ name' = [name EXCEPT ![i + 1] = name[i]]
    /\ rec' = [rec EXCEPT ![r] = IF i = 0 THEN [@ EXCEPT !.at = "open"]
                                 ELSE NextShift(i - 1)]
    /\ UNCHANGED <<inode, mutex, history, mixed, kills>>

Shift(r) ==
  LET i == rec[r].i IN
    /\ rec[r].at = "move"
    /\ name[i] # Void
    /\ name' = [name EXCEPT ![i + 1] = name[i], ![i] = Void]
    /\ rec' = [rec EXCEPT ![r] = IF i = 0 THEN [@ EXCEPT !.at = "open"]
                                 ELSE NextShift(i - 1)]
    /\ UNCHANGED <<inode, mutex, history, mixed, kills>>

Gone(r) ==
  /\ \/ rec[r].at = "unlink" /\ name[Keep] = Void
     \/ rec[r].at = "move" /\ name[rec[r].i] = Void
  /\ StepOut(r)
  /\ UNCHANGED <<name, inode, history, mixed, kills>>

(* open(path, "ab"): the file of that name, a new one if there is none.    *)
OpenFile(r) ==
  /\ rec[r].at = "open"
  /\ IF name[0] = Void
     THEN /\ inode' = Append(inode, <<>>)
          /\ name' = [name EXCEPT ![0] = Len(inode) + 1]
     ELSE UNCHANGED <<inode, name>>
  /\ rec' = [rec EXCEPT ![r].at = "write", ![r].file = name'[0]]
  /\ UNCHANGED <<mutex, history, mixed, kills>>

Write(r) ==
  /\ rec[r].at = "write"
  /\ history' = history + 1
  /\ inode' = [inode EXCEPT ![rec[r].file] = Append(@, history')]
  /\ StepOut(r)
  /\ UNCHANGED <<name, mixed, kills>>

(* A call fails, or the process dies with its lock, anywhere.              *)
Kill(p) ==
  /\ mutex[p] # Void
  /\ kills < MaxKills
  /\ kills' = kills + 1
  /\ StepOut(mutex[p])
  /\ UNCHANGED <<name, inode, history, mixed>>

UsageNext ==
  \/ \E r \in Recorder :
       \/ Record(r) \/ CheckSize(r) \/ LookOldest(r) \/ UnlinkOldest(r)
       \/ Look(r) \/ Shift(r) \/ Gone(r) \/ OpenFile(r) \/ Write(r)
  \/ \E p \in Process : Kill(p)

UsageSpec == UsageInit /\ [][UsageNext]_usageVars

-----------------------------------------------------------------------------
Place == {"idle", "size", "oldest", "unlink", "look", "move", "open", "write"}

UsageTypeOK ==
  /\ inode \in Seq(Seq(Nat))
  /\ name \in [0..Keep -> 1..Len(inode) \cup {Void}]
  /\ mutex \in [Process -> Recorder \cup {Void}]
  /\ rec \in [Recorder -> [at : Place, i : 0..(Keep - 1), file : 1..Len(inode) \cup {Void}]]
  /\ history \in Nat /\ mixed \in BOOLEAN /\ kills \in Nat

(* What the files hold.                                                    *)
Contents(i) == IF name[i] = Void THEN <<>> ELSE inode[name[i]]
Held(i) == {Contents(i)[k] : k \in DOMAIN Contents(i)}
Retained == UNION {Held(i) : i \in 0..Keep}

(* As long as no two processes recorded at once, a crash in the middle of  *)
(* a rotation or not, the files, read from the oldest to the current one,  *)
(* are the most recent events in the order they were written.              *)
InOrder ==
  ~mixed =>
    /\ \A e \in Retained : e = history \/ e + 1 \in Retained
    /\ \A i \in 0..Keep : \A k, l \in DOMAIN Contents(i) :
         k < l => Contents(i)[k] < Contents(i)[l]
    /\ \A i, j \in 0..Keep : i < j => \A e \in Held(i), f \in Held(j) : f < e

(* If none was killed either, a rotation drops only what no longer fits:   *)
(* Keep full files and the event that made it rotate are always there.     *)
OldestDropped ==
  ~mixed /\ kills = 0 /\ Inside = {} =>
    \/ Retained = 1..history
    \/ Contents(0) # <<>> /\ \A i \in 1..Keep : Len(Contents(i)) >= MaxBytes

(* Two processes may rotate too often and write behind a rotation, but no  *)
(* two names ever mean one file, and .1 is newer than .2 whatever the      *)
(* order of their steps: the events of one file are never counted twice.   *)
NewestFirst ==
  \A i, j \in 0..Keep : name[i] # Void /\ name[j] # Void /\ i < j => name[i] > name[j]

(* A log that is rotated by whom and when it may be loses its oldest       *)
(* events only, and keeps the others in order (_rotate).                   *)
RecentEventsKept == InOrder /\ OldestDropped /\ NewestFirst
=============================================================================
