------------------------- MODULE ContextLockProofs -------------------------
(***************************************************************************)
(* Behind a guard that excludes, lock.json is a lease: every step of the   *)
(* context lock is a step of Lease or none at all.                         *)
(***************************************************************************)
EXTENDS ContextLock, TLAPS

(* Before a lease has created its file there is none, and whoever is        *)
(* writing, replacing or removing lock.json owns it or has found it stale. *)
Unborn == {"idle"} \cup (Acquiring \ {"fill"})

Files ==
  /\ \A n \in Lease : pc[n] \in Unborn => file[n] = "none"
  /\ \A n \in Lease : lock.of = n => file[n] # "none"
  /\ lock.of = Nobody => lock = Absent
  /\ lock = Absent => old = FALSE

Excluded == \A m, n \in inside : m = n

EntitledOf(n) ==
  /\ pc[n] = "fill" => lock = [of |-> n, beat |-> 0] /\ file[n] = "torn"
  /\ pc[n] \in {"replace", "drop"} => lock.of = n
  /\ pc[n] \in {"recheck", "link", "compare", "unlink"} => lock = Absent \/ StaleTo(n)

Entitled == \A n \in Lease : EntitledOf(n)

Inv == TypeOK /\ Files /\ Excluded /\ Entitled
-----------------------------------------------------------------------------
(* What is written is of its type. *)
LEMMA Records ==
  /\ Absent \in File /\ Nothing \in Sighting
  /\ \A n \in Lease, k \in Nat : [of |-> n, beat |-> k] \in File
  /\ \A n \in Lease, k \in Nat, f \in File :
       [by |-> n, try |-> k, of |-> f.of, beat |-> f.beat] \in Copy
  /\ \A f \in File : Snapshot(f) \in Sighting
  BY DEF Absent, Nothing, File, Sighting, Copy, Snapshot

Ticketed == \A n \in Lease : pc[n] \in InGuard => n \in inside

(* One more try, or giving up, keeps the types and the ticket. *)
LEMMA RetryType ==
  ASSUME TypeOK, NEW n \in Lease, n \in inside, Retry(n)
  PROVE  /\ pc' \in [Lease -> Label] /\ Ticketed'
         /\ tries' \in [Lease -> Nat]
         /\ saw' \in [Lease -> Sighting]
         /\ late' \subseteq Lease
         /\ UNCHANGED <<file, beats, inside, spent>>
<1>1. \E l \in {"create", "refused"} : Goto(n, l)
  BY DEF Retry
<1>2. pc' \in [Lease -> Label] /\ Ticketed'
  BY <1>1 DEF Retry, Goto, TypeOK, Ticketed, Label, InGuard, Acquiring, Leaving
<1>3. tries' \in [Lease -> Nat]
  BY DEF TypeOK, Retry
<1>4. saw' \in [Lease -> Sighting]
  BY Records DEF TypeOK, Retry
<1>5. late' \subseteq Lease
  BY DEF TypeOK, Retry
<1>6. UNCHANGED <<file, beats, inside, spent>>
  BY DEF Retry
<1> QED
  BY <1>2, <1>3, <1>4, <1>5, <1>6

(* Every step keeps the types, and the ticket of whoever is inside. *)
LEMMA TypeStep == TypeOK /\ [Next]_vars => TypeOK'
<1> SUFFICES ASSUME TypeOK, [Next]_vars PROVE TypeOK'
  OBVIOUS
<1>1. ASSUME NEW n \in Lease, Acquire(n) PROVE TypeOK'
  BY <1>1, Records DEF Acquire, Goto, spent, EnterGuard, TypeOK, InGuard, Label, Acquiring
<1>2. ASSUME NEW n \in Lease, Stamp(n) PROVE TypeOK'
  BY <1>2, Records DEF Stamp, Goto, spent, TypeOK, InGuard, Label, Acquiring, Beating,
         Releasing, Leaving
<1>3. ASSUME NEW n \in Lease, Heartbeat(n) PROVE TypeOK'
  BY <1>3, Records DEF Heartbeat, Goto, spent, EnterGuard, TypeOK, InGuard, Label, Beating
<1>4. ASSUME NEW n \in Lease, Unheard(n) PROVE TypeOK'
  BY <1>4, Records DEF Unheard, Goto, spent, TypeOK, InGuard, Label, Acquiring, Beating,
         Releasing, Leaving
<1>5. ASSUME NEW n \in Lease, Release(n) PROVE TypeOK'
  BY <1>5, Records DEF Release, Goto, spent, EnterGuard, TypeOK, InGuard, Label, Releasing
<1>6. ASSUME NEW n \in Lease, Create(n) PROVE TypeOK'
  <2>1. [of |-> n, beat |-> 0] \in File
    BY Records
  <2>2. lock' \in File /\ old' \in BOOLEAN /\ file' \in [Lease -> {"none", "torn", "whole"}]
    BY <1>6, <2>1 DEF Create, TypeOK
  <2>3. \E l \in {"fill", "inspect"} : Goto(n, l)
    BY <1>6 DEF Create
  <2>4. pc' \in [Lease -> Label] /\ Ticketed'
    BY <1>6, <2>3 DEF Create, Try, Goto, TypeOK, Ticketed, InGuard, Label, Acquiring
  <2> QED
    BY <1>6, <2>2, <2>4 DEF Create, Try, spent, TypeOK, Ticketed
<1>7. ASSUME NEW n \in Lease, Fill(n) PROVE TypeOK'
  <2>1. old' \in BOOLEAN
    <3>1. (n \in late) \in BOOLEAN /\ old \in BOOLEAN
      BY DEF TypeOK
    <3>2. old' = (n \in late) \/ old' = old
      BY <1>7 DEF Fill
    <3> QED
      BY <3>1, <3>2
  <2>2. file' \in [Lease -> {"none", "torn", "whole"}]
    BY <1>7 DEF Fill, TypeOK
  <2>3. pc' \in [Lease -> Label] /\ Ticketed'
    BY <1>7 DEF Fill, Try, Goto, TypeOK, Ticketed, InGuard, Label, Leaving
  <2> QED
    BY <1>7, <2>1, <2>2, <2>3 DEF Fill, Try, spent, TypeOK, Ticketed
<1>8. ASSUME NEW n \in Lease, Inspect(n) PROVE TypeOK'
  BY <1>8, Records, RetryType DEF Inspect, Goto, spent, Try, TypeOK, InGuard, Label,
         Acquiring, Leaving, Ticketed
<1>9. ASSUME NEW n \in Lease, Recheck(n) PROVE TypeOK'
  BY <1>9, Records, RetryType DEF Recheck, Goto, spent, Try, TypeOK, InGuard, Label,
         Acquiring, Ticketed
<1>10. ASSUME NEW n \in Lease, Link(n) PROVE TypeOK'
  BY <1>10, Records, RetryType DEF Link, Goto, spent, Try, Archive, TypeOK, InGuard, Label,
         Acquiring, Ticketed
<1>11. ASSUME NEW n \in Lease, Compare(n) PROVE TypeOK'
  BY <1>11, Records, RetryType DEF Compare, Goto, spent, Try, TypeOK, InGuard, Label,
         Acquiring, Ticketed
<1>12. ASSUME NEW n \in Lease, Unlink(n) PROVE TypeOK'
  BY <1>12, Records, RetryType DEF Unlink, Goto, spent, Try, Remove, TypeOK, InGuard, Label,
         Leaving, Ticketed
<1>13. ASSUME NEW n \in Lease, Fence(n) PROVE TypeOK'
  BY <1>13, Records DEF Fence, Goto, spent, Try, Verify, TypeOK, InGuard, Label, Beating,
         Leaving
<1>14. ASSUME NEW n \in Lease, Replace(n) PROVE TypeOK'
  BY <1>14, Records DEF Replace, Goto, spent, TypeOK, InGuard, Label, Releasing, Leaving
<1>15. ASSUME NEW n \in Lease, Give(n) PROVE TypeOK'
  BY <1>15, Records DEF Give, Goto, spent, Try, Verify, TypeOK, InGuard, Label, Releasing,
         Leaving
<1>16. ASSUME NEW n \in Lease, Drop(n) PROVE TypeOK'
  BY <1>16, Records DEF Drop, Goto, spent, Try, Remove, TypeOK, InGuard, Label, Leaving
<1>17. ASSUME NEW n \in Lease, LeaveGuard(n) PROVE TypeOK'
  BY <1>17, Records DEF LeaveGuard, Goto, spent, After, TypeOK, InGuard, Label, Acquiring,
         Beating, Releasing, Leaving
<1>18. ASSUME NEW n \in Lease, Collect(n) PROVE TypeOK'
  BY <1>18, Records DEF Collect, spent, TypeOK, InGuard, Acquiring, Beating, Releasing,
         Leaving
<1>19. ASSUME NEW n \in Lease, Fail(n) PROVE TypeOK'
  <2>1. lock' \in File /\ old' \in BOOLEAN
    BY <1>19, Records DEF Fail, Remove, TypeOK
  <2>2. \E l \in {"refused", "back"} : Goto(n, l)
    BY <1>19 DEF Fail
  <2>3. pc' \in [Lease -> Label] /\ Ticketed'
    BY <1>19, <2>2 DEF Fail, Goto, TypeOK, Ticketed, InGuard, Label, Leaving
  <2> QED
    BY <1>19, <2>1, <2>3 DEF Fail, TypeOK, Ticketed
<1>20. ASSUME NEW n \in Lease, Leak(n) PROVE TypeOK'
  BY <1>20, Records DEF Leak, Goto, After, TypeOK, InGuard, Label
<1>21. ASSUME NEW n \in Lease, Exit(n) PROVE TypeOK'
  BY <1>21, Records DEF Exit, Goto, TypeOK, InGuard, Label, Acquiring, Beating, Releasing,
         Leaving
<1>22. ASSUME NEW n \in Lease, Stall(n) PROVE TypeOK'
  BY <1>22, Records DEF Stall, spent, TypeOK
<1>23. CASE Expire
  <2>1. late' \subseteq Lease
    BY <1>23 DEF Expire, TypeOK, Snapshot, File
  <2> QED
    BY <1>23, <2>1 DEF Expire, spent, TypeOK
<1>24. CASE UNCHANGED vars
  BY <1>24, Records DEF vars, spent, TypeOK
<1> QED
  BY <1>1, <1>2, <1>3, <1>4, <1>5, <1>6, <1>7, <1>8, <1>9, <1>10, <1>11, <1>12, <1>13,
     <1>14, <1>15, <1>16, <1>17, <1>18, <1>19, <1>20, <1>21, <1>22, <1>23, <1>24
     DEF Next, Step

(* A guard that is not breached lets one process in at a time. *)
LEMMA ExcludedStep ==
  ASSUME MaxBreaches = 0
  PROVE  TypeOK /\ Excluded /\ [Next]_vars => Excluded'
<1> SUFFICES ASSUME TypeOK, Excluded, [Next]_vars PROVE Excluded'
  OBVIOUS
<1>1. ASSUME NEW n \in Lease, EnterGuard(n) PROVE Excluded'
  BY <1>1 DEF EnterGuard, Excluded, TypeOK
<1>2. ASSUME NEW n \in Lease, Acquire(n) \/ Heartbeat(n) \/ Release(n) PROVE Excluded'
  BY <1>1, <1>2 DEF Acquire, Heartbeat, Release
<1>3. ASSUME NEW n \in Lease, Step(n) \/ Collect(n) PROVE Excluded'
  BY <1>3 DEF Step, Collect, Excluded, Try, Retry, Create, Fill, Inspect, Recheck, Link,
         Compare, Unlink, Fence, Give, Verify, Replace, Drop, LeaveGuard
<1>4. ASSUME NEW n \in Lease,
             Stamp(n) \/ Unheard(n) \/ Fail(n) \/ Leak(n) \/ Exit(n) \/ Stall(n)
      PROVE Excluded'
  BY <1>4 DEF Stamp, Unheard, Fail, Leak, Exit, Stall, Excluded
<1>5. CASE Expire
  BY <1>5 DEF Expire, Excluded
<1>6. CASE UNCHANGED vars
  BY <1>6 DEF vars, Excluded
<1> QED
  BY <1>2, <1>3, <1>4, <1>5, <1>6 DEF Next

(* No lease owns the lock before it has created its file. *)
LEMMA FilesStep == Inv /\ [Next]_vars => Files'
<1> SUFFICES ASSUME Inv, [Next]_vars PROVE Files'
  OBVIOUS
<1> USE NobodyAssumption
<1>1. ASSUME NEW n \in Lease, Acquire(n) PROVE Files'
  BY <1>1 DEF Acquire, Goto, Inv, TypeOK, Files, Unborn
<1>2. ASSUME NEW n \in Lease, Stamp(n) PROVE Files'
  BY <1>2 DEF Stamp, Goto, Inv, TypeOK, Files, Unborn, Acquiring
<1>3. ASSUME NEW n \in Lease, Heartbeat(n) PROVE Files'
  BY <1>3 DEF Heartbeat, Goto, Inv, TypeOK, Files, Unborn, Acquiring
<1>4. ASSUME NEW n \in Lease, Unheard(n) PROVE Files'
  BY <1>4 DEF Unheard, Goto, Inv, TypeOK, Files, Unborn, Acquiring
<1>5. ASSUME NEW n \in Lease, Release(n) PROVE Files'
  BY <1>5 DEF Release, Goto, Inv, TypeOK, Files, Unborn, Acquiring
<1>6. ASSUME NEW n \in Lease, Create(n) PROVE Files'
  BY <1>6 DEF Create, Goto, Inv, TypeOK, Files, Entitled, EntitledOf, Unborn,
         Acquiring, Absent, File
<1>7. ASSUME NEW n \in Lease, Fill(n) PROVE Files'
  BY <1>7 DEF Fill, Goto, Inv, TypeOK, Files, Unborn, Acquiring, Absent
<1>8. ASSUME NEW n \in Lease, Inspect(n) PROVE Files'
  BY <1>8 DEF Inspect, Goto, Inv, TypeOK, Files, Unborn, Acquiring, Retry
<1>9. ASSUME NEW n \in Lease, Recheck(n) PROVE Files'
  BY <1>9 DEF Recheck, Goto, Inv, TypeOK, Files, Entitled, Unborn, Acquiring, Retry
<1>10. ASSUME NEW n \in Lease, Link(n) PROVE Files'
  BY <1>10 DEF Link, Goto, Inv, TypeOK, Files, Entitled, Unborn, Acquiring,
         Beating, Releasing, Retry
<1>11. ASSUME NEW n \in Lease, Compare(n) PROVE Files'
  BY <1>11 DEF Compare, Goto, Inv, TypeOK, Files, Entitled, Unborn, Acquiring,
         Retry
<1>12. ASSUME NEW n \in Lease, Unlink(n) PROVE Files'
  BY <1>12 DEF Unlink, Goto, Remove, Inv, TypeOK, Files, Unborn, Acquiring, Absent,
         Retry
<1>13. ASSUME NEW n \in Lease, Fence(n) PROVE Files'
  BY <1>13 DEF Fence, Goto, Verify, Inv, TypeOK, Files, Unborn, Acquiring
<1>14. ASSUME NEW n \in Lease, Replace(n) PROVE Files'
  BY <1>14 DEF Replace, Goto, Inv, TypeOK, Files, Entitled, EntitledOf, Unborn,
         Acquiring, Absent
<1>15. ASSUME NEW n \in Lease, Give(n) PROVE Files'
  BY <1>15 DEF Give, Goto, Verify, Inv, TypeOK, Files, Unborn, Acquiring
<1>16. ASSUME NEW n \in Lease, Drop(n) PROVE Files'
  BY <1>16 DEF Drop, Goto, Remove, Inv, TypeOK, Files, Entitled, Unborn, Acquiring,
         Absent
<1>17. ASSUME NEW n \in Lease, LeaveGuard(n) PROVE Files'
  BY <1>17 DEF LeaveGuard, Goto, After, Inv, TypeOK, Files, Unborn, Acquiring
<1>18. ASSUME NEW n \in Lease, Collect(n) PROVE Files'
  BY <1>18 DEF Collect, Inv, TypeOK, Files
<1>19. ASSUME NEW n \in Lease, Fail(n) PROVE Files'
  BY <1>19 DEF Fail, Goto, Remove, Inv, TypeOK, Files, Unborn, Acquiring, Absent
<1>20. ASSUME NEW n \in Lease, Leak(n) PROVE Files'
  BY <1>20 DEF Leak, Goto, After, Inv, TypeOK, Files, Unborn, Acquiring
<1>21. ASSUME NEW n \in Lease, Exit(n) PROVE Files'
  BY <1>21 DEF Exit, Goto, Inv, TypeOK, Files, Unborn, Acquiring
<1>22. ASSUME NEW n \in Lease, Stall(n) PROVE Files'
  BY <1>22 DEF Stall, Inv, TypeOK, Files, Absent
<1>23. CASE Expire
  BY <1>23 DEF Expire, Inv, TypeOK, Files
<1>24. CASE UNCHANGED vars
  BY <1>24 DEF vars, Inv, TypeOK, Files
<1> QED
  BY <1>1, <1>2, <1>3, <1>4, <1>5, <1>6, <1>7, <1>8, <1>9, <1>10, <1>11, <1>12, <1>13,
     <1>14, <1>15, <1>16, <1>17, <1>18, <1>19, <1>20, <1>21, <1>22, <1>23, <1>24
     DEF Next, Step

(* Only the process inside has anything to be entitled to. *)
LEMMA EntitledAlone ==
  ASSUME Inv, NEW n \in Lease, n \in inside, NEW l, Goto(n, l), EntitledOf(n)'
  PROVE  Entitled'
<1>1. ASSUME NEW m \in Lease, m # n PROVE EntitledOf(m)'
  BY <1>1 DEF Inv, TypeOK, Excluded, EntitledOf, Goto, InGuard, Acquiring, Beating,
         Releasing
<1> QED
  BY <1>1 DEF Entitled

(* A takeover that goes on still has a stale lock before it. *)
LEMMA TakeoverGoesOn ==
  ASSUME Inv, NEW n \in Lease, pc[n] \in Acquiring, lock = Absent \/ StaleTo(n),
         UNCHANGED <<lock, old, file>>, NEW l \in {"recheck", "link", "compare", "unlink"},
         Goto(n, l)
  PROVE  Entitled'
<1>1. (lock = Absent \/ StaleTo(n))'
  <2>1. CASE lock = Absent \/ old
    BY <2>1 DEF StaleTo
  <2>2. CASE lock # Absent /\ ~old
    <3>1. lock.of \in Lease /\ pc[lock.of] = "dead" /\ ~Snapshot(lock).torn
            /\ Host[lock.of] = Host[n]
      BY <2>2 DEF StaleTo, Inv, TypeOK, File
    <3>2. pc'[lock.of] = "dead" /\ ~Snapshot(lock)'.torn
      BY <3>1 DEF Goto, TypeOK, Snapshot, Acquiring
    <3> QED
      BY <3>1, <3>2 DEF StaleTo
  <2> QED
    BY <2>1, <2>2
<1> QED
  BY <1>1, EntitledAlone DEF EntitledOf, Goto, Inv, TypeOK, InGuard

(* A takeover that is given up is entitled to nothing. *)
LEMMA TakeoverStops ==
  ASSUME Inv, NEW n \in Lease, n \in inside, Retry(n)
  PROVE  Entitled'
  BY EntitledAlone DEF EntitledOf, Retry, Goto, Inv, TypeOK

(* Nobody else touches lock.json while a process is at work on it. *)
LEMMA EntitledStep == Inv /\ [Next]_vars => Entitled'
<1> SUFFICES ASSUME Inv, [Next]_vars PROVE Entitled'
  OBVIOUS
<1> USE NobodyAssumption
<1>1. ASSUME NEW n \in Lease, Acquire(n) PROVE Entitled'
  BY <1>1 DEF Acquire, Goto, Inv, TypeOK, Entitled, EntitledOf, StaleTo, Snapshot
<1>2. ASSUME NEW n \in Lease, Stamp(n) PROVE Entitled'
  BY <1>2 DEF Stamp, Goto, Inv, TypeOK, Entitled, EntitledOf, StaleTo, Snapshot
<1>3. ASSUME NEW n \in Lease, Heartbeat(n) PROVE Entitled'
  BY <1>3 DEF Heartbeat, Goto, Inv, TypeOK, Entitled, EntitledOf, StaleTo, Snapshot
<1>4. ASSUME NEW n \in Lease, Unheard(n) PROVE Entitled'
  BY <1>4 DEF Unheard, Goto, Inv, TypeOK, Entitled, EntitledOf, StaleTo, Snapshot
<1>5. ASSUME NEW n \in Lease, Release(n) PROVE Entitled'
  BY <1>5 DEF Release, Goto, Inv, TypeOK, Entitled, EntitledOf, StaleTo, Snapshot
<1>6. ASSUME NEW n \in Lease, Create(n) PROVE Entitled'
  BY <1>6 DEF Create, Goto, Inv, TypeOK, Entitled, EntitledOf, InGuard, Acquiring, Excluded,
         Absent
<1>7. ASSUME NEW n \in Lease, Fill(n) PROVE Entitled'
  BY <1>7 DEF Fill, Goto, Inv, TypeOK, Entitled, EntitledOf, InGuard, Acquiring, Excluded
<1>8. ASSUME NEW n \in Lease, Inspect(n) PROVE Entitled'
  <2>1. n \in inside
    BY <1>8 DEF Inspect, Inv, TypeOK, InGuard, Acquiring
  <2> QED
    BY <1>8, <2>1, TakeoverStops, TakeoverGoesOn, EntitledAlone
       DEF Inspect, Inv, EntitledOf, Goto, TypeOK, Acquiring
<1>9. ASSUME NEW n \in Lease, Recheck(n) PROVE Entitled'
  <2>1. n \in inside
    BY <1>9 DEF Recheck, Inv, TypeOK, InGuard, Acquiring
  <2> QED
    BY <1>9, <2>1, TakeoverStops, TakeoverGoesOn, EntitledAlone
       DEF Recheck, Inv, Entitled, EntitledOf, TypeOK, Acquiring
<1>10. ASSUME NEW n \in Lease, Link(n) PROVE Entitled'
  <2>1. n \in inside
    BY <1>10 DEF Link, Inv, TypeOK, InGuard, Acquiring
  <2> QED
    BY <1>10, <2>1, TakeoverStops, TakeoverGoesOn, EntitledAlone
       DEF Link, Inv, Entitled, EntitledOf, TypeOK, Acquiring
<1>11. ASSUME NEW n \in Lease, Compare(n) PROVE Entitled'
  <2>1. n \in inside
    BY <1>11 DEF Compare, Inv, TypeOK, InGuard, Acquiring
  <2> QED
    BY <1>11, <2>1, TakeoverStops, TakeoverGoesOn, EntitledAlone
       DEF Compare, Inv, Entitled, EntitledOf, TypeOK, Acquiring
<1>12. ASSUME NEW n \in Lease, Unlink(n) PROVE Entitled'
  BY <1>12 DEF Unlink, Goto, Inv, TypeOK, Entitled, EntitledOf, InGuard, Acquiring, Beating,
         Releasing, Excluded, Retry
<1>13. ASSUME NEW n \in Lease, Fence(n) PROVE Entitled'
  BY <1>13 DEF Fence, Goto, Verify, Inv, TypeOK, Entitled, EntitledOf, StaleTo, Snapshot,
         Fenced
<1>14. ASSUME NEW n \in Lease, Replace(n) PROVE Entitled'
  BY <1>14 DEF Replace, Goto, Inv, TypeOK, Entitled, EntitledOf, InGuard, Acquiring,
         Beating, Excluded
<1>15. ASSUME NEW n \in Lease, Give(n) PROVE Entitled'
  BY <1>15 DEF Give, Goto, Verify, Inv, TypeOK, Entitled, EntitledOf, StaleTo, Snapshot,
         Fenced
<1>16. ASSUME NEW n \in Lease, Drop(n) PROVE Entitled'
  BY <1>16 DEF Drop, Goto, Remove, Inv, TypeOK, Entitled, EntitledOf
<1>17. ASSUME NEW n \in Lease, LeaveGuard(n) PROVE Entitled'
  BY <1>17 DEF LeaveGuard, Goto, After, Inv, TypeOK, Entitled, EntitledOf, InGuard,
         Acquiring, Excluded
<1>18. ASSUME NEW n \in Lease, Collect(n) PROVE Entitled'
  BY <1>18 DEF Collect, Inv, TypeOK, Entitled, EntitledOf, StaleTo, Snapshot
<1>19. ASSUME NEW n \in Lease, Fail(n) PROVE Entitled'
  BY <1>19 DEF Fail, Goto, Inv, TypeOK, Entitled, EntitledOf, InGuard, Acquiring, Excluded
<1>20. ASSUME NEW n \in Lease, Leak(n) PROVE Entitled'
  BY <1>20 DEF Leak, Goto, After, Inv, TypeOK, Entitled, EntitledOf, InGuard, Acquiring,
         Excluded
<1>21. ASSUME NEW n \in Lease, Exit(n) PROVE Entitled'
  BY <1>21 DEF Exit, Goto, Inv, TypeOK, Entitled, EntitledOf, StaleTo, Snapshot
<1>22. ASSUME NEW n \in Lease, Stall(n) PROVE Entitled'
  BY <1>22 DEF Stall, Inv, TypeOK, Entitled, EntitledOf, StaleTo, Snapshot
<1>23. CASE Expire
  BY <1>23 DEF Expire, Inv, TypeOK, Entitled, EntitledOf, StaleTo
<1>24. CASE UNCHANGED vars
  BY <1>24 DEF vars, Inv, TypeOK, Entitled, EntitledOf, StaleTo, Snapshot
<1> QED
  BY <1>1, <1>2, <1>3, <1>4, <1>5, <1>6, <1>7, <1>8, <1>9, <1>10, <1>11, <1>12, <1>13,
     <1>14, <1>15, <1>16, <1>17, <1>18, <1>19, <1>20, <1>21, <1>22, <1>23, <1>24
     DEF Next, Step

(* Nothing is there at the start. *)
LEMMA InitHolds == Init => Inv
<1> SUFFICES ASSUME Init PROVE Inv
  OBVIOUS
<1>1. TypeOK
  BY Records DEF Init, TypeOK, Label, InGuard, Acquiring, Beating, Releasing, Leaving, Copy
<1>2. Files
  BY NobodyAssumption DEF Init, Files, Absent
<1>3. Excluded /\ Entitled
  BY DEF Init, Excluded, Entitled, EntitledOf
<1> QED
  BY <1>1, <1>2, <1>3 DEF Inv

(* The invariant holds throughout. *)
LEMMA Invariance ==
  ASSUME MaxBreaches = 0
  PROVE  Spec => []Inv
<1>1. Inv /\ [Next]_vars => Inv'
  BY TypeStep, ExcludedStep, FilesStep, EntitledStep DEF Inv
<1> QED
  BY InitHolds, <1>1, PTL DEF Spec

(* The types, and the ticket of whoever is at work on lock.json. *)
THEOREM LockTyped ==
  ASSUME MaxBreaches = 0
  PROVE  Spec => []TypeOK
  BY Invariance, PTL DEF Inv
-----------------------------------------------------------------------------
(* A step that leaves the owner, and who has owned, alone is one of time or  *)
(* of the owner's.                                                         *)
LEMMA Quiet ==
  ASSUME Inv, Inv', lock'.of = lock.of,
         \A m \in Lease : (file'[m] = "none") = (file[m] = "none")
  PROVE  [Implemented!Next]_(Implemented!vars)
<1>1. CASE Owned
  BY <1>1 DEF Implemented!Next, Implemented!Drift, Owned
<1>2. CASE ~Owned
  <2>1. lock = Absent /\ lock' = Absent /\ ~old /\ ~old'
    BY <1>2 DEF Inv, Files, Owned
  <2>2. \A n \in Lease : ~StaleTo(n) /\ ~StaleTo(n)'
    BY <2>1 DEF StaleTo, Absent
  <2> QED
    BY <1>2, <2>1, <2>2 DEF Implemented!vars, Owned
<1> QED
  BY <1>1, <1>2

(* A step that ends the owner's lease is a release or a takeover. *)
LEMMA Ending ==
  ASSUME Inv, lock # Absent, lock' = Absent, UNCHANGED file,
         pc[lock.of] \in {"drop", "fill"} \/ \E n \in Lease : StaleTo(n)
  PROVE  Implemented!Next
<1>1. lock.of \in Lease /\ Owned /\ file[lock.of] # "none" /\ lock'.of = Nobody
  BY NobodyAssumption DEF Inv, TypeOK, Files, File, Owned, Absent
<1>2. {n \in Lease : file'[n] # "none" /\ lock'.of # n}
        = {n \in Lease : file[n] # "none" /\ lock.of # n} \cup {lock.of}
  BY <1>1, NobodyAssumption
<1>3. Implemented!End
  BY <1>1, <1>2 DEF Implemented!End
<1> QED
  BY <1>1, <1>3 DEF Implemented!Next, Implemented!Release, Implemented!Revoke, Owned

(* A file that is created is a lease that is granted. *)
LEMMA Granting ==
  ASSUME Inv, NEW n \in Lease, pc[n] = "create", lock = Absent,
         lock' = [of |-> n, beat |-> 0], file' = [file EXCEPT ![n] = "torn"]
  PROVE  Implemented!Next
<1>1. lock.of = Nobody /\ lock'.of = n /\ file[n] = "none"
  BY DEF Absent, Inv, Files, Unborn, Acquiring
<1>2. {m \in Lease : file'[m] # "none" /\ lock'.of # m}
        = {m \in Lease : file[m] # "none" /\ lock.of # m}
  BY <1>1, NobodyAssumption DEF TypeOK
<1>3. n \notin {m \in Lease : file[m] # "none" /\ lock.of # m}
  BY <1>1
<1>4. Implemented!Grant(n)
  BY <1>1, <1>2, <1>3 DEF Implemented!Grant
<1> QED
  BY <1>4 DEF Implemented!Next

(* Every step of the lock is a step of the lease, or none. *)
LEMMA Refinement ==
  ASSUME Inv, Inv', [Next]_vars
  PROVE  [Implemented!Next]_(Implemented!vars)
<1> DEFINE Still == UNCHANGED <<lock, file>>
<1>0. ASSUME Still PROVE [Implemented!Next]_(Implemented!vars)
  BY <1>0, Quiet
<1>1. ASSUME NEW n \in Lease, Create(n) PROVE [Implemented!Next]_(Implemented!vars)
  BY <1>0, <1>1, Granting DEF Create
<1>2. ASSUME NEW n \in Lease, Fill(n) PROVE [Implemented!Next]_(Implemented!vars)
  <2>1. \A m \in Lease : (file'[m] = "none") = (file[m] = "none")
    BY <1>2 DEF Fill, Inv, TypeOK, Entitled, EntitledOf
  <2> QED
    BY <1>2, <2>1, Quiet DEF Fill
<1>3. ASSUME NEW n \in Lease, Unlink(n) PROVE [Implemented!Next]_(Implemented!vars)
  <2>1. CASE lock = Absent
    BY <1>0, <1>3, <2>1 DEF Unlink
  <2>2. CASE lock # Absent
    <3>1. StaleTo(n)
      BY <1>3, <2>2 DEF Unlink, Inv, Entitled, EntitledOf
    <3>2. lock' = Absent /\ UNCHANGED file
      BY <1>3, <2>2 DEF Unlink, Remove, Retry
    <3> QED
      BY <2>2, <3>1, <3>2, Ending
  <2> QED
    BY <2>1, <2>2
<1>4. ASSUME NEW n \in Lease, Replace(n) PROVE [Implemented!Next]_(Implemented!vars)
  <2>1. lock.of = n /\ lock'.of = n /\ UNCHANGED file
    BY <1>4 DEF Replace, Inv, Entitled, EntitledOf
  <2> QED
    BY <2>1, Quiet
<1>5. ASSUME NEW n \in Lease, Drop(n) PROVE [Implemented!Next]_(Implemented!vars)
  <2>1. lock.of = n /\ lock # Absent
    BY <1>5, NobodyAssumption DEF Drop, Inv, Entitled, EntitledOf, Absent
  <2>2. lock' = Absent /\ UNCHANGED file
    BY <1>5, <2>1 DEF Drop, Remove
  <2> QED
    BY <1>5, <2>1, <2>2, Ending DEF Drop
<1>6. ASSUME NEW n \in Lease, Fail(n) PROVE [Implemented!Next]_(Implemented!vars)
  <2>1. CASE pc[n] = "fill"
    <3>1. lock.of = n /\ lock # Absent
      BY <2>1, NobodyAssumption DEF Inv, Entitled, EntitledOf, Absent
    <3>2. lock' = Absent /\ UNCHANGED file
      BY <1>6, <2>1 DEF Fail, Remove
    <3> QED
      BY <2>1, <3>1, <3>2, Ending
  <2>2. CASE pc[n] # "fill"
    BY <1>0, <1>6, <2>2 DEF Fail
  <2> QED
    BY <2>1, <2>2
<1>7. ASSUME NEW n \in Lease,
             Inspect(n) \/ Recheck(n) \/ Link(n) \/ Compare(n) \/ Fence(n) \/ Give(n)
               \/ LeaveGuard(n)
      PROVE Still
  BY <1>7 DEF Inspect, Recheck, Link, Compare, Fence, Give, Verify, LeaveGuard, Retry
<1>8. ASSUME NEW n \in Lease,
             \/ Acquire(n) \/ Stamp(n) \/ Heartbeat(n) \/ Unheard(n) \/ Release(n)
             \/ Collect(n) \/ Leak(n) \/ Exit(n) \/ Stall(n)
      PROVE Still
  BY <1>8 DEF Acquire, Stamp, Heartbeat, Unheard, Release, Collect, Leak, Exit, Stall
<1>9. ASSUME Expire \/ UNCHANGED vars PROVE Still
  BY <1>9 DEF Expire, vars
<1> QED
  BY <1>0, <1>1, <1>2, <1>3, <1>4, <1>5, <1>6, <1>7, <1>8, <1>9 DEF Next, Step

(* However leases, processes, failures and delays interleave, the lock      *)
(* behaves as a lease as long as its guard excludes: heartbeats and        *)
(* releases touch their own file only, takeovers end stale leases only,    *)
(* and nobody gets back what he has lost.                                  *)
THEOREM LockIsLease ==
  ASSUME MaxBreaches = 0
  PROVE  Spec => ImplementsLease
<1>1. Init => Implemented!Init
  BY NobodyAssumption DEF Init, Implemented!Init, Absent, StaleTo, Owned
<1>2. Inv /\ Inv' /\ [Next]_vars => [Implemented!Next]_(Implemented!vars)
  BY Refinement
<1> QED
  BY <1>1, <1>2, Invariance, PTL DEF Spec, ImplementsLease, Implemented!Spec
-----------------------------------------------------------------------------
(* Before the unlink, lock.json has a second name. *)
Preserved == \A n \in Lease : pc[n] = "unlink" => lock = Absent \/ Archived(lock)

(* The archive of a file that is about to be unlinked stays. *)
LEMMA PreservedStep == Inv /\ Preserved /\ [Next]_vars => Preserved'
<1> SUFFICES ASSUME Inv, Preserved, [Next]_vars PROVE Preserved'
  OBVIOUS
<1> USE NobodyAssumption
<1>1. ASSUME NEW n \in Lease, Acquire(n) PROVE Preserved'
  BY <1>1 DEF Acquire, Goto, TypeOK, Preserved, Archived
<1>2. ASSUME NEW n \in Lease, Stamp(n) PROVE Preserved'
  BY <1>2 DEF Stamp, Goto, TypeOK, Preserved, Archived
<1>3. ASSUME NEW n \in Lease, Heartbeat(n) PROVE Preserved'
  BY <1>3 DEF Heartbeat, Goto, TypeOK, Preserved, Archived
<1>4. ASSUME NEW n \in Lease, Unheard(n) PROVE Preserved'
  BY <1>4 DEF Unheard, Goto, TypeOK, Preserved, Archived
<1>5. ASSUME NEW n \in Lease, Release(n) PROVE Preserved'
  BY <1>5 DEF Release, Goto, TypeOK, Preserved, Archived
<1>6. ASSUME NEW n \in Lease, Create(n) PROVE Preserved'
  BY <1>6 DEF Create, Goto, Inv, TypeOK, Preserved, Excluded, InGuard, Acquiring
<1>7. ASSUME NEW n \in Lease, Fill(n) PROVE Preserved'
  BY <1>7 DEF Fill, Goto, TypeOK, Preserved, Archived
<1>8. ASSUME NEW n \in Lease, Inspect(n) PROVE Preserved'
  BY <1>8 DEF Inspect, Goto, Inv, TypeOK, Preserved, Archived, Retry
<1>9. ASSUME NEW n \in Lease, Recheck(n) PROVE Preserved'
  BY <1>9 DEF Recheck, Goto, Inv, TypeOK, Preserved, Archived, Retry
<1>10. ASSUME NEW n \in Lease, Link(n) PROVE Preserved'
  BY <1>10 DEF Link, Goto, Inv, TypeOK, Preserved, Archived, Retry
<1>11. ASSUME NEW n \in Lease, Compare(n) PROVE Preserved'
  <2>1. \A m \in Lease : pc[m] = "unlink" => m = n
    BY <1>11 DEF Compare, Inv, TypeOK, Excluded, InGuard, Acquiring
  <2>2. PICK a \in evidence :
          \/ Retry(n)
          \/ /\ Content(a) = saw[n] /\ Snapshot(lock) = saw[n]
             /\ UNCHANGED <<lock, evidence>>
    BY <1>11 DEF Compare
  <2>3. CASE Retry(n)
    BY <1>11, <2>1, <2>3 DEF Preserved, Retry, Goto, Compare, TypeOK
  <2>4. CASE /\ Content(a) = saw[n] /\ Snapshot(lock) = saw[n]
             /\ UNCHANGED <<lock, evidence>>
    <3>1. a.of = lock.of /\ a.beat = lock.beat
      BY <2>4 DEF Content, Snapshot
    <3> QED
      BY <2>4, <3>1 DEF Preserved, Archived
  <2> QED
    BY <2>2, <2>3, <2>4
<1>12. ASSUME NEW n \in Lease, Unlink(n) PROVE Preserved'
  BY <1>12 DEF Unlink, Remove, TypeOK, Preserved, Retry
<1>13. ASSUME NEW n \in Lease, Fence(n) PROVE Preserved'
  BY <1>13 DEF Fence, Goto, Verify, TypeOK, Preserved, Archived
<1>14. ASSUME NEW n \in Lease, Replace(n) PROVE Preserved'
  BY <1>14 DEF Replace, Goto, Inv, TypeOK, Preserved, Excluded, InGuard, Acquiring, Beating
<1>15. ASSUME NEW n \in Lease, Give(n) PROVE Preserved'
  BY <1>15 DEF Give, Goto, Verify, TypeOK, Preserved, Archived
<1>16. ASSUME NEW n \in Lease, Drop(n) PROVE Preserved'
  BY <1>16 DEF Drop, Remove, TypeOK, Preserved
<1>17. ASSUME NEW n \in Lease, LeaveGuard(n) PROVE Preserved'
  BY <1>17 DEF LeaveGuard, Goto, After, TypeOK, Preserved, Archived
<1>18. ASSUME NEW n \in Lease, Collect(n) PROVE Preserved'
  BY <1>18 DEF Collect, TypeOK, Preserved, Archived
<1>19. ASSUME NEW n \in Lease, Fail(n) PROVE Preserved'
  BY <1>19 DEF Fail, Goto, Remove, TypeOK, Preserved, Archived
<1>20. ASSUME NEW n \in Lease, Leak(n) PROVE Preserved'
  BY <1>20 DEF Leak, Goto, After, TypeOK, Preserved, Archived
<1>21. ASSUME NEW n \in Lease, Exit(n) PROVE Preserved'
  BY <1>21 DEF Exit, Goto, TypeOK, Preserved, Archived
<1>22. ASSUME NEW n \in Lease, Stall(n) PROVE Preserved'
  BY <1>22 DEF Stall, TypeOK, Preserved, Archived
<1>23. CASE Expire
  BY <1>23 DEF Expire, TypeOK, Preserved, Archived
<1>24. CASE UNCHANGED vars
  BY <1>24 DEF vars, TypeOK, Preserved, Archived
<1> QED
  BY <1>1, <1>2, <1>3, <1>4, <1>5, <1>6, <1>7, <1>8, <1>9, <1>10, <1>11, <1>12, <1>13,
     <1>14, <1>15, <1>16, <1>17, <1>18, <1>19, <1>20, <1>21, <1>22, <1>23, <1>24
     DEF Next, Step

(* A lease is never taken over without a trace: whoever finds that lock.json *)
(* is no longer its own can read in an archive what was removed.           *)
THEOREM TakeoverLeavesEvidence ==
  ASSUME MaxBreaches = 0
  PROVE  Spec => EvidenceKept
<1> DEFINE Kept == \A m \in Lease :
             lock.of = m /\ lock'.of # m /\ pc'[m] = pc[m] => Archived(lock)
<1>1. Init => Preserved
  BY DEF Init, Preserved
<1>2. ASSUME Inv, Preserved, [Next]_vars PROVE Kept
  <2>1. ASSUME NEW n \in Lease, Unlink(n) PROVE Kept
    BY <1>2, <2>1 DEF Preserved, Unlink
  <2>2. ASSUME NEW n \in Lease, Drop(n) \/ Fail(n) \/ Replace(n) PROVE Kept
    BY <1>2, <2>2 DEF Inv, TypeOK, Entitled, EntitledOf, Drop, Fail, Replace, Goto
  <2>3. ASSUME NEW n \in Lease, Create(n) PROVE Kept
    BY <2>3, NobodyAssumption DEF Create, Absent
  <2>4. ASSUME UNCHANGED lock PROVE Kept
    BY <2>4
  <2>5. ASSUME NEW n \in Lease,
               \/ Acquire(n) \/ Stamp(n) \/ Heartbeat(n) \/ Unheard(n) \/ Release(n)
               \/ Fill(n) \/ Inspect(n) \/ Recheck(n) \/ Link(n) \/ Compare(n) \/ Fence(n)
               \/ Give(n) \/ LeaveGuard(n) \/ Collect(n) \/ Leak(n) \/ Exit(n) \/ Stall(n)
        PROVE UNCHANGED lock
    BY <2>5 DEF Acquire, Stamp, Heartbeat, Unheard, Release, Fill, Inspect, Recheck, Link,
         Compare, Fence, Give, Verify, LeaveGuard, Collect, Leak, Exit, Stall
  <2>6. ASSUME Expire \/ UNCHANGED vars PROVE UNCHANGED lock
    BY <2>6 DEF Expire, vars
  <2> QED
    BY <1>2, <2>1, <2>2, <2>3, <2>4, <2>5, <2>6 DEF Next, Step
<1>3. Inv /\ Preserved /\ [Next]_vars => [Kept]_vars
  BY <1>2
<1> QED
  BY <1>1, <1>3, PreservedStep, Invariance, PTL DEF Spec, EvidenceKept
=============================================================================
