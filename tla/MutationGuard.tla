--------------------------- MODULE MutationGuard ---------------------------
(***************************************************************************)
(* The file-only bakery that serialises every mutation of lock.json.  An   *)
(* attempt to enter publishes a choosing claim, reads the tickets there    *)
(* are, publishes a ticket with the next number, withdraws its choosing    *)
(* claim, and enters when a scan shows it nobody choosing and nobody with  *)
(* a smaller ticket.                                                       *)
(*                                                                         *)
(* A claim is a file that is created empty and filled by a second system   *)
(* call.  A directory is not read atomically: a scan looks at one entry at *)
(* a time, in any order, and withdraws what dead attempts have left.  A    *)
(* nonce stands for one attempt and is never used again.                   *)
(***************************************************************************)
EXTENDS Naturals, FiniteSets

CONSTANTS Nonce,        \* attempts; the order of nonces breaks ties
          Host,         \* the host each attempt runs on
          Aging,        \* may a claim being written become an hour old?
          MaxAttempts,  \* scans before an attempt gives up
          MaxFailures,  \* bound on calls that fail for good
  MaxExits      \* bound on processes that die or exit

ASSUME NonceAssumption == Nonce \subseteq Nat
ASSUME AgingAssumption == Aging \in BOOLEAN

Kind == {"choosing", "ticket"}

VARIABLES
  claim,      \* the claim files of 98_state/staging
  number,     \* the number in each attempt's ticket
  cancelled,  \* claims retired by a cancellation marker
  pc,         \* where each attempt is
  todo,       \* the entries its scan has still to read
  doomed,     \* the aged torn entry it is about to unlink
  best,       \* the largest number a scan has shown it
  seen,       \* what the last scans have shown it
  tries,      \* scans made so far
  failures,   \* calls that have failed
  exits       \* processes that have gone

spent == <<failures, exits>>
memory == <<todo, doomed, best, seen, tries>>
vars == <<claim, number, cancelled, pc, memory, spent>>

(* What a scan can find: its own ticket, someone choosing, someone ahead. *)
Sight == {"mine", "busy", "behind"}

Label == {"idle", "claim", "count", "write", "open", "choosing", "tickets",
          "hold", "quit", "resign", "done", "dead"}
-----------------------------------------------------------------------------
Before(m, n) == number[m] < number[n] \/ (number[m] = number[n] /\ m < n)

Goto(n, l) == pc' = [pc EXCEPT ![n] = l]

(* What an attempt remembers goes when it enters, gives up or dies. *)
Forget(n) ==
  /\ todo' = [todo EXCEPT ![n] = {}]
  /\ doomed' = [doomed EXCEPT ![n] = {}]
  /\ best' = [best EXCEPT ![n] = 0]
  /\ seen' = [seen EXCEPT ![n] = {}]
  /\ tries' = [tries EXCEPT ![n] = 0]

(* Any exception ends the attempt, which withdraws what it has claimed. *)
Raise(n) == Goto(n, "quit") /\ Forget(n) /\ UNCHANGED <<claim, number, cancelled>>

(* A scan begins: all entries are still to be read.  Before the ticket scan *)
(* there is nothing of its own an attempt could find that still counts.    *)
Scan(n, l) ==
  /\ Goto(n, l)
  /\ todo' = [todo EXCEPT ![n] = IF l = "tickets" THEN Nonce ELSE Nonce \ {n}]
  /\ UNCHANGED doomed

Init ==
  /\ claim = [k \in Kind |-> [n \in Nonce |-> "none"]]
  /\ number = [n \in Nonce |-> 0]
  /\ cancelled = {}
  /\ pc = [n \in Nonce |-> "idle"]
  /\ todo = [n \in Nonce |-> {}]
  /\ doomed = [n \in Nonce |-> {}]
  /\ best = [n \in Nonce |-> 0]
  /\ seen = [n \in Nonce |-> {}]
  /\ tries = [n \in Nonce |-> 0]
  /\ failures = 0
  /\ exits = 0

(* Publishing a claim: an exclusive creation, then the content. *)
Claim(n) ==
  /\ pc[n] = "idle"
  /\ claim' = [claim EXCEPT !["choosing"][n] = "torn"]
  /\ Goto(n, "claim")
  /\ UNCHANGED <<number, cancelled, memory, spent>>

FillClaim(n) ==
  /\ pc[n] = "claim"
  /\ claim' = [claim EXCEPT !["choosing"][n] =
                 IF @ = "torn" THEN "whole" ELSE @]
  /\ Scan(n, "count")
  /\ UNCHANGED <<number, cancelled, best, seen, tries, spent>>

NumberTicket(n) ==
  /\ pc[n] = "count" /\ todo[n] = {}
  /\ claim' = [claim EXCEPT !["ticket"][n] = "torn"]
  /\ number' = [number EXCEPT ![n] = best[n] + 1]
  /\ Goto(n, "write")
  /\ Forget(n)
  /\ UNCHANGED <<cancelled, spent>>

WriteTicket(n) ==
  /\ pc[n] = "write"
  /\ claim' = [claim EXCEPT !["ticket"][n] = IF @ = "torn" THEN "whole" ELSE @]
  /\ Goto(n, "open")
  /\ UNCHANGED <<number, cancelled, memory, spent>>

(* A claim is withdrawn by unlinking it, or by a marker when that fails. *)
Withdraw(k, n) ==
  \/ /\ claim' = [claim EXCEPT ![k][n] = "none"]
     /\ UNCHANGED <<cancelled, spent>>
  \/ /\ failures < MaxFailures
     /\ failures' = failures + 1
     /\ cancelled' = cancelled \cup {<<k, n>>}
     /\ UNCHANGED <<claim, exits>>

Open(n) ==
  /\ pc[n] = "open"
  /\ \/ /\ claim["choosing"][n] # "none"
        /\ Withdraw("choosing", n)
        /\ Scan(n, "choosing")
        /\ UNCHANGED <<number, best, seen, tries>>
     \/ claim["choosing"][n] = "none" /\ Raise(n) /\ UNCHANGED spent
-----------------------------------------------------------------------------
(***************************************************************************)
(* Reading one entry.  An entry that is gone, retired by its marker or     *)
(* left by a dead attempt of this host does not count, and the last two    *)
(* are unlinked; every other whole entry counts.                           *)
(***************************************************************************)
Removed(k, m) == claim' = [claim EXCEPT ![k][m] = "none"]

(* Fault of Orphan: a process of another host counts as absent. *)
OrphanAnywhere(n, m) == m # n /\ pc[m] = "dead"

Orphan(n, m) == m # n /\ pc[m] = "dead" /\ Host[m] = Host[n]

(* Fault of Disregarded: an orphan is never recognised. *)

DisregardedNever(n, k, m) ==
  \/ claim[k][m] = "none" /\ UNCHANGED claim
  \/ claim[k][m] = "whole" /\ <<k, m>> \in cancelled /\ (UNCHANGED claim \/ Removed(k, m))

Disregarded(n, k, m) ==
  \/ claim[k][m] = "none" /\ UNCHANGED claim
  \/ claim[k][m] = "whole" /\ <<k, m>> \in cancelled /\ (UNCHANGED claim \/ Removed(k, m))
  \/ claim[k][m] = "whole" /\ Orphan(n, m) /\ Removed(k, m)

(* Another reader may remove a retired claim and its marker between our     *)
(* reading of the one and our search for the other.                        *)
MarkerGone(n) == \E o \in Nonce \ {n} : pc[o] \in {"count", "choosing", "tickets"}

Regarded(n, k, m) ==
  /\ claim[k][m] = "whole"
  /\ ~Orphan(n, m)
  /\ <<k, m>> \notin cancelled \/ MarkerGone(n)

(* What a counting entry changes in the memory of its reader. *)
Note(n, m) ==
  \/ /\ pc[n] = "count"
     /\ best' = [best EXCEPT ![n] = IF number[m] > @ THEN number[m] ELSE @]
     /\ UNCHANGED seen
  \/ /\ pc[n] = "choosing"
     /\ seen' = [seen EXCEPT ![n] = @ \cup {"busy"}]
     /\ UNCHANGED best
  \/ /\ pc[n] = "tickets"
     /\ seen' = [seen EXCEPT ![n] =
                   @ \cup (IF m = n THEN {"mine"}
                           ELSE IF Before(m, n) THEN {"behind"} ELSE {})]
     /\ UNCHANGED best

Reading(n, k) ==
  \/ pc[n] = "choosing" /\ k = "choosing"
  \/ pc[n] \in {"count", "tickets"} /\ k = "ticket"

Pass(n, m) == todo' = [todo EXCEPT ![n] = @ \ {m}]

(* Entries are read in the order of their names; one that is not listed    *)
(* counts as read as early as one likes.                                   *)
InTurn(n, k, m) == claim[k][m] = "none" \/ \A o \in todo[n] : m <= o

Visit(n, k, m) ==
  /\ Reading(n, k) /\ m \in todo[n] /\ doomed[n] = {}
  /\ InTurn(n, k, m)
  /\ \/ /\ Disregarded(n, k, m)
        /\ Pass(n, m)
        /\ UNCHANGED <<pc, doomed, best, seen, tries>>
     \/ /\ Regarded(n, k, m)
        /\ Note(n, m)
        /\ Pass(n, m)
        /\ UNCHANGED <<claim, pc, doomed, tries>>
     \/ claim[k][m] = "torn" /\ Raise(n)
     \/ /\ claim[k][m] = "torn" /\ (Aging \/ pc[m] = "dead")
        /\ doomed' = [doomed EXCEPT ![n] = {m}]
        /\ UNCHANGED <<claim, pc, todo, best, seen, tries>>
  /\ UNCHANGED <<number, cancelled, spent>>

(* The unlink of an aged entry, after it was found unchanged. *)
Reap(n, k, m) ==
  /\ Reading(n, k) /\ m \in doomed[n]
  /\ Removed(k, m)
  /\ doomed' = [doomed EXCEPT ![n] = {}]
  /\ Pass(n, m)
  /\ UNCHANGED <<number, cancelled, pc, best, seen, tries, spent>>

ReadTickets(n) ==
  /\ pc[n] = "choosing" /\ todo[n] = {}
  /\ Scan(n, "tickets")
  /\ UNCHANGED <<claim, number, cancelled, best, seen, tries, spent>>

Enter(n) == Goto(n, "hold") /\ Forget(n) /\ UNCHANGED <<claim, number, cancelled>>

Rescan(n) ==
  /\ Scan(n, "choosing")
  /\ seen' = [seen EXCEPT ![n] = {}]
  /\ UNCHANGED <<claim, number, cancelled, best>>

(* Faults of Decide: it enters although someone is choosing, or it scans on *)
(* without end.                                                            *)
DecideInstantly(n) ==
  /\ pc[n] = "tickets" /\ todo[n] = {}
  /\ IF seen[n] \ {"busy"} = {"mine"} THEN Enter(n) ELSE Raise(n)
  /\ UNCHANGED spent

DecideForever(n) ==
  /\ pc[n] = "tickets" /\ todo[n] = {}
  /\ \/ seen[n] = {"mine"} /\ Enter(n)
     \/ seen[n] # {"mine"} /\ Rescan(n) /\ UNCHANGED tries
  /\ UNCHANGED spent

Decide(n) ==
  /\ pc[n] = "tickets" /\ todo[n] = {}
  /\ \/ seen[n] = {"mine"} /\ Enter(n)
     \/ /\ "mine" \in seen[n] /\ seen[n] # {"mine"}
        /\ tries[n] + 1 < MaxAttempts
        /\ tries' = [tries EXCEPT ![n] = @ + 1]
        /\ Rescan(n)
     \/ "mine" \notin seen[n] /\ Raise(n)
     \/ seen[n] # {"mine"} /\ tries[n] + 1 >= MaxAttempts /\ Raise(n)
  /\ UNCHANGED spent
-----------------------------------------------------------------------------
(* What has to be withdrawn may have disappeared already. *)
WithdrawIfThere(k, n) ==
  IF claim[k][n] = "none" THEN UNCHANGED <<claim, cancelled, spent>> ELSE Withdraw(k, n)

Leave(n) ==
  /\ pc[n] = "hold"
  /\ WithdrawIfThere("ticket", n)
  /\ Goto(n, "done")
  /\ UNCHANGED <<number, memory>>

(* The handler of a failed attempt withdraws its choosing claim, then its   *)
(* ticket.                                                                 *)
Quit(n) ==
  /\ pc[n] = "quit"
  /\ WithdrawIfThere("choosing", n)
  /\ Goto(n, "resign")
  /\ UNCHANGED <<number, memory>>

Resign(n) ==
  /\ pc[n] = "resign"
  /\ WithdrawIfThere("ticket", n)
  /\ Goto(n, "done")
  /\ UNCHANGED <<number, memory>>

(* A call fails for good: an attempt under way is given up, and a claim it  *)
(* was writing is unlinked; one that was withdrawing its claims leaves them *)
(* behind.                                                                 *)
Working == {"claim", "count", "write", "open", "choosing", "tickets"}

Fail(n) ==
  /\ pc[n] \in Working \cup {"hold", "quit", "resign"}
  /\ failures < MaxFailures
  /\ failures' = failures + 1
  /\ Goto(n, IF pc[n] \in Working THEN "quit" ELSE "done")
  /\ \/ pc[n] = "claim" /\ Removed("choosing", n)
     \/ pc[n] = "write" /\ Removed("ticket", n)
     \/ pc[n] \notin {"claim", "write"} /\ UNCHANGED claim
  /\ Forget(n)
  /\ UNCHANGED <<number, cancelled, exits>>

(* The process dies, or exits; what it has not withdrawn stays.  An exit    *)
(* that leaves nothing behind makes no difference.                         *)
Exit(n) ==
  /\ pc[n] \notin {"idle", "dead"}
  /\ \E k \in Kind : claim[k][n] # "none"
  /\ exits < MaxExits
  /\ exits' = exits + 1
  /\ Goto(n, "dead")
  /\ Forget(n)
  /\ UNCHANGED <<claim, number, cancelled, failures>>
-----------------------------------------------------------------------------
Step(n) ==
  \/ FillClaim(n) \/ NumberTicket(n) \/ WriteTicket(n) \/ Open(n)
  \/ \E k \in Kind, m \in Nonce : Visit(n, k, m) \/ Reap(n, k, m)
  \/ ReadTickets(n) \/ Decide(n) \/ Leave(n) \/ Quit(n) \/ Resign(n)

Next == \E n \in Nonce : Claim(n) \/ Step(n) \/ Fail(n) \/ Exit(n)

Spec == Init /\ [][Next]_vars

(* An attempt that is not killed goes on: no step waits for another one. *)
FairSpec == Spec /\ \A n \in Nonce : WF_vars(Step(n))
-----------------------------------------------------------------------------
TypeOK ==
  /\ claim \in [Kind -> [Nonce -> {"none", "torn", "whole"}]]
  /\ number \in [Nonce -> Nat]
  /\ \A n \in Nonce : claim["ticket"][n] # "none" => number[n] > 0
  /\ cancelled \subseteq Kind \X Nonce
  /\ pc \in [Nonce -> Label]
  /\ todo \in [Nonce -> SUBSET Nonce]
  /\ doomed \in [Nonce -> SUBSET Nonce]
  /\ best \in [Nonce -> Nat]
  /\ seen \in [Nonce -> SUBSET Sight]
  /\ tries \in [Nonce -> Nat]
  /\ failures \in Nat /\ exits \in Nat

(* At most one attempt at a time mutates lock.json: claims that are still   *)
(* being written, scans that are not atomic, orphans that are unlinked and  *)
(* retired claims never let two attempts in.                               *)
MutualExclusion ==
  \A m, n \in Nonce : pc[m] = "hold" /\ pc[n] = "hold" => m = n

(* Whoever holds the guard can be seen to hold it: no scan has unlinked or  *)
(* retired its ticket, so no later attempt can overlook it.                *)
HolderIsVisible ==
  \A n \in Nonce : pc[n] = "hold" =>
    claim["ticket"][n] = "whole" /\ <<"ticket", n>> \notin cancelled

(* A parseable claim that was not retired leaves only by its owner's own    *)
(* step, or when its owner is dead and a reader on the same host finds so. *)
OwnOrDead ==
  \A k \in Kind, m \in Nonce :
    claim[k][m] = "whole" /\ claim'[k][m] # "whole" /\ <<k, m>> \notin cancelled =>
      \/ pc'[m] # pc[m]
      \/ /\ pc[m] = "dead"
         /\ \E n \in Nonce \ {m} :
              Host[n] = Host[m] /\ pc[n] \in {"count", "choosing", "tickets"}

OnlyDeadReclaimed == [][OwnOrDead]_vars

(* Every attempt ends, held or refused, even against claims that nobody     *)
(* will ever withdraw.                                                     *)
AcquireEnds ==
  \A n \in Nonce : (pc[n] = "claim") ~> (pc[n] \in {"hold", "done", "dead"})

(* Nobody waits for the dead: an attempt all others have left alone, with   *)
(* nothing but retired claims and claims of its own host's dead about,     *)
(* enters unless one of its own calls fails.                               *)
Harmless(n, k, m) ==
  \/ claim[k][m] = "none"
  \/ claim[k][m] = "whole" /\ (<<k, m>> \in cancelled \/ Orphan(n, m))

Alone(n) ==
  \A m \in Nonce \ {n} : pc[m] \in {"idle", "done", "dead"} /\
                           \A k \in Kind : Harmless(n, k, m)

LeftoversDoNotBlock ==
  \A n \in Nonce :
    (/\ pc[n] = "count" /\ claim["choosing"][n] = "whole"
     /\ Alone(n) /\ failures = MaxFailures)
      ~> (pc[n] \in {"hold", "dead"} \/ ~Alone(n))
=============================================================================
