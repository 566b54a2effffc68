------------------------------- MODULE Lease -------------------------------
(***************************************************************************)
(* What the context lock promises to the transaction engine: one owner at  *)
(* a time, whose lease ends only when it gives it back or when it is       *)
(* stale, and which never gets back a lease it has lost.                   *)
(***************************************************************************)
CONSTANTS Holder, Nobody

VARIABLES owner,   \* the lease that lock.json names
          stale,   \* may it be taken over?
          giving,  \* is its owner giving it back?
          past     \* leases that have ended

vars == <<owner, stale, giving, past>>

Init == owner = Nobody /\ stale = FALSE /\ giving = FALSE /\ past = {}

Grant(h) ==
  /\ owner = Nobody /\ h \notin past
  /\ owner' = h
  /\ UNCHANGED past

End == owner' = Nobody /\ past' = past \cup {owner}

Release == owner # Nobody /\ giving /\ End
Revoke  == owner # Nobody /\ stale /\ End

(* Time passes, the owner dies or decides, its heartbeat arrives. *)
Drift == owner # Nobody /\ UNCHANGED <<owner, past>>

Next == (\E h \in Holder : Grant(h)) \/ Release \/ Revoke \/ Drift

Spec == Init /\ [][Next]_vars
=============================================================================
