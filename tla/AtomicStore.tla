---------------------------- MODULE AtomicStore ----------------------------
(***************************************************************************)
(* What the transaction engine promises: canonical files that change only  *)
(* by whole proposals, each in one step together with its receipt in the   *)
(* log, and only if the revision it was written against is still the head. *)
(***************************************************************************)
EXTENDS Naturals, Sequences

CONSTANTS Txn, None, Seed

VARIABLES store,     \* the files a reader may rely on
          log,       \* receipts, in the order of the audit ledger
          proposal   \* what each proposal expects, changes and is based on

vars == <<store, log, proposal>>

Receipt == [txn : Txn, result : {"committed", "rolled_back"}]

Init ==
  /\ store = Seed
  /\ log = <<>>
  /\ proposal = [t \in Txn |-> None]

New(t) == \A k \in DOMAIN log : log[k].txn # t

(* A proposal records the head of the moment it is written.  What it       *)
(* expects of the files may have been read halfway through another.        *)
Propose(t) ==
  /\ proposal[t] = None
  /\ proposal'[t] # None
  /\ proposal'[t].base = log
  /\ \A u \in Txn \ {t} : proposal'[u] = proposal[u]
  /\ UNCHANGED <<store, log>>

Commit(t) ==
  /\ proposal[t] # None
  /\ New(t)
  /\ proposal[t].base = log
  /\ \A p \in DOMAIN proposal[t].expect : store[p] = proposal[t].expect[p]
  /\ store' = [p \in DOMAIN store |-> IF p \in DOMAIN proposal[t].change
                                      THEN proposal[t].change[p] ELSE store[p]]
  /\ log' = Append(log, [txn |-> t, result |-> "committed"])
  /\ UNCHANGED proposal

Abort(t) ==
  /\ proposal[t] # None
  /\ New(t)
  /\ log' = Append(log, [txn |-> t, result |-> "rolled_back"])
  /\ UNCHANGED <<store, proposal>>

Next == \E t \in Txn : Propose(t) \/ Commit(t) \/ Abort(t)

Spec == Init /\ [][Next]_vars
=============================================================================
