---------------------------- MODULE AuditLedger ----------------------------
(***************************************************************************)
(* The audit ledger ledger.jsonl as a sequence of sealed events.  A hash   *)
(* stands for what it digests: the head hash of a ledger is the ledger     *)
(* itself, so an event whose prev_hash is the head it was built on can be  *)
(* appended to exactly the ledger that was verified then.                  *)
(***************************************************************************)
EXTENDS Naturals, Sequences

(* The events of one ledger that carry a given proposal id. *)
EventsOf(ledger, txn) == {k \in DOMAIN ledger : ledger[k].txn = txn}

Recorded(ledger, txn) == EventsOf(ledger, txn) # {}

(* find_event_by_proposal_id, for a proposal that has one. *)
EventOf(ledger, txn) == ledger[CHOOSE k \in DOMAIN ledger : ledger[k].txn = txn]

(* What full verification demands of the chain: unique identities, and     *)
(* every event linked to the revision before it.                           *)
Verified(ledger) ==
  /\ \A j, k \in DOMAIN ledger : ledger[j].txn = ledger[k].txn => j = k
  /\ \A k \in DOMAIN ledger : ledger[k].base = k - 1

(* append_event's checks on a new event built when the head was base. *)
Appendable(ledger, base, txn) ==
  /\ ledger = base
  /\ ~Recorded(ledger, txn)
=============================================================================
