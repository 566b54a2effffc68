------------------------------- MODULE Outbox -------------------------------
(***************************************************************************)
(* One draft of the outbox: agents save it through the transaction engine, *)
(* operators preview it and post it as a comment on a remote service, and  *)
(* the delivery is then recorded by a second transaction.                  *)
(*                                                                         *)
(* The engine is what TransactionEngine shows it to be: one writer at a    *)
(* time, whose file is in place before its event is, and a rollback, also  *)
(* of a writer that died, which puts the old file back.  Readers take no   *)
(* lock and may see a file that is not committed yet.                      *)
(***************************************************************************)
EXTENDS Naturals, Sequences, Absent

CONSTANTS Sender, Saver, Target,
          FirstBody   \* the body of the draft in the beginning

VARIABLES
  draft,     \* the file: None, or its body and its delivery
  ledger,    \* the audited states of the draft, and who wrote them
  writer,    \* whose transaction has replaced the file and is not audited
  remote,    \* the comments on the remote service
  at,        \* where each call is
  seen,      \* the draft each call works on
  to,        \* the target of each send
  reviewed,  \* what the operator of each send has been shown
  base       \* the ledger length each proposal is written against

outboxVars == <<draft, ledger, writer, remote, at, seen, to, reviewed, base>>

Caller == Sender \cup Saver
Body   == {FirstBody} \cup Saver
Draft  == [body : Body, delivery : {None} \cup Sender]

Unsent(d) == d # None /\ d.delivery = None

Ended == {"sent", "saved", "refused", "failed", "unknown", "reconcile", "dead"}

Goto(p, l) == at' = [at EXCEPT ![p] = l]

OutboxInit ==
  /\ \E d \in {None, [body |-> FirstBody, delivery |-> None]} :
        draft = d /\ ledger = <<[draft |-> d, by |-> None]>>
  /\ writer = None /\ remote = {}
  /\ at = [p \in Caller |-> "idle"]
  /\ seen = [p \in Caller |-> None]
  /\ to = [p \in Sender |-> None]
  /\ reviewed = [p \in Sender |-> None]
  /\ base = [p \in Caller |-> 0]
-----------------------------------------------------------------------------
(* Sending: preview, approval of what was shown, the post, the record.      *)

Preview(p) ==
  /\ at[p] = "idle" /\ Unsent(draft)
  /\ \E t \in Target :
        /\ reviewed' = [reviewed EXCEPT ![p] = [draft |-> draft, target |-> t]]
        /\ to' = [to EXCEPT ![p] = t]
  /\ Goto(p, "previewed")
  /\ UNCHANGED <<draft, ledger, writer, remote, seen, base>>

SendWhatIsThere(p) ==
  /\ at[p] = "previewed"
  /\ seen' = [seen EXCEPT ![p] = draft]
  /\ Goto(p, IF Unsent(draft) THEN "post" ELSE "refused")
  /\ UNCHANGED <<draft, ledger, writer, remote, to, reviewed, base>>

(* The fingerprint of what is there now must be the one that was approved.  *)
Send(p) ==
  /\ at[p] = "previewed"
  /\ seen' = [seen EXCEPT ![p] = draft]
  /\ Goto(p, IF Unsent(draft) /\ reviewed[p] = [draft |-> draft, target |-> to[p]]
             THEN "post" ELSE "refused")
  /\ UNCHANGED <<draft, ledger, writer, remote, to, reviewed, base>>

Comment(p) == [by |-> p, body |-> seen[p].body, target |-> to[p]]

DeliverOrFail(p) ==
  /\ at[p] = "post"
  /\ \/ remote' \in {remote, remote \cup {Comment(p)}} /\ Goto(p, "failed")
     \/ remote' = remote \cup {Comment(p)} /\ Goto(p, "posted")
  /\ UNCHANGED <<draft, ledger, writer, seen, to, reviewed, base>>

(* No token, or an answer other than 201: nothing was posted.  An answer    *)
(* that is lost, late or unreadable does not tell.                          *)
Deliver(p) ==
  /\ at[p] = "post"
  /\ \/ remote' = remote /\ Goto(p, "failed")
     \/ remote' \in {remote, remote \cup {Comment(p)}} /\ Goto(p, "unknown")
     \/ remote' = remote \cup {Comment(p)} /\ Goto(p, "posted")
  /\ UNCHANGED <<draft, ledger, writer, seen, to, reviewed, base>>
-----------------------------------------------------------------------------
(* Saving: what is refused is decided on one reading of the draft, what is  *)
(* expected of it is taken from a second one.                               *)

ReadDraft(p) ==
  /\ at[p] = "idle"
  /\ seen' = [seen EXCEPT ![p] = draft]
  /\ Goto(p, IF draft = None THEN "posted" ELSE IF Unsent(draft) THEN "hash" ELSE "refused")
  /\ UNCHANGED <<draft, ledger, writer, remote, to, reviewed, base>>

HashDraft(p) ==
  /\ at[p] = "hash"
  /\ seen' = [seen EXCEPT ![p] = draft]
  /\ Goto(p, IF draft = None THEN "failed" ELSE "posted")
  /\ UNCHANGED <<draft, ledger, writer, remote, to, reviewed, base>>
-----------------------------------------------------------------------------
(* The transaction of either. *)

Failed(p) == IF p \in Sender THEN "reconcile" ELSE "failed"

Proposed(p) == IF p \in Sender THEN [seen[p] EXCEPT !.delivery = p]
               ELSE [body |-> p, delivery |-> None]

Propose(p) ==
  /\ at[p] = "posted"
  /\ base' = [base EXCEPT ![p] = Len(ledger)]
  /\ Goto(p, "apply")
  /\ UNCHANGED <<draft, ledger, writer, remote, seen, to, reviewed>>

(* The path must hold what the proposal expects, or be absent for a create. *)
AcceptableAtBase(p) == writer = None /\ base[p] = Len(ledger)

Acceptable(p) == writer = None /\ base[p] = Len(ledger) /\ draft = seen[p]

Apply(p) ==
  /\ at[p] = "apply"
  /\ \/ /\ Acceptable(p)
        /\ draft' = Proposed(p) /\ writer' = p
        /\ Goto(p, "replaced")
     \/ /\ Goto(p, Failed(p))       \* refused, or failed before the intent
        /\ UNCHANGED <<draft, writer>>
  /\ UNCHANGED <<ledger, remote, seen, to, reviewed, base>>

Commit(p) ==
  /\ at[p] = "replaced"
  /\ ledger' = Append(ledger, [draft |-> draft, by |-> p])
  /\ writer' = None
  /\ Goto(p, "reread")
  /\ UNCHANGED <<draft, remote, seen, to, reviewed, base>>

(* By the writer itself, when validation fails, or by a recovery. *)
RollBack(p) ==
  /\ writer = p
  /\ \/ at[p] = "replaced" /\ Goto(p, Failed(p))
     \/ at[p] = "dead" /\ UNCHANGED at
  /\ draft' = ledger[Len(ledger)].draft
  /\ ledger' = Append(ledger, [draft |-> draft', by |-> None])
  /\ writer' = None
  /\ UNCHANGED <<remote, seen, to, reviewed, base>>

(* The caller is told what the file says after the transaction. *)
Reread(p) ==
  /\ at[p] = "reread"
  /\ Goto(p, IF p \in Saver THEN "saved"
             ELSE IF draft = Proposed(p) THEN "sent" ELSE "reconcile")
  /\ UNCHANGED <<draft, ledger, writer, remote, seen, to, reviewed, base>>

Crash(p) ==
  /\ at[p] \notin Ended \cup {"idle"}
  /\ Goto(p, "dead")
  /\ UNCHANGED <<draft, ledger, writer, remote, seen, to, reviewed, base>>

Transact(p) == Propose(p) \/ Apply(p) \/ Commit(p) \/ RollBack(p) \/ Reread(p) \/ Crash(p)

OutboxNext ==
  \/ \E p \in Sender : Preview(p) \/ Send(p) \/ Deliver(p)
  \/ \E p \in Saver : ReadDraft(p) \/ HashDraft(p)
  \/ \E p \in Caller : Transact(p)

OutboxSpec == OutboxInit /\ [][OutboxNext]_outboxVars
-----------------------------------------------------------------------------
OutboxTypeOK ==
  /\ draft \in Draft \cup {None}
  /\ ledger \in Seq([draft : Draft \cup {None}, by : Caller \cup {None}])
  /\ writer \in Caller \cup {None}
  /\ remote \subseteq [by : Sender, body : Body, target : Target]
  /\ at \in [Caller -> Ended \cup {"idle", "previewed", "post", "hash", "posted",
                                   "apply", "replaced", "reread"}]
  /\ seen \in [Caller -> Draft \cup {None}]
  /\ to \in [Sender -> Target \cup {None}]
  /\ reviewed \in [Sender -> [draft : Draft, target : Target] \cup {None}]
  /\ base \in [Caller -> Nat]

(* A record of a delivery names a comment that was really posted, with the  *)
(* text the record holds (delivery.py, _delivery_proposal), and adds only   *)
(* the delivery to the draft it replaces: a save in between is not lost.    *)
RecordTruthful ==
  \A i \in DOMAIN ledger :
     LET entry == ledger[i] IN entry.by \in Sender =>
       /\ [by |-> entry.by, body |-> entry.draft.body, target |-> to[entry.by]] \in remote
       /\ entry.draft.delivery = entry.by
       /\ ledger[i - 1].draft = [entry.draft EXCEPT !.delivery = None]

(* Nothing reaches the remote service that its operator was not shown:      *)
(* neither the text nor the target (delivery.py, send).                     *)
NothingUnreviewed ==
  \A c \in remote : /\ reviewed[c.by].draft.body = c.body
                    /\ reviewed[c.by].target = c.target

Posted(p)   == \E c \in remote : c.by = p
Recorded(p) == \E i \in DOMAIN ledger : ledger[i].by = p

(* What the caller of send is told is true: a failure means that nothing    *)
(* was posted or recorded, an unknown outcome that nothing was recorded, a  *)
(* request to reconcile that there is a comment, and a success that there   *)
(* is a comment and its record.  No comment is left behind in silence.  Two *)
(* operators may post the same draft at once, but only one of them is told  *)
(* that it was sent, as long as no save overwrites the record.              *)
NoSaveAfterSend ==
  \A i, j \in DOMAIN ledger : ledger[i].by \in Sender /\ ledger[j].by \in Saver => j < i

OutcomesTell ==
  /\ \A p \in Sender :
        /\ at[p] \in {"failed", "refused"} => ~Posted(p) /\ ~Recorded(p)
        /\ at[p] = "unknown" => ~Recorded(p)
        /\ at[p] = "reconcile" => Posted(p)
        /\ at[p] = "sent" => Posted(p) /\ Recorded(p)
  /\ NoSaveAfterSend => \A p, q \in Sender : at[p] = "sent" /\ at[q] = "sent" => p = q

(* Records and reports of deliveries are true, and nothing is posted that   *)
(* nobody reviewed (delivery.py, OutboxSendService.send).                   *)
DeliveriesTold == RecordTruthful /\ OutcomesTell /\ NothingUnreviewed

(* docs/adr/0014-outbox-send.md: "Sent drafts can never be re-unsent". *)
SentIsFinal ==
  \A i, j \in DOMAIN ledger : i < j /\ ledger[i].by \in Sender => ledger[j].draft = ledger[i].draft
=============================================================================
