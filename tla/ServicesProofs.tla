--------------------------- MODULE ServicesProofs ---------------------------
(***************************************************************************)
(* Theorems about what comes in and what goes out: deliveries, for any     *)
(* senders, authors and targets: what is posted was reviewed, and what is  *)
(* recorded and reported is true; the inbox, for any sessions, batches,    *)
(* raw paths and contents, any number of crashes and of files the operator *)
(* puts; and the connectors, for any runs, connectors, snapshots and       *)
(* intervals.                                                              *)
(***************************************************************************)
EXTENDS Outbox, Ingestion, Connectors, FiniteSetTheorems, SequenceTheorems,
        WellFoundedInduction, TLAPS

(* Of the constants: a call sends or saves, and None is none of what it     *)
(* stands in for.                                                           *)
OutboxConstants ==
  /\ Sender \cap Saver = {}
  /\ None \notin Caller \cup Draft \cup [draft : Draft, target : Target]

LastDraft == ledger[Len(ledger)].draft

Delivering == {"posted", "apply", "replaced", "reread", "sent", "reconcile"}
Posting    == Delivering \cup {"post"}
MayHave    == Delivering \cup {"unknown", "dead"}
Telling == {"reread", "sent", "reconcile", "saved", "dead"}

(* What a send works on is what its operator was shown, and was unsent.     *)
Shown ==
  \A p \in Sender :
     /\ at[p] \in Posting \cup {"previewed"} => to[p] \in Target
     /\ at[p] \in Posting =>
          Unsent(seen[p]) /\ reviewed[p] = [draft |-> seen[p], target |-> to[p]]

(* Who is past the post has posted, and who has posted is past it or died,  *)
(* or was left in the dark.                                                 *)
Posts == \A p \in Sender : at[p] \in Delivering => Comment(p) \in remote
Comments ==
  \A c \in remote :
     /\ at[c.by] \in MayHave /\ c = Comment(c.by)
     /\ reviewed[c.by] = [draft |-> seen[c.by], target |-> to[c.by]]

(* The writer has replaced the draft it has seen, which the ledger shows,   *)
(* by its own; without a writer, the draft is what the ledger shows.        *)
Writes ==
  /\ writer = None => draft = LastDraft
  /\ writer # None =>
       /\ at[writer] \in {"replaced", "dead"}
       /\ draft = Proposed(writer) /\ seen[writer] = LastDraft
       /\ ~Recorded(writer)
       /\ writer \in Sender => Unsent(seen[writer]) /\ Comment(writer) \in remote
  /\ \A p \in Caller : at[p] = "replaced" => writer = p

(* Who is in the ledger has committed, and who has committed is in it.      *)
Records ==
  /\ 1 \in DOMAIN ledger /\ ledger[1].by = None
  /\ \A i \in DOMAIN ledger : ledger[i].by # None => at[ledger[i].by] \in Telling
  /\ \A p \in Caller : at[p] \in {"reread", "sent"} => Recorded(p)

(* A record of a delivery stands until a save replaces it, and no other     *)
(* delivery is recorded before that.                                        *)
Stands ==
  \A i \in DOMAIN ledger : ledger[i].by \in Sender =>
     \/ ledger[i].draft = LastDraft
     \/ \E k \in DOMAIN ledger : i < k /\ ledger[k].by \in Saver
Once ==
  \A i, j \in DOMAIN ledger :
     i < j /\ ledger[i].by \in Sender /\ ledger[j].by \in Sender =>
       \E k \in DOMAIN ledger : i < k /\ k < j /\ ledger[k].by \in Saver

OutboxInv ==
  /\ OutboxTypeOK /\ Shown /\ Posts /\ Comments /\ Writes /\ Records
  /\ RecordTruthful /\ Stands /\ Once
-----------------------------------------------------------------------------
(* Types.                                                                   *)
LEMMA InitTyped ==
  ASSUME OutboxConstants, OutboxInit
  PROVE  OutboxTypeOK
<1>1. [body |-> FirstBody, delivery |-> None] \in Draft
  BY DEF Draft, Body
<1>2. draft \in Draft \cup {None} /\ ledger = <<[draft |-> draft, by |-> None]>>
  BY <1>1 DEF OutboxInit
<1>3. ledger \in Seq([draft : Draft \cup {None}, by : Caller \cup {None}])
  BY <1>2
<1> QED
  BY <1>2, <1>3 DEF OutboxInit, OutboxTypeOK, Ended

LEMMA Elements ==
  ASSUME NEW S, NEW s \in Seq(S), NEW i \in DOMAIN s
  PROVE  s[i] \in S
OBVIOUS

LEMMA LedgerTyped ==
  ASSUME OutboxTypeOK
  PROVE  /\ Len(ledger) \in Nat /\ DOMAIN ledger = 1..Len(ledger)
         /\ \A i \in DOMAIN ledger :
              ledger[i].draft \in Draft \cup {None} /\ ledger[i].by \in Caller \cup {None}
<1> DEFINE Entry == [draft : Draft \cup {None}, by : Caller \cup {None}]
<1>1. ledger \in Seq(Entry)
  BY DEF OutboxTypeOK
<1>2. Len(ledger) \in Nat /\ DOMAIN ledger = 1..Len(ledger)
  BY <1>1
<1>3. ASSUME NEW i \in DOMAIN ledger
      PROVE  ledger[i] \in Entry
  BY <1>1, Elements
<1> QED
  BY <1>2, <1>3

(* A draft whose delivery is recorded is what was seen, but for that.       *)
LEMMA Deliveries ==
  ASSUME OutboxConstants, NEW p \in Sender, seen[p] \in Draft, seen[p].delivery = None
  PROVE  /\ Proposed(p) \in Draft /\ Proposed(p).delivery = p
         /\ Proposed(p).body = seen[p].body
         /\ [Proposed(p) EXCEPT !.delivery = None] = seen[p]
<1>1. Proposed(p) = [seen[p] EXCEPT !.delivery = p]
  BY DEF Proposed
<1>2. seen[p] = [body |-> seen[p].body, delivery |-> None]
  BY DEF Draft
<1>3. Proposed(p) = [body |-> seen[p].body, delivery |-> p]
  BY <1>1, <1>2
<1> QED
  BY <1>2, <1>3 DEF Draft

LEMMA Saves ==
  ASSUME OutboxConstants, NEW p \in Saver
  PROVE  Proposed(p) = [body |-> p, delivery |-> None] /\ Proposed(p) \in Draft
<1>1. p \notin Sender
  BY DEF OutboxConstants
<1> QED
  BY <1>1 DEF Proposed, Draft, Body

(* One lemma for each action: it keeps the types. *)
LEMMA PreviewTyped ==
  ASSUME OutboxConstants, OutboxTypeOK, NEW p \in Sender, Preview(p)
  PROVE  OutboxTypeOK'
<1>1. draft \in Draft /\ p \in Caller
  BY DEF OutboxTypeOK, Preview, Unsent, Caller
<1>2. PICK t \in Target :
        /\ reviewed' = [reviewed EXCEPT ![p] = [draft |-> draft, target |-> t]]
        /\ to' = [to EXCEPT ![p] = t]
  BY DEF Preview
<1> QED
  BY <1>1, <1>2 DEF OutboxTypeOK, Preview, Goto

LEMMA SendTyped ==
  ASSUME OutboxConstants, OutboxTypeOK, NEW p \in Sender, Send(p)
  PROVE  OutboxTypeOK'
<1>1. p \in Caller
  BY DEF Caller
<1> QED
  BY <1>1 DEF OutboxTypeOK, Send, Goto, Ended

LEMMA DeliverTyped ==
  ASSUME OutboxConstants, OutboxTypeOK, Shown, NEW p \in Sender, Deliver(p)
  PROVE  OutboxTypeOK'
<1>1. p \in Caller
  BY DEF Caller
<1>2. seen[p] \in Draft /\ to[p] \in Target
  BY <1>1 DEF OutboxTypeOK, Shown, Deliver, Posting, Unsent
<1>3. Comment(p) \in [by : Sender, body : Body, target : Target]
  BY <1>2 DEF Comment, Draft
<1> QED
  BY <1>1, <1>3 DEF OutboxTypeOK, Deliver, Goto, Ended

LEMMA ReadsTyped ==
  ASSUME OutboxConstants, OutboxTypeOK, NEW p \in Saver, ReadDraft(p) \/ HashDraft(p)
  PROVE  OutboxTypeOK'
<1>1. p \in Caller
  BY DEF Caller
<1> QED
  BY <1>1 DEF OutboxTypeOK, ReadDraft, HashDraft, Goto, Ended

LEMMA TransactTyped ==
  ASSUME OutboxConstants, OutboxTypeOK, Shown, 1 \in DOMAIN ledger, NEW p \in Caller, Transact(p)
  PROVE  OutboxTypeOK'
<1>1. CASE Propose(p)
  BY <1>1 DEF OutboxTypeOK, Propose, Goto
<1>2. CASE Apply(p)
  <2>1. at[p] = "apply" /\ (p \in Sender \/ p \in Saver)
    BY <1>2 DEF Apply, Caller
  <2>2. p \in Sender => seen[p] \in Draft /\ seen[p].delivery = None
    BY <2>1 DEF OutboxTypeOK, Shown, Posting, Delivering, Unsent
  <2>3. Proposed(p) \in Draft
    BY <2>1, <2>2, Deliveries, Saves
  <2>4. Failed(p) \in {"reconcile", "failed"}
    BY DEF Failed
  <2> QED
    BY <1>2, <2>3, <2>4 DEF OutboxTypeOK, Apply, Goto, Ended
<1>3. CASE Commit(p)
  BY <1>3 DEF OutboxTypeOK, Commit, Goto
<1>4. CASE RollBack(p)
  <2>1. Failed(p) \in {"reconcile", "failed"}
    BY DEF Failed
  <2>2. at' \in [Caller -> Ended \cup {"idle", "previewed", "post", "hash", "posted",
                                     "apply", "replaced", "reread"}]
    BY <1>4, <2>1 DEF OutboxTypeOK, RollBack, Goto, Ended
  <2>3. ledger \in Seq([draft : Draft \cup {None}, by : Caller \cup {None}])
    BY DEF OutboxTypeOK
  <2>4. ledger[Len(ledger)].draft \in Draft \cup {None}
    BY LedgerTyped
  <2>5. draft' \in Draft \cup {None}
    BY <1>4, <2>4 DEF RollBack
  <2>6. ledger' \in Seq([draft : Draft \cup {None}, by : Caller \cup {None}])
    BY <1>4, <2>3, <2>5 DEF RollBack
  <2>7. /\ writer' = None /\ remote' = remote /\ seen' = seen /\ to' = to
        /\ reviewed' = reviewed /\ base' = base
    BY <1>4 DEF RollBack
  <2> QED
    BY <2>2, <2>5, <2>6, <2>7 DEF OutboxTypeOK
<1>5. CASE Reread(p)
  BY <1>5 DEF OutboxTypeOK, Reread, Goto, Ended
<1>6. CASE Crash(p)
  BY <1>6 DEF OutboxTypeOK, Crash, Goto, Ended
<1> QED
  BY <1>1, <1>2, <1>3, <1>4, <1>5, <1>6 DEF Transact
-----------------------------------------------------------------------------
(* Steps of one call that touch neither the draft nor the ledger.           *)
Rest(p) ==
  /\ UNCHANGED <<draft, ledger, writer>>
  /\ \A q \in Caller \ {p} : at'[q] = at[q] /\ seen'[q] = seen[q]
  /\ \A q \in Sender \ {p} : to'[q] = to[q] /\ reviewed'[q] = reviewed[q]
  /\ at'[p] # "replaced"
  /\ at'[p] \in {"reread", "sent"} => Recorded(p)
  /\ writer = p => at'[p] = "dead"
  /\ at[p] \in Telling => at'[p] \in Telling
  /\ at[p] \notin {"idle", "previewed", "hash"} => seen'[p] = seen[p]

(* They leave what is said of the ledger as it is. *)
LEMMA RestOfLedger ==
  ASSUME OutboxConstants, OutboxInv, NEW p \in Caller, Rest(p),
         remote \subseteq remote',
         p \in Sender /\ at[p] \notin {"idle", "previewed"} => to'[p] = to[p]
  PROVE  (Writes /\ Records /\ RecordTruthful /\ Stands /\ Once)'
<1> USE DEF OutboxInv
<1>1. LastDraft' = LastDraft /\ \A q \in Caller : Recorded(q)' = Recorded(q)
  BY DEF Rest, LastDraft, Recorded
<1>2. Records'
  <2>1. \A i \in DOMAIN ledger : ledger[i].by # None => ledger[i].by \in Caller
    BY LedgerTyped
  <2>2. \A i \in DOMAIN ledger' : ledger'[i].by # None => at'[ledger'[i].by] \in Telling
    BY <2>1 DEF Rest, Records
  <2>3. \A q \in Caller : at'[q] \in {"reread", "sent"} => Recorded(q)'
    BY <1>1 DEF Rest, Records
  <2> QED
    BY <2>2, <2>3 DEF Rest, Records
<1>3. ASSUME writer # None
      PROVE  /\ at'[writer] \in {"replaced", "dead"} /\ seen'[writer] = seen[writer]
             /\ Proposed(writer)' = Proposed(writer)
             /\ writer \in Sender => Comment(writer)' = Comment(writer)
  <2>1. writer \in Caller /\ at[writer] \in {"replaced", "dead"}
    BY <1>3 DEF OutboxTypeOK, Writes
  <2>2. at'[writer] \in {"replaced", "dead"} /\ seen'[writer] = seen[writer]
    BY <2>1 DEF Rest
  <2>3. writer \in Sender => to'[writer] = to[writer]
    BY <2>1 DEF Rest
  <2> QED
    BY <2>2, <2>3, <1>3 DEF Rest, Proposed, Comment
<1>4. Writes'
  <2>1. writer' = None => draft' = LastDraft'
    BY <1>1 DEF Rest, Writes
  <2>2. ASSUME writer' # None
        PROVE  /\ at'[writer'] \in {"replaced", "dead"}
               /\ draft' = Proposed(writer)' /\ seen'[writer'] = LastDraft'
               /\ ~Recorded(writer)'
               /\ writer' \in Sender => Unsent(seen[writer])' /\ Comment(writer)' \in remote'
    <3>1. writer # None /\ writer' = writer /\ writer \in Caller /\ draft' = draft
      BY <2>2 DEF Rest, OutboxTypeOK
    <3>2. at'[writer] \in {"replaced", "dead"} /\ seen'[writer] = seen[writer]
          /\ Proposed(writer)' = Proposed(writer)
          /\ (writer \in Sender => Comment(writer)' = Comment(writer))
      BY <3>1, <1>3
    <3>3. draft = Proposed(writer) /\ seen[writer] = LastDraft /\ ~Recorded(writer)
          /\ (writer \in Sender => Unsent(seen[writer]) /\ Comment(writer) \in remote)
      BY <3>1 DEF Writes
    <3>4. ~Recorded(writer)'
      BY <3>1, <3>3, <1>1
    <3>5. writer \in Sender => Unsent(seen[writer])'
      BY <3>1, <3>2, <3>3 DEF Unsent
    <3> QED
      BY <3>1, <3>2, <3>3, <3>4, <3>5, <1>1
  <2>3. \A q \in Caller : at'[q] = "replaced" => writer' = q
    BY DEF Rest, Writes
  <2> QED
    BY <2>1, <2>2, <2>3 DEF Writes
<1>5. RecordTruthful'
  <2>1. \A i \in DOMAIN ledger : ledger[i].by \in Sender => to'[ledger[i].by] = to[ledger[i].by]
    BY DEF Rest, Records, Telling, OutboxConstants, Caller
  <2> QED
    BY <2>1 DEF Rest, RecordTruthful
<1>6. Stands' /\ Once'
  BY <1>1 DEF Rest, Stands, Once
<1> QED
  BY <1>2, <1>4, <1>5, <1>6
(* What is said of the sends, if only the call p moves. *)
LEMMA RestOfSends ==
  ASSUME OutboxConstants, OutboxInv, OutboxTypeOK', NEW p \in Caller,
         \A q \in Caller \ {p} : at'[q] = at[q] /\ seen'[q] = seen[q],
         \A q \in Sender \ {p} : to'[q] = to[q] /\ reviewed'[q] = reviewed[q],
         remote \subseteq remote', \A c \in remote' : c \in remote \/ c.by = p,
         p \in Sender =>
           /\ at'[p] \in Posting \cup {"previewed"} => to'[p] \in Target
           /\ at'[p] \in Posting =>
                Unsent(seen'[p]) /\ reviewed'[p] = [draft |-> seen'[p], target |-> to'[p]]
           /\ at'[p] \in Delivering => Comment(p)' \in remote'
           /\ \A c \in remote' : c.by = p =>
                /\ at'[p] \in MayHave /\ c = Comment(p)'
                /\ reviewed'[p] = [draft |-> seen'[p], target |-> to'[p]]
  PROVE  (Shown /\ Posts /\ Comments)'
<1> USE DEF OutboxInv
<1>1. Sender \subseteq Caller /\ \A c \in remote' : c.by \in Sender
  BY DEF OutboxTypeOK, Caller
<1>2. \A q \in Sender \ {p} : Comment(q)' = Comment(q)
  BY <1>1 DEF Comment
<1>3. Shown'
  BY <1>1 DEF Shown, Unsent
<1>4. Posts'
  BY <1>1, <1>2 DEF Posts
<1>5. Comments'
  <2> SUFFICES ASSUME NEW c \in remote'
               PROVE  /\ at'[c.by] \in MayHave /\ c = Comment(c.by)'
                      /\ reviewed'[c.by] = [draft |-> seen'[c.by], target |-> to'[c.by]]
    BY DEF Comments
  <2>1. CASE c.by = p
    BY <2>1, <1>1
  <2>2. CASE c.by # p
    <3>1. c \in remote /\ c.by \in Sender \ {p}
      BY <2>2, <1>1
    <3> QED
      BY <3>1, <1>1, <1>2 DEF Comments
  <2> QED
    BY <2>1, <2>2
<1> QED
  BY <1>3, <1>4, <1>5
LEMMA InvOf ==
  ASSUME OutboxConstants, OutboxInv, OutboxTypeOK', NEW p \in Caller, Rest(p),
         remote \subseteq remote', \A c \in remote' : c \in remote \/ c.by = p,
         p \in Sender /\ at[p] \notin {"idle", "previewed"} => to'[p] = to[p],
         p \in Sender =>
           /\ at'[p] \in Posting \cup {"previewed"} => to'[p] \in Target
           /\ at'[p] \in Posting =>
                Unsent(seen'[p]) /\ reviewed'[p] = [draft |-> seen'[p], target |-> to'[p]]
           /\ at'[p] \in Delivering => Comment(p)' \in remote'
           /\ \A c \in remote' : c.by = p =>
                /\ at'[p] \in MayHave /\ c = Comment(p)'
                /\ reviewed'[p] = [draft |-> seen'[p], target |-> to'[p]]
  PROVE  OutboxInv'
<1>1. (Writes /\ Records /\ RecordTruthful /\ Stands /\ Once)'
  BY RestOfLedger
<1>2. (Shown /\ Posts /\ Comments)'
  BY RestOfSends DEF Rest
<1> QED
  BY <1>1, <1>2 DEF OutboxInv

(* The steps of a call, one by one.  A writer has replaced the draft or is  *)
(* dead, and does nothing else.                                             *)
LEMMA WriterWaits ==
  ASSUME OutboxConstants, OutboxInv, NEW p \in Caller, at[p] \notin {"replaced", "dead"}
  PROVE  writer # p
BY DEF OutboxInv, Writes, OutboxConstants

LEMMA PreviewStep ==
  ASSUME OutboxConstants, OutboxInv, NEW p \in Sender, Preview(p)
  PROVE  OutboxInv'
<1> USE DEF OutboxInv
<1>0. p \in Caller /\ p \notin Saver /\ OutboxTypeOK'
  BY PreviewTyped DEF Caller, OutboxConstants
<1>1. /\ at[p] = "idle" /\ at' = [at EXCEPT ![p] = "previewed"]
      /\ UNCHANGED <<draft, ledger, writer, remote, seen>>
  BY DEF Preview, Goto
<1>2. PICK t \in Target :
        /\ reviewed' = [reviewed EXCEPT ![p] = [draft |-> draft, target |-> t]]
        /\ to' = [to EXCEPT ![p] = t]
  BY DEF Preview
<1>3. writer # p
  BY <1>0, <1>1, WriterWaits
<1>4. Rest(p)
  BY <1>0, <1>1, <1>2, <1>3 DEF Rest, OutboxTypeOK, Telling, Caller
<1>5. \A c \in remote : c.by # p
  BY <1>1 DEF Comments, MayHave, Delivering
<1>6. to'[p] \in Target
  BY <1>2 DEF OutboxTypeOK
<1>7. at'[p] = "previewed"
  BY <1>0, <1>1 DEF OutboxTypeOK
<1> QED
  BY <1>0, <1>1, <1>4, <1>5, <1>6, <1>7, InvOf DEF Posting, Delivering

LEMMA SendStep ==
  ASSUME OutboxConstants, OutboxInv, NEW p \in Sender, Send(p)
  PROVE  OutboxInv'
<1> USE DEF OutboxInv
<1>0. p \in Caller /\ OutboxTypeOK'
  BY SendTyped DEF Caller
<1>1. /\ at[p] = "previewed" /\ seen' = [seen EXCEPT ![p] = draft]
      /\ UNCHANGED <<draft, ledger, writer, remote, to, reviewed>>
  BY DEF Send
<1>2. \/ /\ at' = [at EXCEPT ![p] = "post"] /\ Unsent(draft)
         /\ reviewed[p] = [draft |-> draft, target |-> to[p]]
      \/ at' = [at EXCEPT ![p] = "refused"]
  BY DEF Send, Goto
<1>3. writer # p
  BY <1>0, <1>1, WriterWaits
<1>4. Rest(p)
  BY <1>0, <1>1, <1>2, <1>3 DEF Rest, OutboxTypeOK, Telling
<1>5. \A c \in remote : c.by # p
  BY <1>1 DEF Comments, MayHave, Delivering
<1>6. to[p] \in Target
  BY <1>1 DEF Shown
<1>7. /\ at'[p] \in {"post", "refused"} /\ seen'[p] = draft
      /\ at'[p] = "post" => Unsent(draft) /\ reviewed[p] = [draft |-> draft, target |-> to[p]]
  BY <1>0, <1>1, <1>2 DEF OutboxTypeOK
<1> QED
  BY <1>0, <1>1, <1>4, <1>5, <1>6, <1>7, InvOf DEF Posting, Delivering

LEMMA DeliverStep ==
  ASSUME OutboxConstants, OutboxInv, NEW p \in Sender, Deliver(p)
  PROVE  OutboxInv'
<1> USE DEF OutboxInv
<1>0. p \in Caller /\ OutboxTypeOK'
  BY DeliverTyped DEF Caller
<1>1. /\ at[p] = "post" /\ UNCHANGED <<draft, ledger, writer, seen, to, reviewed>>
  BY DEF Deliver
<1>2. \/ remote' = remote /\ at' = [at EXCEPT ![p] = "failed"]
      \/ remote' \in {remote, remote \cup {Comment(p)}} /\ at' = [at EXCEPT ![p] = "unknown"]
      \/ remote' = remote \cup {Comment(p)} /\ at' = [at EXCEPT ![p] = "posted"]
  BY DEF Deliver, Goto
<1>3. writer # p
  BY <1>0, <1>1, WriterWaits
<1>4. Rest(p)
  BY <1>0, <1>1, <1>2, <1>3 DEF Rest, OutboxTypeOK, Telling
<1>5. \A c \in remote : c.by # p
  BY <1>1 DEF Comments, MayHave, Delivering
<1>6. to[p] \in Target /\ Unsent(seen[p]) /\ reviewed[p] = [draft |-> seen[p], target |-> to[p]]
  BY <1>1 DEF Shown, Posting
<1>7. Comment(p)' = Comment(p) /\ Comment(p).by = p
  BY <1>1 DEF Comment
<1>8. at'[p] \in {"failed", "unknown", "posted"} /\ (at'[p] = "posted" => Comment(p) \in remote')
  BY <1>0, <1>1, <1>2 DEF OutboxTypeOK
<1>9. \A c \in remote' : c \in remote \/ (c = Comment(p) /\ at'[p] \in {"unknown", "posted"})
  <2>1. p \in DOMAIN at
    BY <1>0 DEF OutboxTypeOK
  <2> QED
    BY <2>1, <1>2
<1> QED
  BY <1>0, <1>1, <1>2, <1>4, <1>5, <1>6, <1>7, <1>8, <1>9, InvOf DEF Posting, Delivering, MayHave

LEMMA ReadStep ==
  ASSUME OutboxConstants, OutboxInv, NEW p \in Saver, ReadDraft(p) \/ HashDraft(p)
  PROVE  OutboxInv'
<1> USE DEF OutboxInv
<1>0. p \in Caller /\ p \notin Sender /\ OutboxTypeOK'
  BY ReadsTyped DEF Caller, OutboxConstants
<1>1. /\ at[p] \in {"idle", "hash"} /\ seen' = [seen EXCEPT ![p] = draft]
      /\ UNCHANGED <<draft, ledger, writer, remote, to, reviewed>>
      /\ \E l \in {"posted", "hash", "refused", "failed"} : at' = [at EXCEPT ![p] = l]
  BY DEF ReadDraft, HashDraft, Goto
<1>2. writer # p
  BY <1>0, <1>1, WriterWaits
<1>3. Rest(p)
  BY <1>0, <1>1, <1>2 DEF Rest, OutboxTypeOK, Telling
<1>4. \A c \in remote : c.by # p
  BY <1>0 DEF OutboxTypeOK
<1> QED
  BY <1>0, <1>1, <1>3, <1>4, InvOf

(* Of a transaction: a proposal, a refusal, the last reading, a death. *)
Refused(p) ==
  /\ at[p] = "apply" /\ Goto(p, Failed(p))
  /\ UNCHANGED <<draft, ledger, writer, remote, seen, to, reviewed, base>>

LEMMA WaitingStep ==
  ASSUME OutboxConstants, OutboxInv, OutboxTypeOK', NEW p \in Caller,
         Propose(p) \/ Refused(p) \/ Reread(p) \/ Crash(p)
  PROVE  OutboxInv'
<1> USE DEF OutboxInv
<1>1. UNCHANGED <<draft, ledger, writer, remote, seen, to, reviewed>>
  BY DEF Propose, Refused, Reread, Crash
<1>2. PICK l : at' = [at EXCEPT ![p] = l]
  BY DEF Propose, Refused, Reread, Crash, Goto
<1>3. at'[p] = l
  BY <1>2 DEF OutboxTypeOK
<1>4. \/ at[p] = "posted" /\ l = "apply"
      \/ at[p] = "apply" /\ l = Failed(p)
      \/ at[p] = "reread" /\ l = "saved" /\ p \in Saver
      \/ at[p] = "reread" /\ l \in {"sent", "reconcile"}
      \/ at[p] \notin Ended \cup {"idle"} /\ l = "dead"
  <2>1. DOMAIN at = Caller
    BY DEF OutboxTypeOK
  <2>2. CASE Propose(p)
    BY <2>1, <2>2, <1>3 DEF Propose, Goto
  <2>3. CASE Refused(p)
    BY <2>1, <2>3, <1>3 DEF Refused, Goto
  <2>4. CASE Reread(p)
    BY <2>1, <2>4, <1>3 DEF Reread, Goto
  <2>5. CASE Crash(p)
    BY <2>1, <2>5, <1>3 DEF Crash, Goto
  <2> QED
    BY <2>2, <2>3, <2>4, <2>5
<1>5. Failed(p) = IF p \in Sender THEN "reconcile" ELSE "failed"
  BY DEF Failed
<1>6. l # "dead" => writer # p
  BY <1>4, WriterWaits DEF Ended
<1>7. l \in {"reread", "sent"} => Recorded(p)
  BY <1>4, <1>5 DEF Records
<1>8. Rest(p)
  BY <1>1, <1>2, <1>3, <1>4, <1>5, <1>6, <1>7 DEF Rest, OutboxTypeOK, Telling, Ended, Caller
<1>9. ASSUME p \in Sender
      PROVE  /\ l \notin {"previewed", "post"}
             /\ l \in Delivering => at[p] \in Delivering
             /\ at[p] \in MayHave => l \in MayHave
  <2>1. p \notin Saver
    BY <1>9 DEF OutboxConstants
  <2> QED
    BY <1>4, <1>5, <1>9, <2>1 DEF Delivering, MayHave, Ended
<1>10. ASSUME p \in Sender
       PROVE  /\ at'[p] \in Posting \cup {"previewed"} => to'[p] \in Target
              /\ at'[p] \in Posting =>
                   Unsent(seen'[p]) /\ reviewed'[p] = [draft |-> seen'[p], target |-> to'[p]]
              /\ at'[p] \in Delivering => Comment(p)' \in remote'
              /\ \A c \in remote' : c.by = p =>
                   /\ at'[p] \in MayHave /\ c = Comment(p)'
                   /\ reviewed'[p] = [draft |-> seen'[p], target |-> to'[p]]
  <2>1. Comment(p)' = Comment(p)
    BY <1>1 DEF Comment
  <2>2. at'[p] \in Delivering => Comment(p)' \in remote'
    BY <1>1, <1>3, <1>9, <1>10, <2>1 DEF Posts
  <2>3. \A c \in remote' : c.by = p =>
           /\ at'[p] \in MayHave /\ c = Comment(p)'
           /\ reviewed'[p] = [draft |-> seen'[p], target |-> to'[p]]
    BY <1>1, <1>3, <1>9, <1>10, <2>1 DEF Comments
  <2>4. at'[p] \in Posting \cup {"previewed"} => at[p] \in Posting
    BY <1>3, <1>9, <1>10 DEF Posting
  <2> QED
    BY <1>1, <1>10, <2>2, <2>3, <2>4 DEF Shown, Posting
<1> QED
  BY <1>1, <1>8, <1>10, InvOf

(* What is said of the sends, if only labels move, each in its class. *)
LEMMA SendsStay ==
  ASSUME OutboxInv, UNCHANGED <<remote, seen, to, reviewed>>,
         \A q \in Sender :
           /\ at'[q] \in Posting \cup {"previewed"} => at[q] \in Posting \cup {"previewed"}
           /\ at'[q] \in Posting => at[q] \in Posting
           /\ at'[q] \in Delivering => at[q] \in Delivering
           /\ at[q] \in MayHave => at'[q] \in MayHave
  PROVE  (Shown /\ Posts /\ Comments)'
<1> USE DEF OutboxInv
<1>1. \A q \in Sender : Comment(q)' = Comment(q)
  BY DEF Comment
<1>2. Shown'
  BY DEF Shown, Unsent
<1>3. Posts'
  BY <1>1 DEF Posts
<1>4. \A c \in remote : c.by \in Sender
  BY DEF OutboxTypeOK
<1>5. Comments'
  BY <1>1, <1>4 DEF Comments
<1> QED
  BY <1>2, <1>3, <1>5

(* The writer puts its draft in place. *)
LEMMA ReplaceStep ==
  ASSUME OutboxConstants, OutboxInv, OutboxTypeOK', NEW p \in Caller,
         at[p] = "apply", Acceptable(p), draft' = Proposed(p), writer' = p,
         at' = [at EXCEPT ![p] = "replaced"],
         UNCHANGED <<ledger, remote, seen, to, reviewed, base>>
  PROVE  OutboxInv'
<1> USE DEF OutboxInv
<1>1. LastDraft' = LastDraft /\ \A q \in Caller : Recorded(q)' = Recorded(q)
  BY DEF LastDraft, Recorded
<1>2. at'[p] = "replaced" /\ \A q \in Caller \ {p} : at'[q] = at[q]
  BY DEF OutboxTypeOK
<1>3. \A q \in Sender : Comment(q)' = Comment(q)
  BY DEF Comment
<1>4. (Shown /\ Posts /\ Comments)'
  <2>1. \A q \in Sender : /\ at'[q] \in Posting \cup {"previewed"} => at[q] \in Posting \cup {"previewed"}
                          /\ at'[q] \in Posting => at[q] \in Posting
                          /\ at'[q] \in Delivering => at[q] \in Delivering
                          /\ at[q] \in MayHave => at'[q] \in MayHave
    BY <1>2 DEF Posting, Delivering, MayHave, Caller
  <2> QED
    BY <2>1, SendsStay
<1>5. Records'
  <2>1. \A i \in DOMAIN ledger : ledger[i].by # None => ledger[i].by \in Caller
    BY LedgerTyped
  <2>2. \A i \in DOMAIN ledger' : ledger'[i].by # None => at'[ledger'[i].by] \in Telling
    BY <2>1, <1>2 DEF Records, Telling
  <2>3. \A q \in Caller : at'[q] \in {"reread", "sent"} => Recorded(q)'
    BY <1>1, <1>2 DEF Records
  <2> QED
    BY <2>2, <2>3 DEF Records
<1>6. Writes'
  <2>1. writer = None /\ draft = seen[p] /\ p # None
    BY DEF Acceptable, OutboxConstants
  <2>2. seen'[p] = LastDraft'
    BY <2>1, <1>1 DEF Writes
  <2>3. ~Recorded(p)
    <3>1. p # None /\ at[p] \notin Telling
      BY DEF OutboxConstants, Telling
    <3> QED
      BY <3>1 DEF Records, Recorded
  <2>4. p \in Sender => Unsent(seen[p]) /\ Comment(p) \in remote
    BY DEF Shown, Posts, Posting, Delivering
  <2>5. \A q \in Caller : at'[q] = "replaced" => q = p
    BY <1>2, <2>1 DEF Writes, OutboxConstants
  <2>6. Proposed(p)' = Proposed(p)
    BY DEF Proposed
  <2>7. Unsent(seen[p])' = Unsent(seen[p])
    BY DEF Unsent
  <2> QED
    BY <1>1, <1>2, <1>3, <2>1, <2>2, <2>3, <2>4, <2>5, <2>6, <2>7 DEF Writes
<1>7. (RecordTruthful /\ Stands /\ Once)'
  BY <1>1 DEF RecordTruthful, Stands, Once
<1> QED
  BY <1>4, <1>5, <1>6, <1>7

(* The ledger grows by one entry. *)
LEMMA Grown ==
  ASSUME OutboxTypeOK, NEW e, ledger' = Append(ledger, e)
  PROVE  /\ Len(ledger) \in Nat /\ DOMAIN ledger = 1..Len(ledger)
         /\ Len(ledger') = Len(ledger) + 1 /\ DOMAIN ledger' = 1..(Len(ledger) + 1)
         /\ \A i \in DOMAIN ledger : i \in DOMAIN ledger' /\ ledger'[i] = ledger[i]
         /\ ledger'[Len(ledger) + 1] = e /\ LastDraft' = e.draft
<1> DEFINE Entry == [draft : Draft \cup {None}, by : Caller \cup {None}]
<1>1. ledger \in Seq(Entry)
  BY DEF OutboxTypeOK
<1>2. Len(ledger) \in Nat /\ DOMAIN ledger = 1..Len(ledger)
  BY <1>1
<1>3. Len(ledger') = Len(ledger) + 1 /\ DOMAIN ledger' = 1..(Len(ledger) + 1)
  BY <1>1, <1>2
<1>4. \A i \in DOMAIN ledger : i \in DOMAIN ledger' /\ ledger'[i] = ledger[i]
  BY <1>1, <1>2, <1>3
<1>5. ledger'[Len(ledger) + 1] = e
  BY <1>1, <1>2
<1> QED
  BY <1>2, <1>3, <1>4, <1>5 DEF LastDraft

(* What the ledger says after it has grown, by a record of a delivery only  *)
(* if the draft was not delivered. *)
LEMMA LedgerStays ==
  ASSUME OutboxConstants, OutboxInv, NEW e, ledger' = Append(ledger, e),
         UNCHANGED <<remote, to>>, e.by \in Caller \cup {None},
         e.by = None => e.draft = LastDraft,
         e.by \in Sender =>
           /\ [by |-> e.by, body |-> e.draft.body, target |-> to[e.by]] \in remote
           /\ e.draft.delivery = e.by /\ LastDraft = [e.draft EXCEPT !.delivery = None]
           /\ LastDraft.delivery = None
  PROVE  (RecordTruthful /\ Stands /\ Once)'
<1> USE DEF OutboxInv
<1> DEFINE n == Len(ledger)
<1>1. /\ n \in Nat /\ DOMAIN ledger = 1..n /\ DOMAIN ledger' = 1..(n + 1)
      /\ \A i \in DOMAIN ledger : i \in DOMAIN ledger' /\ ledger'[i] = ledger[i]
      /\ ledger'[n + 1] = e /\ LastDraft' = e.draft
  BY Grown
<1>2. 1 \in DOMAIN ledger /\ ledger[1].by = None /\ n \in DOMAIN ledger /\ ledger[n].draft = LastDraft
  BY <1>1 DEF Records, LastDraft
<1>3. None \notin Sender /\ None \notin Saver /\ \A p \in Sender : p \notin Saver
  BY DEF OutboxConstants, Caller
<1> HIDE DEF n
<1>4. ASSUME e.by \in Sender, NEW i \in DOMAIN ledger, ledger[i].by \in Sender
      PROVE  \E k \in DOMAIN ledger : i < k /\ ledger[k].by \in Saver
  <2>1. ledger[i].draft.delivery = ledger[i].by
    BY <1>4 DEF RecordTruthful
  <2>2. ledger[i].draft # LastDraft
    BY <2>1, <1>3, <1>4
  <2> QED
    BY <2>2, <1>4 DEF Stands
<1>5. RecordTruthful'
  <2> SUFFICES ASSUME NEW i \in DOMAIN ledger', ledger'[i].by \in Sender
               PROVE  /\ [by |-> ledger'[i].by, body |-> ledger'[i].draft.body,
                            target |-> to'[ledger'[i].by]] \in remote'
                      /\ ledger'[i].draft.delivery = ledger'[i].by
                      /\ ledger'[i - 1].draft = [ledger'[i].draft EXCEPT !.delivery = None]
    BY DEF RecordTruthful
  <2>1. CASE i = n + 1
    <3>1. i - 1 = n /\ ledger'[i - 1] = ledger[n]
      BY <2>1, <1>1, <1>2
    <3> QED
      BY <2>1, <3>1, <1>1, <1>2
  <2>2. CASE i # n + 1
    <3>1. i \in DOMAIN ledger /\ ledger'[i] = ledger[i] /\ i # 1
      BY <2>2, <1>1, <1>2, <1>3
    <3>2. i - 1 \in DOMAIN ledger /\ ledger'[i - 1] = ledger[i - 1]
      BY <3>1, <1>1
    <3> QED
      BY <3>1, <3>2 DEF RecordTruthful
  <2> QED
    BY <2>1, <2>2
<1>6. Stands'
  <2> SUFFICES ASSUME NEW i \in DOMAIN ledger', ledger'[i].by \in Sender
               PROVE  \/ ledger'[i].draft = LastDraft'
                      \/ \E k \in DOMAIN ledger' : i < k /\ ledger'[k].by \in Saver
    BY DEF Stands
  <2>1. CASE i = n + 1
    BY <2>1, <1>1
  <2>2. CASE i # n + 1
    <3>1. i \in DOMAIN ledger /\ ledger'[i] = ledger[i]
      BY <2>2, <1>1
    <3>2. CASE \E k \in DOMAIN ledger : i < k /\ ledger[k].by \in Saver
      BY <3>2, <1>1
    <3>3. CASE ledger[i].draft = LastDraft /\ e.by = None
      BY <3>1, <3>3, <1>1
    <3>4. CASE e.by \in Saver
      <4>1. n + 1 \in DOMAIN ledger' /\ i < n + 1
        BY <3>1, <1>1
      <4> QED
        BY <4>1, <3>4, <1>1
    <3>5. CASE e.by \in Sender
      BY <3>1, <3>2, <3>5, <1>4
    <3> QED
      BY <3>1, <3>2, <3>3, <3>4, <3>5 DEF Stands, Caller
  <2> QED
    BY <2>1, <2>2
<1>7. Once'
  <2> SUFFICES ASSUME NEW i \in DOMAIN ledger', NEW j \in DOMAIN ledger', i < j,
                      ledger'[i].by \in Sender, ledger'[j].by \in Sender
               PROVE  \E k \in DOMAIN ledger' : i < k /\ k < j /\ ledger'[k].by \in Saver
    BY DEF Once
  <2>1. i \in DOMAIN ledger /\ ledger'[i] = ledger[i]
    BY <1>1
  <2>2. CASE j = n + 1
    <3>1. PICK k \in DOMAIN ledger : i < k /\ ledger[k].by \in Saver
      BY <2>1, <2>2, <1>1, <1>4
    <3> QED
      BY <2>2, <3>1, <1>1
  <2>3. CASE j # n + 1
    <3>1. j \in DOMAIN ledger /\ ledger'[j] = ledger[j]
      BY <2>3, <1>1
    <3>2. PICK k \in DOMAIN ledger : i < k /\ k < j /\ ledger[k].by \in Saver
      BY <2>1, <3>1 DEF Once
    <3> QED
      BY <3>2, <1>1
  <2> QED
    BY <2>2, <2>3
<1> QED
  BY <1>5, <1>6, <1>7

LEMMA CommitStep ==
  ASSUME OutboxConstants, OutboxInv, OutboxTypeOK', NEW p \in Caller, Commit(p)
  PROVE  OutboxInv'
<1> USE DEF OutboxInv
<1> DEFINE e == [draft |-> draft, by |-> p]
           n == Len(ledger)
<1>1. /\ at[p] = "replaced" /\ at' = [at EXCEPT ![p] = "reread"]
      /\ ledger' = Append(ledger, e) /\ writer' = None
      /\ UNCHANGED <<draft, remote, seen, to, reviewed>>
  BY DEF Commit, Goto
<1>2. at'[p] = "reread" /\ \A q \in Caller \ {p} : at'[q] = at[q]
  BY <1>1 DEF OutboxTypeOK
<1>3. /\ writer = p /\ draft = Proposed(p) /\ seen[p] = LastDraft
      /\ p \in Sender => Unsent(seen[p]) /\ Comment(p) \in remote
  BY <1>1 DEF Writes, OutboxConstants
<1>4. p # None /\ e.by = p /\ e.draft = draft
  BY DEF OutboxConstants
<1>5. /\ n \in Nat /\ DOMAIN ledger = 1..n /\ DOMAIN ledger' = 1..(n + 1)
      /\ \A i \in DOMAIN ledger : i \in DOMAIN ledger' /\ ledger'[i] = ledger[i]
      /\ ledger'[n + 1] = e /\ LastDraft' = e.draft
  BY <1>1, Grown
<1> HIDE DEF e, n
<1>6. (Shown /\ Posts /\ Comments)'
  <2>1. \A q \in Sender :
          /\ at'[q] \in Posting \cup {"previewed"} => at[q] \in Posting \cup {"previewed"}
          /\ at'[q] \in Posting => at[q] \in Posting
          /\ at'[q] \in Delivering => at[q] \in Delivering
          /\ at[q] \in MayHave => at'[q] \in MayHave
    BY <1>1, <1>2 DEF Posting, Delivering, MayHave, Caller
  <2> QED
    BY <1>1, <2>1, SendsStay
<1>7. (RecordTruthful /\ Stands /\ Once)'
  <2>1. ASSUME p \in Sender
        PROVE  /\ [by |-> e.by, body |-> e.draft.body, target |-> to[e.by]] \in remote
               /\ e.draft.delivery = e.by /\ LastDraft = [e.draft EXCEPT !.delivery = None]
               /\ LastDraft.delivery = None
    <3>1. seen[p] \in Draft /\ seen[p].delivery = None
      BY <1>3, <2>1 DEF OutboxTypeOK, Unsent
    <3>2. /\ Proposed(p).delivery = p /\ Proposed(p).body = seen[p].body
          /\ [Proposed(p) EXCEPT !.delivery = None] = seen[p]
      BY <2>1, <3>1, Deliveries
    <3>3. e.draft = Proposed(p)
      BY <1>3, <1>4
    <3>4. Comment(p) = [by |-> e.by, body |-> e.draft.body, target |-> to[e.by]]
      BY <1>4, <3>2, <3>3 DEF Comment
    <3> QED
      BY <1>3, <1>4, <2>1, <3>1, <3>2, <3>3, <3>4
  <2> QED
    BY <1>1, <1>4, <2>1, LedgerStays
<1>8. Records'
  <2>1. \A i \in DOMAIN ledger : ledger[i].by # None =>
           ledger[i].by \in Caller /\ ledger[i].by # p /\ at[ledger[i].by] \in Telling
    BY <1>1, LedgerTyped DEF Records, Telling
  <2>2. \A i \in DOMAIN ledger' : ledger'[i].by # None => at'[ledger'[i].by] \in Telling
    <3> SUFFICES ASSUME NEW i \in DOMAIN ledger', ledger'[i].by # None
                 PROVE  at'[ledger'[i].by] \in Telling
      OBVIOUS
    <3>1. CASE i = n + 1
      BY <3>1, <1>2, <1>4, <1>5 DEF Telling
    <3>2. CASE i # n + 1
      <4>1. i \in DOMAIN ledger /\ ledger'[i] = ledger[i]
        BY <3>2, <1>5
      <4> QED
        BY <4>1, <2>1, <1>2
    <3> QED
      BY <3>1, <3>2
  <2>3. ASSUME NEW q \in Caller, at'[q] \in {"reread", "sent"}
        PROVE  Recorded(q)'
    <3>1. CASE q = p
      <4>1. n + 1 \in DOMAIN ledger' /\ ledger'[n + 1].by = p
        BY <1>4, <1>5
      <4> QED
        BY <3>1, <4>1 DEF Recorded
    <3>2. CASE q # p
      <4>1. PICK i \in DOMAIN ledger : ledger[i].by = q
        BY <3>2, <2>3, <1>2 DEF Records, Recorded
      <4> QED
        BY <4>1, <1>5 DEF Recorded
    <3> QED
      BY <3>1, <3>2
  <2>4. 1 \in DOMAIN ledger' /\ ledger'[1].by = None
    BY <1>5 DEF Records
  <2> QED
    BY <2>2, <2>3, <2>4 DEF Records
<1>9. Writes'
  <2>1. \A q \in Caller : at'[q] # "replaced"
    BY <1>2, <1>3 DEF Writes
  <2> QED
    BY <2>1, <1>1, <1>4, <1>5 DEF Writes
<1> QED
  BY <1>6, <1>7, <1>8, <1>9

LEMMA RollBackStep ==
  ASSUME OutboxConstants, OutboxInv, OutboxTypeOK', NEW p \in Caller, RollBack(p)
  PROVE  OutboxInv'
<1> USE DEF OutboxInv
<1> DEFINE e == [draft |-> LastDraft, by |-> None]
           n == Len(ledger)
<1>1. /\ writer = p /\ writer' = None /\ draft' = LastDraft
      /\ ledger' = Append(ledger, e)
      /\ UNCHANGED <<remote, seen, to, reviewed>>
  BY DEF RollBack, LastDraft
<1>2. /\ \A q \in Caller \ {p} : at'[q] = at[q]
      /\ \/ at[p] = "dead" /\ at'[p] = "dead"
         \/ at[p] = "replaced" /\ at'[p] = IF p \in Sender THEN "reconcile" ELSE "failed"
  BY DEF RollBack, Goto, Failed, OutboxTypeOK
<1>3. p # None /\ e.by = None /\ e.draft = LastDraft
  BY DEF OutboxConstants
<1>4. /\ n \in Nat /\ DOMAIN ledger = 1..n /\ DOMAIN ledger' = 1..(n + 1)
      /\ \A i \in DOMAIN ledger : i \in DOMAIN ledger' /\ ledger'[i] = ledger[i]
      /\ ledger'[n + 1] = e /\ LastDraft' = e.draft
  BY <1>1, Grown
<1> HIDE DEF e, n
<1>5. (Shown /\ Posts /\ Comments)'
  <2>1. \A q \in Sender :
          /\ at'[q] \in Posting \cup {"previewed"} => at[q] \in Posting \cup {"previewed"}
          /\ at'[q] \in Posting => at[q] \in Posting
          /\ at'[q] \in Delivering => at[q] \in Delivering
          /\ at[q] \in MayHave => at'[q] \in MayHave
    BY <1>2 DEF Posting, Delivering, MayHave, Caller
  <2> QED
    BY <1>1, <2>1, SendsStay
<1>6. (RecordTruthful /\ Stands /\ Once)'
  <2>1. None \notin Sender
    BY DEF OutboxConstants, Caller
  <2> QED
    BY <1>1, <1>3, <2>1, LedgerStays
<1>7. Records'
  <2>1. \A i \in DOMAIN ledger : ledger[i].by # None =>
           ledger[i].by \in Caller /\ ledger[i].by # p /\ at[ledger[i].by] \in Telling
    BY <1>1, <1>3, LedgerTyped DEF Records, Writes, Recorded
  <2>2. \A i \in DOMAIN ledger' : ledger'[i].by # None => at'[ledger'[i].by] \in Telling
    <3> SUFFICES ASSUME NEW i \in DOMAIN ledger', ledger'[i].by # None
                 PROVE  at'[ledger'[i].by] \in Telling
      OBVIOUS
    <3>1. i \in DOMAIN ledger /\ ledger'[i] = ledger[i]
      BY <1>3, <1>4
    <3> QED
      BY <3>1, <2>1, <1>2
  <2>3. ASSUME NEW q \in Caller, at'[q] \in {"reread", "sent"}
        PROVE  Recorded(q)'
    <3>1. at[q] \in {"reread", "sent"}
      BY <2>3, <1>2
    <3>2. PICK i \in DOMAIN ledger : ledger[i].by = q
      BY <3>1 DEF Records, Recorded
    <3> QED
      BY <3>2, <1>4 DEF Recorded
  <2>4. 1 \in DOMAIN ledger' /\ ledger'[1].by = None
    BY <1>4 DEF Records
  <2> QED
    BY <2>2, <2>3, <2>4 DEF Records
<1>8. Writes'
  <2>1. \A q \in Caller : at'[q] # "replaced"
    BY <1>1, <1>2 DEF Writes
  <2> QED
    BY <2>1, <1>1, <1>3, <1>4 DEF Writes
<1> QED
  BY <1>5, <1>6, <1>7, <1>8
-----------------------------------------------------------------------------
LEMMA OutboxBegins ==
  ASSUME OutboxConstants, OutboxInit
  PROVE  OutboxInv
<1>1. OutboxTypeOK
  BY InitTyped
<1>2. /\ ledger = <<[draft |-> draft, by |-> None]>> /\ writer = None /\ remote = {}
      /\ at = [p \in Caller |-> "idle"]
  BY DEF OutboxInit
<1>3. /\ Len(ledger) = 1 /\ DOMAIN ledger = {1} /\ ledger[1].draft = draft /\ ledger[1].by = None
  BY <1>2
<1>4. None \notin Sender /\ Sender \subseteq Caller
  BY DEF OutboxConstants, Caller
<1>5. \A p \in Caller : at[p] = "idle"
  BY <1>2
<1>6. Shown /\ Posts /\ Comments
  BY <1>2, <1>5, <1>4 DEF Shown, Posts, Comments, Posting, Delivering
<1>7. Writes
  BY <1>2, <1>3, <1>5 DEF Writes, LastDraft
<1>8. Records
  BY <1>3, <1>5 DEF Records
<1>9. RecordTruthful /\ Stands /\ Once
  BY <1>3, <1>4 DEF RecordTruthful, Stands, Once
<1> QED
  BY <1>1, <1>6, <1>7, <1>8, <1>9 DEF OutboxInv

LEMMA InvNext ==
  ASSUME OutboxConstants, OutboxInv, [OutboxNext]_outboxVars
  PROVE  OutboxInv'
<1>1. OutboxTypeOK /\ Shown /\ 1 \in DOMAIN ledger
  BY DEF OutboxInv, Records
<1>2. ASSUME NEW p \in Sender, Preview(p) \/ Send(p) \/ Deliver(p)
      PROVE  OutboxInv'
  BY <1>2, PreviewStep, SendStep, DeliverStep
<1>3. ASSUME NEW p \in Saver, ReadDraft(p) \/ HashDraft(p)
      PROVE  OutboxInv'
  BY <1>3, ReadStep
<1>4. ASSUME NEW p \in Caller, Transact(p)
      PROVE  OutboxInv'
  <2>1. OutboxTypeOK'
    BY <1>1, <1>4, TransactTyped
  <2>2. CASE Propose(p) \/ Reread(p) \/ Crash(p)
    BY <2>1, <2>2, WaitingStep
  <2>3. CASE Apply(p)
    <3>1. \/ Refused(p)
          \/ /\ at[p] = "apply" /\ Acceptable(p) /\ draft' = Proposed(p) /\ writer' = p
             /\ at' = [at EXCEPT ![p] = "replaced"]
             /\ UNCHANGED <<ledger, remote, seen, to, reviewed, base>>
      BY <2>3 DEF Apply, Refused, Goto
    <3> QED
      BY <2>1, <3>1, WaitingStep, ReplaceStep
  <2>4. CASE Commit(p)
    BY <2>1, <2>4, CommitStep
  <2>5. CASE RollBack(p)
    BY <2>1, <2>5, RollBackStep
  <2> QED
    BY <1>4, <2>2, <2>3, <2>4, <2>5 DEF Transact
<1>5. CASE UNCHANGED outboxVars
  <2>1. UNCHANGED <<draft, ledger, writer, remote, at, seen, to, reviewed, base>>
    BY <1>5 DEF outboxVars
  <2>2. \A p \in Caller : Recorded(p)' = Recorded(p) /\ Proposed(p)' = Proposed(p)
    BY <2>1 DEF Recorded, Proposed
  <2>3. OutboxTypeOK' /\ (Shown /\ Posts /\ Comments)'
    BY <2>1, SendsStay DEF OutboxInv, OutboxTypeOK
  <2>4. Writes'
    BY <2>1, <2>2 DEF OutboxInv, Writes, LastDraft, Recorded, Proposed, Comment, Unsent
  <2>5. Records'
    BY <2>1, <2>2 DEF OutboxInv, Records
  <2>6. (RecordTruthful /\ Stands /\ Once)'
    BY <2>1 DEF OutboxInv, RecordTruthful, Stands, Once, LastDraft
  <2> QED
    BY <2>3, <2>4, <2>5, <2>6 DEF OutboxInv
<1> QED
  BY <1>2, <1>3, <1>4, <1>5 DEF OutboxNext

LEMMA InvTells ==
  ASSUME OutboxConstants, OutboxInv
  PROVE  DeliveriesTold
<1> USE DEF OutboxInv
<1>1. NothingUnreviewed
  <2> SUFFICES ASSUME NEW c \in remote
               PROVE  reviewed[c.by].draft.body = c.body /\ reviewed[c.by].target = c.target
    BY DEF NothingUnreviewed
  <2>1. /\ c = [by |-> c.by, body |-> seen[c.by].body, target |-> to[c.by]]
        /\ reviewed[c.by] = [draft |-> seen[c.by], target |-> to[c.by]]
    BY DEF Comments, Comment
  <2>2. c.body = seen[c.by].body /\ c.target = to[c.by]
    BY <2>1
  <2> QED
    BY <2>1, <2>2
<1>2. ASSUME NEW p \in Sender
      PROVE  /\ at[p] \in {"failed", "refused"} => ~Posted(p) /\ ~Recorded(p)
             /\ at[p] = "unknown" => ~Recorded(p)
             /\ at[p] = "reconcile" => Posted(p)
             /\ at[p] = "sent" => Posted(p) /\ Recorded(p)
  <2>1. p # None /\ p \in Caller
    BY DEF OutboxConstants, Caller
  <2>2. Posted(p) => at[p] \in MayHave
    BY DEF Posted, Comments
  <2>3. Recorded(p) => at[p] \in Telling
    BY <2>1 DEF Recorded, Records
  <2>4. at[p] \in Delivering => Posted(p)
    BY DEF Posts, Posted, Comment
  <2>5. at[p] = "sent" => Recorded(p)
    BY <2>1 DEF Records
  <2> QED
    BY <2>2, <2>3, <2>4, <2>5 DEF MayHave, Delivering, Telling
<1>3. ASSUME NoSaveAfterSend, NEW p \in Sender, NEW q \in Sender, at[p] = "sent", at[q] = "sent"
      PROVE  p = q
  <2>1. p \in Caller /\ q \in Caller
    BY DEF Caller
  <2>2. PICK i \in DOMAIN ledger : ledger[i].by = p
    BY <1>3, <2>1 DEF Records, Recorded
  <2>3. PICK j \in DOMAIN ledger : ledger[j].by = q
    BY <1>3, <2>1 DEF Records, Recorded
  <2>4. DOMAIN ledger = 1..Len(ledger) /\ Len(ledger) \in Nat
    BY LedgerTyped
  <2>5. ASSUME NEW a \in DOMAIN ledger, NEW b \in DOMAIN ledger, a < b,
               ledger[a].by \in Sender, ledger[b].by \in Sender
        PROVE  FALSE
    <3>1. PICK k \in DOMAIN ledger : a < k /\ k < b /\ ledger[k].by \in Saver
      BY <2>5 DEF Once
    <3>2. k < a
      BY <1>3, <2>5, <3>1 DEF NoSaveAfterSend
    <3> QED
      BY <2>4, <3>1, <3>2
  <2>6. ~(i < j) /\ ~(j < i)
    BY <2>2, <2>3, <2>5
  <2> QED
    BY <2>2, <2>3, <2>4, <2>6
<1>4. OutcomesTell
  BY <1>2, <1>3 DEF OutcomesTell
<1> QED
  BY <1>1, <1>4 DEF DeliveriesTold

LEMMA OutboxSafe ==
  ASSUME OutboxConstants
  PROVE  OutboxSpec => []OutboxInv
<1>1. OutboxInit => OutboxInv
  BY OutboxBegins
<1>2. OutboxInv /\ [OutboxNext]_outboxVars => OutboxInv'
  BY InvNext
<1> QED
  BY <1>1, <1>2, PTL DEF OutboxSpec

(* Sends and saves of a draft keep every variable in its type.              *)
THEOREM OutboxTyped ==
  ASSUME OutboxConstants
  PROVE  OutboxSpec => []OutboxTypeOK
<1>1. OutboxInv => OutboxTypeOK
  BY DEF OutboxInv
<1> QED
  BY <1>1, OutboxSafe, PTL

(* Whatever saves, lost answers, crashes and other senders come between,    *)
(* nothing is posted that its operator was not shown, every record of a     *)
(* delivery names a comment that exists and changes nothing else, and what  *)
(* the callers of send are told is true (delivery.py, OutboxSendService.send). *)
THEOREM DeliveriesAreTold ==
  ASSUME OutboxConstants
  PROVE  OutboxSpec => []DeliveriesTold
<1>1. OutboxConstants /\ OutboxInv => DeliveriesTold
  BY InvTells
<1> QED
  BY <1>1, OutboxSafe, PTL

-----------------------------------------------------------------------------
(* Sets of naturals have a least element, bounded ones a greatest.          *)
LEMMA Least ==
  ASSUME NEW T, T \subseteq Nat, T # {}
  PROVE  \E x \in T : \A y \in T : x <= y
<1> DEFINE R == {ss \in Nat \X Nat : ss[1] < ss[2]}
<1>1. IsWellFoundedOn(R, Nat)
  BY NatLessThanWellFounded DEF OpToRel
<1>2. PICK x \in T : \A y \in T : ~ (<<y, x>> \in R)
  <2> HIDE DEF R
  <2> QED BY <1>1, WFMin
<1>3. ASSUME NEW y \in T PROVE x <= y
  <2>1. ~ (<<y, x>> \in R)
    BY <1>2
  <2>2. <<y, x>> \in Nat \X Nat
    OBVIOUS
  <2> QED
    BY <2>1, <2>2
<1> QED
  BY <1>3

LEMMA Greatest ==
  ASSUME NEW n \in Nat, NEW T, T \subseteq 1..n, T # {}
  PROVE  \E x \in T : \A y \in T : y <= x
<1> DEFINE U == {k \in Nat : n - k \in T}
<1>1. \A x \in T : n - x \in U
  <2> SUFFICES ASSUME NEW x \in T PROVE n - x \in Nat /\ n - (n - x) \in T
    OBVIOUS
  <2>1. x \in Nat /\ x <= n /\ n - (n - x) = x
    OBVIOUS
  <2> QED
    BY <2>1
<1>2. PICK k \in U : \A l \in U : k <= l
  BY <1>1, Least
<1>3. n - k \in T
  OBVIOUS
<1>4. ASSUME NEW y \in T PROVE y <= n - k
  <2>1. k <= n - y /\ n - y \in Nat
    BY <1>1, <1>2
  <2> QED
    BY <2>1
<1> QED
  BY <1>3, <1>4
-----------------------------------------------------------------------------
Status == {"pending", "duplicate", "quarantined", "processed"}
Step   == {"idle", "open", "create", "receipt", "move", "moving", "process"}

Manifest == [path : Path, content : Content, status : Status, receipt : BOOLEAN, batch : BOOLEAN]
Doing    == [step : Step, path : Path \cup {None}, id : Id \cup {None},
             status : Status \cup {None}, content : Content \cup {None}]

(* Of the constants: batches are sessions, and None is nothing else.        *)
IngestionConstants ==
  /\ Batch \subseteq Session /\ MaxSeq \in Nat
  /\ None \notin Session \cup Path \cup Content \cup Status \cup Id \cup Manifest

(* Manifests.  Their IDs are made of their paths, they name one artifact of *)
(* a path unless the operator has put other files there.                    *)
ManifestsTyped ==
  /\ manifest \in [Id -> Manifest \cup {None}]
  /\ intent \in Known \cup {None} /\ cited \subseteq Known
Named ==
  \A i \in Known : i[1] = Stem[manifest[i].path]
OnePerPath ==
  \A i, j \in Known :
     i # j /\ manifest[i].path = manifest[j].path => manifest[i].path \in puts

(* Files.  The two files at a path belong together, what is kept is what a  *)
(* manifest tells, and is in the raw zone no more.                          *)
FilesTyped ==
  /\ raw \in [Path -> [Part -> Content \cup {None}]]
  /\ kept \in [Id -> [Part -> Content \cup {None}]]
  /\ puts \subseteq Path
Whole ==
  \A p \in Path : \A c, d \in Part :
     raw[p][c] # None /\ raw[p][d] # None => raw[p][c] = raw[p][d]
Placed ==
  /\ \A i \in Id, part \in Part :
        kept[i][part] # None => i \in Known /\ kept[i][part] = manifest[i].content
  /\ \A i \in Known, part \in Part :
        kept[i][part] # None /\ raw[manifest[i].path][part] # None
        => manifest[i].path \in puts

World ==
  /\ ManifestsTyped /\ Named /\ OnePerPath
  /\ FilesTyped /\ Whole /\ Placed
  /\ EvidenceKept /\ MovesAreAuthorized /\ BatchesRefuseDuplicates

(* Sessions.  What one is to create has the next number, and its file is    *)
(* still where it was found, unless somebody put another one there.         *)
Creating(t) == t.step = "create"
Awaited(t)  == Creating(t) /\ manifest[t.id] = None

Targeted(t) ==
  /\ Creating(t) =>
       /\ t.path \in Path /\ t.content \in Content
       /\ t.status \in {"pending", "duplicate", "quarantined"}
       /\ t.id \in Id /\ t.id[1] = Stem[t.path]
       /\ \A m \in 1..MaxSeq : m < t.id[2] => <<t.id[1], m>> \in Known
  /\ t.step \in {"receipt", "move", "moving", "process"} => t.id \in Known

Untouched(t) ==
  Awaited(t) /\ t.path \notin puts =>
     /\ raw[t.path] = Both(t.content)
     /\ \A i \in Known : manifest[i].path # t.path

(* It moves only what it may.                                               *)
MayMove(i) ==
  \/ manifest[i].status = "quarantined" /\ manifest[i].receipt
  \/ manifest[i].status = "processed" /\ i \in cited

Authorized(t) ==
  /\ t.step = "receipt" => manifest[t.id].status = "quarantined"
  /\ t.step = "process" => manifest[t.id].status \in {"pending", "processed"} /\ t.id \in cited
  /\ t.step \in {"move", "moving"} => MayMove(t.id)

(* A batch, and who moves files, has the lock; what a batch is to register  *)
(* nobody has registered.                                                   *)
Locked(s, t) ==
  /\ t.step = "moving" => holder = s /\ intent = t.id
  /\ s \in Batch /\ t.step # "idle" => holder = s
  /\ s \in Batch /\ Awaited(t) /\ t.status = "pending" =>
       \A i \in Known : manifest[i].content # t.content

Fits(s, t) == t \in Doing /\ Targeted(t) /\ Untouched(t) /\ Authorized(t) /\ Locked(s, t)

Sessions ==
  /\ task \in [Session -> Doing] /\ holder \in Session \cup {None}
  /\ \A s \in Session : Fits(s, task[s])

IngestionInv == World /\ Sessions
-----------------------------------------------------------------------------
LEMMA InvInit ==
  ASSUME IngestionConstants, IngestionInit
  PROVE  IngestionInv
<1> USE DEF IngestionInit, Known, Both, Nowhere
<1>1. Known = {} /\ task \in [Session -> Doing]
  BY DEF Idle, Doing, Step
<1>2. raw \in [Path -> [Part -> Content \cup {None}]]
  OBVIOUS
<1>3. World
  BY <1>1, <1>2 DEF World, ManifestsTyped, Named, OnePerPath, FilesTyped, Whole, Placed,
       EvidenceKept, MovesAreAuthorized, BatchesRefuseDuplicates
<1>4. Sessions
  BY <1>1 DEF Sessions, Fits, Targeted, Untouched, Authorized, Locked, Awaited, Creating, Idle
<1> QED
  BY <1>3, <1>4 DEF IngestionInv
-----------------------------------------------------------------------------
(* What a step leaves to the others: manifests and what they say are there  *)
(* to stay, and the lock is with whoever has it.                            *)
Grows ==
  /\ Known \subseteq Known' /\ cited \subseteq cited' /\ puts \subseteq puts'
  /\ \A i \in Known :
        /\ manifest'[i].path = manifest[i].path
        /\ manifest[i].status = "quarantined" => manifest'[i].status = "quarantined"
        /\ manifest[i].status \in {"pending", "processed"} =>
             manifest'[i].status \in {"pending", "processed"}
        /\ manifest'[i].content = manifest[i].content
        /\ MayMove(i) => MayMove(i)'

LeavesLock(q) == holder = q => holder' = q /\ intent' = intent /\ Known' = Known

(* A file that was to be registered is still there, and nobody else has     *)
(* registered it, or the operator has put another one there.                *)
LeavesFile(q) ==
  LET t == task[q]
  IN Awaited(t) /\ t.path \notin puts' =>
       /\ raw'[t.path] = raw[t.path]
       /\ \A i \in Known' \ Known : i # t.id => manifest'[i].path # t.path

LEMMA Others ==
  ASSUME IngestionConstants, IngestionInv, Grows, NEW q \in Session, task'[q] = task[q],
         LeavesLock(q), LeavesFile(q)
  PROVE  Fits(q, task[q])'
<1> DEFINE t == task[q]
<1>1. t \in Doing /\ Targeted(t) /\ Untouched(t) /\ Authorized(t) /\ Locked(q, t)
  BY DEF IngestionInv, Sessions, Fits
<1>2. t' = t
  OBVIOUS
<1>3. Known \subseteq Known' /\ puts \subseteq puts' /\ cited \subseteq cited'
  BY DEF Grows
<1> HIDE DEF t
<1>4. Targeted(t)'
  BY <1>1, <1>2, <1>3 DEF Targeted, Creating
<1>5. Authorized(t)'
  BY <1>1, <1>2, <1>3 DEF Authorized, Targeted, Grows, MayMove
<1>6. Awaited(t)' => Awaited(t)
  BY <1>1, <1>2, <1>3 DEF Awaited, Creating, Targeted, Known
<1>7. Untouched(t)'
  <2> SUFFICES ASSUME Awaited(t)', t.path \notin puts'
               PROVE  raw'[t.path] = Both(t.content) /\ \A i \in Known' : manifest'[i].path # t.path
    BY <1>2 DEF Untouched, Both
  <2>1. Awaited(t) /\ t.path \notin puts
    BY <1>3, <1>6
  <2>2. raw'[t.path] = Both(t.content)
    BY <1>1, <2>1 DEF Untouched, LeavesFile, t
  <2>3. ASSUME NEW i \in Known' PROVE manifest'[i].path # t.path
    <3>1. CASE i \in Known
      BY <1>1, <2>1, <3>1 DEF Untouched, Grows
    <3>2. CASE i \notin Known
      <4>1. i # t.id
        BY <1>2 DEF Awaited, Known
      <4> QED
        BY <2>1, <3>2, <4>1 DEF LeavesFile, t
    <3> QED
      BY <3>1, <3>2
  <2> QED
    BY <2>2, <2>3
<1>8. Locked(q, t)'
  <2>1. Awaited(t) => t.step # "idle"
    BY DEF Awaited, Creating
  <2>2. ASSUME q \in Batch, Awaited(t)', t'.status = "pending", NEW i \in Known'
        PROVE  manifest'[i].content # t'.content
    <3>1. holder = q /\ manifest[i].content # t.content /\ i \in Known
      BY <1>1, <1>2, <1>6, <2>1, <2>2 DEF Locked, LeavesLock
    <3> QED
      BY <1>2, <3>1 DEF Grows
  <2>3. /\ t'.step = "moving" => holder' = q /\ intent' = t'.id
        /\ q \in Batch /\ t'.step # "idle" => holder' = q
    BY <1>1, <1>2 DEF Locked, LeavesLock
  <2> QED
    BY <2>2, <2>3 DEF Locked
<1> QED
  BY <1>1, <1>2, <1>4, <1>5, <1>7, <1>8 DEF Fits, t

(* One session goes on, the others are left alone.                          *)
LEMMA Acts ==
  ASSUME IngestionConstants, IngestionInv, Grows, NEW s \in Session, NEW t \in Doing,
         task' = [task EXCEPT ![s] = t], Fits(s, t)', holder' \in Session \cup {None},
         \A q \in Session : q # s => LeavesLock(q) /\ LeavesFile(q)
  PROVE  Sessions'
<1>1. task \in [Session -> Doing]
  BY DEF IngestionInv, Sessions
<1>2. task' \in [Session -> Doing] /\ task'[s] = t
  BY <1>1
<1>3. ASSUME NEW q \in Session PROVE Fits(q, task[q])'
  <2>1. CASE q = s
    BY <1>2, <2>1 DEF Fits, Targeted, Untouched, Authorized, Locked, Awaited, Creating
  <2>2. CASE q # s
    <3>1. task'[q] = task[q]
      BY <1>1, <2>2
    <3> QED
      BY <2>2, <3>1, Others
  <2> QED
    BY <2>1, <2>2
<1> QED
  BY <1>2, <1>3 DEF Sessions

(* Nobody goes on.                                                          *)
LEMMA Rests ==
  ASSUME IngestionConstants, IngestionInv, Grows, UNCHANGED <<task, holder>>,
         \A q \in Session : LeavesLock(q) /\ LeavesFile(q)
  PROVE  Sessions'
<1>1. \A q \in Session : Fits(q, task[q])'
  BY Others
<1> QED
  BY <1>1 DEF Sessions, IngestionInv

(* A call ends: its session has nothing to do, or goes on with its batch.   *)
LEMMA Ends ==
  ASSUME IngestionConstants, IngestionInv, NEW s \in Session, Ready(s) \/ task[s].step # "idle",
         Succeed(s) \/ Fail(s)
  PROVE  /\ holder' \in Session \cup {None}
         /\ \A q \in Session : q # s /\ holder = q => holder' = q
         /\ \E t \in Doing : task' = [task EXCEPT ![s] = t] /\ Fits(s, t)'
<1>1. holder \in Session \cup {None} /\ Locked(s, task[s])
  BY DEF IngestionInv, Sessions, Fits
<1>2. holder' \in Session \cup {None} /\ (\A q \in Session : q # s /\ holder = q => holder' = q)
  BY <1>1 DEF Succeed, Fail, Begin
<1>3. Idle \in Doing /\ [Idle EXCEPT !.step = "open"] \in Doing
  BY DEF Idle, Doing, Step
<1>4. CASE s \in Batch /\ Succeed(s)
  <2> DEFINE t == [Idle EXCEPT !.step = "open"]
  <2>1. task' = [task EXCEPT ![s] = t] /\ holder' = s
    BY <1>1, <1>4 DEF Succeed, Begin, Locked, Ready
  <2>2. t.step = "open"
    BY DEF Idle
  <2> HIDE DEF t
  <2>3. Fits(s, t)'
    BY <1>3, <2>1, <2>2 DEF Fits, Targeted, Untouched, Authorized, Locked, Awaited, Creating, t
  <2> QED
    BY <1>2, <1>3, <2>1, <2>3 DEF t
<1>5. CASE ~(s \in Batch /\ Succeed(s))
  <2>1. task' = [task EXCEPT ![s] = Idle]
    BY <1>5 DEF Succeed, Fail, Begin
  <2>2. Idle.step = "idle"
    BY DEF Idle
  <2>3. Fits(s, Idle)'
    BY <1>3, <2>2 DEF Fits, Targeted, Untouched, Authorized, Locked, Awaited, Creating, Idle
  <2> QED
    BY <1>2, <1>3, <2>1, <2>3
<1> QED
  BY <1>4, <1>5
-----------------------------------------------------------------------------
(* Steps that only change what a session is doing.                          *)
Still == UNCHANGED <<raw, kept, manifest, intent, cited, puts>>

LEMMA StillWorld ==
  ASSUME IngestionConstants, IngestionInv, Still
  PROVE  /\ World' /\ Grows /\ Known' = Known
         /\ \A q \in Session : LeavesFile(q)
         /\ \A q \in Session : (holder = q => holder' = q) => LeavesLock(q)
<1> USE DEF Still
<1>1. Known' = Known
  BY DEF Known
<1>2. World'
  BY <1>1 DEF IngestionInv, World, ManifestsTyped, Named, OnePerPath, FilesTyped, Whole,
              Placed, EvidenceKept, MovesAreAuthorized, BatchesRefuseDuplicates
<1>3. Grows
  BY <1>1 DEF Grows, MayMove
<1>4. \A q \in Session : LeavesFile(q)
  BY <1>1 DEF LeavesFile
<1>5. \A q \in Session : (holder = q => holder' = q) => LeavesLock(q)
  BY <1>1 DEF LeavesLock
<1> QED
  BY <1>1, <1>2, <1>3, <1>4, <1>5

LEMMA StillEnds ==
  ASSUME IngestionConstants, IngestionInv, Still, NEW s \in Session,
         Ready(s) \/ task[s].step # "idle", Succeed(s) \/ Fail(s)
  PROVE  IngestionInv'
<1>1. PICK t \in Doing : task' = [task EXCEPT ![s] = t] /\ Fits(s, t)'
  BY Ends
<1>2. holder' \in Session \cup {None} /\ (\A q \in Session : q # s /\ holder = q => holder' = q)
  BY Ends
<1>3. Grows /\ (\A q \in Session : q # s => LeavesLock(q) /\ LeavesFile(q))
  BY <1>2, StillWorld
<1>4. Sessions'
  BY <1>1, <1>2, <1>3, Acts
<1> QED
  BY <1>4, StillWorld DEF IngestionInv

LEMMA StillGoes ==
  ASSUME IngestionConstants, IngestionInv, Still, NEW s \in Session, UNCHANGED holder,
         NEW t \in Doing, task' = [task EXCEPT ![s] = t], Fits(s, t)
  PROVE  IngestionInv'
<1>1. Fits(s, t)'
  BY StillWorld DEF Still, Fits, Targeted, Untouched, Authorized, Locked, Awaited, Creating, MayMove, Both
<1>2. Grows /\ (\A q \in Session : LeavesLock(q) /\ LeavesFile(q))
  BY StillWorld
<1>3. holder' \in Session \cup {None}
  BY DEF IngestionInv, Sessions
<1>4. Sessions'
  BY <1>1, <1>2, <1>3, Acts
<1> QED
  BY <1>4, StillWorld DEF IngestionInv
-----------------------------------------------------------------------------
LEMMA KnownTyped ==
  ASSUME IngestionConstants, IngestionInv
  PROVE  /\ \A i \in Known : i \in Id /\ manifest[i] \in Manifest
         /\ \A i \in Id : i \notin Known <=> manifest[i] = None
         /\ None \notin Known
BY DEF IngestionInv, World, ManifestsTyped, Known, IngestionConstants

LEMMA ReadyHolds ==
  ASSUME IngestionConstants, IngestionInv, NEW s \in Session, Ready(s)
  PROVE  s \in Batch => holder = s
BY DEF IngestionInv, Sessions, Fits, Locked, Ready

(* The newest of the manifests that can be taken up is one of them.         *)
LEMMA NewestIsOne ==
  ASSUME IngestionConstants, NEW ids, ids \subseteq Id, ids # {}
  PROVE  Newest(ids) \in ids
<1> DEFINE T == {i[2] : i \in ids}
<1>1. T \subseteq 1..MaxSeq /\ T # {}
  BY DEF Id
<1>2. PICK x \in T : \A y \in T : y <= x
  BY <1>1, Greatest DEF IngestionConstants
<1>3. PICK i \in ids : i[2] = x
  OBVIOUS
<1>4. \A j \in ids : j[2] <= i[2]
  BY <1>2, <1>3
<1> QED
  BY <1>4 DEF Newest

(* The number of a new manifest is free, and no smaller one is.             *)
Number(p) == CHOOSE k \in Free(p) : \A m \in Free(p) : k <= m

LEMMA NumberIsLeast ==
  ASSUME NEW p, Free(p) # {}
  PROVE  Number(p) \in Free(p) /\ \A m \in Free(p) : Number(p) <= m
<1>1. Free(p) \subseteq Nat
  BY DEF Free
<1>2. \E k \in Free(p) : \A m \in Free(p) : k <= m
  BY <1>1, Least
<1> QED
  BY <1>2 DEF Number

LEMMA OpenBatchKeeps ==
  ASSUME IngestionConstants, IngestionInv, NEW s \in Session, OpenBatch(s)
  PROVE  IngestionInv'
<1>1. Still /\ holder = None /\ holder' = s
  BY DEF OpenBatch, Still
<1> DEFINE open == [Idle EXCEPT !.step = "open"]
<1>a. open \in Doing /\ open.step = "open"
  BY DEF Idle, Doing, Step
<1> HIDE DEF open
<1>2. PICK t \in Doing : t = open /\ t.step = "open"
  BY <1>a
<1>3. task' = [task EXCEPT ![s] = t]
  BY <1>2 DEF OpenBatch, Begin, open
<1>4. Fits(s, t)'
  BY <1>1, <1>2 DEF Fits, Targeted, Untouched, Authorized, Locked, Awaited, Creating
<1>5. \A q \in Session : LeavesLock(q)
  BY <1>1, StillWorld DEF IngestionConstants
<1>6. Sessions'
  BY <1>1, <1>3, <1>4, <1>5, StillWorld, Acts
<1> QED
  BY <1>1, <1>6, StillWorld DEF IngestionInv

LEMMA CloseBatchKeeps ==
  ASSUME IngestionConstants, IngestionInv, NEW s \in Session, CloseBatch(s)
  PROVE  IngestionInv'
<1>1. Still /\ task[s].step # "idle" /\ Fail(s)
  BY DEF CloseBatch, Still
<1> QED
  BY <1>1, StillEnds

LEMMA FallKeeps ==
  ASSUME IngestionConstants, IngestionInv, NEW s \in Session, Fall(s)
  PROVE  IngestionInv'
<1>1. Still /\ task[s].step # "idle" /\ Fail(s)
  BY DEF Fall, Still
<1> QED
  BY <1>1, StillEnds

(* What follows a decision about a manifest: its receipt, its move.         *)
LEMMA NextFits ==
  ASSUME IngestionConstants, IngestionInv, NEW s \in Session, NEW i \in Known,
         NEW l \in {"receipt", "process", "move"}, s \in Batch => holder = s,
         l = "receipt" => manifest[i].status = "quarantined",
         l = "process" => manifest[i].status = "pending" /\ i \in cited,
         l = "move" => MayMove(i)
  PROVE  /\ [Idle EXCEPT !.step = l, !.id = i] \in Doing
         /\ Fits(s, [Idle EXCEPT !.step = l, !.id = i])
<1> DEFINE u == [Idle EXCEPT !.step = l, !.id = i]
<1>1. i \in Id
  BY KnownTyped
<1>2. u \in Doing /\ u.step = l /\ u.id = i
  BY <1>1 DEF Idle, Doing, Step
<1> HIDE DEF u
<1>3. Fits(s, u)
  BY <1>2 DEF Fits, Targeted, Untouched, Authorized, Locked, Awaited, Creating
<1> QED
  BY <1>2, <1>3 DEF u

LEMMA StillNext ==
  ASSUME IngestionConstants, IngestionInv, Still, NEW s \in Session, UNCHANGED holder,
         NEW i \in Known, NEW l \in {"receipt", "process", "move"}, s \in Batch => holder = s,
         task' = [task EXCEPT ![s] = [Idle EXCEPT !.step = l, !.id = i]],
         l = "receipt" => manifest[i].status = "quarantined",
         l = "process" => manifest[i].status = "pending" /\ i \in cited,
         l = "move" => MayMove(i)
  PROVE  IngestionInv'
<1> DEFINE u == [Idle EXCEPT !.step = l, !.id = i]
<1>1. u \in Doing /\ Fits(s, u) /\ task' = [task EXCEPT ![s] = u]
  BY NextFits
<1> HIDE DEF u
<1>2. PICK t \in Doing : t = u
  BY <1>1
<1> QED
  BY <1>1, <1>2, StillGoes

(* A new manifest is planned for a file that no manifest speaks for.        *)
LEMMA PlanFits ==
  ASSUME IngestionConstants, IngestionInv, NEW s \in Session, NEW p \in Path, Ready(s),
         Replay(p) = {}, \A part \in Part : raw[p][part] # None, Free(p) # {},
         NEW status \in {"pending", "duplicate", "quarantined"},
         NEW c, c = raw[p]["primary"],
         status = "pending" => {i \in Known : manifest[i].content = c} = {},
         NEW t, t = [step |-> "create", path |-> p, id |-> <<Stem[p], Number(p)>>,
                     status |-> status, content |-> c]
  PROVE  t \in Doing /\ Fits(s, t)
<1>1. /\ World
      /\ s \in Batch => holder = s
  BY ReadyHolds DEF IngestionInv
<1>2. /\ Number(p) \in 1..MaxSeq /\ <<Stem[p], Number(p)>> \in Id
      /\ \A m \in 1..MaxSeq : m < Number(p) => m \notin Free(p)
  BY NumberIsLeast DEF Free, Id, IngestionConstants
<1>3. \A part \in Part : raw[p][part] \in Content
  BY <1>1 DEF World, FilesTyped
<1>4. c \in Content
  BY <1>3 DEF Part
<1>5. t.step = "create" /\ t.path = p /\ t.status = status /\ t.content = c
  OBVIOUS
<1>6. t.id = <<Stem[p], Number(p)>> /\ t.id[1] = Stem[p] /\ t.id[2] = Number(p)
  OBVIOUS
<1>7. t \in Doing
  <2>1. p \in Path \cup {None} /\ status \in Status \cup {None} /\ c \in Content \cup {None}
        /\ "create" \in Step
    BY <1>4 DEF Status, Step
  <2> QED
    BY <1>2, <2>1 DEF Doing
<1>8. Targeted(t)
  <2>1. ASSUME NEW m \in 1..MaxSeq, m < Number(p)
        PROVE  <<Stem[p], m>> \in Known
    <3>1. <<Stem[p], m>> \in Id
      BY DEF Id
    <3>2. manifest[<<Stem[p], m>>] # None
      BY <1>2, <2>1 DEF Free
    <3> QED
      BY <3>1, <3>2 DEF Known
  <2> QED
    BY <1>2, <1>4, <1>5, <1>6, <2>1 DEF Targeted, Creating
<1>9. Untouched(t)
  <2> SUFFICES ASSUME p \notin puts
               PROVE  raw[p] = Both(c) /\ \A i \in Known : manifest[i].path # p
    BY <1>5 DEF Untouched
  <2>1. raw[p] = Both(c)
    <3>1. raw[p] \in [Part -> Content \cup {None}]
      BY <1>1 DEF World, FilesTyped
    <3>2. \A part \in Part : raw[p][part] = c
      BY <1>1 DEF World, Whole, Part
    <3> QED
      BY <3>1, <3>2 DEF Both
  <2>2. ASSUME NEW i \in Known, manifest[i].path = p PROVE FALSE
    <3>1. ~Replayable(i, p) /\ i \in Id
      BY KnownTyped DEF Replay
    <3>2. raw[p]["primary"] # None
      BY DEF Part
    <3>3. kept[i]["primary"] # None
      BY <2>2, <3>1, <3>2 DEF Replayable, Known
    <3> QED
      BY <1>1, <2>2, <3>2, <3>3 DEF World, Placed, Part
  <2> QED
    BY <2>1, <2>2
<1>10. Authorized(t)
  BY <1>5 DEF Authorized
<1>11. Locked(s, t)
  BY <1>1, <1>5 DEF Locked
<1> QED
  BY <1>7, <1>8, <1>9, <1>10, <1>11 DEF Fits

LEMMA RegisterKeeps ==
  ASSUME IngestionConstants, IngestionInv, NEW s \in Session, NEW p \in Path, Register(s, p)
  PROVE  IngestionInv'
<1>1. Ready(s) /\ Still /\ (s \in Batch => holder = s)
  BY ReadyHolds DEF Register, Still
<1>2. ASSUME Succeed(s) \/ Fail(s) PROVE IngestionInv'
  BY <1>1, <1>2, StillEnds
<1>3. CASE Replay(p) # {}
  <2> DEFINE i == Newest(Replay(p))
  <2>1. i \in Replay(p) /\ Resume(s, i)
    BY <1>3, NewestIsOne DEF Register, Replay
  <2> HIDE DEF i
  <2>2. i \in Known
    BY <2>1 DEF Replay, Replayable, Known
  <2>3. CASE Succeed(s) \/ Fail(s)
    BY <1>2, <2>3
  <2>4. CASE ~(Succeed(s) \/ Fail(s))
    <3>1. manifest[i].status = "quarantined" /\ UNCHANGED holder
      BY <2>1, <2>4 DEF Resume
    <3>2. CASE manifest[i].receipt
      <4>1. task' = [task EXCEPT ![s] = [Idle EXCEPT !.step = "move", !.id = i]]
        BY <2>1, <2>4, <3>1, <3>2 DEF Resume, Begin
      <4>2. MayMove(i)
        BY <3>1, <3>2 DEF MayMove
      <4> QED
        BY <1>1, <2>2, <3>1, <4>1, <4>2, StillNext
    <3>3. CASE ~manifest[i].receipt
      <4>1. task' = [task EXCEPT ![s] = [Idle EXCEPT !.step = "receipt", !.id = i]]
        BY <2>1, <2>4, <3>1, <3>3 DEF Resume, Begin
      <4> QED
        BY <1>1, <2>2, <3>1, <4>1, StillNext
    <3> QED
      BY <3>2, <3>3
  <2> QED
    BY <2>3, <2>4
<1>4. CASE Replay(p) = {}
  <2>1. CASE Succeed(s) \/ Fail(s)
    BY <1>2, <2>1
  <2>2. CASE ~(Succeed(s) \/ Fail(s))
    <3>1. RegisterNew(s, p) /\ \A part \in Part : raw[p][part] # None
      BY <1>4, <2>2 DEF Register
    <3>2. PICK c : c = raw[p]["primary"]
      OBVIOUS
    <3>3. PICK status \in {"pending", "duplicate", "quarantined"} :
             /\ Free(p) # {} /\ UNCHANGED holder
             /\ status = "pending" => {i \in Known : manifest[i].content = c} = {}
             /\ task' = [task EXCEPT ![s] =
                  [step |-> "create", path |-> p, id |-> <<Stem[p], Number(p)>>,
                   status |-> status, content |-> c]]
      BY <2>2, <3>1, <3>2 DEF RegisterNew, Begin, Number
    <3>4. PICK t : t = [step |-> "create", path |-> p, id |-> <<Stem[p], Number(p)>>,
                        status |-> status, content |-> c]
      OBVIOUS
    <3>5. t \in Doing /\ Fits(s, t)
      BY <1>1, <1>4, <3>1, <3>2, <3>3, <3>4, PlanFits
    <3> QED
      BY <1>1, <3>3, <3>4, <3>5, StillGoes
  <2> QED
    BY <2>1, <2>2
<1> QED
  BY <1>3, <1>4

LEMMA ArchiveKeeps ==
  ASSUME IngestionConstants, IngestionInv, NEW s \in Session, NEW i \in Id, Archive(s, i)
  PROVE  IngestionInv'
<1>1. Still /\ UNCHANGED holder /\ s \notin Batch /\ i \in Known /\ i \in cited
  BY DEF Archive, Still
<1>2. CASE /\ manifest[i].status = "pending"
           /\ task' = [task EXCEPT ![s] = [Idle EXCEPT !.step = "process", !.id = i]]
  BY <1>1, <1>2, StillNext
<1>3. CASE /\ manifest[i].status = "processed"
           /\ task' = [task EXCEPT ![s] = [Idle EXCEPT !.step = "move", !.id = i]]
  <2>1. MayMove(i)
    BY <1>1, <1>3 DEF MayMove
  <2> QED
    BY <1>1, <1>3, <2>1, StillNext
<1> QED
  BY <1>2, <1>3 DEF Archive, Begin
-----------------------------------------------------------------------------
(* Steps that also change something else: the session ends its call, or     *)
(* goes on with the same artifact.                                          *)
LEMMA WorldEnds ==
  ASSUME IngestionConstants, IngestionInv, NEW s \in Session, task[s].step # "idle",
         World', Grows, Succeed(s) \/ Fail(s),
         \A q \in Session : q # s /\ (holder = q => holder' = q) => LeavesLock(q),
         \A q \in Session : q # s => LeavesFile(q)
  PROVE  IngestionInv'
<1>1. PICK t \in Doing : task' = [task EXCEPT ![s] = t] /\ Fits(s, t)'
  BY Ends
<1>2. holder' \in Session \cup {None} /\ (\A q \in Session : q # s /\ holder = q => holder' = q)
  BY Ends
<1>3. Sessions'
  BY <1>1, <1>2, Acts
<1> QED
  BY <1>3 DEF IngestionInv

LEMMA WorldGoes ==
  ASSUME IngestionConstants, IngestionInv, NEW s \in Session, NEW u \in Doing,
         World', Grows, holder' \in Session \cup {None}, s \in Batch => holder' = s,
         u.id \in Known', u.step \in {"receipt", "move", "moving"},
         u.step = "receipt" => manifest'[u.id].status = "quarantined",
         u.step \in {"move", "moving"} => MayMove(u.id)',
         u.step = "moving" => holder' = s /\ intent' = u.id,
         task' = [task EXCEPT ![s] = u],
         \A q \in Session : q # s => LeavesLock(q) /\ LeavesFile(q)
  PROVE  IngestionInv'
<1>1. Fits(s, u)'
  BY DEF Fits, Targeted, Untouched, Authorized, Locked, Awaited, Creating, MayMove
<1>2. Sessions'
  BY <1>1, Acts
<1> QED
  BY <1>2 DEF IngestionInv

LEMMA TaskTyped ==
  ASSUME IngestionInv, NEW s \in Session
  PROVE  /\ task[s] \in Doing /\ Targeted(task[s]) /\ Untouched(task[s])
         /\ Authorized(task[s]) /\ Locked(s, task[s])
BY DEF IngestionInv, Sessions, Fits

LEMMA CreatedKeepsWorld ==
  ASSUME IngestionConstants, IngestionInv, NEW s \in Session, task[s].step = "create",
         Commits(s), manifest[task[s].id] = None, Created(s, task[s]),
         UNCHANGED <<raw, kept, intent, cited, puts>>
  PROVE  /\ World' /\ Grows /\ task[s].id \in Known'
         /\ manifest'[task[s].id].status = task[s].status
         /\ \A q \in Session : q # s => LeavesLock(q) /\ LeavesFile(q)
<1> DEFINE t == task[s]
           i == t.id
           m == [path |-> t.path, content |-> t.content, status |-> t.status,
                 receipt |-> FALSE, batch |-> s \in Batch]
<1>1. /\ t.path \in Path /\ t.content \in Content
      /\ t.status \in {"pending", "duplicate", "quarantined"}
      /\ i \in Id /\ i[1] = Stem[t.path]
      /\ \A k \in 1..MaxSeq : k < i[2] => <<i[1], k>> \in Known
  BY TaskTyped DEF Targeted, Creating
<1>2. Awaited(t)
  BY DEF Awaited, Creating
<1>3. /\ t.path \notin puts => raw[t.path] = Both(t.content) /\ \A j \in Known : manifest[j].path # t.path
      /\ s \in Batch => holder = s
      /\ s \in Batch /\ t.status = "pending" => \A j \in Known : manifest[j].content # t.content
  BY <1>2, TaskTyped DEF Untouched, Locked
<1>4. m \in Manifest
  BY <1>1 DEF Manifest, Status
<1>5. m.path = t.path /\ m.content = t.content /\ m.status = t.status /\ m.batch = (s \in Batch)
  OBVIOUS
<1>6. manifest' = [manifest EXCEPT ![i] = m]
  BY DEF Created
<1> HIDE DEF m
<1>7. /\ World /\ manifest \in [Id -> Manifest \cup {None}] /\ None \notin Manifest
      /\ intent \in Known \cup {None} /\ cited \subseteq Known
  BY DEF IngestionInv, World, ManifestsTyped, IngestionConstants
<1>8. /\ manifest' \in [Id -> Manifest \cup {None}] /\ manifest'[i] = m
      /\ \A j \in Id : j # i => manifest'[j] = manifest[j]
  BY <1>1, <1>4, <1>6, <1>7
<1>9. Known' = Known \cup {i} /\ i \notin Known /\ None \notin Known
  BY <1>1, <1>4, <1>7, <1>8 DEF Known, IngestionConstants
<1>10. \A j \in Known : manifest'[j] = manifest[j]
  BY <1>8, <1>9 DEF Known
<1> HIDE DEF i, t
<1>11. ManifestsTyped' /\ Named' /\ OnePerPath'
  <2>1. ManifestsTyped'
    BY <1>7, <1>8, <1>9 DEF ManifestsTyped
  <2>2. Named'
    BY <1>1, <1>5, <1>7, <1>8, <1>9, <1>10 DEF Named, World
  <2>3. OnePerPath'
    BY <1>3, <1>5, <1>7, <1>8, <1>9, <1>10 DEF OnePerPath, World
  <2> QED
    BY <2>1, <2>2, <2>3
<1>12. FilesTyped' /\ Whole' /\ Placed'
  BY <1>7, <1>9, <1>10, <1>1 DEF World, FilesTyped, Whole, Placed
<1>13. EvidenceKept'
  <2> SUFFICES ASSUME NEW j \in Known'
               PROVE  /\ \A part \in Part : \/ manifest'[j].path \in puts
                                             \/ raw[manifest'[j].path][part] = manifest'[j].content
                                             \/ kept[j][part] = manifest'[j].content
                      /\ intent # j => kept[j] \in {Nowhere, Both(manifest'[j].content)}
    BY DEF EvidenceKept, Nowhere, Both
  <2>1. CASE j \in Known
    BY <1>7, <1>10, <2>1 DEF World, EvidenceKept
  <2>2. CASE j = i
    <3>1. \A part \in Part : kept[i][part] = None
      BY <1>1, <1>7, <1>9 DEF World, Placed
    <3>2. kept[i] = Nowhere
      BY <1>1, <1>7, <3>1 DEF World, FilesTyped, Nowhere
    <3> QED
      BY <1>3, <1>5, <1>8, <2>2, <3>2 DEF Both
  <2> QED
    BY <1>9, <2>1, <2>2
<1>14. MovesAreAuthorized'
  BY <1>7, <1>9, <1>10 DEF World, MovesAreAuthorized
<1>15. BatchesRefuseDuplicates'
  <2> SUFFICES ASSUME NEW j \in Known', NEW k \in Known', j # k,
                      manifest'[j].batch, manifest'[k].batch,
                      manifest'[j].status \in {"pending", "processed"},
                      manifest'[k].status \in {"pending", "processed"}
               PROVE  manifest'[j].content # manifest'[k].content
    BY DEF BatchesRefuseDuplicates
  <2>1. CASE j \in Known /\ k \in Known
    <3>1. manifest'[j] = manifest[j] /\ manifest'[k] = manifest[k]
      BY <1>10, <2>1
    <3> QED
      BY <1>7, <2>1, <3>1 DEF World, BatchesRefuseDuplicates
  <2>2. ASSUME NEW a \in Known, manifest'[i].batch, manifest'[i].status \in {"pending", "processed"}
        PROVE  manifest'[i].content # manifest'[a].content
    <3>1. s \in Batch /\ t.status = "pending"
      BY <1>1, <1>5, <1>8, <2>2
    <3> QED
      BY <1>3, <1>5, <1>8, <1>10, <3>1
  <2> QED
    BY <1>9, <2>1, <2>2
<1>16. Grows
  BY <1>7, <1>9, <1>10 DEF Grows, MayMove
<1>17. ASSUME NEW q \in Session, q # s PROVE LeavesLock(q) /\ LeavesFile(q)
  <2>1. LeavesLock(q)
    BY <1>17 DEF Commits, LeavesLock, IngestionConstants
  <2> DEFINE v == task[q]
  <2>2. SUFFICES ASSUME Awaited(v), v.path \notin puts, v.id # i, m.path = v.path PROVE FALSE
    BY <2>1, <1>8, <1>9 DEF LeavesFile
  <2>3. /\ v.path \in Path /\ v.id \in Id /\ v.id[1] = Stem[v.path]
        /\ \A k \in 1..MaxSeq : k < v.id[2] => <<v.id[1], k>> \in Known
    BY <2>2, TaskTyped DEF Awaited, Targeted
  <2> HIDE DEF v
  <2>4. i = <<i[1], i[2]>> /\ v.id = <<v.id[1], v.id[2]>> /\ i[2] \in 1..MaxSeq /\ v.id[2] \in 1..MaxSeq
    BY <1>1, <2>3 DEF Id
  <2>5. i[1] = v.id[1]
    BY <1>1, <1>5, <2>2, <2>3
  <2>6. ~(i[2] < v.id[2])
    BY <1>9, <2>3, <2>4, <2>5
  <2>7. ~(v.id[2] < i[2])
    BY <1>1, <2>2, <2>4, <2>5 DEF Awaited, Known
  <2> QED
    BY <2>2, <2>4, <2>5, <2>6, <2>7, MaxSeq \in Nat DEF IngestionConstants
<1> QED
  BY <1>5, <1>8, <1>9, <1>11, <1>12, <1>13, <1>14, <1>15, <1>16, <1>17 DEF World, i, t

LEMMA CreateManifestKeeps ==
  ASSUME IngestionConstants, IngestionInv, NEW s \in Session, CreateManifest(s)
  PROVE  IngestionInv'
<1>1. task[s].step = "create" /\ UNCHANGED <<raw, kept, intent, cited, puts>>
  BY DEF CreateManifest
<1>2. CASE Fail(s) /\ UNCHANGED manifest
  BY <1>1, <1>2, StillEnds DEF Still
<1>3. CASE Commits(s) /\ manifest[task[s].id] = None /\ Created(s, task[s])
  <2>1. /\ World' /\ Grows /\ task[s].id \in Known'
        /\ manifest'[task[s].id].status = task[s].status
        /\ \A q \in Session : q # s => LeavesLock(q) /\ LeavesFile(q)
    BY <1>1, <1>3, CreatedKeepsWorld
  <2>2. CASE task[s].status # "quarantined"
    <3>1. Succeed(s)
      BY <1>3, <2>2 DEF Created
    <3> QED
      BY <1>1, <2>1, <3>1, WorldEnds
  <2>3. CASE task[s].status = "quarantined"
    <3> DEFINE u == [Idle EXCEPT !.step = "receipt", !.id = task[s].id]
    <3>1. task' = [task EXCEPT ![s] = u] /\ UNCHANGED holder
      BY <1>3, <2>3 DEF Created, Begin
    <3>2. task[s].id \in Id
      BY <2>1 DEF Known
    <3>3. u \in Doing /\ u.step = "receipt" /\ u.id = task[s].id
      BY <3>2 DEF Idle, Doing, Step
    <3>4. holder \in Session \cup {None} /\ (s \in Batch => holder = s)
      BY <1>1, TaskTyped DEF Locked, IngestionInv, Sessions
    <3> HIDE DEF u
    <3>5. PICK v \in Doing : v = u
      BY <3>3
    <3> QED
      BY <2>1, <2>3, <3>1, <3>3, <3>4, <3>5, WorldGoes
  <2> QED
    BY <2>2, <2>3
<1> QED
  BY <1>2, <1>3 DEF CreateManifest

(* A manifest that is written again keeps what it tells of its files, and   *)
(* what it allows.                                                          *)
LEMMA UpdatedKeepsWorld ==
  ASSUME IngestionConstants, IngestionInv, NEW i \in Known, NEW m \in Manifest,
         manifest' = [manifest EXCEPT ![i] = m],
         UNCHANGED <<raw, kept, intent, cited, puts>>,
         m.path = manifest[i].path, m.content = manifest[i].content, m.batch = manifest[i].batch,
         manifest[i].receipt => m.receipt,
         \/ m.status = manifest[i].status
         \/ manifest[i].status = "pending" /\ m.status = "processed"
  PROVE  World' /\ Grows /\ Known' = Known /\ \A q \in Session : LeavesFile(q)
<1>1. /\ World /\ manifest \in [Id -> Manifest \cup {None}] /\ None \notin Manifest
      /\ i \in Id
  BY DEF IngestionInv, World, ManifestsTyped, IngestionConstants, Known
<1>2. /\ manifest' \in [Id -> Manifest \cup {None}] /\ manifest'[i] = m
      /\ \A j \in Id : j # i => manifest'[j] = manifest[j]
  BY <1>1
<1>3. Known' = Known
  BY <1>1, <1>2 DEF Known
<1>4. \A j \in Known :
         /\ j \in Id /\ manifest'[j].path = manifest[j].path
         /\ manifest'[j].content = manifest[j].content /\ manifest'[j].batch = manifest[j].batch
         /\ manifest[j].receipt => manifest'[j].receipt
         /\ \/ manifest'[j].status = manifest[j].status
            \/ manifest[j].status = "pending" /\ manifest'[j].status = "processed"
  BY <1>2, KnownTyped
<1>5. ManifestsTyped' /\ Named' /\ OnePerPath'
  BY <1>1, <1>2, <1>3, <1>4 DEF World, ManifestsTyped, Named, OnePerPath
<1>6. FilesTyped' /\ Whole' /\ Placed'
  BY <1>1, <1>3, <1>4 DEF World, FilesTyped, Whole, Placed
<1>7. EvidenceKept'
  BY <1>1, <1>3, <1>4 DEF World, EvidenceKept, Both, Nowhere
<1>8. MovesAreAuthorized'
  <2> SUFFICES ASSUME NEW j \in Id, NEW part \in Part, kept[j][part] # None
               PROVE  /\ j \in Known
                      /\ \/ manifest'[j].status = "quarantined" /\ manifest'[j].receipt
                         \/ manifest'[j].status = "processed" /\ j \in cited
    BY <1>3 DEF MovesAreAuthorized
  <2>1. /\ j \in Known
        /\ \/ manifest[j].status = "quarantined" /\ manifest[j].receipt
           \/ manifest[j].status = "processed" /\ j \in cited
    BY <1>1 DEF World, MovesAreAuthorized
  <2> QED
    BY <1>4, <2>1
<1>9. BatchesRefuseDuplicates'
  <2> SUFFICES ASSUME NEW j \in Known, NEW k \in Known, j # k,
                      manifest'[j].batch, manifest'[k].batch,
                      manifest'[j].status \in {"pending", "processed"},
                      manifest'[k].status \in {"pending", "processed"}
               PROVE  manifest'[j].content # manifest'[k].content
    BY <1>3 DEF BatchesRefuseDuplicates
  <2>1. manifest[j].batch /\ manifest[k].batch
    BY <1>4
  <2>2. manifest[j].status \in {"pending", "processed"} /\ manifest[k].status \in {"pending", "processed"}
    BY <1>4
  <2>3. manifest[j].content # manifest[k].content
    BY <1>1, <2>1, <2>2 DEF World, BatchesRefuseDuplicates
  <2> QED
    BY <1>4, <2>3
<1>10. Grows
  <2>1. \A j \in Known : MayMove(j) => MayMove(j)'
    BY <1>4 DEF MayMove
  <2> QED
    BY <1>3, <1>4, <2>1 DEF Grows
<1>11. \A q \in Session : LeavesFile(q)
  BY <1>3 DEF LeavesFile
<1> QED
  BY <1>3, <1>5, <1>6, <1>7, <1>8, <1>9, <1>10, <1>11 DEF World

LEMMA UpdatedGoes ==
  ASSUME IngestionConstants, IngestionInv, NEW s \in Session, NEW i \in Known, i = task[s].id,
         task[s].step \in {"receipt", "process"}, UNCHANGED <<raw, kept, intent, cited, puts, holder>>,
         NEW m \in Manifest, manifest' = [manifest EXCEPT ![i] = m],
         m.path = manifest[i].path, m.content = manifest[i].content, m.batch = manifest[i].batch,
         manifest[i].receipt => m.receipt,
         \/ m.status = manifest[i].status
         \/ manifest[i].status = "pending" /\ m.status = "processed",
         \/ m.status = "quarantined" /\ m.receipt
         \/ m.status = "processed" /\ i \in cited,
         task' = [task EXCEPT ![s] = [task[s] EXCEPT !.step = "move"]]
  PROVE  IngestionInv'
<1>1. World' /\ Grows /\ Known' = Known /\ \A q \in Session : LeavesFile(q)
  BY UpdatedKeepsWorld
<1>2. \A q \in Session : LeavesLock(q)
  BY <1>1 DEF LeavesLock
<1>3. task[s] \in Doing /\ holder \in Session \cup {None} /\ (s \in Batch => holder = s)
  BY TaskTyped DEF IngestionInv, Sessions, Locked
<1> DEFINE u == [task[s] EXCEPT !.step = "move"]
<1>4. u \in Doing /\ u.step = "move" /\ u.id = i
  BY <1>3 DEF Doing, Step
<1>5. MayMove(i)'
  <2>1. manifest'[i] = m
    BY DEF IngestionInv, World, ManifestsTyped, Known
  <2> QED
    BY <2>1 DEF MayMove
<1> HIDE DEF u
<1>6. PICK v \in Doing : v = u
  BY <1>4
<1>7. task' = [task EXCEPT ![s] = v]
  BY <1>6 DEF u
<1> QED
  BY <1>1, <1>2, <1>3, <1>4, <1>5, <1>6, <1>7, WorldGoes

LEMMA PersistReceiptKeeps ==
  ASSUME IngestionConstants, IngestionInv, NEW s \in Session, PersistReceipt(s)
  PROVE  IngestionInv'
<1>1. task[s].step = "receipt" /\ UNCHANGED <<raw, kept, intent, cited, puts>>
  BY DEF PersistReceipt
<1>2. CASE Fail(s) /\ UNCHANGED manifest
  BY <1>1, <1>2, StillEnds DEF Still
<1>3. CASE ~(Fail(s) /\ UNCHANGED manifest)
  <2> DEFINE i == task[s].id
             m == [manifest[i] EXCEPT !.receipt = TRUE]
  <2>1. i \in Known /\ manifest[i] \in Manifest /\ manifest[i].status = "quarantined"
    BY <1>1, TaskTyped, KnownTyped DEF Targeted, Authorized
  <2>2. /\ m \in Manifest /\ m.path = manifest[i].path /\ m.content = manifest[i].content
        /\ m.batch = manifest[i].batch /\ m.status = manifest[i].status /\ m.receipt
    BY <2>1 DEF Manifest
  <2>3. /\ manifest' = [manifest EXCEPT ![i] = m] /\ UNCHANGED holder
        /\ task' = [task EXCEPT ![s] = [task[s] EXCEPT !.step = "move"]]
    BY <1>3 DEF PersistReceipt, Begin
  <2> HIDE DEF i, m
  <2>4. i = task[s].id
    BY DEF i
  <2> QED
    BY <1>1, <2>1, <2>2, <2>3, <2>4, UpdatedGoes
<1> QED
  BY <1>2, <1>3

LEMMA ProcessKeeps ==
  ASSUME IngestionConstants, IngestionInv, NEW s \in Session, Process(s)
  PROVE  IngestionInv'
<1>1. task[s].step = "process" /\ UNCHANGED <<raw, kept, intent, cited, puts>>
  BY DEF Process
<1>2. CASE Fail(s) /\ UNCHANGED manifest
  BY <1>1, <1>2, StillEnds DEF Still
<1>3. CASE ~(Fail(s) /\ UNCHANGED manifest)
  <2> DEFINE i == task[s].id
             m == [manifest[i] EXCEPT !.status = "processed"]
  <2>1. /\ i \in Known /\ manifest[i] \in Manifest /\ i \in cited
        /\ manifest[i].status \in {"pending", "processed"}
    BY <1>1, TaskTyped, KnownTyped DEF Targeted, Authorized
  <2>2. /\ m \in Manifest /\ m.path = manifest[i].path /\ m.content = manifest[i].content
        /\ m.batch = manifest[i].batch /\ m.status = "processed" /\ m.receipt = manifest[i].receipt
    BY <2>1 DEF Manifest, Status
  <2>3. /\ manifest' = [manifest EXCEPT ![i] = m] /\ UNCHANGED holder
        /\ task' = [task EXCEPT ![s] = [task[s] EXCEPT !.step = "move"]]
    BY <1>3 DEF Process, Begin
  <2> HIDE DEF i, m
  <2>4. i = task[s].id
    BY DEF i
  <2> QED
    BY <1>1, <2>1, <2>2, <2>3, <2>4, UpdatedGoes
<1> QED
  BY <1>2, <1>3
-----------------------------------------------------------------------------
LEMMA IntentKeepsWorld ==
  ASSUME IngestionConstants, IngestionInv, UNCHANGED <<raw, kept, manifest, cited, puts>>,
         intent' \in Known \cup {None},
         \A i \in Known : intent = i /\ intent' # i =>
            kept[i] \in {Nowhere, Both(manifest[i].content)}
  PROVE  World' /\ Grows /\ Known' = Known /\ \A q \in Session : LeavesFile(q)
<1>1. Known' = Known
  BY DEF Known
<1>2. World
  BY DEF IngestionInv
<1>3. EvidenceKept'
  BY <1>1, <1>2 DEF World, EvidenceKept, Nowhere, Both
<1>4. World'
  BY <1>1, <1>2, <1>3 DEF World, ManifestsTyped, Named, OnePerPath, FilesTyped, Whole,
              Placed, MovesAreAuthorized, BatchesRefuseDuplicates
<1>5. Grows
  BY <1>1 DEF Grows, MayMove
<1>6. \A q \in Session : LeavesFile(q)
  BY <1>1 DEF LeavesFile
<1> QED
  BY <1>1, <1>4, <1>5, <1>6

LEMMA EnterMoveKeeps ==
  ASSUME IngestionConstants, IngestionInv, NEW s \in Session, EnterMove(s)
  PROVE  IngestionInv'
<1>1. task[s].step = "move" /\ UNCHANGED <<raw, kept, manifest, cited, puts>>
  BY DEF EnterMove
<1>2. CASE (Succeed(s) \/ Fail(s)) /\ UNCHANGED intent
  BY <1>1, <1>2, StillEnds DEF Still
<1>3. CASE ~((Succeed(s) \/ Fail(s)) /\ UNCHANGED intent)
  <2> DEFINE i == task[s].id
             u == [task[s] EXCEPT !.step = "moving"]
  <2>1. /\ holder \in {None, s} /\ holder' = s /\ task' = [task EXCEPT ![s] = u]
        /\ intent' = i /\ intent \in {None, i}
    BY <1>3 DEF EnterMove, Adoptable, Begin
  <2>2. i \in Known /\ MayMove(i) /\ task[s] \in Doing /\ None \notin Session
    BY <1>1, TaskTyped DEF Targeted, Authorized, IngestionConstants
  <2>3. u \in Doing /\ u.step = "moving" /\ u.id = i
    BY <2>2 DEF Doing, Step
  <2> HIDE DEF u, i
  <2>4. None \notin Known
    BY KnownTyped
  <2>5. World' /\ Grows /\ Known' = Known /\ \A q \in Session : LeavesFile(q)
    BY <1>1, <2>1, <2>2, <2>4, IntentKeepsWorld
  <2>6. \A q \in Session : q # s => LeavesLock(q)
    BY <2>1, <2>2 DEF LeavesLock
  <2>7. PICK v \in Doing : v = u /\ v.id = i
    BY <2>3
  <2>8. v.id \in Known /\ MayMove(v.id)
    BY <2>2, <2>7
  <2>9. v.id \in Known' /\ MayMove(v.id)' /\ intent' = v.id /\ v.step = "moving"
    BY <2>1, <2>3, <2>5, <2>7, <2>8 DEF Grows
  <2>10. task' = [task EXCEPT ![s] = v] /\ holder' \in Session \cup {None}
    BY <2>1, <2>7
  <2> QED
    BY <2>1, <2>5, <2>6, <2>9, <2>10, WorldGoes
<1> QED
  BY <1>2, <1>3

LEMMA FinishMoveKeeps ==
  ASSUME IngestionConstants, IngestionInv, NEW s \in Session, FinishMove(s)
  PROVE  IngestionInv'
<1> DEFINE i == task[s].id
<1>1. /\ task[s].step = "moving" /\ UNCHANGED <<raw, kept, manifest, cited, puts>>
      /\ intent' = None /\ Succeed(s) /\ \A part \in Part : InKept(i, part)
  BY DEF FinishMove
<1>2. i \in Known /\ i \in Id /\ intent = i /\ holder = s
  BY <1>1, TaskTyped DEF Targeted, Locked, Known
<1>3. kept[i] = Both(manifest[i].content)
  <2>1. kept[i] \in [Part -> Content \cup {None}]
    BY <1>2 DEF IngestionInv, World, FilesTyped
  <2>2. \A part \in Part : kept[i][part] = manifest[i].content
    BY <1>1 DEF InKept
  <2> HIDE DEF i
  <2> QED
    BY <2>1, <2>2 DEF Both
<1> HIDE DEF i
<1>4. World' /\ Grows /\ Known' = Known /\ \A q \in Session : LeavesFile(q)
  BY <1>1, <1>2, <1>3, IntentKeepsWorld
<1>5. \A q \in Session : q # s => LeavesLock(q)
  BY <1>2 DEF LeavesLock
<1> QED
  BY <1>1, <1>4, <1>5, WorldEnds

LEMMA MovedKeepsWorld ==
  ASSUME IngestionConstants, IngestionInv, NEW i \in Known, NEW part \in Part, intent = i, MayMove(i),
         InRaw(i, part), kept' = [kept EXCEPT ![i][part] = manifest[i].content],
         raw' = [raw EXCEPT ![manifest[i].path][part] = None],
         UNCHANGED <<manifest, intent, cited, puts>>
  PROVE  World' /\ Grows /\ Known' = Known /\ \A q \in Session : LeavesFile(q)
<1> DEFINE p == manifest[i].path
           c == manifest[i].content
<1>1. World /\ Known' = Known
  BY DEF IngestionInv, Known
<1>2. i \in Id /\ p \in Path /\ c \in Content /\ c # None
  BY KnownTyped DEF Manifest, IngestionConstants
<1>3. raw[p][part] = c /\ kept[i][part] = None
  BY DEF InRaw
<1>4. /\ raw \in [Path -> [Part -> Content \cup {None}]]
      /\ kept \in [Id -> [Part -> Content \cup {None}]]
  BY <1>1 DEF World, FilesTyped
<1> HIDE DEF p, c
<1>5. /\ raw' \in [Path -> [Part -> Content \cup {None}]]
      /\ \A x \in Path, d \in Part :
            raw'[x][d] = IF x = p /\ d = part THEN None ELSE raw[x][d]
  BY <1>2, <1>4 DEF p
<1>6. /\ kept' \in [Id -> [Part -> Content \cup {None}]]
      /\ \A j \in Id, d \in Part :
            kept'[j][d] = IF j = i /\ d = part THEN c ELSE kept[j][d]
      /\ \A j \in Id : j # i => kept'[j] = kept[j]
  BY <1>2, <1>4 DEF c
<1>7. \A j \in Known : j \in Id /\ manifest[j].path \in Path
  BY KnownTyped DEF Manifest
<1>8. \A j \in Known : j # i /\ manifest[j].path = p => p \in puts
  BY <1>1 DEF World, OnePerPath, p
<1>9. ManifestsTyped' /\ Named' /\ OnePerPath' /\ BatchesRefuseDuplicates'
  BY <1>1 DEF World, ManifestsTyped, Named, OnePerPath, BatchesRefuseDuplicates
<1>10. FilesTyped' /\ Whole'
  <2>1. FilesTyped'
    BY <1>1, <1>5, <1>6 DEF World, FilesTyped
  <2>2. Whole'
    BY <1>1, <1>5 DEF World, Whole
  <2> QED
    BY <2>1, <2>2
<1>11. Placed'
  <2>1. ASSUME NEW j \in Id, NEW d \in Part, kept'[j][d] # None
        PROVE  j \in Known /\ kept'[j][d] = manifest[j].content
    BY <1>1, <1>6, <2>1 DEF World, Placed, c
  <2>2. ASSUME NEW j \in Known, NEW d \in Part, kept'[j][d] # None, raw'[manifest[j].path][d] # None
        PROVE  manifest[j].path \in puts
    <3>1. raw[manifest[j].path][d] # None /\ ~(manifest[j].path = p /\ d = part)
      BY <1>5, <1>7, <2>2
    <3>2. ~(j = i /\ d = part)
      BY <3>1 DEF p
    <3>3. kept[j][d] # None
      BY <1>6, <1>7, <2>2, <3>2
    <3> QED
      BY <1>1, <3>1, <3>3 DEF World, Placed
  <2> QED
    BY <1>1, <2>1, <2>2 DEF Placed
<1>12. EvidenceKept'
  <2> SUFFICES ASSUME NEW j \in Known
               PROVE  /\ \A d \in Part : \/ manifest[j].path \in puts
                                          \/ raw'[manifest[j].path][d] = manifest[j].content
                                          \/ kept'[j][d] = manifest[j].content
                      /\ intent # j => kept'[j] \in {Nowhere, Both(manifest[j].content)}
    BY <1>1 DEF EvidenceKept, Nowhere, Both
  <2>1. /\ \A d \in Part : \/ manifest[j].path \in puts
                            \/ raw[manifest[j].path][d] = manifest[j].content
                            \/ kept[j][d] = manifest[j].content
        /\ intent # j => kept[j] \in {Nowhere, Both(manifest[j].content)}
    BY <1>1 DEF World, EvidenceKept
  <2>2. CASE j = i
    <3>1. ASSUME NEW d \in Part
          PROVE  \/ p \in puts \/ raw'[p][d] = c \/ kept'[i][d] = c
      <4>1. CASE d = part
        BY <1>2, <1>6, <4>1
      <4>2. CASE d # part
        BY <1>2, <1>5, <1>6, <2>1, <2>2, <4>2 DEF p, c
      <4> QED
        BY <4>1, <4>2
    <3> QED
      BY <2>2, <3>1 DEF p, c
  <2>3. CASE j # i
    <3>1. kept'[j] = kept[j]
      BY <1>6, <1>7, <2>3
    <3>2. ASSUME NEW d \in Part, manifest[j].path \notin puts
          PROVE  raw'[manifest[j].path][d] = raw[manifest[j].path][d]
      BY <1>5, <1>7, <1>8, <2>3, <3>2
    <3> QED
      BY <2>1, <3>1, <3>2
  <2> QED
    BY <2>2, <2>3
<1>13. MovesAreAuthorized'
  <2> SUFFICES ASSUME NEW j \in Id, NEW d \in Part, kept'[j][d] # None
               PROVE  j \in Known /\ MayMove(j)
    BY <1>1 DEF MovesAreAuthorized, MayMove
  <2>1. CASE j = i
    BY <2>1
  <2>2. CASE j # i
    BY <1>1, <1>6, <2>2 DEF World, MovesAreAuthorized, MayMove
  <2> QED
    BY <2>1, <2>2
<1>14. Grows
  BY <1>1 DEF Grows, MayMove
<1>15. ASSUME NEW q \in Session PROVE LeavesFile(q)
  <2> DEFINE v == task[q]
  <2> SUFFICES ASSUME Awaited(v), v.path \notin puts PROVE raw'[v.path] = raw[v.path]
    BY <1>1 DEF LeavesFile
  <2>1. v.path # p
    BY TaskTyped DEF Untouched, p
  <2>2. v.path \in Path
    BY TaskTyped DEF Awaited, Targeted
  <2> QED
    BY <1>4, <2>1, <2>2 DEF p
<1> QED
  BY <1>1, <1>9, <1>10, <1>11, <1>12, <1>13, <1>14, <1>15 DEF World

LEMMA MoveFileKeeps ==
  ASSUME IngestionConstants, IngestionInv, NEW s \in Session, MoveFile(s)
  PROVE  IngestionInv'
<1> DEFINE i == task[s].id
           left == {part \in Part : ~InKept(i, part)}
           part == IF "primary" \in left THEN "primary" ELSE "sidecar"
<1>1. task[s].step = "moving" /\ UNCHANGED <<manifest, intent, cited, puts>>
  BY DEF MoveFile
<1>2. CASE Fail(s) /\ UNCHANGED <<raw, kept>>
  BY <1>1, <1>2, StillEnds DEF Still
<1>3. CASE ~(Fail(s) /\ UNCHANGED <<raw, kept>>)
  <2>1. /\ part \in Part /\ InRaw(i, part)
        /\ kept' = [kept EXCEPT ![i][part] = manifest[i].content]
        /\ raw' = [raw EXCEPT ![manifest[i].path][part] = None]
        /\ UNCHANGED <<task, holder>>
    BY <1>3 DEF MoveFile, Part
  <2>2. i \in Known /\ intent = i /\ MayMove(i)
    BY <1>1, TaskTyped DEF Targeted, Locked, Authorized
  <2> HIDE DEF i, part
  <2>3. World' /\ Grows /\ Known' = Known /\ \A q \in Session : LeavesFile(q)
    BY <1>1, <2>1, <2>2, MovedKeepsWorld
  <2>4. \A q \in Session : LeavesLock(q)
    BY <1>1, <2>1, <2>3 DEF LeavesLock
  <2>5. Sessions'
    BY <2>1, <2>3, <2>4, Rests
  <2> QED
    BY <2>3, <2>5 DEF IngestionInv
<1> QED
  BY <1>2, <1>3

LEMMA CiteKeeps ==
  ASSUME IngestionConstants, IngestionInv, NEW i \in Id, Cite(i)
  PROVE  IngestionInv'
<1>1. /\ i \in Known /\ cited' = cited \cup {i}
      /\ UNCHANGED <<raw, kept, manifest, intent, holder, task, puts, falls>>
  BY DEF Cite
<1>2. World /\ Known' = Known
  BY <1>1 DEF IngestionInv, Known
<1>3. World'
  BY <1>1, <1>2 DEF World, ManifestsTyped, Named, OnePerPath, FilesTyped, Whole, Placed,
     EvidenceKept, MovesAreAuthorized, BatchesRefuseDuplicates
<1>4. Grows
  BY <1>1, <1>2 DEF Grows, MayMove
<1>5. \A q \in Session : LeavesLock(q) /\ LeavesFile(q)
  BY <1>1, <1>2 DEF LeavesLock, LeavesFile
<1>6. Sessions'
  BY <1>1, <1>4, <1>5, Rests
<1> QED
  BY <1>3, <1>6 DEF IngestionInv

LEMMA PutKeeps ==
  ASSUME IngestionConstants, IngestionInv, NEW p \in Path, NEW c \in Content, Put(p, c)
  PROVE  IngestionInv'
<1>1. /\ puts' = puts \cup {p} /\ raw' = [raw EXCEPT ![p] = Both(c)]
      /\ UNCHANGED <<kept, manifest, intent, cited, holder, task, falls>>
  BY DEF Put
<1>2. World /\ Known' = Known
  BY <1>1 DEF IngestionInv, Known
<1>3. Both(c) \in [Part -> Content \cup {None}] /\ \A d \in Part : Both(c)[d] = c
  BY DEF Both
<1>4. /\ raw' \in [Path -> [Part -> Content \cup {None}]]
      /\ raw'[p] = Both(c) /\ \A x \in Path : x # p => raw'[x] = raw[x]
  BY <1>1, <1>2, <1>3 DEF World, FilesTyped
<1>5. \A j \in Known : manifest[j].path \in Path
  BY KnownTyped DEF Manifest
<1>6. FilesTyped' /\ Whole'
  <2>1. FilesTyped'
    BY <1>1, <1>2, <1>4 DEF World, FilesTyped
  <2>2. Whole'
    BY <1>2, <1>3, <1>4 DEF World, Whole
  <2> QED
    BY <2>1, <2>2
<1>7. Placed' /\ EvidenceKept'
  <2>1. Placed'
    BY <1>1, <1>2, <1>4, <1>5 DEF World, Placed
  <2>2. ASSUME NEW j \in Known
        PROVE  /\ \A d \in Part : \/ manifest[j].path \in puts'
                                   \/ raw'[manifest[j].path][d] = manifest[j].content
                                   \/ kept[j][d] = manifest[j].content
               /\ intent # j => kept[j] \in {Nowhere, Both(manifest[j].content)}
    <3>1. manifest[j].path \notin puts' => raw'[manifest[j].path] = raw[manifest[j].path]
      BY <1>1, <1>4, <1>5
    <3> QED
      BY <1>1, <1>2, <3>1 DEF World, EvidenceKept
  <2>3. EvidenceKept'
    BY <1>1, <1>2, <2>2 DEF EvidenceKept, Nowhere, Both
  <2> QED
    BY <2>1, <2>3
<1>8. ManifestsTyped' /\ Named' /\ OnePerPath' /\ MovesAreAuthorized' /\ BatchesRefuseDuplicates'
  BY <1>1, <1>2 DEF World, ManifestsTyped, Named, OnePerPath, MovesAreAuthorized,
     BatchesRefuseDuplicates
<1>9. Grows
  BY <1>1, <1>2 DEF Grows, MayMove
<1>10. ASSUME NEW q \in Session PROVE LeavesLock(q) /\ LeavesFile(q)
  <2>1. Awaited(task[q]) => task[q].path \in Path
    BY TaskTyped DEF Awaited, Targeted
  <2> QED
    BY <1>1, <1>2, <1>4, <2>1 DEF LeavesLock, LeavesFile
<1>11. Sessions'
  BY <1>1, <1>9, <1>10, Rests
<1> QED
  BY <1>6, <1>7, <1>8, <1>11 DEF World, IngestionInv
-----------------------------------------------------------------------------
LEMMA StepKeeps ==
  ASSUME IngestionConstants, IngestionInv, IngestionNext
  PROVE  IngestionInv'
<1>1. ASSUME NEW s \in Session, OpenBatch(s) \/ CloseBatch(s) \/ Work(s) \/ Fall(s)
      PROVE  IngestionInv'
  BY <1>1, OpenBatchKeeps, CloseBatchKeeps, FallKeeps, CreateManifestKeeps, PersistReceiptKeeps,
     ProcessKeeps, EnterMoveKeeps, MoveFileKeeps, FinishMoveKeeps DEF Work
<1>2. ASSUME NEW s \in Session, NEW p \in Path, Register(s, p)
      PROVE  IngestionInv'
  BY <1>2, RegisterKeeps
<1>3. ASSUME NEW s \in Session, NEW i \in Id, Archive(s, i)
      PROVE  IngestionInv'
  BY <1>3, ArchiveKeeps
<1>4. ASSUME NEW i \in Id, Cite(i)
      PROVE  IngestionInv'
  BY <1>4, CiteKeeps
<1>5. ASSUME NEW p \in Path, NEW c \in Content, Put(p, c)
      PROVE  IngestionInv'
  BY <1>5, PutKeeps
<1> QED
  BY <1>1, <1>2, <1>3, <1>4, <1>5 DEF IngestionNext

LEMMA StutterKeeps ==
  ASSUME IngestionConstants, IngestionInv, UNCHANGED ingestionVars
  PROVE  IngestionInv'
<1> USE DEF ingestionVars
<1>1. Still
  BY DEF Still
<1>2. \A q \in Session : LeavesLock(q)
  BY <1>1, StillWorld
<1>3. Sessions'
  BY <1>1, <1>2, StillWorld, Rests
<1> QED
  BY <1>1, <1>3, StillWorld DEF IngestionInv

LEMMA IngestionSafe ==
  ASSUME IngestionConstants
  PROVE  IngestionSpec => []IngestionInv
<1>1. IngestionInit => IngestionInv
  BY InvInit
<1>2. IngestionInv /\ [IngestionNext]_ingestionVars => IngestionInv'
  BY StepKeeps, StutterKeeps
<1> QED
  BY <1>1, <1>2, PTL DEF IngestionSpec

(* The inbox keeps its types, and whoever moves files has the lock, a       *)
(* manifest and an intent for them (_move_with_receipt_under_lock).         *)
THEOREM IngestionTyped ==
  ASSUME IngestionConstants
  PROVE  IngestionSpec => []IngestionTypeOK
<1>1. IngestionInv => IngestionTypeOK
  BY TaskTyped DEF IngestionInv, World, FilesTyped, ManifestsTyped, Targeted, Locked, IngestionTypeOK
<1> QED
  BY <1>1, IngestionSafe, PTL

(* However registrations, batches, moves and archives interleave, wherever  *)
(* sessions die and whatever files the operator puts into the raw zone:     *)
(* evidence is never lost or moved without authority, what is kept is whole *)
(* between moves, and batches never register the same content twice         *)
(* (IngestionService.register, register_batch, archive_after).              *)
THEOREM EvidenceStaysKept ==
  ASSUME IngestionConstants
  PROVE  IngestionSpec => []EvidenceIsKept
<1>1. IngestionInv => EvidenceIsKept
  BY DEF IngestionInv, World, EvidenceIsKept
<1> QED
  BY <1>1, IngestionSafe, PTL
-----------------------------------------------------------------------------
(* The connectors.                                                          *)

(* Sequences are sequences of their own elements.                           *)
ASeq(s) == s \in Seq(Range(s))

LEMMA NothingIn ==
  ASeq(<<>>) /\ Range(<<>>) = {}
<1>1. <<>> \in Seq(Range(<<>>))
  OBVIOUS
<1>2. DOMAIN <<>> = {}
  BY <1>1
<1> QED
  BY <1>1, <1>2 DEF ASeq, Range

LEMMA Listed ==
  ASSUME NEW S, NEW n \in Nat, NEW f \in [1..n -> S]
  PROVE  ASeq(f)
<1>1. \A i \in 1..n : f[i] \in Range(f)
  BY DEF Range
<1>2. f \in [1..n -> Range(f)]
  BY <1>1
<1> QED
  BY <1>2, SeqDef DEF ASeq

LEMMA SeqFacts ==
  ASSUME NEW s, ASeq(s)
  PROVE  /\ Len(s) \in Nat /\ DOMAIN s = 1..Len(s)
         /\ s # <<>> => 1 \in DOMAIN s /\ Head(s) = s[1]
BY DEF ASeq

LEMMA TailSeq ==
  ASSUME NEW s, ASeq(s), s # <<>>
  PROVE  /\ ASeq(Tail(s))
         /\ \A i \in DOMAIN Tail(s) : i + 1 \in DOMAIN s /\ Tail(s)[i] = s[i + 1] /\ i \in Nat \ {0}
<1>1. Tail(s) \in Seq(Range(s))
  BY DEF ASeq
<1>2. \A i \in DOMAIN Tail(s) : i + 1 \in DOMAIN s /\ Tail(s)[i] = s[i + 1] /\ i \in Nat \ {0}
  BY DEF ASeq
<1>3. PICK n \in Nat : Tail(s) \in [1..n -> Range(s)]
  <2> DEFINE S == Range(s)
             t == Tail(s)
  <2>1. t \in Seq(S)
    BY <1>1
  <2> HIDE DEF S, t
  <2>2. t \in UNION {[1..n -> S] : n \in Nat}
    BY <2>1, SeqDef
  <2> QED
    BY <2>2 DEF S, t
<1>4. \A i \in 1..n : Tail(s)[i] \in Range(Tail(s))
  BY <1>3 DEF Range
<1>5. Tail(s) \in [1..n -> Range(Tail(s))]
  BY <1>3, <1>4
<1>6. Tail(s) \in Seq(Range(Tail(s)))
  BY <1>5, SeqDef
<1> QED
  BY <1>2, <1>6 DEF ASeq

LEMMA AppendSeq ==
  ASSUME NEW s, NEW e, ASeq(s)
  PROVE  ASeq(Append(s, e)) /\ Range(Append(s, e)) = Range(s) \cup {e}
<1> DEFINE t == Append(s, e)
           S == Range(s) \cup {e}
<1>1. s \in Seq(S) /\ t \in Seq(S) /\ Len(t) = Len(s) + 1 /\ Len(s) \in Nat
  BY DEF ASeq
<1>2. DOMAIN t = 1..(Len(s) + 1) /\ DOMAIN s = 1..Len(s)
  BY <1>1
<1>3. \A i \in DOMAIN t : t[i] = IF i = Len(s) + 1 THEN e ELSE s[i]
  BY <1>1, <1>2
<1>4. Range(t) = S
  <2>1. Range(t) \subseteq S
    BY <1>1, <1>2, <1>3 DEF Range
  <2>2. e \in Range(t)
    BY <1>1, <1>2, <1>3 DEF Range
  <2>3. ASSUME NEW i \in DOMAIN s PROVE s[i] \in Range(t)
    <3>1. i \in DOMAIN t /\ t[i] = s[i]
      BY <1>1, <1>2, <1>3
    <3> QED
      BY <3>1 DEF Range
  <2> QED
    BY <2>1, <2>2, <2>3 DEF Range
<1> QED
  BY <1>1, <1>4 DEF ASeq

(* A finite set can be put into a sequence without repetition.              *)
LEMMA Ordered ==
  ASSUME NEW S, IsFiniteSet(S)
  PROVE  /\ SetToSeq(S) \in Seq(S)
         /\ \A i, j \in DOMAIN SetToSeq(S) : SetToSeq(S)[i] = SetToSeq(S)[j] => i = j
<1>1. Cardinality(S) \in Nat /\ ExistsBijection(1..Cardinality(S), S)
  BY FS_CardinalityType
<1>2. PICK f \in [1..Cardinality(S) -> S] : \A i, j \in 1..Cardinality(S) : f[i] = f[j] => i = j
  BY <1>1 DEF ExistsBijection, Bijection, Injection, IsInjective
<1>3. IsInjective(f)
  BY <1>2 DEF IsInjective
<1>4. SetToSeq(S) \in [1..Cardinality(S) -> S] /\ IsInjective(SetToSeq(S))
  BY <1>3 DEF SetToSeq
<1> QED
  BY <1>1, <1>4 DEF IsInjective
-----------------------------------------------------------------------------
(* Of the constants: there are finitely many connectors.                    *)
ConnectorConstants == IsFiniteSet(Connector)

Working   == {"fetch", "primary", "sidecar", "cleanup", "register", "load", "save"}
Recording == {"load", "save"}

IsName(n) == n = Name(n.connector, n.snapshot, n.time)

Domains ==
  /\ DOMAIN stage = Run /\ DOMAIN queue = Run /\ DOMAIN written = Run
  /\ DOMAIN todo = Run /\ DOMAIN fetched = Run /\ DOMAIN known = Run

(* A run has each connector once, and works on the first.  What it has      *)
(* written is of that connector, and handed over before it is recorded.     *)
Queued(r) ==
  /\ ASeq(queue[r])
  /\ \A i, j \in DOMAIN queue[r] : queue[r][i].connector = queue[r][j].connector => i = j
  /\ stage[r] \in Working => queue[r] # <<>>

Holds(r) ==
  /\ ASeq(written[r])
  /\ \A n \in Range(written[r]) :
        /\ IsName(n)
        /\ stage[r] # "dead" => stage[r] \in Working /\ n.connector = Current(r)
        /\ stage[r] \in Recording => n \in succeeded /\ n \in handed
  /\ stage[r] \in {"primary", "sidecar"} =>
       IsName(fetched[r].name) /\ fetched[r].name.connector = Current(r)

Runs == Domains /\ \A r \in Run : Queued(r) /\ Holds(r)

(* A time that is recorded, or about to be, is that of a success.           *)
Tells(last) == \A k \in Key : last[k] # Never => Name(k[1], k[2], last[k]) \in succeeded
Times == Tells(lastSync) /\ \A r \in Run : Tells(known[r])

(* There is one file of each name and part, made by a run that has begun,   *)
(* and handed over or still in its hands.                                   *)
Disk ==
  /\ \A f \in files : f.by \in Run /\ f.part \in {"primary", "sidecar"} /\ stage[f.by] # "idle"
  /\ \A f, g \in files : f.name = g.name /\ f.part = g.part => f = g

InHand(r, n) ==
  \/ n \in handed \/ stage[r] = "dead" \/ n \in Range(written[r])
  \/ stage[r] = "sidecar" /\ n = fetched[r].name
Followed == \A f \in files : InHand(f.by, f.name)

(* Files that a sync made and had registered are of a connector with which  *)
(* it is done but for the record.                                           *)
Past(r, n) ==
  \/ stage[r] = "dead"
  \/ \A i \in DOMAIN queue[r] :
       queue[r][i].connector = n.connector => i = 1 /\ stage[r] \in Recording
MadeBy(r, n) ==
  \A part \in {"primary", "sidecar"} : \E f \in files : f.name = n /\ f.by = r /\ f.part = part
Owned == \A g \in registered : g.own => \E r \in Run : Past(r, g.name) /\ MadeBy(r, g.name)

ConnectorsInv == Runs /\ Times /\ Disk /\ Followed /\ Owned
-----------------------------------------------------------------------------
LEMMA ConnectorsBegin ==
  ASSUME ConnectorsInit
  PROVE  ConnectorsInv
<1> USE DEF ConnectorsInit
<1>1. Domains
  BY DEF Domains
<1>2. ASSUME NEW r \in Run PROVE Queued(r) /\ Holds(r)
  <2>1. queue[r] = <<>> /\ written[r] = <<>> /\ stage[r] = "idle" /\ DOMAIN queue[r] = {}
    OBVIOUS
  <2> QED
    BY <2>1, NothingIn DEF Queued, Holds, Working, Recording
<1>3. Times
  BY DEF Times, Tells
<1> QED
  BY <1>1, <1>2, <1>3 DEF ConnectorsInv, Runs, Disk, Followed, Owned

(* What a run does leaves the others alone.                                 *)
Alone(r) ==
  /\ Domains' /\ succeeded \subseteq succeeded' /\ handed \subseteq handed'
  /\ \A q \in Run \ {r} : /\ stage'[q] = stage[q] /\ queue'[q] = queue[q]
                           /\ written'[q] = written[q] /\ fetched'[q] = fetched[q]
                           /\ known'[q] = known[q]

LEMMA RunsOn ==
  ASSUME ConnectorsInv, NEW r \in Run, Alone(r), Queued(r)', Holds(r)'
  PROVE  Runs'
<1>1. ASSUME NEW q \in Run, q # r PROVE Queued(q)' /\ Holds(q)'
  <2>1. Queued(q) /\ Holds(q)
    BY DEF ConnectorsInv, Runs
  <2>2. /\ stage'[q] = stage[q] /\ queue'[q] = queue[q]
        /\ written'[q] = written[q] /\ fetched'[q] = fetched[q]
        /\ succeeded \subseteq succeeded' /\ handed \subseteq handed'
    BY <1>1 DEF Alone
  <2>3. Queued(q)'
    BY <2>1, <2>2 DEF Queued
  <2>4. Holds(q)'
    BY <2>1, <2>2 DEF Holds, Current
  <2> QED
    BY <2>3, <2>4
<1> QED
  BY <1>1 DEF Runs, Alone

(* What a run has done with a connector stays done.                         *)
LEMMA PastStays ==
  ASSUME ConnectorsInv, NEW r \in Run, NEW n, Past(r, n),
         \/ queue'[r] = queue[r] /\ (stage[r] \in Recording => stage'[r] \in Recording \cup {"dead"})
                                 /\ (stage[r] = "dead" => stage'[r] = "dead")
         \/ stage[r] # "dead" /\ queue[r] # <<>> /\ queue'[r] = Tail(queue[r])
         \/ stage'[r] = "dead"
  PROVE  Past(r, n)'
<1>1. ASeq(queue[r])
  BY DEF ConnectorsInv, Runs, Queued
<1>2. CASE stage[r] # "dead" /\ queue[r] # <<>> /\ queue'[r] = Tail(queue[r])
  <2>1. \A i \in DOMAIN queue[r] : queue[r][i].connector = n.connector => i = 1
    BY <1>2 DEF Past
  <2>2. ASSUME NEW i \in DOMAIN Tail(queue[r]) PROVE Tail(queue[r])[i].connector # n.connector
    <3>1. i + 1 \in DOMAIN queue[r] /\ Tail(queue[r])[i] = queue[r][i + 1] /\ i \in Nat \ {0}
      BY <1>1, <1>2, TailSeq
    <3> QED
      BY <2>1, <3>1
  <2> QED
    BY <1>2, <2>2 DEF Past
<1>3. CASE queue'[r] = queue[r] /\ (stage[r] \in Recording => stage'[r] \in Recording \cup {"dead"})
                               /\ (stage[r] = "dead" => stage'[r] = "dead")
  BY <1>3 DEF Past
<1>4. CASE stage'[r] = "dead"
  BY <1>4 DEF Past
<1> QED
  BY <1>2, <1>3, <1>4

LEMMA OthersPast ==
  ASSUME NEW r \in Run, Alone(r), NEW q \in Run, q # r, NEW n, Past(q, n)
  PROVE  Past(q, n)'
BY DEF Past, Alone

LEMMA OthersHand ==
  ASSUME NEW r \in Run, Alone(r), NEW q \in Run, q # r, NEW n, InHand(q, n)
  PROVE  InHand(q, n)'
BY DEF InHand, Alone

(* Steps that touch no file.                                                *)
LEMMA FilesStay ==
  ASSUME ConnectorsInv, NEW r \in Run, Alone(r), files' = files, stage'[r] # "idle",
         \A n : n \notin Range(written[r]) /\ InHand(r, n) => InHand(r, n)',
         stage[r] = "idle" \/ \A n : Past(r, n) => Past(r, n)',
         \A n \in Range(written[r]) : n \in handed' \/ stage'[r] = "dead" \/ n \in Range(written'[r])
  PROVE  /\ Disk' /\ Followed'
         /\ \A g \in registered : g.own => \E q \in Run : Past(q, g.name)' /\ MadeBy(q, g.name)'
<1>1. Disk'
  <2>1. \A q \in Run : stage[q] # "idle" => stage'[q] # "idle"
    BY DEF Alone
  <2> QED
    BY <2>1 DEF Disk, ConnectorsInv
<1>2. Followed'
  <2> SUFFICES ASSUME NEW f \in files PROVE InHand(f.by, f.name)'
    BY DEF Followed, InHand
  <2>1. f.by \in Run /\ InHand(f.by, f.name)
    BY DEF ConnectorsInv, Disk, Followed
  <2>2. CASE f.by # r
    BY <2>1, <2>2, OthersHand
  <2>3. CASE f.by = r
    <3>1. CASE f.name \in Range(written[r])
      BY <2>3, <3>1 DEF InHand
    <3>2. CASE f.name \notin Range(written[r])
      BY <2>1, <2>3, <3>2
    <3> QED
      BY <3>1, <3>2
  <2> QED
    BY <2>2, <2>3
<1>3. ASSUME NEW g \in registered, g.own
      PROVE  \E q \in Run : Past(q, g.name)' /\ MadeBy(q, g.name)'
  <2>1. PICK q \in Run : Past(q, g.name) /\ MadeBy(q, g.name)
    BY <1>3 DEF ConnectorsInv, Owned
  <2>2. MadeBy(q, g.name)'
    BY <2>1 DEF MadeBy
  <2>3. stage[q] # "idle"
    BY <2>1 DEF MadeBy, ConnectorsInv, Disk
  <2>4. Past(q, g.name)'
    <3>1. CASE q = r
      BY <2>1, <2>3, <3>1
    <3>2. CASE q # r
      BY <2>1, <3>2, OthersPast
    <3> QED
      BY <3>1, <3>2
  <2> QED
    BY <2>2, <2>4
<1> QED
  BY <1>1, <1>2, <1>3
-----------------------------------------------------------------------------
LEMMA SyncAllKeeps ==
  ASSUME ConnectorConstants, ConnectorsInv, NEW r \in Run, SyncAll(r)
  PROVE  ConnectorsInv'
<1> DEFINE wanted(c) == Selected(r, c, lastSync, Now)
           due   == {c \in Connector : wanted(c) # <<>>}
           order == SetToSeq(due)
           q     == [i \in DOMAIN order |-> [connector |-> order[i], snapshots |-> wanted(order[i])]]
<1>1. /\ stage[r] = "idle" /\ stage' = [stage EXCEPT ![r] = "next"] /\ queue' = [queue EXCEPT ![r] = q]
      /\ UNCHANGED <<files, registered, handed, succeeded, lastSync, fetched, written, known, todo>>
  BY DEF SyncAll, At
<1>2. Domains /\ Queued(r) /\ Holds(r)
  BY DEF ConnectorsInv, Runs
<1>3. IsFiniteSet(due)
  <2>1. due \subseteq Connector
    OBVIOUS
  <2> HIDE DEF due
  <2> QED
    BY <2>1, FS_Subset DEF ConnectorConstants
<1>4. order \in Seq(due) /\ (\A i, j \in DOMAIN order : order[i] = order[j] => i = j)
  BY <1>3, Ordered
<1>5. DOMAIN q = DOMAIN order /\ \A i \in DOMAIN q : q[i].connector = order[i]
  OBVIOUS
<1>6. ASeq(q)
  <2>1. q \in [1..Len(order) -> Range(q)] /\ Len(order) \in Nat
    <3>1. DOMAIN order = 1..Len(order) /\ Len(order) \in Nat
      BY <1>4
    <3>2. \A i \in DOMAIN order : q[i] \in Range(q)
      BY DEF Range
    <3> QED
      BY <3>1, <3>2
  <2> HIDE DEF q
  <2> QED
    BY <2>1, Listed
<1> HIDE DEF q, order
<1>7. /\ stage'[r] = "next" /\ queue'[r] = q
      /\ Domains' /\ \A p \in Run : p # r => stage'[p] = stage[p] /\ queue'[p] = queue[p]
  BY <1>1, <1>2 DEF Domains
<1>8. Alone(r)
  BY <1>1, <1>7 DEF Alone
<1>9. Queued(r)'
  BY <1>4, <1>5, <1>6, <1>7 DEF Queued, Working
<1>10. written[r] = <<>> \/ Range(written[r]) = {}
  BY <1>1, <1>2 DEF Holds, Working
<1>11. Holds(r)'
  BY <1>1, <1>2, <1>7, <1>10, NothingIn DEF Holds
<1>12. Runs'
  BY <1>8, <1>9, <1>11, RunsOn
<1>13. \A n : InHand(r, n) => InHand(r, n)'
  BY <1>1, <1>7 DEF InHand
<1>14. Disk' /\ Followed' /\ Owned'
  BY <1>1, <1>7, <1>8, <1>13, FilesStay DEF Owned
<1>15. Times'
  BY <1>1 DEF ConnectorsInv, Times, Tells
<1> QED
  BY <1>12, <1>14, <1>15 DEF ConnectorsInv

(* Steps of a run that change neither files nor its queue.                  *)
LEMMA QueueStays ==
  ASSUME ConnectorsInv, NEW r \in Run, Alone(r), Holds(r)', Times', queue'[r] = queue[r],
         stage[r] # "idle", stage[r] # "sidecar" \/ stage'[r] = "dead", stage'[r] # "idle",
         stage[r] = "dead" => stage'[r] = "dead",
         stage[r] \in Recording => stage'[r] \in Recording \cup {"dead"},
         stage'[r] \in Working => queue[r] # <<>>,
         UNCHANGED <<files, registered>>, written'[r] = written[r]
  PROVE  ConnectorsInv'
<1>1. Queued(r)'
  BY DEF Queued, ConnectorsInv, Runs
<1>2. Runs'
  BY <1>1, RunsOn
<1>3. \A n : InHand(r, n) => InHand(r, n)'
  BY DEF InHand, Alone
<1>4. \A n : Past(r, n) => Past(r, n)'
  BY PastStays
<1>5. Disk' /\ Followed' /\ Owned'
  BY <1>3, <1>4, FilesStay DEF Owned
<1> QED
  BY <1>2, <1>5 DEF ConnectorsInv

LEMMA RunSyncKeeps ==
  ASSUME ConnectorsInv, NEW r \in Run, RunSync(r)
  PROVE  ConnectorsInv'
<1>1. /\ stage[r] = "next"
      /\ UNCHANGED <<files, registered, handed, succeeded, lastSync, queue, fetched, written, known>>
      /\ \/ queue[r] = <<>> /\ stage' = [stage EXCEPT ![r] = "done"] /\ UNCHANGED todo
         \/ /\ queue[r] # <<>> /\ todo' = [todo EXCEPT ![r] = Head(queue[r]).snapshots]
            /\ \E l \in {"fetch", "cleanup"} : stage' = [stage EXCEPT ![r] = l]
  BY DEF RunSync, At
<1>2. Domains /\ Holds(r)
  BY DEF ConnectorsInv, Runs
<1>3. PICK l \in {"fetch", "cleanup", "done"} : stage' = [stage EXCEPT ![r] = l] /\ (l # "done" => queue[r] # <<>>)
  BY <1>1
<1>4. stage'[r] = l /\ Domains' /\ \A p \in Run : p # r => stage'[p] = stage[p]
  BY <1>1, <1>2, <1>3 DEF Domains
<1>5. Alone(r)
  BY <1>1, <1>4 DEF Alone
<1>6. Range(written[r]) = {}
  BY <1>1, <1>2 DEF Holds, Working
<1>7. Holds(r)'
  BY <1>1, <1>2, <1>4, <1>6 DEF Holds
<1>8. Times'
  BY <1>1 DEF ConnectorsInv, Times, Tells
<1> QED
  BY <1>1, <1>3, <1>4, <1>5, <1>7, <1>8, QueueStays DEF Working, Recording

LEMMA FetchKeeps ==
  ASSUME ConnectorsInv, NEW r \in Run, Fetch(r)
  PROVE  ConnectorsInv'
<1>1. /\ stage[r] = "fetch"
      /\ UNCHANGED <<files, registered, handed, succeeded, lastSync, queue, todo, written, known>>
  BY DEF Fetch
<1>2. Domains /\ Holds(r) /\ Queued(r) /\ Times
  BY DEF ConnectorsInv, Runs
<1>3. Times'
  BY <1>1, <1>2 DEF Times, Tells
<1>4. CASE UNCHANGED fetched /\ stage' = [stage EXCEPT ![r] = "cleanup"]
  <2>1. stage'[r] = "cleanup" /\ Domains' /\ \A p \in Run : p # r => stage'[p] = stage[p]
    BY <1>1, <1>2, <1>4 DEF Domains
  <2>2. Alone(r)
    BY <1>1, <1>4, <2>1 DEF Alone
  <2>3. Holds(r)'
    BY <1>1, <1>2, <1>4, <2>1 DEF Holds, Working, Recording, Current
  <2> QED
    BY <1>1, <1>2, <1>3, <2>1, <2>2, <2>3, QueueStays DEF Working, Recording, Queued
<1>5. ASSUME NEW b, fetched' = [fetched EXCEPT ![r] =
                      [name |-> Name(Current(r), Head(todo[r]), Now), body |-> b]],
             stage' = [stage EXCEPT ![r] = "primary"]
      PROVE  ConnectorsInv'
  <2>1. /\ stage'[r] = "primary" /\ Domains'
        /\ \A p \in Run : p # r => stage'[p] = stage[p] /\ fetched'[p] = fetched[p]
        /\ fetched'[r].name = Name(Current(r), Head(todo[r]), Now)
    BY <1>1, <1>2, <1>5 DEF Domains
  <2>2. Alone(r)
    BY <1>1, <2>1 DEF Alone
  <2>3. IsName(fetched'[r].name) /\ fetched'[r].name.connector = Current(r) /\ Current(r)' = Current(r)
    BY <1>1, <2>1 DEF IsName, Name, Current
  <2>4. Holds(r)'
    BY <1>1, <1>2, <2>1, <2>3 DEF Holds, Working, Recording, IsName
  <2> QED
    BY <1>1, <1>2, <1>3, <2>1, <2>2, <2>4, QueueStays DEF Working, Recording, Queued
<1> QED
  BY <1>4, <1>5 DEF Fetch, At

LEMMA LoadKeeps ==
  ASSUME ConnectorsInv, NEW r \in Run, Load(r)
  PROVE  ConnectorsInv'
<1>1. /\ stage[r] = "load" /\ known' = [known EXCEPT ![r] = lastSync]
      /\ stage' = [stage EXCEPT ![r] = "save"]
      /\ UNCHANGED <<files, registered, handed, succeeded, lastSync, queue, todo, fetched, written>>
  BY DEF Load, At
<1>2. Domains /\ Holds(r) /\ Queued(r) /\ Times
  BY DEF ConnectorsInv, Runs
<1>3. /\ stage'[r] = "save" /\ known'[r] = lastSync /\ Domains'
      /\ \A p \in Run : p # r => stage'[p] = stage[p] /\ known'[p] = known[p]
  BY <1>1, <1>2 DEF Domains
<1>4. Alone(r)
  BY <1>1, <1>3 DEF Alone
<1>5. Holds(r)'
  BY <1>1, <1>2, <1>3 DEF Holds, Working, Recording, Current
<1>6. Times'
  BY <1>1, <1>2, <1>3 DEF Times, Tells
<1> QED
  BY <1>1, <1>2, <1>3, <1>4, <1>5, <1>6, QueueStays DEF Working, Recording, Queued

LEMMA DieKeeps ==
  ASSUME ConnectorsInv, NEW r \in Run, Die(r)
  PROVE  ConnectorsInv'
<1>1. /\ stage[r] # "idle" /\ stage' = [stage EXCEPT ![r] = "dead"]
      /\ UNCHANGED <<files, registered, handed, succeeded, lastSync, queue, todo, fetched, written, known>>
  BY DEF Die, At
<1>2. Domains /\ Holds(r) /\ Queued(r) /\ Times
  BY DEF ConnectorsInv, Runs
<1>3. stage'[r] = "dead" /\ Domains' /\ \A p \in Run : p # r => stage'[p] = stage[p]
  BY <1>1, <1>2 DEF Domains
<1>4. Alone(r)
  BY <1>1, <1>3 DEF Alone
<1>5. Holds(r)'
  BY <1>1, <1>2, <1>3 DEF Holds, Working, Recording
<1>6. Times'
  BY <1>1, <1>2 DEF Times, Tells
<1> QED
  BY <1>1, <1>3, <1>4, <1>5, <1>6, QueueStays DEF Working, Recording

LEMMA WorldChanges ==
  ASSUME ConnectorsInv, Spoil \/ Tick \/ UNCHANGED connectorVars
  PROVE  ConnectorsInv'
<1>1. /\ UNCHANGED <<files, registered, handed, succeeded, stage, queue, todo, fetched, written, known>>
      /\ \A k \in Key : lastSync'[k] = lastSync[k] \/ lastSync'[k] = Never
  BY DEF Spoil, Tick, connectorVars
<1>2. Runs'
  BY <1>1 DEF ConnectorsInv, Runs, Domains, Queued, Holds, Current
<1>3. Times'
  BY <1>1 DEF ConnectorsInv, Times, Tells
<1>4. Disk' /\ Followed' /\ Owned'
  BY <1>1 DEF ConnectorsInv, Disk, Followed, InHand, Owned, Past, MadeBy
<1> QED
  BY <1>2, <1>3, <1>4 DEF ConnectorsInv
-----------------------------------------------------------------------------
(* A run removes files of the connector it is working on, and none that it  *)
(* has had registered: with those it is done.                               *)
LEMMA RegisteredFilesStay ==
  ASSUME ConnectorsInv, NEW r \in Run, NEW S, stage[r] \in Working \ Recording,
         \A n \in S : n.connector = Current(r),
         NEW q \in Run, NEW n, Past(q, n), MadeBy(q, n)
  PROVE  \A part \in {"primary", "sidecar"} :
           \E f \in Drop(S, r) : f.name = n /\ f.by = q /\ f.part = part
<1>1. q # r \/ n \notin S
  <2> SUFFICES ASSUME q = r, n \in S PROVE FALSE
    OBVIOUS
  <2>1. ASeq(queue[r]) /\ queue[r] # <<>>
    BY DEF ConnectorsInv, Runs, Queued
  <2>2. 1 \in DOMAIN queue[r] /\ Current(r) = queue[r][1].connector
    BY <2>1, SeqFacts DEF Current
  <2> QED
    BY <2>2 DEF Past, Working, Recording
<1> QED
  BY <1>1 DEF MadeBy, Drop

(* Steps that remove files of a run.                                        *)
LEMMA FilesGo ==
  ASSUME ConnectorsInv, NEW r \in Run, Alone(r), NEW S, files' = Drop(S, r),
         stage[r] \in Working \ Recording, stage'[r] # "idle",
         \A n \in S : n.connector = Current(r),
         \A n : Past(r, n) => Past(r, n)',
         \A n : n \notin S /\ InHand(r, n) => InHand(r, n)',
         registered' = registered
  PROVE  Disk' /\ Followed' /\ Owned'
<1>1. files' \subseteq files /\ \A f \in files' : f.by = r => f.name \notin S
  BY DEF Drop
<1>2. Disk'
  <2>1. \A q \in Run : stage[q] # "idle" => stage'[q] # "idle"
    BY DEF Alone
  <2> QED
    BY <1>1, <2>1 DEF Disk, ConnectorsInv
<1>3. Followed'
  <2> SUFFICES ASSUME NEW f \in files' PROVE InHand(f.by, f.name)'
    BY DEF Followed, InHand
  <2>1. f.by \in Run /\ InHand(f.by, f.name)
    BY <1>1 DEF ConnectorsInv, Disk, Followed
  <2>2. CASE f.by # r
    BY <2>1, <2>2, OthersHand
  <2>3. CASE f.by = r
    BY <1>1, <2>1, <2>3
  <2> QED
    BY <2>2, <2>3
<1>4. ASSUME NEW g \in registered, g.own
      PROVE  \E q \in Run : Past(q, g.name)' /\ MadeBy(q, g.name)'
  <2>1. PICK q \in Run : Past(q, g.name) /\ MadeBy(q, g.name)
    BY <1>4 DEF ConnectorsInv, Owned
  <2>2. MadeBy(q, g.name)'
    BY <2>1, RegisteredFilesStay DEF MadeBy
  <2>3. Past(q, g.name)'
    <3>1. CASE q = r
      BY <2>1, <3>1
    <3>2. CASE q # r
      BY <2>1, <3>2, OthersPast
    <3> QED
      BY <3>1, <3>2
  <2> QED
    BY <2>2, <2>3
<1>5. Owned'
  BY <1>4 DEF Owned
<1> QED
  BY <1>2, <1>3, <1>5

(* Steps that may create a file.                                            *)
LEMMA FileCreated ==
  ASSUME ConnectorsInv, NEW r \in Run, Alone(r), NEW part \in {"primary", "sidecar"},
         files' = IF Found(r, part) = {} THEN files \cup {Made(r, part)} ELSE files,
         stage[r] \in Working \ Recording, stage'[r] \in Working, queue'[r] = queue[r],
         UNCHANGED <<registered, fetched>>,
         \A n : InHand(r, n) => InHand(r, n)',
         InHand(r, fetched[r].name)'
  PROVE  Disk' /\ Followed' /\ Owned'
<1> DEFINE m == Made(r, part)
<1>1. files \subseteq files' /\ files' \subseteq files \cup {m}
  OBVIOUS
<1>2. m \in files' /\ m \notin files => \A f \in files : ~(f.name = m.name /\ f.part = m.part)
  BY DEF Found, Made
<1>3. m.by = r /\ m.part = part /\ m.name = fetched[r].name
  BY DEF Made
<1> HIDE DEF m
<1>4. Disk'
  <2>1. \A q \in Run : stage[q] # "idle" => stage'[q] # "idle"
    BY DEF Alone, Working
  <2>2. ASSUME NEW f \in files'
        PROVE  f.by \in Run /\ f.part \in {"primary", "sidecar"} /\ stage'[f.by] # "idle"
    <3>1. CASE f \in files
      BY <2>1, <3>1 DEF ConnectorsInv, Disk
    <3>2. CASE f = m
      BY <1>3, <3>2 DEF Working
    <3> QED
      BY <1>1, <3>1, <3>2
  <2>3. ASSUME NEW f \in files', NEW g \in files', f.name = g.name, f.part = g.part
        PROVE  f = g
    <3>1. CASE f \in files /\ g \in files
      BY <2>3, <3>1 DEF ConnectorsInv, Disk
    <3>2. CASE ~(f \in files /\ g \in files)
      BY <1>1, <1>2, <2>3, <3>2
    <3> QED
      BY <3>1, <3>2
  <2> QED
    BY <2>2, <2>3 DEF Disk
<1>5. Followed'
  <2> SUFFICES ASSUME NEW f \in files' PROVE InHand(f.by, f.name)'
    BY DEF Followed, InHand
  <2>1. CASE f = m
    BY <1>3, <2>1 DEF InHand
  <2>2. CASE f \in files
    <3>1. f.by \in Run /\ InHand(f.by, f.name)
      BY <2>2 DEF ConnectorsInv, Disk, Followed
    <3>2. CASE f.by # r
      BY <3>1, <3>2, OthersHand
    <3>3. CASE f.by = r
      BY <3>1, <3>3
    <3> QED
      BY <3>2, <3>3
  <2> QED
    BY <1>1, <2>1, <2>2
<1>6. ASSUME NEW g \in registered, g.own
      PROVE  \E q \in Run : Past(q, g.name)' /\ MadeBy(q, g.name)'
  <2>1. PICK q \in Run : Past(q, g.name) /\ MadeBy(q, g.name)
    BY <1>6 DEF ConnectorsInv, Owned
  <2>2. MadeBy(q, g.name)'
    BY <1>1, <2>1 DEF MadeBy
  <2>3. Past(q, g.name)'
    <3>1. CASE q = r
      BY <2>1, <3>1, PastStays DEF Working, Recording
    <3>2. CASE q # r
      BY <2>1, <3>2, OthersPast
    <3> QED
      BY <3>1, <3>2
  <2> QED
    BY <2>2, <2>3
<1>7. Owned'
  BY <1>6 DEF Owned
<1> QED
  BY <1>4, <1>5, <1>7

LEMMA FileMade ==
  ASSUME ConnectorsInv, NEW r \in Run, NEW part \in {"primary", "sidecar"},
         NEW next \in {"sidecar", "register", "fetch"},
         stage[r] = part, WriteOrMatch(r, part, next),
         UNCHANGED <<registered, handed, succeeded, lastSync, queue, fetched, known>>,
         IF next = "sidecar" THEN part = "primary" /\ UNCHANGED <<written, todo>>
         ELSE /\ written' = [written EXCEPT ![r] = Append(@, fetched[r].name)]
              /\ todo' = [todo EXCEPT ![r] = Tail(@)]
  PROVE  ConnectorsInv'
<1>1. Domains /\ Holds(r) /\ Queued(r) /\ Times
  BY DEF ConnectorsInv, Runs
<1>2. /\ stage'[r] = next /\ Domains'
      /\ \A p \in Run : p # r => stage'[p] = stage[p] /\ written'[p] = written[p]
  BY <1>1 DEF Domains, WriteOrMatch, At
<1>3. Alone(r)
  BY <1>2 DEF Alone
<1>4. Times'
  BY <1>1 DEF Times, Tells
<1>5. /\ ASeq(written'[r])
      /\ Range(written'[r]) = IF next = "sidecar" THEN Range(written[r])
                              ELSE Range(written[r]) \cup {fetched[r].name}
  <2>1. CASE next = "sidecar"
    BY <1>1, <2>1 DEF Holds
  <2>2. CASE next # "sidecar"
    <3>1. written'[r] = Append(written[r], fetched[r].name)
      BY <1>1, <2>2 DEF Domains
    <3> QED
      BY <1>1, <2>2, <3>1, AppendSeq DEF Holds
  <2> QED
    BY <2>1, <2>2
<1>6. Queued(r)'
  BY <1>1, <1>2 DEF Queued, Working
<1>7. Holds(r)'
  <2>1. IsName(fetched[r].name) /\ fetched[r].name.connector = Current(r)
    BY <1>1 DEF Holds
  <2>2. \A n \in Range(written'[r]) : IsName(n) /\ n.connector = Current(r)'
    BY <1>1, <1>5, <2>1 DEF Holds, Current
  <2>3. stage'[r] \in Working \ Recording /\ (stage'[r] \in {"primary", "sidecar"} => next = "sidecar")
    BY <1>2 DEF Working, Recording
  <2>4. Current(r)' = Current(r) /\ fetched'[r] = fetched[r]
    BY DEF Current
  <2> QED
    BY <1>5, <2>1, <2>2, <2>3, <2>4 DEF Holds
<1>8. Runs'
  BY <1>3, <1>6, <1>7, RunsOn
<1>9. InHand(r, fetched[r].name)' /\ \A n : InHand(r, n) => InHand(r, n)'
  BY <1>2, <1>5 DEF InHand
<1>10. files' = IF Found(r, part) = {} THEN files \cup {Made(r, part)} ELSE files
  BY DEF WriteOrMatch
<1>11. Disk' /\ Followed' /\ Owned'
  BY <1>2, <1>3, <1>9, <1>10, FileCreated DEF Working, Recording
<1> QED
  BY <1>4, <1>8, <1>11 DEF ConnectorsInv

LEMMA FileRefused ==
  ASSUME ConnectorsInv, NEW r \in Run, NEW part \in {"primary", "sidecar"},
         stage[r] = part, WriteOrFail(r, part),
         UNCHANGED <<registered, handed, succeeded, lastSync, queue, fetched, known, written, todo>>
  PROVE  ConnectorsInv'
<1>1. Domains /\ Holds(r) /\ Queued(r) /\ Times
  BY DEF ConnectorsInv, Runs
<1>2. /\ stage'[r] = "cleanup" /\ Domains'
      /\ \A p \in Run : p # r => stage'[p] = stage[p]
  BY <1>1 DEF Domains, WriteOrFail, At
<1>3. Alone(r)
  BY <1>2 DEF Alone
<1>4. Times'
  BY <1>1 DEF Times, Tells
<1>5. Queued(r)' /\ Holds(r)'
  BY <1>1, <1>2 DEF Queued, Holds, Working, Recording, Current
<1>6. Runs'
  BY <1>3, <1>5, RunsOn
<1>7. \A n : n \notin {fetched[r].name} /\ InHand(r, n) => InHand(r, n)'
  BY <1>2 DEF InHand
<1>8. \A n \in {fetched[r].name} : n.connector = Current(r)
  BY <1>1 DEF Holds
<1>9. \A n : Past(r, n) => Past(r, n)'
  BY <1>2, PastStays DEF Recording
<1>10. Disk' /\ Followed' /\ Owned'
  BY <1>2, <1>3, <1>7, <1>8, <1>9, FilesGo DEF Working, Recording, WriteOrFail
<1> QED
  BY <1>4, <1>6, <1>10 DEF ConnectorsInv

LEMMA WriteKeeps ==
  ASSUME ConnectorsInv, NEW r \in Run, WritePrimary(r) \/ WriteSidecar(r)
  PROVE  ConnectorsInv'
<1>1. CASE WritePrimary(r)
  <2>1. CASE WriteOrMatch(r, "primary", "sidecar")
    BY <1>1, <2>1, FileMade DEF WritePrimary
  <2>2. CASE WriteOrFail(r, "primary")
    BY <1>1, <2>2, FileRefused DEF WritePrimary
  <2> QED
    BY <1>1, <2>1, <2>2 DEF WritePrimary
<1>2. CASE WriteSidecar(r)
  <2>1. CASE WriteOrFail(r, "sidecar") /\ UNCHANGED <<written, todo>>
    BY <1>2, <2>1, FileRefused DEF WriteSidecar
  <2>2. CASE ~(WriteOrFail(r, "sidecar") /\ UNCHANGED <<written, todo>>)
    <3>1. PICK next \in {"register", "fetch"} : WriteOrMatch(r, "sidecar", next)
      BY <1>2, <2>2 DEF WriteSidecar
    <3> QED
      BY <1>2, <2>2, <3>1, FileMade DEF WriteSidecar
  <2> QED
    BY <2>1, <2>2
<1> QED
  BY <1>1, <1>2
-----------------------------------------------------------------------------
(* A run that has reported of a connector has it no longer in its queue.    *)
LEMMA Reported ==
  ASSUME ConnectorsInv, NEW r \in Run, NEW o, Report(r, o), stage[r] \in Working,
         succeeded \subseteq succeeded', handed \subseteq handed'
  PROVE  /\ Runs' /\ Alone(r) /\ stage'[r] = "next" /\ written'[r] = <<>>
         /\ queue'[r] = Tail(queue[r]) /\ \A k \in Key : known'[r][k] = Never
         /\ \A n : Past(r, n) => Past(r, n)'
<1>1. Domains /\ Queued(r)
  BY DEF ConnectorsInv, Runs
<1>2. /\ stage'[r] = "next" /\ Domains' /\ queue'[r] = Tail(queue[r]) /\ written'[r] = <<>>
      /\ \A k \in Key : known'[r][k] = Never
      /\ \A p \in Run : p # r => /\ stage'[p] = stage[p] /\ queue'[p] = queue[p]
                                 /\ written'[p] = written[p] /\ fetched'[p] = fetched[p]
                                 /\ known'[p] = known[p]
  BY <1>1 DEF Domains, Report, At
<1>3. Alone(r)
  BY <1>2 DEF Alone
<1>4. ASeq(queue[r]) /\ queue[r] # <<>>
  BY <1>1 DEF Queued
<1>5. /\ ASeq(queue'[r])
      /\ \A i \in DOMAIN queue'[r] : i + 1 \in DOMAIN queue[r] /\ queue'[r][i] = queue[r][i + 1] /\ i \in Nat
  BY <1>2, <1>4, TailSeq
<1>6. Queued(r)'
  <2>1. ASSUME NEW i \in DOMAIN queue'[r], NEW j \in DOMAIN queue'[r],
               queue'[r][i].connector = queue'[r][j].connector
        PROVE  i = j
    <3>1. i + 1 = j + 1
      BY <1>1, <1>5, <2>1 DEF Queued
    <3> QED
      BY <1>5, <3>1
  <2> QED
    BY <1>2, <1>5, <2>1 DEF Queued, Working
<1>7. Holds(r)'
  BY <1>2, NothingIn DEF Holds, Recording
<1>8. \A n : Past(r, n) => Past(r, n)'
  BY <1>2, <1>4, PastStays DEF Working
<1> QED
  BY <1>2, <1>3, <1>6, <1>7, <1>8, RunsOn

LEMMA CleanupKeeps ==
  ASSUME ConnectorsInv, NEW r \in Run, Cleanup(r)
  PROVE  ConnectorsInv'
<1>1. /\ stage[r] = "cleanup" /\ files' = Drop(Range(written[r]), r) /\ Report(r, "failed")
      /\ UNCHANGED <<registered, handed, succeeded, lastSync>>
  BY DEF Cleanup
<1>2. Holds(r) /\ Times
  BY DEF ConnectorsInv, Runs
<1>3. /\ Runs' /\ Alone(r) /\ stage'[r] = "next" /\ written'[r] = <<>>
      /\ queue'[r] = Tail(queue[r]) /\ \A k \in Key : known'[r][k] = Never
      /\ \A n : Past(r, n) => Past(r, n)'
  BY <1>1, Reported DEF Working
<1>4. Times'
  BY <1>1, <1>2, <1>3 DEF Times, Tells, Alone
<1>5. \A n \in Range(written[r]) : n.connector = Current(r)
  BY <1>1, <1>2 DEF Holds
<1>6. \A n : n \notin Range(written[r]) /\ InHand(r, n) => InHand(r, n)'
  BY <1>1 DEF InHand
<1>7. Disk' /\ Followed' /\ Owned'
  BY <1>1, <1>3, <1>5, <1>6, FilesGo DEF Working, Recording
<1> QED
  BY <1>3, <1>4, <1>7 DEF ConnectorsInv

LEMMA SaveKeeps ==
  ASSUME ConnectorsInv, NEW r \in Run, Save(r)
  PROVE  ConnectorsInv'
<1>1. /\ stage[r] = "save" /\ Report(r, "synced") /\ lastSync' \in {lastSync, Updated(r)}
      /\ UNCHANGED <<files, registered, handed, succeeded>>
  BY DEF Save
<1>2. Holds(r) /\ Times
  BY DEF ConnectorsInv, Runs
<1>3. /\ Runs' /\ Alone(r) /\ stage'[r] = "next" /\ written'[r] = <<>>
      /\ \A k \in Key : known'[r][k] = Never
      /\ \A n : Past(r, n) => Past(r, n)'
  BY <1>1, Reported DEF Working
<1>4. Tells(Updated(r))
  <2> SUFFICES ASSUME NEW k \in Key, Updated(r)[k] # Never
               PROVE  Name(k[1], k[2], Updated(r)[k]) \in succeeded
    BY DEF Tells
  <2>1. CASE \E n \in Range(written[r]) : k = <<n.connector, n.snapshot>>
    <3>1. PICK n \in Range(written[r]) : k = <<n.connector, n.snapshot>> /\ Updated(r)[k] = n.time
      BY <2>1 DEF Updated
    <3>2. IsName(n) /\ n \in succeeded
      BY <1>1, <1>2 DEF Holds, Recording
    <3> QED
      BY <3>1, <3>2 DEF IsName
  <2>2. CASE ~\E n \in Range(written[r]) : k = <<n.connector, n.snapshot>>
    <3>1. Updated(r)[k] = known[r][k]
      BY <2>2 DEF Updated
    <3> QED
      BY <1>2, <3>1 DEF Times, Tells
  <2> QED
    BY <2>1, <2>2
<1>5. Times'
  <2>1. Tells(lastSync)'
    BY <1>1, <1>2, <1>4 DEF Times, Tells
  <2>2. \A p \in Run : Tells(known[p])'
    BY <1>1, <1>2, <1>3 DEF Times, Tells, Alone
  <2> QED
    BY <2>1, <2>2 DEF Times
<1>6. \A n \in Range(written[r]) : n \in handed
  BY <1>1, <1>2 DEF Holds, Recording
<1>7. \A n : n \notin Range(written[r]) /\ InHand(r, n) => InHand(r, n)'
  BY <1>1 DEF InHand
<1>8. Disk' /\ Followed' /\ Owned'
  BY <1>1, <1>3, <1>6, <1>7, FilesStay DEF Owned
<1> QED
  BY <1>3, <1>5, <1>8 DEF ConnectorsInv
-----------------------------------------------------------------------------
(* Two files of a name made by one run are its primary and its sidecar.     *)
LEMMA OwnBoth ==
  ASSUME ConnectorsInv, NEW r \in Run, NEW n, OwnFiles(r, n)
  PROVE  MadeBy(r, n)
<1> DEFINE own == {f \in files : f.name = n /\ f.by = r}
<1>1. Cardinality(own) = 2
  BY DEF OwnFiles
<1>2. \A f \in own : f.part \in {"primary", "sidecar"}
  BY DEF ConnectorsInv, Disk
<1>3. \A f, g \in own : f.part = g.part => f = g
  BY DEF ConnectorsInv, Disk
<1>4. ASSUME NEW part \in {"primary", "sidecar"}, ~\E f \in own : f.part = part
      PROVE  FALSE
  <2> HIDE DEF own
  <2>1. \A f, g \in own : f = g
    BY <1>2, <1>3, <1>4
  <2>2. CASE own = {}
    BY <1>1, <2>2, FS_EmptySet
  <2>3. CASE own # {}
    <3>1. PICK f : f \in own
      BY <2>3
    <3>2. own = {f}
      BY <2>1, <3>1
    <3>3. Cardinality({f}) = 1
      BY FS_Singleton
    <3> QED
      BY <1>1, <3>2, <3>3
  <2> QED
    BY <2>2, <2>3
<1> QED
  BY <1>4 DEF MadeBy

LEMMA SnapshotsKeep ==
  ASSUME ConnectorsInv, NEW r \in Run, RegisterSnapshots(r)
  PROVE  ConnectorsInv'
<1>1. PICK n \in 0..Len(written[r]) :
        /\ registered' = registered \cup {[name |-> written[r][i], own |-> OwnFiles(r, written[r][i])] : i \in 1..n}
        /\ IF n = Len(written[r])
           THEN /\ succeeded' = succeeded \cup Range(written[r])
                /\ At(r, "load")
                /\ UNCHANGED <<queue, todo, fetched, written, known, outcome>>
           ELSE Report(r, "failed") /\ UNCHANGED succeeded
  BY DEF RegisterSnapshots
<1>2. /\ stage[r] = "register" /\ handed' = handed \cup Range(written[r])
      /\ UNCHANGED <<clock, files, lastSync>>
  BY DEF RegisterSnapshots
<1>3. Domains /\ Queued(r) /\ Holds(r) /\ Times
  BY DEF ConnectorsInv, Runs
<1>4. ASeq(written[r]) /\ (\A m \in Range(written[r]) : IsName(m) /\ m.connector = Current(r))
  BY <1>2, <1>3 DEF Holds
<1>5. \A i \in 1..n : written[r][i] \in Range(written[r])
  BY <1>4, SeqFacts DEF Range
<1>6. ASeq(queue[r]) /\ queue[r] # <<>>
  BY <1>2, <1>3 DEF Queued, Working
<1>7. 1 \in DOMAIN queue[r] /\ Current(r) = queue[r][1].connector
  BY <1>6, SeqFacts DEF Current
<1>8. /\ Runs' /\ Alone(r) /\ stage'[r] # "idle" /\ Times'
      /\ \A m : m \notin Range(written[r]) /\ InHand(r, m) => InHand(r, m)'
      /\ \A m : Past(r, m) => Past(r, m)'
      /\ \A m : m.connector = Current(r) => Past(r, m)'
  <2>1. CASE n = Len(written[r])
    <3>1. /\ succeeded' = succeeded \cup Range(written[r])
          /\ stage' = [stage EXCEPT ![r] = "load"]
          /\ UNCHANGED <<queue, fetched, written, known, todo>>
      BY <1>1, <2>1 DEF At
    <3>2. stage'[r] = "load" /\ Domains' /\ \A p \in Run : p # r => stage'[p] = stage[p]
      BY <1>3, <3>1 DEF Domains
    <3>3. Alone(r)
      BY <1>2, <3>1, <3>2 DEF Alone
    <3>4. Queued(r)'
      BY <1>3, <1>6, <3>1, <3>2 DEF Queued
    <3>5. Holds(r)'
      BY <1>2, <1>4, <3>1, <3>2 DEF Holds, Working, Recording, Current
    <3>6. Times'
      BY <1>2, <1>3, <3>1 DEF Times, Tells
    <3>7. \A m : m \notin Range(written[r]) /\ InHand(r, m) => InHand(r, m)'
      BY <1>2, <3>1, <3>2 DEF InHand
    <3>8. \A m : Past(r, m) => Past(r, m)'
      BY <1>2, <3>1, <3>2, PastStays DEF Recording
    <3>9. ASSUME NEW m, m.connector = Current(r) PROVE Past(r, m)'
      BY <1>3, <1>7, <3>1, <3>2, <3>9 DEF Past, Queued, Recording
    <3> QED
      BY <3>2, <3>3, <3>4, <3>5, <3>6, <3>7, <3>8, <3>9, RunsOn
  <2>2. CASE n # Len(written[r])
    <3>1. Report(r, "failed") /\ succeeded' = succeeded
      BY <1>1, <2>2
    <3>2. /\ Runs' /\ Alone(r) /\ stage'[r] = "next" /\ queue'[r] = Tail(queue[r])
          /\ \A k \in Key : known'[r][k] = Never
          /\ \A m : Past(r, m) => Past(r, m)'
      BY <1>2, <3>1, Reported DEF Working
    <3>3. Times'
      BY <1>2, <1>3, <3>1, <3>2 DEF Times, Tells, Alone
    <3>4. \A m : m \notin Range(written[r]) /\ InHand(r, m) => InHand(r, m)'
      BY <1>2 DEF InHand
    <3>5. ASSUME NEW m, m.connector = Current(r) PROVE Past(r, m)'
      <4>1. ASSUME NEW i \in DOMAIN Tail(queue[r])
            PROVE  Tail(queue[r])[i].connector # m.connector
        <5>1. i + 1 \in DOMAIN queue[r] /\ Tail(queue[r])[i] = queue[r][i + 1] /\ i \in Nat \ {0}
          BY <1>6, TailSeq
        <5> QED
          BY <1>3, <1>7, <3>5, <5>1 DEF Queued
      <4> QED
        BY <3>2, <4>1 DEF Past
    <3> QED
      BY <3>2, <3>3, <3>4, <3>5
  <2> QED
    BY <2>1, <2>2
<1>9. /\ Disk' /\ Followed'
      /\ \A g \in registered : g.own => \E q \in Run : Past(q, g.name)' /\ MadeBy(q, g.name)'
  BY <1>2, <1>8, FilesStay
<1>10. ASSUME NEW m, m \in Range(written[r]), OwnFiles(r, m)
       PROVE  Past(r, m)' /\ MadeBy(r, m)
  BY <1>4, <1>8, <1>10, OwnBoth
<1>11. Owned'
  <2> SUFFICES ASSUME NEW g \in registered', g.own
               PROVE  \E q \in Run : Past(q, g.name)' /\ MadeBy(q, g.name)'
    BY DEF Owned
  <2>1. CASE g \in registered
    BY <1>9, <2>1
  <2>2. CASE g \notin registered
    <3>1. g.name \in Range(written[r]) /\ OwnFiles(r, g.name)
      BY <1>1, <1>5, <2>2
    <3>2. MadeBy(r, g.name)'
      BY <1>2, <1>10, <3>1 DEF MadeBy
    <3> QED
      BY <1>10, <3>1, <3>2
  <2> QED
    BY <2>1, <2>2
<1> QED
  BY <1>8, <1>9, <1>11 DEF ConnectorsInv
-----------------------------------------------------------------------------
LEMMA ConnectorsNextKeeps ==
  ASSUME ConnectorConstants, ConnectorsInv, [ConnectorsNext]_connectorVars
  PROVE  ConnectorsInv'
<1>1. CASE Spoil \/ Tick \/ UNCHANGED connectorVars
  BY <1>1, WorldChanges
<1>2. ASSUME NEW r \in Run, SyncStep(r) \/ Die(r) PROVE ConnectorsInv'
  BY <1>2, SyncAllKeeps, RunSyncKeeps, FetchKeeps, WriteKeeps, CleanupKeeps, SnapshotsKeep,
     LoadKeeps, SaveKeeps, DieKeeps DEF SyncStep
<1> QED
  BY <1>1, <1>2 DEF ConnectorsNext

LEMMA ConnectorsSafe ==
  ASSUME ConnectorConstants
  PROVE  ConnectorsSpec => []ConnectorsInv
<1>1. ConnectorsInit => ConnectorsInv
  BY ConnectorsBegin
<1>2. ConnectorsInv /\ [ConnectorsNext]_connectorVars => ConnectorsInv'
  BY ConnectorsNextKeeps
<1> QED
  BY <1>1, <1>2, PTL DEF ConnectorsSpec

(* Whatever runs overlap, fail and die, and however often the last-sync     *)
(* file is lost or overwritten: a time in it is that of a registered sync,  *)
(* no file a sync made and had registered is removed, and a file that no    *)
(* sync handed to ingestion has a sync under way or killed to its name.     *)
THEOREM SyncsToldTruly ==
  ASSUME ConnectorConstants
  PROVE  ConnectorsSpec => []SyncsTold
<1>1. ASSUME ConnectorsInv PROVE SyncsTold
  <2>1. LastSyncTruthful
    BY <1>1 DEF ConnectorsInv, Times, Tells, LastSyncTruthful
  <2>2. ASSUME NEW g \in registered, g.own PROVE OnDisk(g.name)
    <3>1. PICK q \in Run : MadeBy(q, g.name)
      BY <1>1, <2>2 DEF ConnectorsInv, Owned
    <3>2. \A part \in {"primary", "sidecar"} : \E f \in {h \in files : h.name = g.name} : f.part = part
      BY <3>1 DEF MadeBy
    <3> QED
      BY <3>2 DEF OnDisk
  <2>3. \A f \in files : InHand(f.by, f.name)
    BY <1>1 DEF ConnectorsInv, Followed
  <2> QED
    BY <2>1, <2>2, <2>3 DEF SyncsTold, FilesFollowRegistration, InHand
<1>2. ConnectorsSpec => []ConnectorsInv
  BY ConnectorsSafe
<1> QED
  BY <1>1, <1>2, PTL
=============================================================================
