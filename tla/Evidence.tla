------------------------------- MODULE Evidence -------------------------------
(***************************************************************************)
(* Processing one artifact of the inbox into canonical documents: an       *)
(* agent authors a note with its observation, new entities, tasks, claims  *)
(* and relations; staging resolves what they name and builds one proposal. *)
(* A relation is a reference that is added to the document of its source,  *)
(* which for an existing document is read back from the tree.              *)
(*                                                                         *)
(* Staging asks the projection what exists and where, reads documents and  *)
(* their hashes from the tree, and takes the base revision last.  The      *)
(* projection may lag behind the tree; a transaction is one step here.     *)
(***************************************************************************)
EXTENDS Naturals, Sequences, FiniteSets

CONSTANTS Caller,    \* agents that process the artifact, each once
          Uri,       \* documents, each of which names the place it belongs in
          Claims,    \* those of them that are claims
          Existing,  \* the documents there are in the beginning
          Names,     \* the identifiers and aliases of each document
          Payload,   \* Payload[c]: what agent c may author
          Stray,     \* a place that no document belongs in
          None

VARIABLES
  doc,       \* the document in each place of the tree
  index,     \* the place of each document by the projection
  count,     \* the number of events in the ledger
  used,      \* the proposal identities that the engine has seen
  artifact,  \* the status of the artifact
  call,      \* where each agent is
  plan       \* what each agent has authored and staged

evidenceVars == <<doc, index, count, used, artifact, call, plan>>

Place == Uri \cup {Stray}

(* The text of a document is named by who wrote it, a reference by the      *)
(* agent whose relation it is.  A hash is the document it was taken of.    *)
Document == [uri : Uri, text : Caller \cup {"first", "edited"}, refs : SUBSET Caller]

(* What is to be written in a place, for which document; for an update, the *)
(* document it was made from and the hash that it expects.                  *)
Create(u, c) ==
  [for |-> u, new |-> [uri |-> u, text |-> c, refs |-> {}], seen |-> None, hash |-> None]
Update(u, seen, hash) == [for |-> u, new |-> seen, seen |-> seen, hash |-> hash]

Blank(p) == [pay |-> p, todo |-> p.sources, for |-> None, at |-> None, seen |-> None,
             writes |-> [q \in Place |-> None], base |-> 0]

Goto(c, l) == call' = [call EXCEPT ![c] = l]
Plan(c, a) == plan' = [plan EXCEPT ![c] = a]

Located(tree) ==
  [u \in Uri |-> IF \E p \in Place : tree[p] # None /\ tree[p].uri = u
                   THEN CHOOSE p \in Place : tree[p] # None /\ tree[p].uri = u
                   ELSE None]

EvidenceInit ==
  /\ doc = [p \in Place |->
              IF p \in Existing THEN [uri |-> p, text |-> "first", refs |-> {}] ELSE None]
  /\ index = Located(doc)
  /\ count = 0 /\ used = {} /\ artifact = "pending"
  /\ call = [c \in Caller |-> "idle"]
  /\ plan = [c \in Caller |-> None]
-----------------------------------------------------------------------------
Known == {u \in Uri : index[u] # None}

(* A name must resolve to one document, of those that are declared by the   *)
(* payload and those of the projection.                                     *)
Matches(v, declared) == {u \in declared \cup Known : v \in {u} \cup Names[u]}
Resolves(v, declared) == Cardinality(Matches(v, declared)) = 1
Resolved(v, declared) == CHOOSE u \in Matches(v, declared) : TRUE

(* An observation belongs to the note, or the projection has the note that  *)
(* it belongs to.                                                           *)
Citable(p) == p.cites \subseteq {p.note} \cup Known
Grounded(p) == p.note \in p.cites

Shells(p) == {p.note} \cup p.new \cup p.tasks

(* An artifact that is still to be processed. *)
Ask(c) ==
  /\ call[c] = "idle"
  /\ artifact = "pending"
  /\ \E p \in Payload[c] : Plan(c, Blank(p))
  /\ Goto(c, "declare")
  /\ UNCHANGED <<doc, index, count, used, artifact>>

(* The note and the new entities must not exist; a task may, and is then    *)
(* replaced where it is, with the hash that it has by now.                  *)
Destination(u) == IF index[u] = None THEN u ELSE index[u]

Free(p) ==
  /\ {p.note} \cup p.new \subseteq Uri \ Known
  /\ \A u \in p.tasks \cap Known : doc[index[u]] # None
  /\ \A u, v \in Shells(p) : Destination(u) = Destination(v) => u = v

Declare(c) ==
  /\ call[c] = "declare"
  /\ LET p == plan[c].pay
         Shell(u) == [Create(u, c) EXCEPT !.hash = IF u \in Known THEN doc[index[u]] ELSE None]
     IN /\ Goto(c, IF Free(p) THEN "observe" ELSE "refused")
        /\ Free(p) => Plan(c, [plan[c] EXCEPT !.writes = [q \in Place |->
                        IF \E u \in Shells(p) : Destination(u) = q
                          THEN Shell(CHOOSE u \in Shells(p) : Destination(u) = q) ELSE None]])
        /\ ~Free(p) => UNCHANGED plan
  /\ UNCHANGED <<doc, index, count, used, artifact>>

(* What the observations and the claims refer to must exist, the claims     *)
(* must not, and each of them must rest on the observation.                 *)
Observed(a) ==
  LET p == a.pay IN
  /\ Citable(p)
  /\ p.claims # {} => Grounded(p) /\ Resolves(p.about, Shells(p))
  /\ \A k \in p.claims : k \notin Known /\ a.writes[k] = None

Observe(c) ==
  /\ call[c] = "observe"
  /\ LET a == plan[c] IN
     /\ Goto(c, IF Observed(a) THEN "restore" ELSE "refused")
     /\ Plan(c, [a EXCEPT !.writes = [q \in Place |->
                   IF q \in a.pay.claims THEN Create(q, c) ELSE a.writes[q]]])
  /\ UNCHANGED <<doc, index, count, used, artifact>>

(* The references that were authored with new entities and tasks, which     *)
(* were put aside until everything was declared.                            *)
Declared(p) == Shells(p) \cup p.claims

Restored(p) ==
  /\ Citable(p)
  /\ p.tasks # {} => Grounded(p)
  /\ (p.new \cup p.tasks # {} /\ p.about # None) => Resolves(p.about, Declared(p))

Restore(c) ==
  /\ call[c] = "restore"
  /\ Goto(c, IF Restored(plan[c].pay) THEN "relate" ELSE "refused")
  /\ UNCHANGED <<doc, index, count, used, artifact, plan>>

(* A relation whose source the proposal already writes adds a reference     *)
(* there; another source is an existing document, read where the            *)
(* projection has it.                                                       *)
Written(a, u) == {q \in Place : a.writes[q] # None /\ a.writes[q].for = u}
(* Fault: the reference takes the place of those that are there.           *)
ReferringAlone(w, c) == [w EXCEPT !.new.refs = {c}]

Referring(w, c) == [w EXCEPT !.new.refs = @ \cup {c}]

Relate(c) ==
  /\ call[c] = "relate" /\ plan[c].todo # <<>>
  /\ LET a == plan[c]
         v == Head(a.todo)
         ok == Resolves(v, Declared(a.pay)) /\ Citable(a.pay) /\ Grounded(a.pay)
         u == IF ok THEN Resolved(v, Declared(a.pay)) ELSE None
     IN \/ /\ ok /\ u \notin Claims
           /\ \E q \in Written(a, u) :
                 Plan(c, [a EXCEPT !.writes[q] = Referring(@, c), !.todo = Tail(@)])
           /\ UNCHANGED call
        \/ /\ ok /\ u \in Known \ Claims /\ Written(a, u) = {}
           /\ doc[index[u]] # None
           /\ Plan(c, [a EXCEPT !.for = u, !.at = index[u], !.seen = doc[index[u]]])
           /\ Goto(c, "hash")
        \/ /\ \/ ~ok \/ u \in Claims
              \/ u \in Known /\ Written(a, u) = {} /\ doc[index[u]] = None
           /\ Goto(c, "refused") /\ UNCHANGED plan
  /\ UNCHANGED <<doc, index, count, used, artifact>>

(* The hash is taken by a second reading.  A proposal cannot write a place  *)
(* twice.                                                                   *)
Hash(c) ==
  /\ call[c] = "hash"
  /\ LET a == plan[c]
         ok == doc[a.at] # None /\ a.writes[a.at] = None
     IN /\ Goto(c, IF ok THEN "relate" ELSE "refused")
        /\ Plan(c, [a EXCEPT
             !.writes[a.at] = IF ok THEN Referring(Update(a.for, a.seen, doc[a.at]), c) ELSE @,
             !.todo = Tail(@), !.for = None, !.at = None, !.seen = None])
  /\ UNCHANGED <<doc, index, count, used, artifact>>

Propose(c) ==
  /\ call[c] = "relate" /\ plan[c].todo = <<>>
  /\ Plan(c, [plan[c] EXCEPT !.base = count])
  /\ Goto(c, "apply")
  /\ UNCHANGED <<doc, index, count, used, artifact>>
-----------------------------------------------------------------------------
After(a) == [q \in Place |-> IF a.writes[q] = None THEN doc[q] ELSE a.writes[q].new]

(* Nothing was committed since the base revision, the identity of the       *)
(* proposal was never seen, new documents have their places to themselves,  *)
(* updated ones have the expected hash and keep their identity, and no two  *)
(* documents of the tree would be the same.                                 *)
(* Fault: an update that expects its document to be there, in any state.   *)
ExpectedIfPresent(a) ==
  \A q \in Place : a.writes[q] # None =>
     /\ doc[q] = None <=> a.writes[q].hash = None
     /\ doc[q] # None => doc[q].uri = a.writes[q].new.uri

Expected(a) ==
  \A q \in Place : a.writes[q] # None =>
     doc[q] = a.writes[q].hash /\ (doc[q] # None => doc[q].uri = a.writes[q].new.uri)

(* Fault: no look for another document with the same identity.             *)
AcceptableByPlace(a) == a.base = count /\ a.pay.stamp \notin used /\ Expected(a)

Acceptable(a) ==
  /\ a.base = count /\ a.pay.stamp \notin used
  /\ Expected(a)
  /\ \A p, q \in Place : After(a)[p] # None /\ After(a)[q] # None /\ p # q
                           => After(a)[p].uri # After(a)[q].uri

(* A proposal is refused before anything is written, or committed, with the *)
(* projection refreshed or not, or rolled back.  A proposal that was rolled *)
(* back keeps its identity.                                                 *)
Apply(c) ==
  /\ call[c] = "apply"
  /\ LET a == plan[c] IN
     \/ /\ Acceptable(a)
        /\ doc' = After(a)
        /\ index' \in {index, Located(doc')}
        /\ count' = count + 1 /\ used' = used \cup {a.pay.stamp}
        /\ Goto(c, "committed")
     \/ /\ Acceptable(a)
        /\ count' = count + 1 /\ used' = used \cup {a.pay.stamp}
        /\ Goto(c, "refused") /\ UNCHANGED <<doc, index>>
     \/ /\ Goto(c, "refused") /\ UNCHANGED <<doc, index, count, used>>
  /\ UNCHANGED <<artifact, plan>>

(* The receipt of the commit moves the artifact to the archive. *)
Complete(c) ==
  /\ call[c] = "committed"
  /\ artifact' = "processed"
  /\ Goto(c, "done")
  /\ UNCHANGED <<doc, index, count, used, plan>>

(* Somebody else changes a document, by a transaction or by hand, or moves  *)
(* it by hand; the projection is built again.                               *)
Change(q) ==
  /\ doc[q] # None /\ doc[q].text = "first"
  /\ doc' = [doc EXCEPT ![q].text = "edited"]
  /\ count' \in {count, count + 1}
  /\ UNCHANGED <<index, used, artifact, call, plan>>

Move(q) ==
  /\ doc[q] # None /\ doc[Stray] = None
  /\ doc' = [doc EXCEPT ![Stray] = doc[q], ![q] = None]
  /\ UNCHANGED <<index, count, used, artifact, call, plan>>

Reindex ==
  /\ index # Located(doc) /\ index' = Located(doc)
  /\ UNCHANGED <<doc, count, used, artifact, call, plan>>

EvidenceNext ==
  \/ \E c \in Caller : \/ Ask(c) \/ Declare(c) \/ Observe(c) \/ Restore(c) \/ Relate(c)
                       \/ Hash(c) \/ Propose(c) \/ Apply(c) \/ Complete(c)
  \/ \E q \in Uri : Change(q) \/ Move(q)
  \/ Reindex

EvidenceSpec == EvidenceInit /\ [][EvidenceNext]_evidenceVars
-----------------------------------------------------------------------------
EvidenceTypeOK ==
  /\ \A q \in Place : doc[q] = None \/ doc[q] \in Document
  /\ index \in [Uri -> Place \cup {None}]
  /\ count \in Nat /\ artifact \in {"pending", "processed"}
  /\ \A c \in Caller : call[c] # "idle" => plan[c].pay \in Payload[c]

(* Processing evidence adds to documents it did not author: a commit leaves *)
(* the text of such a document and every reference in it, whoever else      *)
(* staged or edited the same document meanwhile, unless that happened just  *)
(* between the two readings of it (evidence/service.py,                     *)
(* _load_existing_relation_source and _append_reference).                   *)
Torn(c, q) == plan[c].writes[q].seen \notin {None, plan[c].writes[q].hash}
Authored(c, q) == plan[c].writes[q].seen = None /\ doc[q].uri \in plan[c].pay.tasks
Adds(old, new) == [new EXCEPT !.refs = old.refs] = old /\ old.refs \subseteq new.refs

RelationsOnlyAdd ==
  [][\A c \in Caller, q \in Place :
       call[c] = "apply" /\ call'[c] = "committed" /\ doc[q] # None /\ doc'[q] # doc[q]
         => Torn(c, q) \/ Authored(c, q) \/ Adds(doc[q], doc'[q])]_evidenceVars

(* No document ever exists twice, whatever the projection did not know of   *)
(* when a call decided what is new (stage_observations,                     *)
(* _prepare_new_entity_shells).                                             *)
OneOfEach ==
  \A p, q \in Place : doc[p] # None /\ doc[q] # None /\ doc[p].uri = doc[q].uri => p = q
=============================================================================
