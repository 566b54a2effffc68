-------------------------------- MODULE Topics --------------------------------
(***************************************************************************)
(* The topic registry of a context, one canonical file, and the documents  *)
(* that are tagged with topics.  Topics are added, given aliases, and      *)
(* merged into each other; a merge retags the documents of the topic that  *)
(* goes, in the same transaction.  Each call reads the registry with its   *)
(* hash, then, for a merge, one document after another, and the base       *)
(* revision last.  A transaction is one step here.                         *)
(*                                                                         *)
(* A registry without topics stands for one whose file does not exist.     *)
(***************************************************************************)
EXTENDS Naturals, Sequences

CONSTANTS Caller, None,
          Slug,      \* the topics there may be
          Alias,     \* other names for them
          Similar,   \* pairs of names the duplicate guard takes for the same
          FirstTopics, \* the topics that are there in the beginning
          Documents, \* how many documents there are, in the order they are read
          MaxTags    \* how often documents are tagged by other transactions

VARIABLES
  topics,    \* the registry: per slug None, or its topic
  tag,       \* per document the name it is tagged with, if any
  revision,  \* the number of events in the ledger
  tags,      \* how often a document was tagged
  call,      \* where each call is
  wanted     \* what each call has read and is about to propose

topicVars == <<topics, tag, revision, tags, call, wanted>>

Name     == Slug \cup Alias
Document == 1..Documents

(* An active topic, or one that was merged into another. *)
Topic == [aliases : SUBSET Name, into : Slug \cup {None}, distinct : SUBSET Slug]

IsActive(ts, s) == ts[s] # None /\ ts[s].into = None

Resolve(ts, n) ==
  IF n \in Slug /\ ts[n] # None
  THEN IF ts[n].into = None THEN n ELSE ts[n].into
  ELSE LET owners == {s \in Slug : IsActive(ts, s) /\ n \in ts[s].aliases}
       IN IF owners = {} THEN None ELSE CHOOSE s \in owners : TRUE

(* What every registry that is read or written must satisfy. *)
IsRegistry(ts) ==
  \A s \in {x \in Slug : ts[x] # None} :
     /\ s \notin ts[s].aliases
     /\ \A t \in Slug \ {s} : ts[t] # None =>
           /\ ts[s].aliases \cap ts[t].aliases = {}
           /\ t \in ts[s].aliases => ts[t].into = s
     /\ ts[s].into # None => IsActive(ts, ts[s].into)
     /\ \A t \in ts[s].distinct : ts[t] # None

(* The active topics the guard matches a new one with. *)
Matches(s, ts) ==
  {Resolve(ts, t) : t \in {x \in Slug :
     /\ ts[x] # None
     /\ \E n \in {x, Resolve(ts, x)} \cup ts[x].aliases : {s, n} \in Similar \/ s = n}}

Blank == [ts |-> <<>>, new |-> <<>>, from |-> None, to |-> None,
          hashed |-> <<>>, read |-> <<>>, base |-> 0]

Goto(c, l) == call' = [call EXCEPT ![c] = l]

TopicsInit ==
  /\ topics = [s \in Slug |-> IF s \notin FirstTopics THEN None
                             ELSE [aliases |-> {}, into |-> None, distinct |-> {}]]
  /\ tag = [d \in Document |-> None]
  /\ revision = 0 /\ tags = 0
  /\ call = [c \in Caller |-> "idle"]
  /\ wanted = [c \in Caller |-> Blank]
-----------------------------------------------------------------------------
(* What a call makes of the registry it has read; an invalid result ends    *)
(* the call.                                                                *)
Want(c, new, from, to, next) ==
  /\ call[c] = "idle"
  /\ IsRegistry(new)
  /\ wanted' = [wanted EXCEPT
        ![c] = [Blank EXCEPT !.ts = topics, !.new = new, !.from = from, !.to = to]]
  /\ Goto(c, next)
  /\ UNCHANGED <<topics, tag, revision, tags>>

(* A topic that is similar to others is only added with a reviewed note     *)
(* that it is distinct, and a note names one topic.                         *)
Add(c, s, aliases, noted) ==
  /\ topics[s] = None
  /\ \A t \in noted : IsActive(topics, t)
  /\ Matches(s, topics) \subseteq noted
  /\ Want(c, [topics EXCEPT ![s] = [aliases |-> aliases, into |-> None, distinct |-> noted]],
          None, None, "head")

AddAlias(c, s, n) ==
  /\ IsActive(topics, s) /\ n \notin topics[s].aliases
  /\ Want(c, [topics EXCEPT ![s].aliases = @ \cup {n}], None, None, "head")

Merge(c, s, t) ==
  /\ s # t /\ IsActive(topics, s) /\ IsActive(topics, t)
  /\ Want(c, [topics EXCEPT
                ![s].aliases = {}, ![s].into = t,
                ![t].aliases = @ \cup topics[s].aliases \cup {s},
                ![t].distinct = @ \ {s}], s, t, "documents")

(* The hash of a document is taken before the reading its new tag is made   *)
(* from: what changes in between no longer has the hash.                    *)
HashDocument(c) ==
  /\ call[c] = "documents"
  /\ LET w == wanted[c] IN
     /\ Len(w.read) < Documents /\ Len(w.hashed) = Len(w.read)
     /\ wanted' = [wanted EXCEPT ![c].hashed = Append(@, tag[Len(w.read) + 1])]
  /\ UNCHANGED <<topics, tag, revision, tags, call>>

ReadDocument(c) ==
  /\ call[c] = "documents"
  /\ LET w == wanted[c] IN
     /\ Len(w.hashed) > Len(w.read)
     /\ wanted' = [wanted EXCEPT ![c].read = Append(@, tag[Len(w.hashed)])]
     /\ Goto(c, IF Len(w.hashed) = Documents THEN "head" ELSE "documents")
  /\ UNCHANGED <<topics, tag, revision, tags>>

Propose(c) ==
  /\ call[c] = "head"
  /\ wanted' = [wanted EXCEPT ![c].base = revision]
  /\ Goto(c, "apply")
  /\ UNCHANGED <<topics, tag, revision, tags>>

(* The documents whose tag is the topic that goes, by any of its names.     *)
Retagged(w) == {d \in DOMAIN w.read : w.read[d] # None /\ Resolve(w.ts, w.read[d]) = w.from}

(* Nothing was committed since the revision was read, and what is replaced  *)
(* has the hash it had.                                                     *)
AcceptableAtBase(w) ==
  /\ w.base = revision
  /\ \A d \in Retagged(w) : tag[d] = w.hashed[d]

Acceptable(w) ==
  /\ w.base = revision
  /\ topics = w.ts
  /\ \A d \in Retagged(w) : tag[d] = w.hashed[d]

Apply(c) ==
  /\ call[c] = "apply"
  /\ LET w == wanted[c] IN
     \/ /\ Acceptable(w)
        /\ topics' = w.new
        /\ tag' = [d \in Document |-> IF d \in Retagged(w) THEN w.to ELSE tag[d]]
        /\ revision' = revision + 1
        /\ Goto(c, "done")
     \/ /\ Goto(c, "refused") /\ revision' \in {revision, revision + 1}
        /\ UNCHANGED <<topics, tag>>
  /\ UNCHANGED <<tags, wanted>>

(* Another transaction tags a document; the validator refuses a name that   *)
(* is unknown or merged.                                                    *)
Tag(d, n) ==
  /\ tags < MaxTags
  /\ n \in Slug => IsActive(topics, n)
  /\ Resolve(topics, n) # None
  /\ tag' = [tag EXCEPT ![d] = n]
  /\ revision' = revision + 1 /\ tags' = tags + 1
  /\ UNCHANGED <<topics, call, wanted>>

TopicsNext ==
  \/ \E c \in Caller, s \in Slug :
        \/ \E as \in {{}} \cup {{n} : n \in Alias}, noted \in {{}} \cup {{t} : t \in Slug} :
              Add(c, s, as, noted)
        \/ \E n \in Alias : AddAlias(c, s, n)
        \/ \E t \in Slug : Merge(c, s, t)
  \/ \E c \in Caller : HashDocument(c) \/ ReadDocument(c) \/ Propose(c) \/ Apply(c)
  \/ \E d \in Document, n \in Name : Tag(d, n)

TopicsSpec == TopicsInit /\ [][TopicsNext]_topicVars
-----------------------------------------------------------------------------
TopicsTypeOK ==
  /\ \A s \in Slug : topics[s] \in Topic \cup {None}
  /\ tag \in [Document -> Name \cup {None}]
  /\ revision \in Nat /\ tags \in 0..MaxTags
  /\ call \in [Caller -> {"idle", "documents", "head", "apply", "done", "refused"}]

Moved(s) == IF s # None /\ topics'[s] # None /\ topics'[s].into # None
            THEN topics'[s].into ELSE s

Torn(c, d) == d \in DOMAIN wanted[c].read /\ wanted[c].read[d] # wanted[c].hashed[d]

(* A name that once meant a topic goes on to mean it, or the topic it was   *)
(* merged into, and so do the tags of the documents, whatever calls overlap *)
(* (topics/service.py, merge; domain/topics.py, TopicRegistry.resolve),     *)
(* unless a document was changed and changed back between the two readings  *)
(* that the merge takes its hash and its new text from.                     *)
NamesKeepResolving ==
  [][topics' # topics =>
       /\ \A n \in Name : Resolve(topics, n) # None =>
             Resolve(topics', n) = Moved(Resolve(topics, n))
       /\ \A d \in Document : tag[d] # None =>
             \/ Resolve(topics', tag'[d]) = Moved(Resolve(topics, tag[d]))
             \/ \E c \in Caller : call[c] = "apply" /\ call'[c] = "done" /\ Torn(c, d)]_topicVars

(* No two active topics look the same to the guard without a note that says *)
(* they are distinct, also when both were added at the same time            *)
(* (topics/service.py, add and _validate_distinction).                      *)
NoSilentTwins ==
  \A s, t \in Slug :
     /\ IsActive(topics, s) /\ IsActive(topics, t)
     /\ s # t /\ {s, t} \in Similar
     => t \in topics[s].distinct \/ s \in topics[t].distinct
=============================================================================
