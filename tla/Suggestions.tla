----------------------------- MODULE Suggestions -----------------------------
(***************************************************************************)
(* Suggestions: records that propose something to the operator, often a    *)
(* change of a canonical document that is stored with the record.  An open *)
(* suggestion is adopted or rejected, or superseded by a later one; to     *)
(* adopt it carries its change out in the same transaction.                *)
(*                                                                         *)
(* Each call decides on one reading of a record, takes the hash it expects *)
(* from a second reading, and the base revision after that.  A transaction *)
(* is one step here: what a reader could see of an unfinished one, its     *)
(* event or its rollback makes unacceptable.                               *)
(***************************************************************************)
EXTENDS Naturals

CONSTANTS Caller,   \* calls, each of which is made once
          Editor,   \* other transactions on the document suggestions are about
          Id, None,
          First     \* the content of that document in the beginning

VARIABLES
  record,    \* the suggestions
  document,  \* the content of the document, named by who wrote it
  revision,  \* the number of events in the ledger
  call,      \* where each call is
  asked      \* what each call is about to propose

suggestionVars == <<record, document, revision, call, asked>>

Version == {First} \cup Editor \cup Caller
Closed  == {"adopted", "rejected", "superseded"}

(* A suggestion, the content of the document that its change was written    *)
(* for, if it has one, and who wrote the record last.                       *)
Record == [status : Closed \cup {"open"}, fix : Version \cup {None},
           supersedes : Id \cup {None}, next : Id \cup {None}, by : Caller \cup {None}]

NewRecord(fix, old, c) ==
  [status |-> "open", fix |-> fix, supersedes |-> old, next |-> None, by |-> c]

(* What a call is asked to do, to which record, and what it has read: the   *)
(* record, its hash (which is what the record was then) and the revision.   *)
Blank == [to |-> None, new |-> None, fix |-> None, old |-> None,
          seen |-> None, hash |-> None, base |-> 0]

Asked(to, new, fix, old) ==
  [Blank EXCEPT !.to = to, !.new = new, !.fix = fix, !.old = old]

Goto(c, l) == call' = [call EXCEPT ![c] = l]

SuggestionsInit ==
  /\ record \in [Id -> {None, NewRecord(First, None, None), NewRecord(None, None, None)}]
  /\ \A i, j \in Id : record[i] # None /\ record[j] # None => i = j
  /\ document = First /\ revision = 0
  /\ call = [c \in Caller |-> "idle"]
  /\ asked = [c \in Caller |-> Blank]
-----------------------------------------------------------------------------
(* A new suggestion has an identity that no record has, and a change that   *)
(* validates against the document as it is.                                 *)
Create(c) ==
  /\ call[c] = "idle"
  /\ \E i \in Id, fix \in {None, document}, old \in Id \cup {None} :
        /\ record[i] = None /\ old # i
        /\ asked' = [asked EXCEPT ![c] = Asked("superseded", i, fix, old)]
        /\ Goto(c, IF old = None THEN "head" ELSE "read")
  /\ UNCHANGED <<record, document, revision>>

Adopt(c) ==
  /\ call[c] = "idle"
  /\ \E i \in Id :
        asked' = [asked EXCEPT ![c] = Asked("adopted", None, None, i)]
  /\ Goto(c, "read")
  /\ UNCHANGED <<record, document, revision>>

Reject(c) ==
  /\ call[c] = "idle"
  /\ \E i \in Id :
        asked' = [asked EXCEPT ![c] = Asked("rejected", None, None, i)]
  /\ Goto(c, "read")
  /\ UNCHANGED <<record, document, revision>>

(* Only an open record can be decided, and only by one of its own kind can  *)
(* it be superseded.                                                        *)
Decidable(a) ==
  LET r == record[a.old] IN
  /\ r # None /\ r.status = "open"
  /\ a.new # None => (r.fix = None) = (a.fix = None)

Read(c) ==
  /\ call[c] = "read"
  /\ asked' = [asked EXCEPT ![c].seen = record[asked[c].old]]
  /\ Goto(c, IF Decidable(asked[c]) THEN "hash" ELSE "refused")
  /\ UNCHANGED <<record, document, revision>>

Hash(c) ==
  /\ call[c] = "hash"
  /\ asked' = [asked EXCEPT ![c].hash = record[asked[c].old]]
  /\ Goto(c, "head")
  /\ UNCHANGED <<record, document, revision>>

Propose(c) ==
  /\ call[c] = "head"
  /\ asked' = [asked EXCEPT ![c].base = revision]
  /\ Goto(c, "apply")
  /\ UNCHANGED <<record, document, revision>>

(* Nothing was committed since the revision was read, the record has the    *)
(* hash it had, a new one is absent, and the document of a change that is   *)
(* carried out is still the one it was written for.                         *)
Carries(a) == a.to = "adopted" /\ a.seen.fix # None

AcceptableIfPresent(a) ==
  /\ a.base = revision
  /\ a.old # None => record[a.old] = a.hash
  /\ Carries(a) => document = a.seen.fix

Acceptable(a) ==
  /\ a.base = revision
  /\ a.old # None => record[a.old] = a.hash
  /\ a.new # None => record[a.new] = None
  /\ Carries(a) => document = a.seen.fix

(* The record is what was read first, with its new status; the change is    *)
(* part of the same transaction.                                            *)
Apply(c) ==
  /\ call[c] = "apply"
  /\ LET a == asked[c] IN
     \/ /\ Acceptable(a)
        /\ record' = [i \in Id |->
             IF i = a.new THEN NewRecord(a.fix, a.old, c)
             ELSE IF i = a.old THEN [a.seen EXCEPT !.status = a.to, !.next = a.new, !.by = c]
             ELSE record[i]]
        /\ document' = IF Carries(a) THEN c ELSE document
        /\ revision' = revision + 1
        /\ Goto(c, "done")
     \/ /\ Goto(c, "refused") /\ revision' \in {revision, revision + 1}
        /\ UNCHANGED <<record, document>>
  /\ UNCHANGED asked

(* A transaction of somebody else on the same document. *)
Edit(e) ==
  /\ document = First
  /\ document' = e /\ revision' = revision + 1
  /\ UNCHANGED <<record, call, asked>>

SuggestionsNext ==
  \/ \E c \in Caller : \/ Create(c) \/ Adopt(c) \/ Reject(c)
                       \/ Read(c) \/ Hash(c) \/ Propose(c) \/ Apply(c)
  \/ \E e \in Editor : Edit(e)

SuggestionsSpec == SuggestionsInit /\ [][SuggestionsNext]_suggestionVars
-----------------------------------------------------------------------------
SuggestionsTypeOK ==
  /\ \A i \in Id : record[i] \in Record \cup {None}
  /\ document \in Version /\ revision \in Nat
  /\ call \in [Caller -> {"idle", "read", "hash", "head", "apply", "done", "refused"}]

(* No record is lost: what a suggestion proposes is never replaced, neither *)
(* by another that was given the same identity at the same time nor by a    *)
(* decision about it, and a decision is never taken back to open            *)
(* (suggestions/service.py, create and _transition).                        *)
RecordsSurvive ==
  [][\A i \in Id : record[i] # None =>
       /\ record'[i] # None
       /\ record'[i].fix = record[i].fix /\ record'[i].supersedes = record[i].supersedes
       /\ record'[i].status = "open" => record[i].status = "open"]_suggestionVars
=============================================================================
