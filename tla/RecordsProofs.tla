---------------------------- MODULE RecordsProofs ----------------------------
(***************************************************************************)
(* What calls that overlap keep of the records of a context, for any       *)
(* number of agents, records and fields: each part of Records has an       *)
(* inductive invariant, which says of every call under way how the         *)
(* proposal it has staged relates to what it has read.                     *)
(***************************************************************************)
EXTENDS Records, FiniteSetTheorems, WellFoundedInduction, TLAPS
-----------------------------------------------------------------------------
(* Suggestions.                                                            *)

(* Of the constants: None is no suggestion, neither the identity of one.    *)
SuggestionConstants == None \notin Suggestion \cup S!Record

(* What a call is asked to do and has read. *)
SuggestionCall ==
  [to : S!Closed \cup {None}, new : Suggestion \cup {None}, fix : S!Version \cup {None},
   old : Suggestion \cup {None}, seen : S!Record \cup {None}, hash : S!Record \cup {None},
   base : Nat]

SuggestionsTyped ==
  /\ record \in [Suggestion -> S!Record \cup {None}]
  /\ document \in S!Version /\ revision \in Nat
  /\ asked \in [Agent -> SuggestionCall]
  /\ call \in [Agent -> {"idle", "read", "hash", "head", "apply", "done", "refused"}]

(* What a call means to write over is the record it read, or a later state  *)
(* of that: it says the same and is in the same place.                      *)
SameRecord(r, q) == r # None /\ q # None /\ r.fix = q.fix /\ r.supersedes = q.supersedes

Considered(c) ==
  /\ call[c] # "idle" => asked[c].to \in S!Closed
  /\ call[c] \in {"read", "hash"} => asked[c].old \in Suggestion
  /\ call[c] \in {"hash", "head", "apply"} /\ asked[c].old # None =>
       SameRecord(asked[c].seen, record[asked[c].old])

SuggestionsInv == SuggestionsTyped /\ \A c \in Agent : Considered(c)

(* Every step writes over a record only what says the same.                 *)
SucceedsTo(r, q) ==
  /\ q # None /\ q.fix = r.fix /\ q.supersedes = r.supersedes
  /\ q.status = "open" => r.status = "open"
Survive == \A i \in Suggestion : record[i] # None => SucceedsTo(record[i], record'[i])

LEMMA SuggestionsBegin ==
  ASSUME SuggestionConstants, S!SuggestionsInit
  PROVE  SuggestionsInv
<1> USE DEF S!SuggestionsInit
<1>1. record \in [Suggestion -> S!Record \cup {None}]
  BY DEF S!NewRecord, S!Record, S!Version, S!Closed
<1>2. S!Blank \in SuggestionCall
  BY DEF S!Blank, SuggestionCall
<1>3. SuggestionsTyped
  BY <1>1, <1>2 DEF SuggestionsTyped, S!Version
<1> QED
  BY <1>3 DEF SuggestionsInv, Considered

(* A call that reads leaves the records alone.                              *)
LEMMA CallReads ==
  ASSUME SuggestionsInv, NEW c \in Agent, NEW a \in SuggestionCall,
         asked' = [asked EXCEPT ![c] = a],
         NEW l \in {"idle", "read", "hash", "head", "apply", "done", "refused"},
         call' = [call EXCEPT ![c] = l],
         UNCHANGED <<record, document, revision>>,
         l # "idle" => a.to \in S!Closed,
         l \in {"read", "hash"} => a.old \in Suggestion,
         l \in {"hash", "head", "apply"} /\ a.old # None => SameRecord(a.seen, record[a.old])
  PROVE  SuggestionsInv' /\ Survive
<1>1. SuggestionsTyped'
  BY DEF SuggestionsInv, SuggestionsTyped
<1>2. asked'[c] = a /\ call'[c] = l
  BY DEF SuggestionsInv, SuggestionsTyped
<1>3. \A d \in Agent : d # c => asked'[d] = asked[d] /\ call'[d] = call[d]
  BY DEF SuggestionsInv, SuggestionsTyped
<1>4. ASSUME NEW d \in Agent PROVE Considered(d)'
  BY <1>2, <1>3 DEF SuggestionsInv, Considered
<1>5. Survive
  BY DEF Survive, SucceedsTo
<1> QED
  BY <1>1, <1>4, <1>5 DEF SuggestionsInv

LEMMA AskKeepsSuggestions ==
  ASSUME SuggestionConstants, SuggestionsInv, NEW c \in Agent,
         S!Create(c) \/ S!Adopt(c) \/ S!Reject(c)
  PROVE  SuggestionsInv' /\ Survive
<1>0. \A x \in Suggestion : x # None
  BY DEF SuggestionConstants
<1>1. ASSUME NEW to \in S!Closed, NEW new \in Suggestion \cup {None},
             NEW fix \in S!Version \cup {None},
             NEW old \in Suggestion \cup {None}, NEW l \in {"head", "read"},
             l = "read" <=> old # None,
             asked' = [asked EXCEPT ![c] = S!Asked(to, new, fix, old)],
             call' = [call EXCEPT ![c] = l], UNCHANGED <<record, document, revision>>
      PROVE  SuggestionsInv' /\ Survive
  <2> DEFINE a == S!Asked(to, new, fix, old)
  <2>1. a \in SuggestionCall /\ a.to \in S!Closed /\ a.old = old
    BY DEF S!Asked, S!Blank, SuggestionCall
  <2> HIDE DEF a
  <2>2. asked' = [asked EXCEPT ![c] = a]
    BY <1>1 DEF a
  <2> QED
    BY <1>0, <1>1, <2>1, <2>2, CallReads
<1>2. CASE S!Create(c)
  <2>1. PICK i \in Suggestion, fix \in {None, document}, old \in Suggestion \cup {None} :
           /\ asked' = [asked EXCEPT ![c] = S!Asked("superseded", i, fix, old)]
           /\ S!Goto(c, IF old = None THEN "head" ELSE "read")
    BY <1>2 DEF S!Create
  <2>2. fix \in S!Version \cup {None}
    BY DEF SuggestionsInv, SuggestionsTyped
  <2> DEFINE l == IF old = None THEN "head" ELSE "read"
  <2>3. l \in {"head", "read"} /\ (l = "read" <=> old # None) /\ call' = [call EXCEPT ![c] = l]
    BY <2>1 DEF S!Goto
  <2> HIDE DEF l
  <2> QED
    BY <1>1, <1>2, <2>1, <2>2, <2>3 DEF S!Create, S!Closed
<1>3. ASSUME NEW to \in {"adopted", "rejected"}, NEW i \in Suggestion,
             asked' = [asked EXCEPT ![c] = S!Asked(to, None, None, i)],
             call' = [call EXCEPT ![c] = "read"], UNCHANGED <<record, document, revision>>
      PROVE  SuggestionsInv' /\ Survive
  BY <1>0, <1>1, <1>3 DEF S!Closed
<1> QED
  BY <1>2, <1>3 DEF S!Adopt, S!Reject, S!Goto

LEMMA ReadingKeepsSuggestions ==
  ASSUME SuggestionConstants, SuggestionsInv, NEW c \in Agent,
         S!Read(c) \/ S!Hash(c) \/ S!Propose(c)
  PROVE  SuggestionsInv' /\ Survive
<1>1. asked[c] \in SuggestionCall /\ Considered(c) /\ revision \in Nat
  BY DEF SuggestionsInv, SuggestionsTyped
<1>2. asked[c].old \in Suggestion => record[asked[c].old] \in S!Record \cup {None}
  BY DEF SuggestionsInv, SuggestionsTyped
<1>3. CASE S!Read(c)
  <2> DEFINE a == [asked[c] EXCEPT !.seen = record[asked[c].old]]
             l == IF S!Decidable(asked[c]) THEN "hash" ELSE "refused"
  <2>1. asked[c].to \in S!Closed /\ asked[c].old \in Suggestion
    BY <1>1, <1>3 DEF Considered, S!Read
  <2>2. a \in SuggestionCall /\ a.to \in S!Closed /\ a.old = asked[c].old /\
          a.seen = record[asked[c].old]
    BY <1>1, <1>2, <2>1 DEF SuggestionCall
  <2>3. /\ asked' = [asked EXCEPT ![c] = a] /\ call' = [call EXCEPT ![c] = l]
        /\ UNCHANGED <<record, document, revision>>
    BY <1>3 DEF S!Read, S!Goto
  <2>4. l = "hash" => SameRecord(a.seen, record[a.old])
    BY <2>2 DEF S!Decidable, SameRecord
  <2>5. l \in {"hash", "refused"}
    OBVIOUS
  <2> HIDE DEF a, l
  <2> QED
    BY <2>1, <2>2, <2>3, <2>4, <2>5, CallReads
<1>4. CASE S!Hash(c)
  <2> DEFINE a == [asked[c] EXCEPT !.hash = record[asked[c].old]]
  <2>1. /\ asked[c].to \in S!Closed /\ asked[c].old \in Suggestion
        /\ asked[c].old # None => SameRecord(asked[c].seen, record[asked[c].old])
    BY <1>1, <1>4 DEF Considered, S!Hash
  <2>2. a \in SuggestionCall /\ a.to = asked[c].to /\ a.old = asked[c].old /\ a.seen = asked[c].seen
    BY <1>1, <1>2, <2>1 DEF SuggestionCall
  <2>3. /\ asked' = [asked EXCEPT ![c] = a] /\ call' = [call EXCEPT ![c] = "head"]
        /\ UNCHANGED <<record, document, revision>>
    BY <1>4 DEF S!Hash, S!Goto
  <2> HIDE DEF a
  <2> QED
    BY <2>1, <2>2, <2>3, CallReads
<1>5. CASE S!Propose(c)
  <2> DEFINE a == [asked[c] EXCEPT !.base = revision]
  <2>1. asked[c].to \in S!Closed /\
          (asked[c].old # None => SameRecord(asked[c].seen, record[asked[c].old]))
    BY <1>1, <1>5 DEF Considered, S!Propose
  <2>2. a \in SuggestionCall /\ a.to = asked[c].to /\ a.old = asked[c].old /\ a.seen = asked[c].seen
    BY <1>1 DEF SuggestionCall
  <2>3. /\ asked' = [asked EXCEPT ![c] = a] /\ call' = [call EXCEPT ![c] = "apply"]
        /\ UNCHANGED <<record, document, revision>>
    BY <1>5 DEF S!Propose, S!Goto
  <2> HIDE DEF a
  <2> QED
    BY <2>1, <2>2, <2>3, CallReads
<1> QED
  BY <1>3, <1>4, <1>5

(* What others have considered may be written over, but says the same.      *)
LEMMA StillConsidered ==
  ASSUME SuggestionsInv, Survive, NEW d \in Agent, asked'[d] = asked[d],
         call'[d] = call[d] \/ (call'[d] \in {"done", "refused"} /\ call[d] # "idle")
  PROVE  Considered(d)'
<1>1. asked[d] \in SuggestionCall /\ Considered(d)
  BY DEF SuggestionsInv, SuggestionsTyped
<1>2. CASE call'[d] = call[d]
  <2>1. ASSUME call[d] \in {"hash", "head", "apply"}, asked[d].old # None
        PROVE  SameRecord(asked[d].seen, record'[asked[d].old])
    <3>1. SameRecord(asked[d].seen, record[asked[d].old]) /\ asked[d].old \in Suggestion
      BY <1>1, <2>1 DEF Considered, SuggestionCall
    <3> QED
      BY <3>1 DEF SameRecord, Survive, SucceedsTo
  <2> QED
    BY <1>1, <1>2, <2>1 DEF Considered
<1>3. CASE call'[d] \in {"done", "refused"} /\ call[d] # "idle"
  BY <1>1, <1>3 DEF Considered
<1> QED
  BY <1>2, <1>3

LEMMA ApplyKeepsSuggestions ==
  ASSUME SuggestionConstants, SuggestionsInv, NEW c \in Agent, S!Apply(c)
  PROVE  SuggestionsInv' /\ Survive
<1> DEFINE a == asked[c]
<1>1. a \in SuggestionCall /\ Considered(c) /\ SuggestionsTyped /\ call[c] = "apply" /\
        asked' = asked
  BY DEF SuggestionsInv, SuggestionsTyped, S!Apply
<1>2. PICK l \in {"done", "refused"} : call' = [call EXCEPT ![c] = l]
  BY DEF S!Apply, S!Goto
<1>3. /\ call' \in [Agent -> {"idle", "read", "hash", "head", "apply", "done", "refused"}]
      /\ call'[c] = l /\ \A d \in Agent : d # c => call'[d] = call[d]
  BY <1>1, <1>2 DEF SuggestionsTyped
<1>4. record' \in [Suggestion -> S!Record \cup {None}] /\ document' \in S!Version
      /\ revision' \in Nat /\ Survive
  <2>1. CASE UNCHANGED <<record, document>> /\ revision' \in {revision, revision + 1}
    BY <1>1, <2>1 DEF SuggestionsTyped, Survive, SucceedsTo
  <2>2. CASE /\ S!Acceptable(a)
             /\ record' = [i \in Suggestion |->
                  IF i = a.new THEN S!NewRecord(a.fix, a.old, c)
                  ELSE IF i = a.old THEN [a.seen EXCEPT !.status = a.to, !.next = a.new, !.by = c]
                  ELSE record[i]]
             /\ document' = (IF S!Carries(a) THEN c ELSE document)
             /\ revision' = revision + 1
    <3> DEFINE new == S!NewRecord(a.fix, a.old, c)
               old == [a.seen EXCEPT !.status = a.to, !.next = a.new, !.by = c]
    <3>1. a.to \in S!Closed /\ (a.old # None => SameRecord(a.seen, record[a.old]))
      BY <1>1 DEF Considered
    <3>2. new \in S!Record
      BY <1>1 DEF S!NewRecord, S!Record, SuggestionCall
    <3>3. a.old \in Suggestion =>
            /\ old \in S!Record /\ old.fix = a.seen.fix
            /\ old.supersedes = a.seen.supersedes /\ old.status # "open"
      <4> SUFFICES ASSUME a.old \in Suggestion
                   PROVE  /\ old \in S!Record /\ old.fix = a.seen.fix
                          /\ old.supersedes = a.seen.supersedes /\ old.status # "open"
        OBVIOUS
      <4>1. a.seen \in S!Record
        BY <1>1, <3>1 DEF SuggestionCall, SameRecord, SuggestionConstants
      <4>2. a.to \in S!Closed /\ a.new \in Suggestion \cup {None}
        BY <1>1, <3>1 DEF SuggestionCall
      <4>3. old \in S!Record
        BY <4>1, <4>2 DEF S!Record
      <4>4. old.fix = a.seen.fix /\ old.supersedes = a.seen.supersedes /\ old.status = a.to
        BY <4>1 DEF S!Record
      <4> QED
        BY <4>2, <4>3, <4>4 DEF S!Closed
    <3>4. record' = [i \in Suggestion |-> IF i = a.new THEN new ELSE IF i = a.old THEN old
            ELSE record[i]]
      BY <2>2
    <3> HIDE DEF new, old
    <3>5. record' \in [Suggestion -> S!Record \cup {None}]
      BY <1>1, <3>2, <3>3, <3>4 DEF SuggestionsTyped
    <3>6. ASSUME NEW i \in Suggestion, record[i] # None PROVE SucceedsTo(record[i], record'[i])
      <4>1. i # a.new
        BY <2>2, <3>6 DEF S!Acceptable, SuggestionConstants
      <4>2. CASE i = a.old
        <5>1. record'[i] = old
          BY <3>4, <4>1, <4>2
        <5>2. SameRecord(a.seen, record[i])
          BY <3>1, <4>2 DEF SuggestionConstants
        <5>3. old # None
          BY <3>3, <4>2 DEF SuggestionConstants
        <5> QED
          BY <3>3, <4>2, <5>1, <5>2, <5>3 DEF SucceedsTo, SameRecord
      <4>3. CASE i # a.old
        BY <3>4, <3>6, <4>1, <4>3 DEF SucceedsTo
      <4> QED
        BY <4>2, <4>3
    <3>7. document' \in S!Version /\ revision' \in Nat
      BY <1>1, <2>2 DEF SuggestionsTyped, S!Version
    <3> QED
      BY <3>5, <3>6, <3>7 DEF Survive
  <2> QED
    BY <2>1, <2>2 DEF S!Apply
<1>5. SuggestionsTyped'
  BY <1>1, <1>3, <1>4 DEF SuggestionsTyped
<1>6. ASSUME NEW d \in Agent PROVE Considered(d)'
  <2>1. asked'[d] = asked[d] /\
          (call'[d] = call[d] \/ (call'[d] \in {"done", "refused"} /\ call[d] # "idle"))
    BY <1>1, <1>2, <1>3
  <2> QED
    BY <1>4, <2>1, StillConsidered
<1> QED
  BY <1>4, <1>5, <1>6 DEF SuggestionsInv

LEMMA EditKeepsSuggestions ==
  ASSUME SuggestionsInv, (\E e \in Editor : S!Edit(e)) \/ UNCHANGED suggestionVars
  PROVE  SuggestionsInv' /\ Survive
<1>1. /\ UNCHANGED <<record, call, asked>>
      /\ document' \in S!Version /\ revision' \in Nat
  BY DEF S!Edit, suggestionVars, SuggestionsInv, SuggestionsTyped, S!Version
<1>2. Survive
  BY <1>1 DEF Survive, SucceedsTo
<1>3. SuggestionsTyped' /\ \A d \in Agent : Considered(d)'
  BY <1>1 DEF SuggestionsInv, SuggestionsTyped, Considered
<1> QED
  BY <1>2, <1>3 DEF SuggestionsInv

LEMMA SuggestionsStep ==
  ASSUME SuggestionConstants, SuggestionsInv, [S!SuggestionsNext]_(S!suggestionVars)
  PROVE  SuggestionsInv' /\ Survive
<1>1. S!suggestionVars = suggestionVars
  BY DEF S!suggestionVars, suggestionVars
<1> QED
  BY <1>1, AskKeepsSuggestions, ReadingKeepsSuggestions, ApplyKeepsSuggestions,
     EditKeepsSuggestions DEF S!SuggestionsNext, suggestionVars, S!suggestionVars

LEMMA SuggestionsSurvive ==
  ASSUME SuggestionConstants
  PROVE  S!SuggestionsSpec => S!RecordsSurvive
<1>1. S!SuggestionsInit => SuggestionsInv
  BY SuggestionsBegin
<1>2. SuggestionsInv /\ [S!SuggestionsNext]_(S!suggestionVars) => SuggestionsInv'
  BY SuggestionsStep
<1>3. SuggestionsInv /\ [S!SuggestionsNext]_(S!suggestionVars) =>
        [\A i \in Suggestion : record[i] # None =>
           /\ record'[i] # None
           /\ record'[i].fix = record[i].fix /\ record'[i].supersedes = record[i].supersedes
           /\ record'[i].status = "open" => record[i].status = "open"]_(S!suggestionVars)
  BY SuggestionsStep DEF Survive, SucceedsTo
<1> QED
  BY <1>1, <1>2, <1>3, PTL DEF S!SuggestionsSpec, S!RecordsSurvive

-----------------------------------------------------------------------------
(* Tasks.                                                                  *)

(* Of the constants: there is room for a claim, and None is none of what it *)
(* stands in for.                                                          *)
TaskConstants ==
  /\ MaxClaims \in Nat \ {0} /\ FirstTask \in Task
  /\ None \notin Agent \cup T!Id \cup T!Claim \cup T!Document

TaskFiles == [doc : [Task -> T!Document \cup {None}], claims : [T!Id -> T!Claim \cup {None}]]

Plan == [task : Task \cup {None}, field : T!Field \cup {"new", None}, value : Value \cup {None},
         seen : T!Document \cup {None}, id : T!Id \cup {None}, old : T!Id \cup {None},
         oldSeen : T!Claim \cup {None}, base : Nat]

TasksTyped ==
  /\ doc \in [Task -> T!Document \cup {None}] /\ claims \in [T!Id -> T!Claim \cup {None}]
  /\ index \in TaskFiles /\ before \in TaskFiles
  /\ head \in Nat /\ half \in Agent \cup {None}
  /\ step \in [Agent -> {"idle", "read", "claims", "head", "apply", "replaced",
                         "refresh", "done", "refused"}]
  /\ plan \in [Agent -> Plan]

(* What a call has asked for and read so far.                               *)
AsksForTask(p)  == p.task \in Task /\ p.field \in T!Field \cup {"new"}
ReadItsTask(p)  == AsksForTask(p) /\ (p.field = "new" <=> p.seen = None)
NoClaimYet(p)   == p.id = None /\ p.old = None

FoundClaims(p) ==
  /\ ReadItsTask(p)
  /\ p.field = "next" => NoClaimYet(p)
  /\ p.field # "next" => p.id \in T!Id /\ p.id + Len(T!Added(p)) - 1 <= MaxClaims
  /\ p.field = "new" => p.old = None
  /\ p.old # None => p.oldSeen # None /\ p.oldSeen.task = p.task /\ p.oldSeen.field = p.field

Planned(c) ==
  /\ step[c] = "read" => AsksForTask(plan[c]) /\ NoClaimYet(plan[c])
  /\ step[c] = "claims" => ReadItsTask(plan[c]) /\ NoClaimYet(plan[c]) /\ plan[c].field # "next"
  /\ step[c] \in {"head", "apply", "replaced"} => FoundClaims(plan[c])

(* Whose number a claim has does not change its task and its field.         *)
Agree(cs, ds) ==
  \A i \in T!Id : cs[i] # None /\ ds[i] # None => cs[i].task = ds[i].task /\
    cs[i].field = ds[i].field

(* The claims tell the tasks, each field that has a claim has a current     *)
(* one, and whom a claim supersedes exists.                                 *)
Told(ds, cs) ==
  \A t \in Task, f \in T!Claimed :
     /\ \A i, j \in T!Current(cs, t, f) : i = j
     /\ \A i \in T!Current(cs, t, f) : ds[t] # None /\ cs[i].object = ds[t][f]
     /\ (ds[t] # None /\ ds[t][f] # None) => T!Current(cs, t, f) # {}
     /\ \A i \in T!Id : cs[i] # None /\ cs[i].task = t /\ cs[i].field = f =>
        T!Current(cs, t, f) # {}

Linked(cs) ==
  \A i, j \in T!Id : cs[i] # None =>
     /\ cs[i].by = j => cs[j] # None /\ cs[j].supersedes = i
     /\ cs[i].supersedes = j => cs[j] # None /\ cs[j].by = i

Good(ds, cs) == Told(ds, cs) /\ Linked(cs)

(* What a call makes of the claims it finds.                                *)
Fresh(p) == {i \in T!Id : p.id # None /\ i - p.id + 1 \in DOMAIN T!Added(p)}
Rewritten(cs, p) ==
  [i \in T!Id |-> IF i = p.old THEN [p.oldSeen EXCEPT !.by = p.id]
                  ELSE IF i \in Fresh(p) THEN T!Added(p)[i - p.id + 1] ELSE cs[i]]

(* The files in the middle of a transaction, and those it found.            *)
HalfDone(c) ==
  LET p == plan[c] IN
  /\ before.doc[p.task] = p.seen
  /\ doc = [before.doc EXCEPT ![p.task] = T!TaskAfter(p)]
  /\ p.old # None => before.claims[p.old] = p.oldSeen
  /\ \A i \in Fresh(p) : before.claims[i] = None
  /\ claims = Rewritten(before.claims, p)
  /\ Good(before.doc, before.claims) /\ Agree(index.claims, before.claims)

HoldsTasks(c) ==
  /\ step[c] \in {"replaced", "refresh"} => half = c
  /\ step[c] = "replaced" => HalfDone(c)

TasksInv ==
  /\ TasksTyped
  /\ \A c \in Agent : Planned(c) /\ HoldsTasks(c)
  /\ Agree(index.claims, claims)
  /\ T!Settled => Good(doc, claims)
-----------------------------------------------------------------------------
(* The claims that a proposal adds.                                         *)
LEMMA AddedClaims ==
  ASSUME TaskConstants, NEW p \in Plan, FoundClaims(p)
  PROVE  /\ p.field = "next" => Fresh(p) = {}
         /\ p.field \in T!Claimed =>
              /\ Fresh(p) = {p.id} /\ p.id \in T!Id
              /\ T!Added(p)[1] = T!NewClaim(p.task, p.field, p.value, p.old)
         /\ p.field = "new" =>
              /\ p.id \in T!Id /\ T!Added(p)[1] = T!NewClaim(p.task, "status", First, None)
              /\ IF p.value = None THEN Fresh(p) = {p.id}
                 ELSE /\ p.id + 1 \in T!Id /\ Fresh(p) = {p.id, p.id + 1}
                      /\ T!Added(p)[2] = T!NewClaim(p.task, "owner", p.value, None)
<1>1. CASE p.field = "next"
  <2>1. T!Added(p) = <<>>
    BY <1>1 DEF T!Added
  <2>2. DOMAIN <<>> = {}
    OBVIOUS
  <2> QED
    BY <1>1, <2>1, <2>2 DEF Fresh, T!Claimed
<1>2. CASE p.field \in T!Claimed
  <2> DEFINE n == T!NewClaim(p.task, p.field, p.value, p.old)
  <2>1. T!Added(p) = <<n>>
    BY <1>2 DEF T!Added, T!Claimed
  <2> HIDE DEF n
  <2>2. DOMAIN T!Added(p) = {1} /\ T!Added(p)[1] = n
    BY <2>1
  <2>3. p.id \in T!Id /\ p.id # None
    BY <1>2 DEF FoundClaims, T!Claimed, TaskConstants
  <2>4. Fresh(p) = {p.id}
    BY <2>2, <2>3 DEF Fresh, T!Id
  <2> QED
    BY <1>2, <2>2, <2>3, <2>4 DEF n, T!Claimed
<1>3. CASE p.field = "new"
  <2> DEFINE n == T!NewClaim(p.task, "status", First, None)
             m == T!NewClaim(p.task, "owner", p.value, None)
  <2>1. T!Added(p) = <<n>> \o (IF p.value = None THEN <<>> ELSE <<m>>)
    BY <1>3 DEF T!Added
  <2> HIDE DEF n, m
  <2>2. /\ p.value = None => DOMAIN T!Added(p) = {1} /\ T!Added(p)[1] = n
        /\ p.value # None => /\ DOMAIN T!Added(p) = {1, 2} /\ Len(T!Added(p)) = 2
                             /\ T!Added(p)[1] = n /\ T!Added(p)[2] = m
    <3>1. CASE p.value = None
      BY <2>1, <3>1
    <3>2. CASE p.value # None
      BY <2>1, <3>2
    <3> QED
      BY <3>1, <3>2
  <2>3. p.id \in T!Id /\ p.id + Len(T!Added(p)) - 1 <= MaxClaims
    BY <1>3 DEF FoundClaims
  <2>4. p.id # None
    BY <2>3 DEF TaskConstants
  <2>5. CASE p.value = None
    <3>1. Fresh(p) = {p.id}
      BY <2>2, <2>3, <2>4, <2>5 DEF Fresh, T!Id
    <3> QED
      BY <1>3, <2>2, <2>3, <2>5, <3>1 DEF n, T!Claimed
  <2>6. CASE p.value # None
    <3>1. p.id + 1 \in T!Id
      BY <2>2, <2>3, <2>6 DEF T!Id, TaskConstants
    <3>2. Fresh(p) = {p.id, p.id + 1}
      BY <2>2, <2>3, <2>4, <2>6, <3>1 DEF Fresh, T!Id
    <3> QED
      BY <1>3, <2>2, <2>3, <2>6, <3>1, <3>2 DEF n, m, T!Claimed
  <2> QED
    BY <2>5, <2>6
<1> QED
  BY <1>1, <1>2, <1>3 DEF FoundClaims, ReadItsTask, AsksForTask, T!Field

(* What a transaction makes of the files has their type, and keeps whose    *)
(* every claim is.                                                         *)
LEMMA NewClaimTyped ==
  ASSUME NEW t \in Task, NEW f \in T!Claimed, NEW v \in Value \cup {None, First},
         NEW old \in T!Id \cup {None}
  PROVE  T!NewClaim(t, f, v, old) \in T!Claim
BY DEF T!NewClaim, T!Claim

LEMMA RewrittenTyped ==
  ASSUME TaskConstants, NEW p \in Plan, FoundClaims(p), NEW cs \in [T!Id -> T!Claim \cup {None}]
  PROVE  Rewritten(cs, p) \in [T!Id -> T!Claim \cup {None}]
<1>1. p.old # None => [p.oldSeen EXCEPT !.by = p.id] \in T!Claim
  <2> SUFFICES ASSUME p.old # None PROVE [p.oldSeen EXCEPT !.by = p.id] \in T!Claim
    OBVIOUS
  <2>1. p.oldSeen \in T!Claim /\ p.id \in T!Id \cup {None}
    BY DEF FoundClaims, Plan
  <2> QED
    BY <2>1 DEF T!Claim
<1>2. ASSUME NEW i \in Fresh(p) PROVE T!Added(p)[i - p.id + 1] \in T!Claim
  <2>1. p.task \in Task /\ p.value \in Value \cup {None} /\ p.old \in T!Id \cup {None}
    BY DEF FoundClaims, ReadItsTask, AsksForTask, Plan
  <2>2. CASE p.field \in T!Claimed
    <3>1. i = p.id /\ i \in Nat /\ T!Added(p)[1] = T!NewClaim(p.task, p.field, p.value, p.old)
      BY <1>2, <2>2, AddedClaims DEF T!Id
    <3>2. i - p.id + 1 = 1
      BY <3>1
    <3> QED
      BY <2>1, <2>2, <3>1, <3>2, NewClaimTyped
  <2>3. CASE p.field = "new"
    <3>1. p.id \in Nat /\ (i = p.id \/ (p.value # None /\ i = p.id + 1))
      BY <1>2, <2>3, AddedClaims DEF T!Id
    <3>2. /\ T!Added(p)[1] = T!NewClaim(p.task, "status", First, None)
          /\ p.value # None => T!Added(p)[2] = T!NewClaim(p.task, "owner", p.value, None)
      BY <2>3, AddedClaims
    <3>3. "status" \in T!Claimed /\ "owner" \in T!Claimed
      BY DEF T!Claimed
    <3>4. /\ T!NewClaim(p.task, "status", First, None) \in T!Claim
          /\ T!NewClaim(p.task, "owner", p.value, None) \in T!Claim
      BY <2>1, <3>3, NewClaimTyped
    <3>5. i = p.id => i - p.id + 1 = 1
      BY <3>1
    <3>6. i = p.id + 1 => i - p.id + 1 = 2
      BY <3>1
    <3> QED
      BY <3>1, <3>2, <3>4, <3>5, <3>6
  <2> QED
    BY <1>2, <2>2, <2>3, AddedClaims DEF FoundClaims, ReadItsTask, AsksForTask, T!Field
<1> DEFINE o == [p.oldSeen EXCEPT !.by = p.id]
<1>3. Rewritten(cs, p) = [i \in T!Id |-> IF i = p.old THEN o ELSE IF i \in Fresh(p)
                                         THEN T!Added(p)[i - p.id + 1] ELSE cs[i]]
  BY DEF Rewritten
<1>4. \A i \in T!Id : i = p.old => o \in T!Claim
  BY <1>1 DEF TaskConstants
<1> HIDE DEF o
<1> QED
  BY <1>2, <1>3, <1>4

LEMMA RewrittenAgrees ==
  ASSUME TaskConstants, NEW p \in Plan, FoundClaims(p), NEW cs \in [T!Id -> T!Claim \cup {None}],
         p.old # None => cs[p.old] = p.oldSeen, \A i \in Fresh(p) : cs[i] = None
  PROVE  Agree(cs, Rewritten(cs, p)) /\ Agree(Rewritten(cs, p), cs)
<1>1. ASSUME NEW i \in T!Id, cs[i] # None
      PROVE  Rewritten(cs, p)[i].task = cs[i].task /\ Rewritten(cs, p)[i].field = cs[i].field
  <2>1. CASE i = p.old
    <3>1. p.oldSeen \in T!Claim /\ p.oldSeen = cs[i] /\
            Rewritten(cs, p)[i] = [p.oldSeen EXCEPT !.by = p.id]
      BY <1>1, <2>1 DEF Plan, Rewritten, TaskConstants
    <3> QED
      BY <3>1 DEF T!Claim
  <2>2. CASE i # p.old
    BY <1>1, <2>2 DEF Rewritten
  <2> QED
    BY <2>1, <2>2
<1> QED
  BY <1>1 DEF Agree

LEMMA TaskAfterTyped ==
  ASSUME TaskConstants, NEW p \in Plan, ReadItsTask(p)
  PROVE  T!TaskAfter(p) \in T!Document
<1>1. CASE p.field = "new"
  BY <1>1 DEF T!TaskAfter, T!Document, Plan
<1>2. CASE p.field # "new"
  <2>1. p.seen \in T!Document /\ p.value \in Value \cup {None} /\ p.field \in T!Field
    BY <1>2 DEF ReadItsTask, AsksForTask, Plan
  <2> QED
    BY <1>2, <2>1 DEF T!TaskAfter, T!Document
<1> QED
  BY <1>1, <1>2

(* The transaction of the model is that of these definitions.               *)
LEMMA ClaimsAfterIs ==
  ASSUME NEW p
  PROVE  T!ClaimsAfter(p) = Rewritten(claims, p)
BY DEF T!ClaimsAfter, Rewritten, Fresh
-----------------------------------------------------------------------------
LEMMA TasksBegin ==
  ASSUME TaskConstants, T!TasksInit
  PROVE  TasksInv
<1> USE DEF T!TasksInit
<1>1. 1 \in T!Id
  BY DEF T!Id, TaskConstants
<1>2. T!NewClaim(FirstTask, "status", First, None) \in T!Claim
  BY NewClaimTyped DEF TaskConstants, T!Claimed
<1>3. claims \in [T!Id -> T!Claim \cup {None}]
  BY <1>2
<1>4. doc \in [Task -> T!Document \cup {None}]
  BY DEF T!Document
<1>5. T!Blank \in Plan
  BY DEF T!Blank, Plan
<1>6. TasksTyped
  BY <1>3, <1>4, <1>5 DEF TasksTyped, TaskFiles, T!Files
<1>7. \A i \in T!Id : claims[i] # None =>
         /\ i = 1 /\ claims[1].task = FirstTask /\ claims[1].field = "status"
         /\ claims[1].object = First /\ claims[1].by = None /\ claims[1].supersedes = None
  BY DEF T!NewClaim
<1>8. claims[1] # None /\ claims[1].by = None /\ claims[1].task = FirstTask /\
        claims[1].field = "status"
  BY <1>1, <1>2 DEF T!NewClaim, TaskConstants
<1>9. \A t \in Task, f \in T!Claimed :
        T!Current(claims, t, f) = IF t = FirstTask /\ f = "status" THEN {1} ELSE {}
  BY <1>1, <1>7, <1>8 DEF T!Current
<1>10. \A t \in Task : doc[t] # None => t = FirstTask /\ doc[t]["owner"] = None /\
         doc[t]["status"] = First
  BY DEF T!Field, T!Claimed
<1>11. doc[FirstTask] # None
  BY DEF T!Document, TaskConstants, T!Field, T!Claimed
<1>12. Told(doc, claims)
  <2> SUFFICES ASSUME NEW t \in Task, NEW f \in T!Claimed
               PROVE  /\ \A i, j \in T!Current(claims, t, f) : i = j
                      /\ \A i \in T!Current(claims, t, f) : doc[t] # None /\
                         claims[i].object = doc[t][f]
                      /\ (doc[t] # None /\ doc[t][f] # None) => T!Current(claims, t, f) # {}
                      /\ \A i \in T!Id : claims[i] # None /\ claims[i].task = t /\
                         claims[i].field = f
                                         => T!Current(claims, t, f) # {}
    BY DEF Told
  <2> HIDE DEF T!TasksInit
  <2>1. CASE t = FirstTask /\ f = "status"
    <3>1. T!Current(claims, t, f) = {1}
      BY <1>9, <2>1
    <3>2. doc[t] # None /\ doc[t][f] = First /\ claims[1].object = First
      BY <1>7, <1>8, <1>1, <1>10, <1>11, <2>1
    <3> QED
      BY <3>1, <3>2
  <2>2. CASE ~ (t = FirstTask /\ f = "status")
    <3>1. T!Current(claims, t, f) = {}
      BY <1>9, <2>2
    <3>2. doc[t] # None => doc[t][f] = None
      BY <1>10, <2>2 DEF T!Claimed
    <3>3. ~ \E i \in T!Id : claims[i] # None /\ claims[i].task = t /\ claims[i].field = f
      BY <1>7, <2>2
    <3> QED
      BY <3>1, <3>2, <3>3
  <2> QED
    BY <2>1, <2>2
<1>13. Linked(claims)
  BY <1>7 DEF Linked, TaskConstants
<1>14. Agree(index.claims, claims)
  BY DEF T!Files, Agree
<1>15. \A c \in Agent : Planned(c) /\ HoldsTasks(c)
  BY DEF Planned, HoldsTasks
<1> QED
  BY <1>6, <1>12, <1>13, <1>14, <1>15 DEF TasksInv, Good
-----------------------------------------------------------------------------
(* A call that only reads: the files, the lock and the other calls stay.    *)
LEMMA IndexAgrees ==
  ASSUME TaskConstants, TasksInv, NEW c \in Agent, step[c] = "replaced"
  PROVE  Agree(T!Files.claims, before.claims)
<1>1. plan[c] \in Plan /\ FoundClaims(plan[c]) /\ before.claims \in [T!Id -> T!Claim \cup {None}]
  BY DEF TasksInv, TasksTyped, TaskFiles, Planned
<1>2. /\ plan[c].old # None => before.claims[plan[c].old] = plan[c].oldSeen
      /\ \A i \in Fresh(plan[c]) : before.claims[i] = None
      /\ claims = Rewritten(before.claims, plan[c])
  BY DEF TasksInv, HoldsTasks, HalfDone
<1>3. Agree(claims, before.claims)
  BY <1>1, <1>2, RewrittenAgrees
<1> QED
  BY <1>3 DEF T!Files

LEMMA TaskCallReads ==
  ASSUME TaskConstants, TasksInv, NEW c \in Agent, NEW p \in Plan, plan' = [plan EXCEPT ![c] = p],
         NEW l \in {"read", "claims", "head", "apply", "refused"}, step' = [step EXCEPT ![c] = l],
         step[c] \notin {"replaced", "refresh"},
         UNCHANGED <<doc, claims, half, before>>, head' = head, index' \in {index, T!Files},
         l = "read" => AsksForTask(p) /\ NoClaimYet(p),
         l = "claims" => ReadItsTask(p) /\ NoClaimYet(p) /\ p.field # "next",
         l \in {"head", "apply"} => FoundClaims(p)
  PROVE  TasksInv'
<1>1. TasksTyped'
  BY DEF TasksInv, TasksTyped, T!Files, TaskFiles
<1>2. plan'[c] = p /\ step'[c] = l
  BY DEF TasksInv, TasksTyped
<1>3. \A d \in Agent : d # c => plan'[d] = plan[d] /\ step'[d] = step[d]
  BY DEF TasksInv, TasksTyped
<1>4. ASSUME NEW d \in Agent PROVE Planned(d)'
  BY <1>2, <1>3 DEF TasksInv, Planned
<1>5. ASSUME NEW d \in Agent PROVE HoldsTasks(d)'
  <2>1. CASE d = c
    BY <1>2, <2>1 DEF HoldsTasks
  <2>2. CASE d # c
    <3>1. HoldsTasks(d) /\ plan'[d] = plan[d] /\ step'[d] = step[d]
      BY <1>3, <2>2 DEF TasksInv
    <3>2. step[d] = "replaced" => Agree(index.claims, before.claims) /\
            Agree(T!Files.claims, before.claims)
      BY <3>1, IndexAgrees DEF HoldsTasks, HalfDone
    <3>3. step[d] = "replaced" => Agree(index'.claims, before'.claims)
      BY <3>2
    <3> QED
      BY <3>1, <3>3 DEF HoldsTasks, HalfDone
  <2> QED
    BY <2>1, <2>2
<1>6. T!Settled' => T!Settled
  BY <1>2, <1>3 DEF T!Settled
<1>7. Agree(index'.claims, claims')
  BY DEF TasksInv, T!Files, Agree
<1> QED
  BY <1>1, <1>4, <1>5, <1>6, <1>7 DEF TasksInv

LEMMA AskKeepsTasks ==
  ASSUME TaskConstants, TasksInv, NEW c \in Agent, NEW t \in Task, NEW f \in T!Field \cup {"new"},
         NEW v \in Value \cup {None}, T!Ask(c, t, f, v)
  PROVE  TasksInv'
<1> DEFINE p == [T!Blank EXCEPT !.task = t, !.field = f, !.value = v]
<1>1. p \in Plan /\ AsksForTask(p) /\ NoClaimYet(p)
  BY DEF T!Blank, Plan, AsksForTask, NoClaimYet
<1>2. plan' = [plan EXCEPT ![c] = p] /\ step' = [step EXCEPT ![c] = "read"]
  BY DEF T!Ask, T!Goto
<1> HIDE DEF p
<1> QED
  BY <1>1, <1>2, TaskCallReads DEF T!Ask

LEMMA ReadKeepsTasks ==
  ASSUME TaskConstants, TasksInv, NEW c \in Agent, T!ReadTask(c) \/ T!Propose(c)
  PROVE  TasksInv'
<1>1. plan[c] \in Plan /\ doc \in [Task -> T!Document \cup {None}] /\ plan \in [Agent -> Plan] /\
        head \in Nat
  BY DEF TasksInv, TasksTyped
<1>2. CASE T!ReadTask(c)
  <2>1. AsksForTask(plan[c]) /\ NoClaimYet(plan[c]) /\ step[c] = "read"
    BY <1>2 DEF TasksInv, Planned, T!ReadTask
  <2>2. CASE T!Permitted(plan[c]) /\ step' # [step EXCEPT ![c] = "refused"]
    <3> DEFINE s == IF plan[c].field = "new" THEN None ELSE doc[plan[c].task]
               p == [plan[c] EXCEPT !.seen = s]
               l == IF plan[c].field = "next" THEN "head" ELSE "claims"
    <3>1. /\ plan' = [plan EXCEPT ![c].seen = s] /\ step' = [step EXCEPT ![c] = l]
          /\ UNCHANGED <<doc, claims, index, head, half, before>>
      BY <1>2, <2>2 DEF T!ReadTask, T!Goto
    <3>2. s \in T!Document \cup {None} /\ (plan[c].field = "new" <=> s = None)
      BY <1>1, <2>1, <2>2 DEF AsksForTask, T!Permitted
    <3> HIDE DEF s
    <3>3. /\ p \in Plan /\ p.task = plan[c].task /\ p.field = plan[c].field /\ p.id = plan[c].id
          /\ p.old = plan[c].old /\ p.seen = s
      BY <1>1, <3>2 DEF Plan
    <3>4. plan' = [plan EXCEPT ![c] = p]
      BY <1>1, <3>1
    <3> HIDE DEF p
    <3>5. ReadItsTask(p) /\ NoClaimYet(p)
      BY <2>1, <3>2, <3>3 DEF ReadItsTask, NoClaimYet, AsksForTask
    <3>6. p.field = "next" => FoundClaims(p)
      BY <3>5 DEF FoundClaims, NoClaimYet
    <3>7. l \in {"head", "claims"} /\ (l = "head" <=> p.field = "next")
      BY <3>3
    <3> HIDE DEF l
    <3> QED
      BY <2>1, <3>1, <3>3, <3>4, <3>5, <3>6, <3>7, TaskCallReads
  <2>3. CASE step' = [step EXCEPT ![c] = "refused"]
    <3>1. UNCHANGED plan
      BY <1>2, <2>3, <2>1 DEF T!ReadTask, T!Goto, TasksInv, TasksTyped
    <3>2. plan' = [plan EXCEPT ![c] = plan[c]]
      BY <1>1, <3>1
    <3> QED
      BY <1>1, <1>2, <2>1, <2>3, <3>2, TaskCallReads DEF T!ReadTask
  <2> QED
    BY <1>2, <2>2, <2>3 DEF T!ReadTask, T!Goto
<1>3. CASE T!Propose(c)
  <2> DEFINE p == [plan[c] EXCEPT !.base = head]
  <2>1. /\ plan' = [plan EXCEPT ![c].base = head] /\ step' = [step EXCEPT ![c] = "apply"]
        /\ UNCHANGED <<doc, claims, index, head, half, before>> /\ step[c] = "head"
    BY <1>3 DEF T!Propose, T!Goto
  <2>2. FoundClaims(plan[c])
    BY <2>1 DEF TasksInv, Planned
  <2>3. /\ p \in Plan /\ p.task = plan[c].task /\ p.field = plan[c].field /\ p.id = plan[c].id
        /\ p.old = plan[c].old /\ p.seen = plan[c].seen /\ p.oldSeen = plan[c].oldSeen
        /\ p.value = plan[c].value
    BY <1>1 DEF Plan
  <2>4. plan' = [plan EXCEPT ![c] = p]
    BY <1>1, <2>1
  <2> HIDE DEF p
  <2>5. T!Added(p) = T!Added(plan[c])
    BY <2>3 DEF T!Added
  <2>6. FoundClaims(p)
    BY <2>2, <2>3, <2>5 DEF FoundClaims, ReadItsTask, AsksForTask, NoClaimYet
  <2> QED
    BY <2>1, <2>3, <2>4, <2>6, TaskCallReads
<1> QED
  BY <1>2, <1>3
-----------------------------------------------------------------------------
(* Sets of naturals have a least element, bounded ones a greatest.          *)
LEMMA Least ==
  ASSUME NEW A, A \subseteq Nat, A # {}
  PROVE  \E x \in A : \A y \in A : x <= y
<1> DEFINE R == {ss \in Nat \X Nat : ss[1] < ss[2]}
<1>1. IsWellFoundedOn(R, Nat)
  BY NatLessThanWellFounded DEF OpToRel
<1>2. PICK x \in A : \A y \in A : ~ (<<y, x>> \in R)
  <2> HIDE DEF R
  <2> QED BY <1>1, WFMin
<1>3. ASSUME NEW y \in A PROVE x <= y
  <2>1. ~ (<<y, x>> \in R)
    BY <1>2
  <2>2. <<y, x>> \in Nat \X Nat
    OBVIOUS
  <2> QED
    BY <2>1, <2>2
<1> QED
  BY <1>3

LEMMA Greatest ==
  ASSUME NEW n \in Nat, NEW A, A \subseteq 0..n, A # {}
  PROVE  T!Max(A) \in A /\ \A y \in A : y <= T!Max(A)
<1> DEFINE U == {k \in Nat : n - k \in A}
<1>1. \A x \in A : n - x \in U
  <2> SUFFICES ASSUME NEW x \in A PROVE n - x \in Nat /\ n - (n - x) \in A
    OBVIOUS
  <2>1. x \in Nat /\ x <= n /\ n - (n - x) = x
    OBVIOUS
  <2> QED
    BY <2>1
<1>2. PICK k \in U : \A l \in U : k <= l
  BY <1>1, Least
<1>3. ASSUME NEW y \in A PROVE n - k >= y
  <2>1. k <= n - y /\ n - y \in Nat
    BY <1>1, <1>2
  <2> QED
    BY <2>1
<1>4. \E x \in A : \A y \in A : x >= y
  BY <1>3
<1>5. T!Max(A) \in A /\ \A y \in A : T!Max(A) >= y
  BY <1>4 DEF T!Max
<1> QED
  BY <1>5

(* The claim that is current in the index is about the task and the field.  *)
LEMMA FindKeepsTasks ==
  ASSUME TaskConstants, TasksInv, NEW c \in Agent, T!FindClaims(c)
  PROVE  TasksInv'
<1> DEFINE p == plan[c]
           last == T!Max({0} \cup {i \in T!Id : claims[i] # None})
           current == T!Current(index.claims, p.task, p.field)
           enough == last + Len(T!Added(p)) <= MaxClaims
           readable == T!Cardinality(current) <= 1 /\ \A i \in current : claims[i] # None
           old == IF current = {} THEN None ELSE T!Max(current)
           seen == IF old = None THEN None ELSE claims[old]
           q == [p EXCEPT !.id = last + 1, !.old = old, !.oldSeen = seen]
<1>1. /\ step[c] = "claims" /\ UNCHANGED <<doc, claims, index, head, half, before>>
      /\ \/ /\ enough /\ readable /\ plan' = [plan EXCEPT ![c] = q]
            /\ step' = [step EXCEPT ![c] = "head"]
         \/ UNCHANGED plan /\ step' = [step EXCEPT ![c] = "refused"]
  BY DEF T!FindClaims, T!Goto
<1>2. ReadItsTask(p) /\ NoClaimYet(p) /\ p.field # "next"
  BY <1>1 DEF TasksInv, Planned
<1>3. p \in Plan /\ plan \in [Agent -> Plan] /\ claims \in [T!Id -> T!Claim \cup {None}] /\
        index \in TaskFiles
  BY DEF TasksInv, TasksTyped
<1>4. CASE UNCHANGED plan /\ step' = [step EXCEPT ![c] = "refused"]
  <2>1. plan' = [plan EXCEPT ![c] = plan[c]]
    BY <1>3, <1>4
  <2> QED
    BY <1>1, <1>3, <1>4, <2>1, TaskCallReads
<1>5. CASE /\ enough /\ readable /\ plan' = [plan EXCEPT ![c] = q]
           /\ step' = [step EXCEPT ![c] = "head"]
  <2>1. last \in Nat
    <3> DEFINE A == {0} \cup {i \in T!Id : claims[i] # None}
    <3>1. A \subseteq 0..MaxClaims /\ A # {} /\ A \subseteq Nat /\ MaxClaims \in Nat
      BY DEF T!Id, TaskConstants
    <3> HIDE DEF A
    <3>2. T!Max(A) \in Nat
      BY <3>1, Greatest
    <3> QED
      BY <3>2 DEF A
  <2>2. old # None => old \in current
    <3>1. current \subseteq 0..MaxClaims /\ MaxClaims \in Nat
      BY DEF T!Current, T!Id, TaskConstants
    <3> HIDE DEF current
    <3> QED
      BY <3>1, Greatest
  <2>3. old # None => old \in T!Id /\ seen \in T!Claim /\ seen # None /\ seen.task = p.task /\
          seen.field = p.field
    <3> SUFFICES ASSUME old # None
                 PROVE  old \in T!Id /\ seen \in T!Claim /\ seen # None /\ seen.task = p.task /\
                        seen.field = p.field
      OBVIOUS
    <3>1. /\ old \in T!Id /\ index.claims[old] # None
          /\ index.claims[old].task = p.task /\ index.claims[old].field = p.field
      BY <2>2 DEF T!Current
    <3>2. claims[old] # None /\ seen = claims[old]
      BY <1>5, <2>2
    <3> HIDE DEF old, seen
    <3>3. Agree(index.claims, claims)
      BY DEF TasksInv
    <3>4. claims[old].task = p.task /\ claims[old].field = p.field
      BY <3>1, <3>2, <3>3 DEF Agree
    <3> QED
      BY <1>3, <3>1, <3>2, <3>4
  <2>4. old = None => seen = None
    OBVIOUS
  <2>5. p.field = "new" => old = None
    <3> SUFFICES ASSUME p.field = "new" PROVE current = {}
      OBVIOUS
    <3>1. \A i \in T!Id : index.claims[i] # None => index.claims[i].field \in T!Claimed
      BY <1>3 DEF TaskFiles, T!Claim
    <3> QED
      BY <3>1 DEF T!Current, T!Claimed
  <2>6. Len(T!Added(p)) \in Nat /\ Len(T!Added(p)) >= 1
    <3>1. CASE p.field = "new" /\ p.value = None
      <4>1. Len(<<T!NewClaim(p.task, "status", First, None)>> \o <<>>) = 1
        OBVIOUS
      <4> QED
        BY <3>1, <4>1 DEF T!Added
    <3>2. CASE p.field = "new" /\ p.value # None
      <4>1. Len(<<T!NewClaim(p.task, "status", First, None)>> \o <<T!NewClaim(p.task, "owner",
              p.value, None)>>) = 2
        OBVIOUS
      <4> QED
        BY <3>2, <4>1 DEF T!Added
    <3>3. CASE p.field # "new"
      BY <1>2, <3>3 DEF T!Added
    <3> QED
      BY <3>1, <3>2, <3>3
  <2> HIDE DEF last, old, seen
  <2>7. /\ q.task = p.task /\ q.field = p.field /\ q.value = p.value /\ q.seen = p.seen
        /\ q.base = p.base /\ q.id = last + 1 /\ q.old = old /\ q.oldSeen = seen
        /\ q = [p EXCEPT !.id = last + 1, !.old = old, !.oldSeen = seen]
    BY <1>3 DEF Plan
  <2>8. Len(T!Added(q)) = Len(T!Added(p))
    <3> HIDE DEF p, q
    <3>1. CASE p.field = "new"
      BY <2>7, <3>1 DEF T!Added
    <3>2. CASE p.field # "new"
      BY <1>2, <2>7, <3>2 DEF T!Added
    <3> QED
      BY <3>1, <3>2
  <2>9. last + 1 \in T!Id
    BY <1>5, <2>1, <2>6 DEF T!Id, TaskConstants
  <2>10. q \in Plan
    BY <1>3, <2>3, <2>4, <2>9 DEF Plan
  <2> HIDE DEF q
  <2>11. q.id + Len(T!Added(q)) - 1 <= MaxClaims
    BY <1>5, <2>1, <2>6, <2>7, <2>8 DEF TaskConstants
  <2> HIDE DEF p
  <2>12. FoundClaims(q)
    BY <1>2, <2>3, <2>5, <2>7, <2>9, <2>11 DEF FoundClaims, ReadItsTask, AsksForTask
  <2> QED
    BY <1>1, <1>5, <2>10, <2>12, TaskCallReads
<1> QED
  BY <1>1, <1>4, <1>5
-----------------------------------------------------------------------------
(* A field gets a new claim, which supersedes the one that was current.     *)
Changes(ds, cs, ds1, cs1, t0, f0, id, old) ==
  /\ cs \in [T!Id -> T!Claim \cup {None}] /\ ds \in [Task -> T!Document \cup {None}]
  /\ cs1 \in [T!Id -> T!Claim \cup {None}] /\ ds1 \in [Task -> T!Document \cup {None}]
  /\ t0 \in Task /\ f0 \in T!Claimed /\ id \in T!Id /\ old \in T!Id \cup {None}
  /\ cs[id] = None /\ cs1[id] # None /\ cs1[id].task = t0 /\ cs1[id].field = f0
  /\ cs1[id].by = None /\ cs1[id].supersedes = old
  /\ ds1[t0] # None /\ cs1[id].object = ds1[t0][f0]
  /\ old # None => /\ cs[old] # None /\ cs[old].task = t0 /\ cs[old].field = f0
                   /\ cs1[old] # None /\ cs1[old].task = t0 /\ cs1[old].field = f0
                   /\ cs1[old].by = id /\ cs1[old].supersedes = cs[old].supersedes
  /\ \A i \in T!Id : i # id /\ i # old => cs1[i] = cs[i]
  /\ \A t \in Task, f \in T!Claimed : ~ (t = t0 /\ f = f0) =>
        (ds1[t] # None <=> ds[t] # None) /\ (ds[t] # None => ds1[t][f] = ds[t][f])
  /\ \A i, j \in T!Current(cs1, t0, f0) : i = j

LEMMA GoodAfterChange ==
  ASSUME TaskConstants, NEW cs, NEW ds, NEW cs1, NEW ds1, NEW t0, NEW f0, NEW id, NEW old,
         Good(ds, cs), Changes(ds, cs, ds1, cs1, t0, f0, id, old)
  PROVE  Good(ds1, cs1)
<1> USE DEF Changes
<1>0. None \notin T!Id
  BY DEF TaskConstants
<1>1. id \in T!Current(cs1, t0, f0)
  BY DEF T!Current
<1>2. T!Current(cs1, t0, f0) = {id}
  BY <1>1
<1>3. \A i \in T!Current(cs, t0, f0) : i = old
  <2> SUFFICES ASSUME NEW i \in T!Current(cs, t0, f0), i # old PROVE FALSE
    OBVIOUS
  <2>1. i \in T!Id /\ i # id
    BY DEF T!Current
  <2>2. i \in T!Current(cs1, t0, f0)
    BY <2>1 DEF T!Current
  <2> QED
    BY <1>2, <2>1, <2>2
<1>4. old # None => old # id /\ cs[old].by = None
  <2> SUFFICES ASSUME old # None PROVE old # id /\ cs[old].by = None
    OBVIOUS
  <2>1. T!Current(cs, t0, f0) # {}
    BY DEF Good, Told
  <2>2. old \in T!Current(cs, t0, f0)
    BY <1>3, <2>1
  <2> QED
    BY <2>2 DEF T!Current
<1>5. ASSUME NEW t \in Task, NEW f \in T!Claimed, ~ (t = t0 /\ f = f0)
      PROVE  T!Current(cs1, t, f) = T!Current(cs, t, f)
  <2>1. ASSUME NEW i \in T!Id
        PROVE  cs1[i] # None /\ cs1[i].task = t /\ cs1[i].field = f /\ cs1[i].by = None
                 <=> cs[i] # None /\ cs[i].task = t /\ cs[i].field = f /\ cs[i].by = None
    <3>1. CASE i = id
      BY <1>5, <3>1
    <3>2. CASE i = old
      BY <1>0, <1>5, <3>2
    <3>3. CASE i # id /\ i # old
      <4>1. cs1[i] = cs[i]
        BY <3>3
      <4> QED
        BY <4>1
    <3> QED
      BY <3>1, <3>2, <3>3
  <2> QED
    BY <2>1 DEF T!Current
<1>6. ASSUME NEW t \in Task, NEW f \in T!Claimed
      PROVE  /\ \A i, j \in T!Current(cs1, t, f) : i = j
             /\ \A i \in T!Current(cs1, t, f) : ds1[t] # None /\ cs1[i].object = ds1[t][f]
             /\ (ds1[t] # None /\ ds1[t][f] # None) => T!Current(cs1, t, f) # {}
             /\ \A i \in T!Id : cs1[i] # None /\ cs1[i].task = t /\ cs1[i].field = f =>
                T!Current(cs1, t, f) # {}
  <2>1. CASE t = t0 /\ f = f0
    BY <1>2, <2>1
  <2>2. CASE ~ (t = t0 /\ f = f0)
    <3>1. /\ \A i, j \in T!Current(cs, t, f) : i = j
          /\ \A i \in T!Current(cs, t, f) : ds[t] # None /\ cs[i].object = ds[t][f]
          /\ (ds[t] # None /\ ds[t][f] # None) => T!Current(cs, t, f) # {}
          /\ \A i \in T!Id : cs[i] # None /\ cs[i].task = t /\ cs[i].field = f =>
             T!Current(cs, t, f) # {}
      BY DEF Good, Told
    <3>2. T!Current(cs1, t, f) = T!Current(cs, t, f)
      BY <1>5, <2>2
    <3>3. \A i \in T!Id : cs1[i] # None /\ cs1[i].task = t /\ cs1[i].field = f =>
            i # id /\ i # old /\ cs1[i] = cs[i]
      BY <1>0, <2>2
    <3>4. \A i \in T!Current(cs1, t, f) : i \in T!Id /\ cs1[i] = cs[i]
      BY <3>3 DEF T!Current
    <3>5. (ds1[t] # None <=> ds[t] # None) /\ (ds[t] # None => ds1[t][f] = ds[t][f])
      BY <2>2
    <3> QED
      BY <3>1, <3>2, <3>3, <3>4, <3>5
  <2> QED
    BY <2>1, <2>2
<1>7. ASSUME NEW i \in T!Id, NEW j \in T!Id, cs1[i] # None
      PROVE  /\ cs1[i].by = j => cs1[j] # None /\ cs1[j].supersedes = i
             /\ cs1[i].supersedes = j => cs1[j] # None /\ cs1[j].by = i
  <2>0. \A k, l \in T!Id : cs[k] # None =>
          /\ cs[k].by = l => cs[l] # None /\ cs[l].supersedes = k
          /\ cs[k].supersedes = l => cs[l] # None /\ cs[l].by = k
    BY DEF Good, Linked
  <2>1. CASE i = id
    BY <1>0, <1>4, <2>1
  <2>2. CASE i = old
    <3>1. old # None /\ i # id /\ cs[i] # None /\ cs[i].by = None
      BY <1>0, <1>4, <2>2
    <3>2. cs1[i].by = j => j = id
      BY <2>2, <3>1
    <3>3. ASSUME cs1[i].supersedes = j PROVE cs1[j] # None /\ cs1[j].by = i
      <4>1. cs[i].supersedes = j
        BY <2>2, <3>1, <3>3
      <4>2. cs[j] # None /\ cs[j].by = i
        BY <2>0, <3>1, <4>1
      <4>3. j # id /\ j # old
        BY <1>0, <2>2, <3>1, <4>2
      <4> QED
        BY <4>2, <4>3
    <3> QED
      BY <2>2, <3>1, <3>2, <3>3
  <2>3. CASE i # id /\ i # old
    <3>1. cs1[i] = cs[i] /\ cs[i] # None
      BY <1>7, <2>3
    <3>2. ASSUME cs1[i].by = j PROVE cs1[j] # None /\ cs1[j].supersedes = i
      <4>1. cs[j] # None /\ cs[j].supersedes = i /\ j # id
        BY <2>0, <3>1, <3>2
      <4> QED
        BY <1>0, <4>1
    <3>3. ASSUME cs1[i].supersedes = j PROVE cs1[j] # None /\ cs1[j].by = i
      <4>1. cs[j] # None /\ cs[j].by = i /\ j # id
        BY <2>0, <3>1, <3>3
      <4>2. j # old
        BY <1>0, <1>4, <4>1
      <4> QED
        BY <4>1, <4>2
    <3> QED
      BY <3>2, <3>3
  <2> QED
    BY <2>1, <2>2, <2>3
<1> QED
  BY <1>6, <1>7 DEF Good, Told, Linked

(* A task comes into being, with a claim or two of its own.                 *)
Births(ds, cs, ds1, cs1, t0, new) ==
  /\ cs \in [T!Id -> T!Claim \cup {None}] /\ ds \in [Task -> T!Document \cup {None}]
  /\ cs1 \in [T!Id -> T!Claim \cup {None}] /\ ds1 \in [Task -> T!Document \cup {None}]
  /\ t0 \in Task /\ ds[t0] = None /\ ds1[t0] # None /\ \A t \in Task : t # t0 => ds1[t] = ds[t]
  /\ new \in SUBSET T!Id /\ \A i \in new : cs[i] = None
  /\ \A i \in new : /\ cs1[i] # None /\ cs1[i].task = t0 /\ cs1[i].by = None
                    /\ cs1[i].supersedes = None /\ cs1[i].object = ds1[t0][cs1[i].field]
  /\ \A i, j \in new : cs1[i].field = cs1[j].field => i = j
  /\ \A f \in T!Claimed : ds1[t0][f] # None => \E i \in new : cs1[i].field = f
  /\ \A i \in T!Id : i \notin new => cs1[i] = cs[i]

LEMMA GoodAfterBirth ==
  ASSUME TaskConstants, NEW cs, NEW ds, NEW cs1, NEW ds1, NEW t0, NEW A,
         Good(ds, cs), Births(ds, cs, ds1, cs1, t0, A)
  PROVE  Good(ds1, cs1)
<1> USE DEF Births
<1>0. None \notin T!Id
  BY DEF TaskConstants
<1>1. \A i \in T!Id : cs[i] # None => cs[i].task # t0
  <2> SUFFICES ASSUME NEW i \in T!Id, cs[i] # None, cs[i].task = t0 PROVE FALSE
    OBVIOUS
  <2>1. cs[i].field \in T!Claimed
    BY DEF T!Claim
  <2>2. T!Current(cs, t0, cs[i].field) # {}
    BY <2>1 DEF Good, Told
  <2> QED
    BY <2>1, <2>2 DEF Good, Told
<1>2. ASSUME NEW t \in Task, NEW f \in T!Claimed
      PROVE  /\ \A i, j \in T!Current(cs1, t, f) : i = j
             /\ \A i \in T!Current(cs1, t, f) : ds1[t] # None /\ cs1[i].object = ds1[t][f]
             /\ (ds1[t] # None /\ ds1[t][f] # None) => T!Current(cs1, t, f) # {}
             /\ \A i \in T!Id : cs1[i] # None /\ cs1[i].task = t /\ cs1[i].field = f =>
                T!Current(cs1, t, f) # {}
  <2>1. CASE t = t0
    <3>1. \A i \in T!Id : cs1[i] # None /\ cs1[i].task = t => i \in A
      BY <1>1, <2>1
    <3>2. T!Current(cs1, t, f) = {i \in A : cs1[i].field = f}
      BY <2>1, <3>1 DEF T!Current
    <3> QED
      BY <2>1, <3>1, <3>2
  <2>2. CASE t # t0
    <3>1. \A i \in T!Id : cs1[i] # None /\ cs1[i].task = t => cs1[i] = cs[i] /\ i \notin A
      BY <2>2
    <3>2. T!Current(cs1, t, f) = T!Current(cs, t, f)
      BY <2>2, <3>1 DEF T!Current
    <3>3. /\ \A i, j \in T!Current(cs, t, f) : i = j
          /\ \A i \in T!Current(cs, t, f) : ds[t] # None /\ cs[i].object = ds[t][f]
          /\ (ds[t] # None /\ ds[t][f] # None) => T!Current(cs, t, f) # {}
          /\ \A i \in T!Id : cs[i] # None /\ cs[i].task = t /\ cs[i].field = f =>
             T!Current(cs, t, f) # {}
      BY DEF Good, Told
    <3>4. \A i \in T!Current(cs1, t, f) : i \in T!Id /\ cs1[i] = cs[i]
      BY <3>1 DEF T!Current
    <3> QED
      BY <2>2, <3>1, <3>2, <3>3, <3>4
  <2> QED
    BY <2>1, <2>2
<1>3. ASSUME NEW i \in T!Id, NEW j \in T!Id, cs1[i] # None
      PROVE  /\ cs1[i].by = j => cs1[j] # None /\ cs1[j].supersedes = i
             /\ cs1[i].supersedes = j => cs1[j] # None /\ cs1[j].by = i
  <2>1. CASE i \in A
    BY <1>0, <2>1
  <2>2. CASE i \notin A
    <3>1. cs1[i] = cs[i] /\ cs[i] # None
      BY <1>3, <2>2
    <3>2. /\ cs[i].by = j => cs[j] # None /\ cs[j].supersedes = i
          /\ cs[i].supersedes = j => cs[j] # None /\ cs[j].by = i
      BY <3>1 DEF Good, Linked
    <3> QED
      BY <3>1, <3>2
  <2> QED
    BY <2>1, <2>2
<1> QED
  BY <1>2, <1>3 DEF Good, Told, Linked

(* What the transaction makes of good files is good, unless it overlaps.    *)
LEMMA GoodAfterCommit ==
  ASSUME TaskConstants, TasksInv, NEW c \in Agent, step[c] = "replaced", ~T!Overlap
  PROVE  Good(doc, claims)
<1> DEFINE p == plan[c]
           ds == before.doc
           cs == before.claims
<1>1. /\ p \in Plan /\ FoundClaims(p) /\ ReadItsTask(p) /\ AsksForTask(p)
      /\ ds \in [Task -> T!Document \cup {None}] /\ cs \in [T!Id -> T!Claim \cup {None}]
      /\ doc \in [Task -> T!Document \cup {None}] /\ claims \in [T!Id -> T!Claim \cup {None}]
  BY DEF TasksInv, TasksTyped, TaskFiles, Planned, FoundClaims, ReadItsTask
<1>2. /\ ds[p.task] = p.seen /\ doc = [ds EXCEPT ![p.task] = T!TaskAfter(p)]
      /\ p.old # None => cs[p.old] = p.oldSeen
      /\ \A i \in Fresh(p) : cs[i] = None
      /\ claims = Rewritten(cs, p) /\ Good(ds, cs)
  BY DEF TasksInv, HoldsTasks, HalfDone
<1>3. ASSUME NEW t \in Task, NEW f \in T!Claimed PROVE \A i, j \in T!Current(claims, t, f) : i = j
  <2> DEFINE current == T!Current(claims, t, f)
  <2>1. current \subseteq 1..MaxClaims /\ MaxClaims \in Nat
    BY DEF T!Current, T!Id, TaskConstants
  <2>2. ~ (T!Cardinality(current) > 1)
    BY DEF T!Overlap
  <2>3. T!Cardinality(current) = Cardinality(current)
    BY DEF T!Cardinality, Cardinality
  <2> HIDE DEF current
  <2>4. IsFiniteSet(current) /\ Cardinality(current) \in Nat
    <3>1. IsFiniteSet(1..MaxClaims)
      BY <2>1, FS_Interval
    <3>2. IsFiniteSet(current)
      BY <2>1, <3>1, FS_Subset
    <3> QED
      BY <3>2, FS_CardinalityType
  <2>5. Cardinality(current) = 0 \/ Cardinality(current) = 1
    BY <2>2, <2>3, <2>4
  <2>6. current = {} \/ \E x : current = {x}
    BY <2>4, <2>5, FS_EmptySet, FS_Singleton
  <2>7. \A i, j \in current : i = j
    BY <2>6
  <2> QED
    BY <2>7 DEF current
<1>4. doc[p.task] = T!TaskAfter(p) /\ doc[p.task] # None /\ \A t \in Task : t # p.task =>
        doc[t] = ds[t]
  BY <1>1, <1>2, TaskAfterTyped DEF TaskConstants, ReadItsTask, AsksForTask
<1>5. p.old # None => /\ p.old \in T!Id /\ cs[p.old] # None /\ cs[p.old] = p.oldSeen
                      /\ p.oldSeen \in T!Claim /\ p.oldSeen.task = p.task /\
                         p.oldSeen.field = p.field
  BY <1>1, <1>2 DEF FoundClaims, Plan
<1>6. \A i \in T!Id : claims[i] = IF i = p.old THEN [p.oldSeen EXCEPT !.by = p.id]
                                  ELSE IF i \in Fresh(p) THEN T!Added(p)[i - p.id + 1] ELSE cs[i]
  BY <1>2 DEF Rewritten
<1> HIDE DEF p, ds, cs
<1>7. CASE p.field = "next"
  <2>1. Fresh(p) = {} /\ p.old = None /\ p.seen # None /\ None \notin T!Id
    BY <1>1, <1>7, AddedClaims DEF FoundClaims, NoClaimYet, ReadItsTask, TaskConstants
  <2>2. \A i \in T!Id : claims[i] = cs[i]
    BY <1>6, <2>1
  <2>3. claims = cs
    BY <1>1, <2>2
  <2>4. p.seen \in T!Document /\ ds[p.task] # None
    BY <1>1, <1>2, <2>1 DEF Plan
  <2>5. \A f \in T!Claimed : T!TaskAfter(p)[f] = p.seen[f]
    BY <1>7, <2>4 DEF T!TaskAfter, T!Claimed, T!Document, T!Field
  <2>6. \A t \in Task, f \in T!Claimed :
           (doc[t] # None <=> ds[t] # None) /\ (ds[t] # None => doc[t][f] = ds[t][f])
    BY <1>2, <1>4, <2>4, <2>5
  <2> QED
    BY <1>2, <2>3, <2>6 DEF Good, Told
<1>8. CASE p.field \in T!Claimed
  <2>1. Fresh(p) = {p.id} /\ p.id \in T!Id /\
          T!Added(p)[1] = T!NewClaim(p.task, p.field, p.value, p.old)
    BY <1>1, <1>8, AddedClaims
  <2>2. cs[p.id] = None /\ p.id # p.old
    BY <1>2, <1>5, <2>1 DEF TaskConstants
  <2>3. p.id - p.id + 1 = 1
    BY <2>1 DEF T!Id
  <2>4. claims[p.id] = T!NewClaim(p.task, p.field, p.value, p.old)
    BY <1>6, <2>1, <2>2, <2>3
  <2>5. p.seen # None /\ p.seen \in T!Document /\ ds[p.task] # None /\ p.task \in Task /\
          p.field # "new"
    BY <1>1, <1>2, <1>8 DEF Plan, ReadItsTask, AsksForTask, T!Claimed
  <2>6. T!TaskAfter(p) = [p.seen EXCEPT ![p.field] = p.value]
    BY <2>5 DEF T!TaskAfter
  <2>7. T!TaskAfter(p)[p.field] = p.value /\ \A f \in T!Claimed : f # p.field =>
          T!TaskAfter(p)[f] = p.seen[f]
    BY <1>8, <2>5, <2>6 DEF T!Document, T!Field
  <2>8. /\ claims[p.id] # None /\ claims[p.id].task = p.task /\ claims[p.id].field = p.field
        /\ claims[p.id].by = None /\ claims[p.id].supersedes = p.old
        /\ claims[p.id].object = doc[p.task][p.field]
    <3>1. T!NewClaim(p.task, p.field, p.value, p.old) \in T!Claim
      BY <1>1, <1>8, <2>5, NewClaimTyped DEF Plan
    <3>2. claims[p.id] # None
      BY <2>4, <3>1 DEF TaskConstants
    <3> QED
      BY <1>4, <2>4, <2>7, <3>2 DEF T!NewClaim
  <2>9. p.old # None => /\ claims[p.old] # None /\ claims[p.old].task = p.task /\
                           claims[p.old].field = p.field
                        /\ claims[p.old].by = p.id /\
                           claims[p.old].supersedes = cs[p.old].supersedes
    <3> SUFFICES ASSUME p.old # None
                 PROVE  /\ claims[p.old] # None /\ claims[p.old].task = p.task /\
                           claims[p.old].field = p.field
                        /\ claims[p.old].by = p.id /\
                           claims[p.old].supersedes = cs[p.old].supersedes
      OBVIOUS
    <3>1. claims[p.old] = [p.oldSeen EXCEPT !.by = p.id]
      BY <1>5, <1>6
    <3>2. [p.oldSeen EXCEPT !.by = p.id] \in T!Claim
      BY <1>5, <2>1 DEF T!Claim
    <3>3. claims[p.old] # None
      BY <3>1, <3>2 DEF TaskConstants
    <3> QED
      BY <1>5, <3>1, <3>3 DEF T!Claim
  <2>10. \A i \in T!Id : i # p.id /\ i # p.old => claims[i] = cs[i]
    BY <1>6, <2>1
  <2>11. \A t \in Task, f \in T!Claimed : ~ (t = p.task /\ f = p.field) =>
            (doc[t] # None <=> ds[t] # None) /\ (ds[t] # None => doc[t][f] = ds[t][f])
    BY <1>2, <1>4, <2>5, <2>7
  <2>12. p.old \in T!Id \cup {None}
    BY <1>5
  <2>13. p.old # None => /\ cs[p.old] # None /\ cs[p.old].task = p.task /\ cs[p.old].field = p.field
                         /\ claims[p.old] # None /\ claims[p.old].task = p.task /\
                            claims[p.old].field = p.field
                         /\ claims[p.old].by = p.id /\
                            claims[p.old].supersedes = cs[p.old].supersedes
    BY <1>5, <2>9
  <2>14. /\ cs \in [T!Id -> T!Claim \cup {None}] /\ claims \in [T!Id -> T!Claim \cup {None}]
         /\ ds \in [Task -> T!Document \cup {None}] /\ doc \in [Task -> T!Document \cup {None}]
         /\ p.task \in Task /\ doc[p.task] # None /\ Good(ds, cs) /\ p.id \in T!Id
         /\ \A i, j \in T!Current(claims, p.task, p.field) : i = j
    BY <1>1, <1>2, <1>3, <1>4, <1>8, <2>1, <2>5
  <2>15. Changes(ds, cs, doc, claims, p.task, p.field, p.id, p.old)
    BY <1>8, <2>2, <2>8, <2>10, <2>11, <2>12, <2>13, <2>14 DEF Changes
  <2> QED
    BY <1>2, <2>15, GoodAfterChange
<1>9. CASE p.field = "new"
  <2>1. /\ p.id \in T!Id /\ T!Added(p)[1] = T!NewClaim(p.task, "status", First, None)
        /\ IF p.value = None THEN Fresh(p) = {p.id}
           ELSE /\ p.id + 1 \in T!Id /\ Fresh(p) = {p.id, p.id + 1}
                /\ T!Added(p)[2] = T!NewClaim(p.task, "owner", p.value, None)
    BY <1>1, <1>9, AddedClaims
  <2>2. p.old = None /\ p.seen = None /\ ds[p.task] = None /\ p.task \in Task /\
          p.value \in Value \cup {None}
    BY <1>1, <1>2, <1>9 DEF FoundClaims, ReadItsTask, AsksForTask, Plan
  <2>3. doc[p.task]["status"] = First /\ doc[p.task]["owner"] = p.value
    BY <1>4, <1>9 DEF T!TaskAfter, T!Field, T!Claimed
  <2>4. p.id - p.id + 1 = 1 /\ (p.id + 1) - p.id + 1 = 2 /\ p.id # p.id + 1
    BY <2>1 DEF T!Id
  <2>5. None \notin T!Id
    BY DEF TaskConstants
  <2>6. /\ claims[p.id] = T!NewClaim(p.task, "status", First, None)
        /\ p.value # None => claims[p.id + 1] = T!NewClaim(p.task, "owner", p.value, None)
    BY <1>6, <2>1, <2>2, <2>4, <2>5
  <2>7. /\ T!NewClaim(p.task, "status", First, None) # None
        /\ T!NewClaim(p.task, "owner", p.value, None) # None
    <3>1. "status" \in T!Claimed /\ "owner" \in T!Claimed
      BY DEF T!Claimed
    <3>2. /\ T!NewClaim(p.task, "status", First, None) \in T!Claim
          /\ T!NewClaim(p.task, "owner", p.value, None) \in T!Claim
      BY <2>2, <3>1, NewClaimTyped
    <3> QED
      BY <3>2 DEF TaskConstants
  <2>8. /\ claims[p.id] # None /\ claims[p.id].task = p.task /\ claims[p.id].field = "status"
        /\ claims[p.id].by = None /\ claims[p.id].supersedes = None /\ claims[p.id].object = First
    BY <2>6, <2>7 DEF T!NewClaim
  <2>9. p.value # None =>
          /\ claims[p.id + 1] # None /\ claims[p.id + 1].task = p.task /\
             claims[p.id + 1].field = "owner"
          /\ claims[p.id + 1].by = None /\ claims[p.id + 1].supersedes = None
          /\ claims[p.id + 1].object = p.value
    BY <2>6, <2>7 DEF T!NewClaim
  <2>10. \A i \in T!Id : i \notin Fresh(p) => claims[i] = cs[i]
    BY <1>6, <2>2, <2>5
  <2>11. Fresh(p) \in SUBSET T!Id
    BY DEF Fresh
  <2>12. \A i \in Fresh(p) : i = p.id \/ (p.value # None /\ i = p.id + 1)
    BY <2>1
  <2>13. \A i \in Fresh(p) :
           /\ claims[i] # None /\ claims[i].task = p.task /\ claims[i].by = None
           /\ claims[i].supersedes = None /\ claims[i].object = doc[p.task][claims[i].field]
    BY <2>3, <2>8, <2>9, <2>12
  <2>14. \A i, j \in Fresh(p) : claims[i].field = claims[j].field => i = j
    BY <2>8, <2>9, <2>12
  <2>15. \A f \in T!Claimed : doc[p.task][f] # None => \E i \in Fresh(p) : claims[i].field = f
    BY <2>1, <2>3, <2>8, <2>9 DEF T!Claimed
  <2>16. /\ cs \in [T!Id -> T!Claim \cup {None}] /\ claims \in [T!Id -> T!Claim \cup {None}]
         /\ ds \in [Task -> T!Document \cup {None}] /\ doc \in [Task -> T!Document \cup {None}]
         /\ p.task \in Task /\ doc[p.task] # None /\ Good(ds, cs) /\ ds[p.task] = None
         /\ \A t \in Task : t # p.task => doc[t] = ds[t]
         /\ \A i \in Fresh(p) : cs[i] = None
    BY <1>1, <1>2, <1>4, <2>2
  <2>17. Births(ds, cs, doc, claims, p.task, Fresh(p))
    BY <2>10, <2>11, <2>13, <2>14, <2>15, <2>16 DEF Births
  <2> QED
    BY <1>2, <2>17, GoodAfterBirth
<1> QED
  BY <1>1, <1>7, <1>8, <1>9 DEF AsksForTask, T!Field
-----------------------------------------------------------------------------
LEMMA ReplaceKeepsTasks ==
  ASSUME TaskConstants, TasksInv, NEW c \in Agent, T!Replace(c)
  PROVE  TasksInv'
<1> DEFINE p == plan[c]
<1>1. /\ p \in Plan /\ plan \in [Agent -> Plan] /\ step[c] = "apply" /\ FoundClaims(p) /\
         ReadItsTask(p)
      /\ doc \in [Task -> T!Document \cup {None}] /\ claims \in [T!Id -> T!Claim \cup {None}]
      /\ plan' = plan /\ head' = head /\ p.task \in Task
  BY DEF TasksInv, TasksTyped, T!Replace, Planned, FoundClaims, ReadItsTask, AsksForTask
<1>2. CASE step' = [step EXCEPT ![c] = "refused"] /\ UNCHANGED <<doc, claims, index, half, before>>
  <2>1. plan' = [plan EXCEPT ![c] = p]
    BY <1>1
  <2> HIDE DEF p
  <2> QED
    BY <1>1, <1>2, <2>1, TaskCallReads
<1>3. CASE /\ T!Acceptable(p) /\ before' = T!Files /\ index' = T!Files
           /\ doc' = [doc EXCEPT ![p.task] = T!TaskAfter(p)] /\ claims' = T!ClaimsAfter(p)
           /\ half' = c /\ step' = [step EXCEPT ![c] = "replaced"]
  <2>1. \A d \in Agent : step[d] \notin {"replaced", "refresh"}
    BY <1>3 DEF T!Acceptable, TasksInv, HoldsTasks, TaskConstants
  <2>2. Good(doc, claims)
    BY <2>1 DEF TasksInv, T!Settled
  <2>3. claims' = Rewritten(claims, p)
    BY <1>3, ClaimsAfterIs
  <2>4. claims' \in [T!Id -> T!Claim \cup {None}]
    BY <1>1, <2>3, RewrittenTyped
  <2>5. doc' \in [Task -> T!Document \cup {None}]
    BY <1>1, <1>3, TaskAfterTyped
  <2>6. T!Files \in TaskFiles /\ T!Files.doc = doc /\ T!Files.claims = claims
    BY <1>1 DEF T!Files, TaskFiles
  <2>7. TasksTyped'
    BY <1>1, <1>3, <2>4, <2>5, <2>6 DEF TasksInv, TasksTyped
  <2>8. /\ doc[p.task] = p.seen
        /\ p.old # None => claims[p.old] = p.oldSeen
        /\ \A n \in DOMAIN T!Added(p) : claims[p.id + n - 1] = None
    BY <1>3 DEF T!Acceptable
  <2>9. \A i \in Fresh(p) : claims[i] = None
    <3> SUFFICES ASSUME NEW i \in Fresh(p) PROVE claims[i] = None
      OBVIOUS
    <3>1. i \in Nat /\ p.id # None /\ i - p.id + 1 \in DOMAIN T!Added(p)
      BY DEF Fresh, T!Id
    <3>2. p.id \in Nat
      BY <1>1, <3>1 DEF Plan, T!Id
    <3>3. p.id + (i - p.id + 1) - 1 = i
      BY <3>1, <3>2
    <3> QED
      BY <2>8, <3>1, <3>3
  <2>10. Agree(claims, claims) /\ Agree(claims, claims')
    <3>1. Agree(claims, claims)
      BY DEF Agree
    <3> HIDE DEF p
    <3>2. Agree(claims, Rewritten(claims, p))
      BY <1>1, <2>8, <2>9, RewrittenAgrees
    <3> QED
      BY <2>3, <3>1, <3>2
  <2>11. step'[c] = "replaced" /\ half' = c /\ \A d \in Agent : d # c => step'[d] = step[d]
    BY <1>3 DEF TasksInv, TasksTyped
  <2>12. \A d \in Agent : Planned(d)'
    BY <1>1, <2>11 DEF TasksInv, Planned
  <2>13. HalfDone(c)'
    <3>1. plan'[c] = p /\ before'.doc = doc /\ before'.claims = claims /\ index'.claims = claims
      BY <1>1, <1>3, <2>6
    <3>2. doc' = [before'.doc EXCEPT ![p.task] = T!TaskAfter(p)]
      BY <1>3, <3>1
    <3>3. claims' = Rewritten(before'.claims, p)
      BY <2>3, <3>1
    <3> HIDE DEF p
    <3>4. /\ before'.doc[plan'[c].task] = plan'[c].seen
          /\ doc' = [before'.doc EXCEPT ![plan'[c].task] = T!TaskAfter(plan'[c])]
          /\ plan'[c].old # None => before'.claims[plan'[c].old] = plan'[c].oldSeen
          /\ \A i \in Fresh(plan'[c]) : before'.claims[i] = None
          /\ claims' = Rewritten(before'.claims, plan'[c])
          /\ Good(before'.doc, before'.claims) /\ Agree(index'.claims, before'.claims)
      <4>1. plan'[c] = p
        BY <3>1
      <4> QED
        BY <2>2, <2>8, <2>9, <2>10, <3>1, <3>2, <3>3, <4>1
    <3> QED
      BY <3>4 DEF HalfDone
  <2>14. \A d \in Agent : HoldsTasks(d)'
    BY <2>1, <2>11, <2>13 DEF HoldsTasks
  <2>15. ~ T!Settled'
    BY <2>11 DEF T!Settled
  <2>16. Agree(index.claims, claims)'
    BY <1>3, <2>6, <2>10
  <2> QED
    BY <2>7, <2>12, <2>14, <2>15, <2>16 DEF TasksInv
<1> QED
  BY <1>2, <1>3 DEF T!Replace, T!Goto

LEMMA EndKeepsTasks ==
  ASSUME TaskConstants, TasksInv, NEW c \in Agent, T!Commit(c) \/ T!RollBack(c) \/ T!Refresh(c)
  PROVE  TasksInv'
<1>1. half = c /\ step[c] \in {"replaced", "refresh"} /\ UNCHANGED <<before, plan>>
  BY DEF T!Commit, T!RollBack, T!Refresh, TasksInv, HoldsTasks
<1>2. \A d \in Agent : d # c => step[d] \notin {"replaced", "refresh"}
  BY <1>1 DEF TasksInv, HoldsTasks
<1>3. ASSUME NEW l \in {"refresh", "done", "refused"}, step' = [step EXCEPT ![c] = l],
             half' = c \/ (half' = None /\ l # "refresh")
      PROVE  /\ step' \in [Agent -> {"idle", "read", "claims", "head", "apply", "replaced",
                                     "refresh", "done", "refused"}]
             /\ half' \in Agent \cup {None} /\ T!Settled'
             /\ \A d \in Agent : Planned(d)' /\ HoldsTasks(d)'
  <2>1. step'[c] = l /\ \A d \in Agent : d # c => step'[d] = step[d]
    BY <1>3 DEF TasksInv, TasksTyped
  <2> QED
    BY <1>1, <1>2, <1>3, <2>1 DEF TasksInv, TasksTyped, Planned, HoldsTasks, T!Settled
<1>4. CASE T!Commit(c)
  <2>1. Good(doc, claims)
    BY <1>4, GoodAfterCommit DEF T!Commit
  <2>2. /\ step' = [step EXCEPT ![c] = "refresh"] /\ half' = c /\ head' = head + 1
        /\ UNCHANGED <<doc, claims, index, before, plan>>
    BY <1>1, <1>4 DEF T!Commit, T!Goto
  <2>3. TasksTyped'
    BY <1>3, <2>2 DEF TasksInv, TasksTyped
  <2> QED
    BY <1>3, <2>1, <2>2, <2>3 DEF TasksInv
<1>5. CASE T!RollBack(c)
  <2>1. /\ step' = [step EXCEPT ![c] = "refused"] /\ half' = None /\ head' = head + 1
        /\ doc' = before.doc /\ claims' = before.claims /\ UNCHANGED <<index, before, plan>>
        /\ step[c] = "replaced"
    BY <1>5 DEF T!RollBack, T!Goto
  <2>2. Good(doc', claims') /\ Agree(index'.claims, claims')
    BY <2>1 DEF TasksInv, HoldsTasks, HalfDone
  <2>3. TasksTyped'
    BY <1>3, <2>1 DEF TasksInv, TasksTyped, TaskFiles
  <2> QED
    BY <1>3, <2>1, <2>2, <2>3 DEF TasksInv
<1>6. CASE T!Refresh(c)
  <2>1. /\ step' = [step EXCEPT ![c] = "done"] /\ half' = None /\ head' = head
        /\ index' \in {index, T!Files} /\ UNCHANGED <<doc, claims, before, plan>>
        /\ step[c] = "refresh"
    BY <1>6 DEF T!Refresh, T!Goto
  <2>2. Good(doc', claims')
    BY <1>2, <2>1 DEF TasksInv, T!Settled
  <2>3. TasksTyped' /\ Agree(index'.claims, claims')
    BY <1>3, <2>1 DEF TasksInv, TasksTyped, TaskFiles, T!Files, Agree
  <2> QED
    BY <1>3, <2>1, <2>2, <2>3 DEF TasksInv
<1> QED
  BY <1>4, <1>5, <1>6

LEMMA TasksStep ==
  ASSUME TaskConstants, TasksInv, [T!TasksNext]_(T!tasksVars)
  PROVE  TasksInv'
<1>1. CASE UNCHANGED tasksVars
  BY <1>1 DEF tasksVars, TasksInv, TasksTyped, Planned, HoldsTasks, HalfDone, Good, T!Settled
<1> QED
  BY <1>1, AskKeepsTasks, ReadKeepsTasks, FindKeepsTasks, ReplaceKeepsTasks, EndKeepsTasks
     DEF T!TasksNext, T!tasksVars, tasksVars

(* The field that a call changes.                                           *)
OneField ==
  \A c \in Agent : step[c] = "replaced" /\ step'[c] = "refresh" =>
     \A t \in Task, f \in T!Field :
        before.doc[t] # None /\ doc[t][f] # before.doc[t][f] =>
          t = plan[c].task /\ f = plan[c].field

LEMMA OneFieldChanges ==
  ASSUME TaskConstants, TasksInv
  PROVE  OneField
<1> SUFFICES ASSUME NEW c \in Agent, step[c] = "replaced", NEW t \in Task, NEW f \in T!Field,
                    before.doc[t] # None, doc[t][f] # before.doc[t][f]
             PROVE  t = plan[c].task /\ f = plan[c].field
  BY DEF OneField
<1> DEFINE p == plan[c]
<1>1. p \in Plan /\ ReadItsTask(p) /\ before.doc \in [Task -> T!Document \cup {None}]
  BY DEF TasksInv, TasksTyped, TaskFiles, Planned, FoundClaims
<1>2. before.doc[p.task] = p.seen /\ doc = [before.doc EXCEPT ![p.task] = T!TaskAfter(p)]
  BY DEF TasksInv, HoldsTasks, HalfDone
<1> HIDE DEF p
<1>3. t = p.task
  BY <1>1, <1>2
<1>4. p.seen # None /\ p.seen \in T!Document /\ p.field # "new" /\ doc[t] = T!TaskAfter(p)
  BY <1>1, <1>2, <1>3 DEF ReadItsTask, Plan
<1>5. f # p.field => T!TaskAfter(p)[f] = p.seen[f]
  BY <1>4 DEF T!TaskAfter, T!Document
<1> QED
  BY <1>2, <1>3, <1>4, <1>5 DEF p

LEMMA GoodTells ==
  ASSUME TaskConstants, TasksInv
  PROVE  T!ClaimsTellTask
<1> SUFFICES ASSUME T!Settled
             PROVE  /\ \A t \in Task, f \in T!Claimed :
                         /\ T!Cardinality(T!Current(claims, t, f)) <= 1
                         /\ \A i \in T!Current(claims, t, f) : doc[t] # None /\
                            claims[i].object = doc[t][f]
                         /\ doc[t] # None /\ doc[t][f] # None => T!Current(claims, t, f) # {}
                    /\ \A i, j \in T!Id : claims[i] # None =>
                         /\ claims[i].by = j => claims[j] # None /\ claims[j].supersedes = i
                         /\ claims[i].supersedes = j => claims[j].by = i
  BY DEF T!ClaimsTellTask
<1>1. Good(doc, claims)
  BY DEF TasksInv
<1>2. ASSUME NEW t \in Task, NEW f \in T!Claimed PROVE T!Cardinality(T!Current(claims, t, f)) <= 1
  <2> DEFINE current == T!Current(claims, t, f)
  <2>1. \A i, j \in current : i = j
    BY <1>1 DEF Good, Told
  <2>2. T!Cardinality(current) = Cardinality(current)
    BY DEF T!Cardinality, Cardinality
  <2> HIDE DEF current
  <2>3. CASE current = {}
    <3>1. Cardinality(current) = 0
      BY <2>3, FS_EmptySet
    <3> QED
      BY <2>2, <3>1 DEF current
  <2>4. CASE current # {}
    <3>1. PICK x : current = {x}
      BY <2>1, <2>4
    <3>2. Cardinality(current) = 1
      BY <3>1, FS_Singleton
    <3> QED
      BY <2>2, <3>2 DEF current
  <2> QED
    BY <2>3, <2>4
<1> QED
  BY <1>1, <1>2 DEF Good, Told, Linked

LEMMA TasksHold ==
  ASSUME TaskConstants
  PROVE  T!TasksSpec => []T!ClaimsTellTask /\ T!EditsOneField
<1>1. T!TasksInit => TasksInv
  BY TasksBegin
<1>2. TasksInv /\ [T!TasksNext]_(T!tasksVars) => TasksInv'
  BY TasksStep
<1>3. TasksInv => T!ClaimsTellTask
  BY GoodTells
<1>4. TasksInv => OneField
  BY OneFieldChanges
<1> QED
  BY <1>1, <1>2, <1>3, <1>4, PTL DEF T!TasksSpec, T!EditsOneField, OneField

-----------------------------------------------------------------------------
(* Evidence.                                                               *)

(* Of the constants: what there is in the beginning, and what agents may    *)
(* author, are documents; what a payload refers to comes in some order.     *)
Mention == UNION {{p.sources[i] : i \in DOMAIN p.sources} : p \in UNION {Payload[c] : c \in Agent}}

EvidenceConstants ==
  /\ Existing \subseteq Uri /\ None \notin E!Document
  /\ \A c \in Agent : \A p \in Payload[c] :
        {p.note} \cup p.new \cup p.tasks \cup p.claims \subseteq Uri /\ p.sources \in Seq(Mention)

Write == [for : Uri, new : E!Document, seen : E!Document \cup {None}, hash : E!Document \cup {None}]

PlanOf(c) ==
  [pay : Payload[c], todo : Seq(Mention), for : Uri \cup {None}, at : E!Place \cup {None},
   seen : E!Document \cup {None}, writes : [E!Place -> Write \cup {None}], base : Nat]

(* A write replaces what the agent authors itself, or adds to what it read. *)
SoundWrite(w, p) ==
  /\ w \in Write
  /\ w.seen = None => w.hash = None \/ w.new.uri \in p.tasks
  /\ w.seen # None => E!Adds(w.seen, w.new)

SoundPlan(a, c) ==
  a \in PlanOf(c) /\ \A q \in E!Place : a.writes[q] # None => SoundWrite(a.writes[q], a.pay)

EvidenceTyped ==
  /\ tree \in [E!Place -> E!Document \cup {None}]
  /\ located \in [Uri -> E!Place \cup {None}]
  /\ agent \in [Agent -> {"idle", "declare", "observe", "restore", "relate", "hash", "apply",
                          "committed", "done", "refused"}]
  /\ events \in Nat /\ authored = [c \in Agent |-> authored[c]]

Reading(a) == a.for \in Uri /\ a.at \in E!Place /\ a.seen \in E!Document /\ a.todo # <<>>

Staged(c) ==
  /\ agent[c] # "idle" => SoundPlan(authored[c], c)
  /\ agent[c] = "hash" => Reading(authored[c])

EvidenceInv == EvidenceTyped /\ E!OneOfEach /\ \A c \in Agent : Staged(c)

(* What a commit may do to a document that is there.                        *)
OnlyAdds ==
  \A c \in Agent, q \in E!Place :
     agent[c] = "apply" /\ agent'[c] = "committed" /\ tree[q] # None /\ tree'[q] # tree[q]
       => E!Torn(c, q) \/ E!Authored(c, q) \/ E!Adds(tree[q], tree'[q])
-----------------------------------------------------------------------------
LEMMA LocatedTyped ==
  ASSUME NEW t
  PROVE  E!Located(t) \in [Uri -> E!Place \cup {None}]
BY DEF E!Located

LEMMA EvidenceBegins ==
  ASSUME EvidenceConstants, E!EvidenceInit
  PROVE  EvidenceInv
<1>1. \A p \in Existing : [uri |-> p, text |-> "first", refs |-> {}] \in E!Document
  BY DEF EvidenceConstants, E!Document
<1>2. tree \in [E!Place -> E!Document \cup {None}]
  BY <1>1 DEF E!EvidenceInit
<1>3. EvidenceTyped
  BY <1>2, LocatedTyped DEF E!EvidenceInit, EvidenceTyped
<1>4. \A p \in E!Place : tree[p] # None => tree[p].uri = p
  BY DEF E!EvidenceInit
<1>5. E!OneOfEach
  BY <1>4 DEF E!OneOfEach
<1> QED
  BY <1>3, <1>5 DEF EvidenceInv, Staged, E!EvidenceInit

(* An agent that stages: the tree and the projection stay.                  *)
LEMMA AgentStages ==
  ASSUME EvidenceInv, NEW c \in Agent, NEW a, SoundPlan(a, c),
         authored' = [authored EXCEPT ![c] = a],
         NEW l \in {"declare", "observe", "restore", "relate", "hash", "apply", "refused"},
         agent' = [agent EXCEPT ![c] = l], UNCHANGED <<tree, located, events>>,
         l = "hash" => Reading(a)
  PROVE  EvidenceInv' /\ OnlyAdds
<1>1. EvidenceTyped'
  BY DEF EvidenceInv, EvidenceTyped
<1>2. authored'[c] = a /\ agent'[c] = l
  BY DEF EvidenceInv, EvidenceTyped
<1>3. \A d \in Agent : d # c => authored'[d] = authored[d] /\ agent'[d] = agent[d]
  BY DEF EvidenceInv, EvidenceTyped
<1>4. \A d \in Agent : Staged(d)'
  BY <1>2, <1>3 DEF EvidenceInv, Staged
<1>5. E!OneOfEach'
  BY DEF EvidenceInv, E!OneOfEach
<1>6. OnlyAdds
  BY DEF OnlyAdds
<1> QED
  BY <1>1, <1>4, <1>5, <1>6 DEF EvidenceInv

(* A plan whose writes change, and stay sound, is sound.                    *)
LEMMA RewritesPlan ==
  ASSUME NEW c \in Agent, NEW a, SoundPlan(a, c), NEW ws \in [E!Place -> Write \cup {None}],
         \A q \in E!Place : ws[q] # None => SoundWrite(ws[q], a.pay)
  PROVE  SoundPlan([a EXCEPT !.writes = ws], c)
BY DEF SoundPlan, PlanOf

LEMMA AskStages ==
  ASSUME EvidenceConstants, EvidenceInv, NEW c \in Agent, E!Ask(c)
  PROVE  EvidenceInv' /\ OnlyAdds
<1>1. PICK p \in Payload[c] : authored' = [authored EXCEPT ![c] = E!Blank(p)]
  BY DEF E!Ask, E!Plan
<1>2. E!Blank(p) \in PlanOf(c)
  BY DEF PlanOf, E!Blank, EvidenceConstants
<1>4. SoundPlan(E!Blank(p), c)
  BY <1>2 DEF SoundPlan, E!Blank
<1>3. agent' = [agent EXCEPT ![c] = "declare"] /\ UNCHANGED <<tree, located, events>>
  BY DEF E!Ask, E!Goto
<1> QED
  BY <1>1, <1>3, <1>4, AgentStages

LEMMA DeclareStages ==
  ASSUME EvidenceConstants, EvidenceInv, NEW c \in Agent, E!Declare(c)
  PROVE  EvidenceInv' /\ OnlyAdds
<1> DEFINE a == authored[c]
           p == a.pay
           Shell(u) == [E!Create(u, c) EXCEPT !.hash = IF u \in E!Known THEN tree[located[u]]
             ELSE None]
           ws == [q \in E!Place |-> IF \E u \in E!Shells(p) : E!Destination(u) = q
                                    THEN Shell(CHOOSE u \in E!Shells(p) : E!Destination(u) = q)
                                      ELSE None]
           b == [a EXCEPT !.writes = ws]
<1>1. SoundPlan(a, c) /\ p \in Payload[c]
  BY DEF E!Declare, EvidenceInv, Staged, SoundPlan, PlanOf
<1>2. agent' = [agent EXCEPT ![c] = IF E!Free(p) THEN "observe" ELSE "refused"] /\
        UNCHANGED <<tree, located, events>>
  BY DEF E!Declare, E!Goto
<1>3. CASE ~ E!Free(p)
  <2>1. authored' = authored
    BY <1>3 DEF E!Declare
  <2>2. authored' = [authored EXCEPT ![c] = a]
    BY <2>1 DEF EvidenceInv, EvidenceTyped
  <2> HIDE DEF a
  <2> QED
    BY <1>1, <1>2, <1>3, <2>2, AgentStages
<1>4. CASE E!Free(p)
  <2>1. authored' = [authored EXCEPT ![c] = b]
    BY <1>4 DEF E!Declare, E!Plan
  <2>2. ASSUME NEW u \in E!Shells(p) PROVE SoundWrite(Shell(u), p)
    <3>1. u \in Uri
      BY <1>1 DEF E!Shells, EvidenceConstants
    <3>2. u \in E!Known => u \in p.tasks
      BY <1>4 DEF E!Free, E!Shells
    <3>3. Shell(u) = [for |-> u, new |-> [uri |-> u, text |-> c, refs |-> {}], seen |-> None,
                      hash |-> IF u \in E!Known THEN tree[located[u]] ELSE None]
      BY DEF E!Create
    <3>4. [uri |-> u, text |-> c, refs |-> {}] \in E!Document
      BY <3>1 DEF E!Document
    <3>5. u \in E!Known => tree[located[u]] \in E!Document \cup {None}
      BY <3>1 DEF E!Known, EvidenceInv, EvidenceTyped
    <3> HIDE DEF Shell
    <3> QED
      BY <3>1, <3>2, <3>3, <3>4, <3>5 DEF SoundWrite, Write
  <2> HIDE DEF Shell
  <2>3. ASSUME NEW q \in E!Place, ws[q] # None PROVE SoundWrite(ws[q], p)
    <3>1. \E u \in E!Shells(p) : E!Destination(u) = q
      BY <2>3
    <3>2. ws[q] = Shell(CHOOSE u \in E!Shells(p) : E!Destination(u) = q)
      BY <3>1
    <3>3. (CHOOSE u \in E!Shells(p) : E!Destination(u) = q) \in E!Shells(p)
      BY <3>1
    <3> HIDE DEF p, ws
    <3> QED
      BY <2>2, <3>2, <3>3
  <2>4. ws \in [E!Place -> Write \cup {None}]
    BY <2>3 DEF SoundWrite
  <2> HIDE DEF ws, a
  <2>5. SoundPlan(b, c)
    BY <1>1, <2>3, <2>4, RewritesPlan
  <2> HIDE DEF b
  <2> QED
    BY <1>2, <1>4, <2>1, <2>5, AgentStages
<1> QED
  BY <1>3, <1>4

LEMMA ObserveStages ==
  ASSUME EvidenceConstants, EvidenceInv, NEW c \in Agent, E!Observe(c)
  PROVE  EvidenceInv' /\ OnlyAdds
<1> DEFINE a == authored[c]
           ws == [q \in E!Place |-> IF q \in a.pay.claims THEN E!Create(q, c) ELSE a.writes[q]]
           b == [a EXCEPT !.writes = ws]
<1>1. SoundPlan(a, c)
  BY DEF E!Observe, EvidenceInv, Staged
<1>2. /\ agent' = [agent EXCEPT ![c] = IF E!Observed(a) THEN "restore" ELSE "refused"]
      /\ authored' = [authored EXCEPT ![c] = b] /\ UNCHANGED <<tree, located, events>>
  BY DEF E!Observe, E!Goto, E!Plan
<1>3. ASSUME NEW q \in a.pay.claims PROVE SoundWrite(E!Create(q, c), a.pay)
  <2>1. q \in Uri
    BY <1>1 DEF SoundPlan, PlanOf, EvidenceConstants
  <2>2. [uri |-> q, text |-> c, refs |-> {}] \in E!Document
    BY <2>1 DEF E!Document
  <2> QED
    BY <2>1, <2>2 DEF SoundWrite, E!Create, Write
<1> HIDE DEF a
<1>4. \A q \in E!Place : ws[q] # None => SoundWrite(ws[q], a.pay)
  BY <1>1, <1>3 DEF SoundPlan
<1>5. ws \in [E!Place -> Write \cup {None}]
  BY <1>4 DEF SoundWrite
<1> HIDE DEF ws
<1>6. SoundPlan(b, c)
  BY <1>1, <1>4, <1>5, RewritesPlan
<1> HIDE DEF b
<1> QED
  BY <1>2, <1>6, AgentStages

(* A call whose plan stays as it was.                                       *)
LEMMA AgentGoes ==
  ASSUME EvidenceInv, NEW c \in Agent, agent[c] # "idle",
         UNCHANGED <<tree, located, events, authored>>,
         NEW l \in {"declare", "observe", "restore", "relate", "apply", "refused"},
         agent' = [agent EXCEPT ![c] = l]
  PROVE  EvidenceInv' /\ OnlyAdds
<1>1. authored' = [authored EXCEPT ![c] = authored[c]]
  BY DEF EvidenceInv, EvidenceTyped
<1>2. SoundPlan(authored[c], c)
  BY DEF EvidenceInv, Staged
<1> QED
  BY <1>1, <1>2, AgentStages

LEMMA RestoreStages ==
  ASSUME EvidenceInv, NEW c \in Agent, E!Restore(c)
  PROVE  EvidenceInv' /\ OnlyAdds
<1>1. /\ agent' = [agent EXCEPT ![c] = IF E!Restored(authored[c].pay) THEN "relate" ELSE "refused"]
      /\ agent[c] # "idle" /\ UNCHANGED <<tree, located, events, authored>>
  BY DEF E!Restore, E!Goto
<1> QED
  BY <1>1, AgentGoes

LEMMA ProposeStages ==
  ASSUME EvidenceInv, NEW c \in Agent, E!Propose(c)
  PROVE  EvidenceInv' /\ OnlyAdds
<1> DEFINE a == authored[c]
           b == [a EXCEPT !.base = events]
<1>1. /\ agent' = [agent EXCEPT ![c] = "apply"] /\ authored' = [authored EXCEPT ![c] = b]
      /\ UNCHANGED <<tree, located, events>> /\ SoundPlan(a, c)
  BY DEF E!Propose, E!Goto, E!Plan, EvidenceInv, Staged
<1>2. events \in Nat
  BY DEF EvidenceInv, EvidenceTyped
<1> HIDE DEF a
<1>3. SoundPlan(b, c)
  BY <1>1, <1>2 DEF SoundPlan, PlanOf
<1> HIDE DEF b
<1> QED
  BY <1>1, <1>3, AgentStages

(* A reference that is added to a sound write leaves it sound.              *)
LEMMA ReferringIsSound ==
  ASSUME NEW c \in Agent, NEW w, NEW p, SoundWrite(w, p)
  PROVE  SoundWrite(E!Referring(w, c), p)
<1> DEFINE n == [uri |-> w.new.uri, text |-> w.new.text, refs |-> w.new.refs \cup {c}]
<1>1. w = [for |-> w.for, new |-> w.new, seen |-> w.seen, hash |-> w.hash] /\ w.new \in E!Document
  BY DEF SoundWrite, Write
<1>2. w.new = [uri |-> w.new.uri, text |-> w.new.text, refs |-> w.new.refs]
  BY <1>1 DEF E!Document
<1>3. E!Referring(w, c) = [for |-> w.for, new |-> n, seen |-> w.seen, hash |-> w.hash]
  BY <1>1, <1>2 DEF E!Referring
<1>4. n \in E!Document
  BY <1>1 DEF E!Document
<1>5. w.seen # None => E!Adds(w.seen, n)
  <2> SUFFICES ASSUME w.seen # None PROVE E!Adds(w.seen, n)
    OBVIOUS
  <2>1. [w.new EXCEPT !.refs = w.seen.refs] = w.seen /\ w.seen.refs \subseteq w.new.refs
    BY DEF SoundWrite, E!Adds
  <2>2. [n EXCEPT !.refs = w.seen.refs] = [w.new EXCEPT !.refs = w.seen.refs]
    BY <1>2
  <2>3. w.seen.refs \subseteq n.refs
    BY <2>1
  <2> HIDE DEF n
  <2> QED
    BY <2>1, <2>2, <2>3 DEF E!Adds
<1>6. n.uri = w.new.uri
  OBVIOUS
<1> HIDE DEF n
<1> QED
  BY <1>3, <1>4, <1>5, <1>6 DEF SoundWrite, Write

LEMMA RelateStages ==
  ASSUME EvidenceInv, NEW c \in Agent, E!Relate(c)
  PROVE  EvidenceInv' /\ OnlyAdds
<1> DEFINE a == authored[c]
           v == Head(a.todo)
           ok == E!Resolves(v, E!Declared(a.pay)) /\ E!Citable(a.pay) /\ E!Grounded(a.pay)
           u == IF ok THEN E!Resolved(v, E!Declared(a.pay)) ELSE None
<1>1. SoundPlan(a, c) /\ UNCHANGED <<tree, located, events>> /\ agent[c] = "relate"
  BY DEF E!Relate, EvidenceInv, Staged
<1>2. CASE \E q \in E!Written(a, u) : /\ UNCHANGED agent
             /\ authored' = [authored EXCEPT ![c] =
                               [a EXCEPT !.writes[q] = E!Referring(@, c), !.todo = Tail(@)]]
  <2>1. PICK q \in E!Written(a, u) : /\ UNCHANGED agent
             /\ authored' = [authored EXCEPT ![c] =
                               [a EXCEPT !.writes[q] = E!Referring(@, c), !.todo = Tail(@)]]
    BY <1>2
  <2> DEFINE ws == [a.writes EXCEPT ![q] = E!Referring(a.writes[q], c)]
             b == [a EXCEPT !.writes = ws, !.todo = Tail(a.todo)]
  <2>2. authored' = [authored EXCEPT ![c] = b]
    BY <2>1
  <2>3. a.todo # <<>>
    BY DEF E!Relate
  <2> HIDE DEF a
  <2>4. q \in E!Place /\ a.writes[q] # None /\ a.writes \in [E!Place -> Write \cup {None}] /\
          a.todo \in Seq(Mention)
    BY <1>1, <2>1 DEF E!Written, SoundPlan, PlanOf
  <2>5. SoundWrite(E!Referring(a.writes[q], c), a.pay)
    BY <1>1, <2>4, ReferringIsSound DEF SoundPlan
  <2>6. ws \in [E!Place -> Write \cup {None}] /\ \A r \in E!Place : ws[r] # None =>
          SoundWrite(ws[r], a.pay)
    BY <1>1, <2>4, <2>5 DEF SoundPlan, SoundWrite
  <2> HIDE DEF ws
  <2>7. Tail(a.todo) \in Seq(Mention)
    BY <2>3, <2>4
  <2>8. SoundPlan(b, c)
    BY <1>1, <2>6, <2>7 DEF SoundPlan, PlanOf
  <2>9. agent' = [agent EXCEPT ![c] = "relate"]
    BY <1>1, <2>1 DEF EvidenceInv, EvidenceTyped
  <2> HIDE DEF b
  <2> QED
    BY <1>1, <2>2, <2>8, <2>9, AgentStages
<1>3. CASE /\ u \in E!Known \ Claims /\ tree[located[u]] # None
           /\ authored' = [authored EXCEPT ![c] =
                             [a EXCEPT !.for = u, !.at = located[u], !.seen = tree[located[u]]]]
           /\ agent' = [agent EXCEPT ![c] = "hash"]
  <2> DEFINE b == [a EXCEPT !.for = u, !.at = located[u], !.seen = tree[located[u]]]
  <2>1. a.todo # <<>>
    BY DEF E!Relate
  <2> HIDE DEF u, a
  <2>2. u \in Uri /\ located[u] \in E!Place /\ tree[located[u]] \in E!Document
    BY <1>3 DEF E!Known, EvidenceInv, EvidenceTyped
  <2>3. SoundPlan(b, c) /\ Reading(b)
    BY <1>1, <2>1, <2>2 DEF SoundPlan, PlanOf, Reading
  <2>4. authored' = [authored EXCEPT ![c] = b]
    BY <1>3
  <2> HIDE DEF b
  <2> QED
    BY <1>1, <1>3, <2>3, <2>4, AgentStages
<1>4. CASE agent' = [agent EXCEPT ![c] = "refused"] /\ UNCHANGED authored
  BY <1>1, <1>4, AgentGoes
<1> QED
  BY <1>2, <1>3, <1>4 DEF E!Relate, E!Plan, E!Goto

LEMMA HashStages ==
  ASSUME EvidenceConstants, EvidenceInv, NEW c \in Agent, E!Hash(c)
  PROVE  EvidenceInv' /\ OnlyAdds
<1> DEFINE a == authored[c]
           ok == tree[a.at] # None /\ a.writes[a.at] = None
           w == IF ok THEN E!Referring(E!Update(a.for, a.seen, tree[a.at]), c) ELSE a.writes[a.at]
           ws == [a.writes EXCEPT ![a.at] = w]
           b == [a EXCEPT !.writes = ws, !.todo = Tail(a.todo), !.for = None, !.at = None,
             !.seen = None]
<1>1. SoundPlan(a, c) /\ UNCHANGED <<tree, located, events>> /\ agent[c] = "hash" /\ Reading(a)
  BY DEF E!Hash, EvidenceInv, Staged
<1>2. /\ agent' = [agent EXCEPT ![c] = IF ok THEN "relate" ELSE "refused"]
      /\ authored' = [authored EXCEPT ![c] = b]
  BY DEF E!Hash, E!Plan, E!Goto
<1>3. tree[a.at] \in E!Document \cup {None}
  BY <1>1 DEF Reading, EvidenceInv, EvidenceTyped
<1> HIDE DEF a
<1>4. SoundWrite(E!Update(a.for, a.seen, tree[a.at]), a.pay)
  <2>1. E!Adds(a.seen, a.seen)
    BY <1>1 DEF E!Adds, E!Document, Reading
  <2>2. E!Update(a.for, a.seen, tree[a.at]) =
          [for |-> a.for, new |-> a.seen, seen |-> a.seen, hash |-> tree[a.at]]
    BY DEF E!Update
  <2> QED
    BY <1>1, <1>3, <2>1, <2>2 DEF SoundWrite, Reading, Write, EvidenceConstants
<1>5. ok => SoundWrite(w, a.pay)
  BY <1>4, ReferringIsSound
<1>6. w # None => SoundWrite(w, a.pay)
  BY <1>1, <1>5 DEF SoundPlan, Reading
<1> HIDE DEF w
<1>7. ws \in [E!Place -> Write \cup {None}] /\ \A r \in E!Place : ws[r] # None =>
        SoundWrite(ws[r], a.pay)
  BY <1>1, <1>6 DEF SoundPlan, PlanOf, SoundWrite
<1> HIDE DEF ws
<1>8. Tail(a.todo) \in Seq(Mention)
  BY <1>1 DEF SoundPlan, PlanOf, Reading
<1>9. SoundPlan(b, c)
  BY <1>1, <1>7, <1>8 DEF SoundPlan, PlanOf
<1> HIDE DEF b, ok
<1> QED
  BY <1>1, <1>2, <1>9, AgentStages

(* A commit leaves one document of each, and adds to those it found.        *)
LEMMA ApplyStages ==
  ASSUME EvidenceInv, NEW c \in Agent, E!Apply(c)
  PROVE  EvidenceInv' /\ OnlyAdds
<1> DEFINE a == authored[c]
<1>1. /\ agent[c] = "apply" /\ authored' = authored /\ SoundPlan(a, c)
      /\ tree \in [E!Place -> E!Document \cup {None}] /\ events \in Nat
  BY DEF E!Apply, EvidenceInv, EvidenceTyped, Staged
<1>2. CASE /\ E!Acceptable(a) /\ tree' = E!After(a) /\ located' \in {located, E!Located(tree')}
           /\ events' = events + 1 /\ agent' = [agent EXCEPT ![c] = "committed"]
  <2>1. agent'[c] = "committed" /\ \A d \in Agent : d # c => agent'[d] = agent[d]
    BY <1>2 DEF EvidenceInv, EvidenceTyped
  <2>2. tree' = [q \in E!Place |-> IF a.writes[q] = None THEN tree[q] ELSE a.writes[q].new]
    BY <1>2 DEF E!After
  <2>3. \A q \in E!Place : a.writes[q] # None => a.writes[q].new \in E!Document
    BY <1>1 DEF SoundPlan, SoundWrite, Write
  <2>4. tree' \in [E!Place -> E!Document \cup {None}]
    BY <1>1, <2>2, <2>3
  <2>5. EvidenceTyped'
    BY <1>1, <1>2, <2>4, LocatedTyped DEF EvidenceInv, EvidenceTyped
  <2>6. E!OneOfEach'
    BY <1>2 DEF E!OneOfEach, E!Acceptable
  <2>7. \A d \in Agent : Staged(d)'
    BY <1>1, <2>1 DEF EvidenceInv, Staged
  <2>8. ASSUME NEW d \in Agent, NEW q \in E!Place, agent[d] = "apply", agent'[d] = "committed",
               tree[q] # None, tree'[q] # tree[q]
        PROVE  E!Torn(d, q) \/ E!Authored(d, q) \/ E!Adds(tree[q], tree'[q])
    <3>1. d = c
      BY <2>1, <2>8
    <3> DEFINE w == a.writes[q]
    <3>2. w # None /\ tree'[q] = w.new
      BY <2>2, <2>8
    <3>3. SoundWrite(w, a.pay)
      BY <1>1, <3>2 DEF SoundPlan
    <3>4. tree[q] = w.hash /\ tree[q].uri = w.new.uri
      BY <1>2, <2>8, <3>2 DEF E!Acceptable, E!Expected
    <3>5. CASE w.seen = None
      <4>1. tree[q].uri \in a.pay.tasks
        BY <2>8, <3>3, <3>4, <3>5 DEF SoundWrite
      <4> QED
        BY <3>1, <3>5, <4>1 DEF E!Authored
    <3>6. CASE w.seen # None /\ w.seen # w.hash
      BY <3>1, <3>6 DEF E!Torn
    <3>7. CASE w.seen # None /\ w.seen = w.hash
      BY <3>2, <3>3, <3>4, <3>7 DEF SoundWrite
    <3> QED
      BY <3>5, <3>6, <3>7
  <2> QED
    BY <2>5, <2>6, <2>7, <2>8 DEF EvidenceInv, OnlyAdds
<1>3. CASE /\ agent' = [agent EXCEPT ![c] = "refused"] /\ events' \in {events, events + 1}
           /\ UNCHANGED <<tree, located>>
  <2>1. agent'[c] = "refused" /\ \A d \in Agent : d # c => agent'[d] = agent[d]
    BY <1>3 DEF EvidenceInv, EvidenceTyped
  <2>2. EvidenceTyped'
    BY <1>1, <1>3 DEF EvidenceInv, EvidenceTyped
  <2>3. E!OneOfEach' /\ OnlyAdds
    BY <1>3 DEF EvidenceInv, E!OneOfEach, OnlyAdds
  <2>4. \A d \in Agent : Staged(d)'
    BY <1>1, <2>1 DEF EvidenceInv, Staged
  <2> QED
    BY <2>2, <2>3, <2>4 DEF EvidenceInv
<1> QED
  BY <1>2, <1>3 DEF E!Apply, E!Goto

LEMMA OthersKeep ==
  ASSUME EvidenceConstants, EvidenceInv,
         \/ \E c \in Agent : E!Complete(c)
         \/ \E q \in Uri : E!Change(q) \/ E!Move(q)
         \/ E!Reindex
         \/ UNCHANGED evidenceVars
  PROVE  EvidenceInv' /\ OnlyAdds
<1> USE DEF EvidenceInv, EvidenceTyped
<1>1. CASE \E c \in Agent : E!Complete(c)
  <2>1. PICK c \in Agent : E!Complete(c)
    BY <1>1
  <2>2. /\ agent' = [agent EXCEPT ![c] = "done"] /\ agent[c] = "committed"
        /\ UNCHANGED <<tree, located, events, authored>>
    BY <2>1 DEF E!Complete, E!Goto
  <2>3. agent'[c] = "done" /\ \A d \in Agent : d # c => agent'[d] = agent[d]
    BY <2>2
  <2>4. \A d \in Agent : Staged(d)'
    BY <2>2, <2>3 DEF Staged
  <2> QED
    BY <2>2, <2>4 DEF E!OneOfEach, OnlyAdds
<1>2. ASSUME NEW q \in Uri, E!Change(q) PROVE EvidenceInv' /\ OnlyAdds
  <2>1. /\ tree' = [tree EXCEPT ![q].text = "edited"] /\ tree[q] # None
        /\ events' \in {events, events + 1} /\ UNCHANGED <<located, agent, authored>> /\
           q \in E!Place
    BY <1>2 DEF E!Change, E!Place
  <2>2. tree[q] \in E!Document
    BY <2>1
  <2>3. [tree[q] EXCEPT !.text = "edited"] \in E!Document /\
          [tree[q] EXCEPT !.text = "edited"].uri = tree[q].uri
    BY <2>2 DEF E!Document
  <2>4. tree' = [tree EXCEPT ![q] = [tree[q] EXCEPT !.text = "edited"]]
    BY <2>1
  <2> DEFINE d == [tree[q] EXCEPT !.text = "edited"]
  <2> HIDE DEF d
  <2>5. tree' = [tree EXCEPT ![q] = d] /\ d \in E!Document /\ d.uri = tree[q].uri
    BY <2>3, <2>4 DEF d
  <2>6. tree' \in [E!Place -> E!Document \cup {None}]
    BY <2>5
  <2>7. \A p \in E!Place : tree'[p] # None => tree[p] # None /\ tree'[p].uri = tree[p].uri
    BY <2>1, <2>5
  <2>8. E!OneOfEach'
    BY <2>7 DEF E!OneOfEach
  <2>9. OnlyAdds /\ \A e \in Agent : Staged(e)'
    BY <2>1 DEF OnlyAdds, Staged
  <2> QED
    BY <2>1, <2>6, <2>8, <2>9
<1>3. ASSUME NEW q \in Uri, E!Move(q) PROVE EvidenceInv' /\ OnlyAdds
  <2>1. /\ tree' = [tree EXCEPT ![Stray] = tree[q], ![q] = None] /\ tree[q] # None /\
           tree[Stray] = None
        /\ UNCHANGED <<located, events, agent, authored>> /\ q \in E!Place /\ Stray \in E!Place
    BY <1>3 DEF E!Move, E!Place
  <2>2. q # Stray
    BY <2>1
  <2>3. /\ tree'[Stray] = tree[q] /\ tree'[q] = None
        /\ \A p \in E!Place : p # q /\ p # Stray => tree'[p] = tree[p]
    BY <2>1, <2>2
  <2>4. tree' \in [E!Place -> E!Document \cup {None}]
    BY <2>1
  <2>5. E!OneOfEach'
    BY <2>1, <2>3 DEF E!OneOfEach
  <2>6. OnlyAdds /\ \A e \in Agent : Staged(e)'
    BY <2>1 DEF OnlyAdds, Staged
  <2> QED
    BY <2>1, <2>4, <2>5, <2>6
<1>4. CASE E!Reindex \/ UNCHANGED evidenceVars
  <2>1. UNCHANGED <<tree, events, agent, authored>> /\ located' \in {located, E!Located(tree)}
    BY <1>4 DEF E!Reindex, evidenceVars
  <2>2. \A e \in Agent : Staged(e)'
    BY <2>1 DEF Staged
  <2> QED
    BY <2>1, <2>2, LocatedTyped DEF E!OneOfEach, OnlyAdds
<1> QED
  BY <1>1, <1>2, <1>3, <1>4

LEMMA EvidenceStep ==
  ASSUME EvidenceConstants, EvidenceInv, [E!EvidenceNext]_(E!evidenceVars)
  PROVE  EvidenceInv' /\ OnlyAdds
<1>1. E!evidenceVars = evidenceVars
  BY DEF E!evidenceVars, evidenceVars
<1>2. ASSUME NEW c \in Agent,
             \/ E!Ask(c) \/ E!Declare(c) \/ E!Observe(c) \/ E!Restore(c)
             \/ E!Relate(c) \/ E!Hash(c) \/ E!Propose(c) \/ E!Apply(c)
      PROVE  EvidenceInv' /\ OnlyAdds
  BY <1>2, AskStages, DeclareStages, ObserveStages, RestoreStages, RelateStages, HashStages,
     ProposeStages, ApplyStages
<1> QED
  BY <1>1, <1>2, OthersKeep DEF E!EvidenceNext, evidenceVars, E!evidenceVars

LEMMA EvidenceHolds ==
  ASSUME EvidenceConstants
  PROVE  E!EvidenceSpec => []E!OneOfEach /\ E!RelationsOnlyAdd
<1>1. E!EvidenceInit => EvidenceInv
  BY EvidenceBegins
<1>2. EvidenceInv /\ [E!EvidenceNext]_(E!evidenceVars) => EvidenceInv'
  BY EvidenceStep
<1>3. EvidenceInv => E!OneOfEach
  BY DEF EvidenceInv
<1>4. EvidenceInv /\ [E!EvidenceNext]_(E!evidenceVars) => OnlyAdds
  BY EvidenceStep
<1> QED
  BY <1>1, <1>2, <1>3, <1>4, PTL DEF E!EvidenceSpec, E!RelationsOnlyAdd, OnlyAdds

-----------------------------------------------------------------------------
(* Topics.                                                                 *)

(* Of the constants: None is none of what it stands in for, and the topics  *)
(* there are in the beginning do not look the same.                        *)
TopicConstants ==
  /\ FirstTopics \subseteq Slug /\ Documents \in Nat /\ MaxTags \in Nat
  /\ None \notin P!Name \cup P!Topic
  /\ \A s, t \in FirstTopics : s # t => {s, t} \notin Similar

Registry == [Slug -> P!Topic \cup {None}]
Tags     == P!Name \cup {None}

WantedOf ==
  [ts : Registry \cup {<<>>}, new : Registry \cup {<<>>}, from : Slug \cup {None},
    to : Slug \cup {None},
   hashed : Seq(Tags), read : Seq(Tags), base : Nat]

(* What a call may make of a registry.                                      *)
Added(ts, s, aliases, noted) ==
  [ts EXCEPT ![s] = [aliases |-> aliases, into |-> None, distinct |-> noted]]
Aliased(ts, s, n) == [ts EXCEPT ![s].aliases = @ \cup {n}]
Merged(ts, s, t) ==
  [ts EXCEPT ![s].aliases = {}, ![s].into = t,
             ![t].aliases = @ \cup ts[s].aliases \cup {s}, ![t].distinct = @ \ {s}]

IsAdded(ts, new) ==
  \E s \in Slug, aliases \in SUBSET P!Name, noted \in SUBSET Slug :
     ts[s] = None /\ P!Matches(s, ts) \subseteq noted /\ new = Added(ts, s, aliases, noted)
IsAliased(ts, new) ==
  \E s \in Slug, n \in Alias : P!IsActive(ts, s) /\ new = Aliased(ts, s, n)
IsMerged(ts, new, s, t) ==
  s \in Slug /\ t \in Slug /\ s # t /\ P!IsActive(ts, s) /\ P!IsActive(ts, t) /\
    new = Merged(ts, s, t)

Made(w) ==
  /\ w.ts \in Registry /\ w.new \in Registry /\ P!IsRegistry(w.new)
  /\ \/ w.read = <<>> /\ (IsAdded(w.ts, w.new) \/ IsAliased(w.ts, w.new))
     \/ IsMerged(w.ts, w.new, w.from, w.to)

Twins(ts) ==
  \A s, t \in Slug :
     P!IsActive(ts, s) /\ P!IsActive(ts, t) /\ s # t /\ {s, t} \in Similar
       => t \in ts[s].distinct \/ s \in ts[t].distinct

TopicsTyped ==
  /\ topics \in Registry /\ tag \in [P!Document -> Tags]
  /\ topicRevision \in Nat /\ tags \in Nat
  /\ topicCall \in [Agent -> {"idle", "documents", "head", "apply", "done", "refused"}]
  /\ wanted \in [Agent -> WantedOf]

Reviews(w) == IsMerged(w.ts, w.new, w.from, w.to) /\ Len(w.hashed) <= Documents

Intends(c) ==
  /\ topicCall[c] \in {"documents", "head", "apply"} => Made(wanted[c])
  /\ topicCall[c] = "documents" => Reviews(wanted[c])

TopicsInv ==
  /\ TopicsTyped
  /\ P!IsRegistry(topics) /\ Twins(topics)
  /\ \A d \in P!Document : tag[d] # None => P!Resolve(topics, tag[d]) # None
  /\ \A c \in Agent : Intends(c)
-----------------------------------------------------------------------------
(* What names resolve to.                                                   *)
LEMMA SlugsAreNames ==
  ASSUME TopicConstants
  PROVE  Slug \subseteq P!Name /\ None \notin Slug /\ None \notin P!Topic
BY DEF TopicConstants, P!Name

LEMMA OwnerIsOne ==
  ASSUME TopicConstants, NEW ts \in Registry, P!IsRegistry(ts), NEW n, NEW r \in Slug,
         P!IsActive(ts, r), n \in ts[r].aliases, ~ (n \in Slug /\ ts[n] # None)
  PROVE  P!Resolve(ts, n) = r
<1> DEFINE owners == {s \in Slug : P!IsActive(ts, s) /\ n \in ts[s].aliases}
<1>1. r \in owners
  OBVIOUS
<1>2. \A s \in owners : s = r
  BY DEF P!IsActive, P!IsRegistry
<1>3. owners = {r}
  BY <1>1, <1>2
<1> HIDE DEF owners
<1>4. (CHOOSE s \in owners : TRUE) = r /\ owners # {}
  BY <1>3
<1> QED
  BY <1>4 DEF P!Resolve, owners

LEMMA ResolvedIsActive ==
  ASSUME TopicConstants, NEW ts \in Registry, P!IsRegistry(ts), NEW n, P!Resolve(ts, n) # None
  PROVE  P!Resolve(ts, n) \in Slug /\ P!IsActive(ts, P!Resolve(ts, n))
<1>1. CASE n \in Slug /\ ts[n] # None
  <2>1. P!Resolve(ts, n) = IF ts[n].into = None THEN n ELSE ts[n].into
    BY <1>1 DEF P!Resolve
  <2>2. ts[n] \in P!Topic
    BY <1>1 DEF Registry
  <2>3. ts[n].into \in Slug \cup {None}
    BY <2>2 DEF P!Topic
  <2>4. ts[n].into # None => P!IsActive(ts, ts[n].into)
    BY <1>1 DEF P!IsRegistry
  <2> QED
    BY <1>1, <2>1, <2>3, <2>4 DEF P!IsActive
<1>2. CASE ~ (n \in Slug /\ ts[n] # None)
  <2> DEFINE owners == {s \in Slug : P!IsActive(ts, s) /\ n \in ts[s].aliases}
  <2>1. P!Resolve(ts, n) = IF owners = {} THEN None ELSE CHOOSE s \in owners : TRUE
    BY <1>2 DEF P!Resolve
  <2> HIDE DEF owners
  <2>2. owners # {} /\ P!Resolve(ts, n) \in owners
    BY <2>1
  <2> QED
    BY <2>2 DEF owners
<1> QED
  BY <1>1, <1>2

(* A name that belongs to a topic by its slug, or as an alias of one.       *)
LEMMA ResolvedBy ==
  ASSUME TopicConstants, NEW ts \in Registry, NEW n, P!Resolve(ts, n) # None
  PROVE  \/ n \in Slug /\ ts[n] # None /\ ts[n].into = None /\ P!Resolve(ts, n) = n
         \/ n \in Slug /\ ts[n] # None /\ ts[n].into # None /\ P!Resolve(ts, n) = ts[n].into
         \/ ~ (n \in Slug /\ ts[n] # None) /\ n \in ts[P!Resolve(ts, n)].aliases
<1>1. CASE n \in Slug /\ ts[n] # None
  BY <1>1 DEF P!Resolve
<1>2. CASE ~ (n \in Slug /\ ts[n] # None)
  <2> DEFINE owners == {s \in Slug : P!IsActive(ts, s) /\ n \in ts[s].aliases}
  <2>1. P!Resolve(ts, n) = IF owners = {} THEN None ELSE CHOOSE s \in owners : TRUE
    BY <1>2 DEF P!Resolve
  <2> HIDE DEF owners
  <2>2. owners # {} /\ P!Resolve(ts, n) \in owners
    BY <2>1
  <2> QED
    BY <1>2, <2>2 DEF owners
<1> QED
  BY <1>1, <1>2
-----------------------------------------------------------------------------
(* What the three changes do to each topic.                                 *)
LEMMA AddedIs ==
  ASSUME TopicConstants, NEW ts \in Registry, NEW s \in Slug, NEW names \in SUBSET P!Name,
         NEW noted \in SUBSET Slug
  PROVE  /\ Added(ts, s, names, noted) \in Registry
         /\ Added(ts, s, names, noted)[s].into = None /\
            Added(ts, s, names, noted)[s].distinct = noted
         /\ Added(ts, s, names, noted)[s] # None
         /\ \A x \in Slug : x # s => Added(ts, s, names, noted)[x] = ts[x]
<1>1. [aliases |-> names, into |-> None, distinct |-> noted] \in P!Topic
  BY DEF P!Topic
<1> QED
  BY <1>1 DEF Added, Registry, TopicConstants

LEMMA AliasedIs ==
  ASSUME TopicConstants, NEW ts \in Registry, NEW s \in Slug, ts[s] # None, NEW n \in P!Name
  PROVE  /\ Aliased(ts, s, n) \in Registry /\ Aliased(ts, s, n)[s] # None
         /\ Aliased(ts, s, n)[s].aliases = ts[s].aliases \cup {n}
         /\ Aliased(ts, s, n)[s].into = ts[s].into /\ Aliased(ts, s, n)[s].distinct = ts[s].distinct
         /\ \A x \in Slug : x # s => Aliased(ts, s, n)[x] = ts[x]
<1>1. ts[s] \in P!Topic
  BY DEF Registry
<1> DEFINE t == [ts[s] EXCEPT !.aliases = @ \cup {n}]
<1>2. /\ t \in P!Topic /\ t.aliases = ts[s].aliases \cup {n} /\ t.into = ts[s].into
      /\ t.distinct = ts[s].distinct
  BY <1>1 DEF P!Topic
<1>3. Aliased(ts, s, n) = [ts EXCEPT ![s] = t]
  BY DEF Aliased
<1> HIDE DEF t
<1> QED
  BY <1>2, <1>3 DEF Registry, TopicConstants

LEMMA MergedIs ==
  ASSUME TopicConstants, NEW ts \in Registry, NEW s \in Slug, NEW t \in Slug, s # t,
         ts[s] # None, ts[t] # None
  PROVE  /\ Merged(ts, s, t) \in Registry /\ Merged(ts, s, t)[s] # None /\
            Merged(ts, s, t)[t] # None
         /\ Merged(ts, s, t)[s].aliases = {} /\ Merged(ts, s, t)[s].into = t
         /\ Merged(ts, s, t)[s].distinct = ts[s].distinct
         /\ Merged(ts, s, t)[t].aliases = ts[t].aliases \cup ts[s].aliases \cup {s}
         /\ Merged(ts, s, t)[t].into = ts[t].into
         /\ Merged(ts, s, t)[t].distinct = ts[t].distinct \ {s}
         /\ \A x \in Slug : x # s /\ x # t => Merged(ts, s, t)[x] = ts[x]
<1>1. ts[s] \in P!Topic /\ ts[t] \in P!Topic /\ s \in P!Name
  BY SlugsAreNames DEF Registry
<1> DEFINE u == [ts[s] EXCEPT !.aliases = {}, !.into = t]
           v == [ts[t] EXCEPT !.aliases = @ \cup ts[s].aliases \cup {s}, !.distinct = @ \ {s}]
<1>2. /\ u \in P!Topic /\ u.aliases = {} /\ u.into = t /\ u.distinct = ts[s].distinct
      /\ v \in P!Topic /\ v.aliases = ts[t].aliases \cup ts[s].aliases \cup {s} /\
         v.into = ts[t].into
      /\ v.distinct = ts[t].distinct \ {s}
  BY <1>1 DEF P!Topic
<1>3. Merged(ts, s, t) = [ts EXCEPT ![s] = u, ![t] = v]
  BY <1>1 DEF Merged, Registry, P!Topic
<1> HIDE DEF u, v
<1> QED
  BY <1>2, <1>3 DEF Registry, TopicConstants
-----------------------------------------------------------------------------
(* Names go on to mean what they meant.                                     *)
Follow(new, r) == IF r # None /\ new[r] # None /\ new[r].into # None THEN new[r].into ELSE r

LEMMA AddedMeans ==
  ASSUME TopicConstants, NEW ts \in Registry, NEW new \in Registry, P!IsRegistry(ts),
         P!IsRegistry(new),
         IsAdded(ts, new), NEW n \in P!Name, P!Resolve(ts, n) # None
  PROVE  P!Resolve(new, n) = Follow(new, P!Resolve(ts, n))
<1>1. PICK s \in Slug, names \in SUBSET P!Name, noted \in SUBSET Slug :
         ts[s] = None /\ new = Added(ts, s, names, noted)
  BY DEF IsAdded
<1>2. new[s] # None /\ new[s].into = None /\ \A x \in Slug : x # s => new[x] = ts[x]
  BY <1>1, AddedIs
<1> DEFINE r == P!Resolve(ts, n)
<1>3. r \in Slug /\ ts[r] # None /\ ts[r].into = None /\ r # s /\ new[r] = ts[r]
  BY <1>1, <1>2, ResolvedIsActive DEF P!IsActive
<1>4. Follow(new, r) = r
  BY <1>3 DEF Follow
<1>5. CASE n \in Slug /\ ts[n] # None
  BY <1>1, <1>2, <1>4, <1>5 DEF P!Resolve
<1>6. CASE ~ (n \in Slug /\ ts[n] # None)
  <2>1. n \in new[r].aliases /\ P!IsActive(new, r)
    BY <1>3, <1>6, ResolvedBy DEF P!IsActive
  <2>2. n # s
    BY <1>2, <1>3, <2>1, SlugsAreNames DEF P!IsRegistry
  <2>3. ~ (n \in Slug /\ new[n] # None)
    BY <1>2, <1>6, <2>2
  <2> HIDE DEF r
  <2>4. P!Resolve(new, n) = r
    BY <1>3, <2>1, <2>3, OwnerIsOne
  <2> QED
    BY <1>4, <2>4 DEF r
<1> QED
  BY <1>5, <1>6

LEMMA AliasedMeans ==
  ASSUME TopicConstants, NEW ts \in Registry, NEW new \in Registry, P!IsRegistry(ts),
         P!IsRegistry(new),
         IsAliased(ts, new), NEW n \in P!Name, P!Resolve(ts, n) # None
  PROVE  P!Resolve(new, n) = Follow(new, P!Resolve(ts, n))
<1>1. PICK s \in Slug, m \in Alias : P!IsActive(ts, s) /\ new = Aliased(ts, s, m)
  BY DEF IsAliased
<1>2. ts[s] # None /\ m \in P!Name
  BY <1>1 DEF P!IsActive, P!Name
<1>3. /\ new[s] # None /\ new[s].aliases = ts[s].aliases \cup {m} /\ new[s].into = ts[s].into
      /\ \A x \in Slug : x # s => new[x] = ts[x]
  BY <1>1, <1>2, AliasedIs
<1>4. \A x \in Slug : /\ new[x] # None <=> ts[x] # None
                      /\ ts[x] # None => new[x].into = ts[x].into /\
                         ts[x].aliases \subseteq new[x].aliases
  BY <1>2, <1>3
<1> DEFINE r == P!Resolve(ts, n)
<1>5. r \in Slug /\ ts[r] # None /\ ts[r].into = None
  BY ResolvedIsActive DEF P!IsActive
<1>6. Follow(new, r) = r
  BY <1>4, <1>5 DEF Follow
<1>7. CASE n \in Slug /\ ts[n] # None
  BY <1>4, <1>6, <1>7 DEF P!Resolve
<1>8. CASE ~ (n \in Slug /\ ts[n] # None)
  <2>1. n \in ts[r].aliases
    BY <1>8, ResolvedBy
  <2>2. n \in new[r].aliases /\ P!IsActive(new, r) /\ ~ (n \in Slug /\ new[n] # None)
    BY <1>4, <1>5, <1>8, <2>1 DEF P!IsActive
  <2> HIDE DEF r
  <2>3. P!Resolve(new, n) = r
    BY <1>5, <2>2, OwnerIsOne
  <2> QED
    BY <1>6, <2>3 DEF r
<1> QED
  BY <1>7, <1>8

LEMMA MergedMeans ==
  ASSUME TopicConstants, NEW ts \in Registry, NEW new \in Registry, P!IsRegistry(ts),
         P!IsRegistry(new),
         NEW s, NEW t, IsMerged(ts, new, s, t), NEW n \in P!Name, P!Resolve(ts, n) # None
  PROVE  P!Resolve(new, n) = Follow(new, P!Resolve(ts, n))
<1>1. /\ s \in Slug /\ t \in Slug /\ s # t /\ ts[s] # None /\ ts[t] # None
      /\ ts[s].into = None /\ ts[t].into = None /\ new = Merged(ts, s, t) /\ None \notin Slug
  BY SlugsAreNames DEF IsMerged, P!IsActive
<1>2. /\ new[s] # None /\ new[t] # None /\ new[s].into = t /\ new[t].into = None
      /\ new[t].aliases = ts[t].aliases \cup ts[s].aliases \cup {s}
      /\ \A x \in Slug : x # s /\ x # t => new[x] = ts[x]
  BY <1>1, MergedIs
<1>3. \A x \in Slug : new[x] # None <=> ts[x] # None
  BY <1>1, <1>2
<1> DEFINE r == P!Resolve(ts, n)
<1>4. r \in Slug /\ ts[r] # None /\ ts[r].into = None
  BY ResolvedIsActive DEF P!IsActive
<1>5. Follow(new, r) = IF r = s THEN t ELSE r
  BY <1>1, <1>2, <1>4 DEF Follow
<1>6. CASE n \in Slug /\ ts[n] # None /\ ts[n].into = None
  <2>1. r = n
    BY <1>6 DEF P!Resolve
  <2>2. P!Resolve(new, n) = IF new[n].into = None THEN n ELSE new[n].into
    BY <1>3, <1>6 DEF P!Resolve
  <2>3. n # s => new[n].into = None
    BY <1>2, <1>6
  <2> QED
    BY <1>1, <1>2, <1>5, <2>1, <2>2, <2>3
<1>7. CASE n \in Slug /\ ts[n] # None /\ ts[n].into # None
  <2>1. r = ts[n].into
    BY <1>7 DEF P!Resolve
  <2>2. new[n] = ts[n]
    BY <1>1, <1>2, <1>7
  <2>3. P!Resolve(new, n) = r
    BY <1>3, <1>7, <2>1, <2>2 DEF P!Resolve
  <2>4. P!IsActive(new, r)
    BY <1>3, <1>7, <2>1, <2>2 DEF P!IsRegistry
  <2>5. r # s
    BY <1>1, <1>2, <2>4 DEF P!IsActive
  <2> QED
    BY <1>5, <2>3, <2>5
<1>8. CASE ~ (n \in Slug /\ ts[n] # None)
  <2>1. n \in ts[r].aliases /\ ~ (n \in Slug /\ new[n] # None)
    BY <1>3, <1>8, ResolvedBy
  <2> HIDE DEF r
  <2>2. CASE r = s
    <3>1. n \in new[t].aliases /\ P!IsActive(new, t)
      BY <1>2, <2>1, <2>2 DEF P!IsActive
    <3>2. P!Resolve(new, n) = t
      BY <1>1, <2>1, <3>1, OwnerIsOne
    <3> QED
      BY <1>5, <2>2, <3>2 DEF r
  <2>3. CASE r # s
    <3>1. n \in new[r].aliases /\ P!IsActive(new, r)
      BY <1>2, <1>3, <1>4, <2>1, <2>3 DEF P!IsActive
    <3>2. P!Resolve(new, n) = r
      BY <1>4, <2>1, <3>1, OwnerIsOne
    <3> QED
      BY <1>5, <2>3, <3>2 DEF r
  <2> QED
    BY <2>2, <2>3
<1> QED
  BY <1>6, <1>7, <1>8

LEMMA MadeMeans ==
  ASSUME TopicConstants, NEW w, Made(w), P!IsRegistry(w.ts), NEW n \in P!Name,
         P!Resolve(w.ts, n) # None
  PROVE  P!Resolve(w.new, n) = Follow(w.new, P!Resolve(w.ts, n)) /\ P!Resolve(w.new, n) # None
<1>1. P!Resolve(w.new, n) = Follow(w.new, P!Resolve(w.ts, n))
  BY AddedMeans, AliasedMeans, MergedMeans DEF Made
<1> QED
  BY <1>1 DEF Follow

(* A change makes no twins.                                                 *)
LEMMA NoTwinsAdded ==
  ASSUME TopicConstants, NEW ts \in Registry, NEW new, IsAdded(ts, new), Twins(ts)
  PROVE  Twins(new)
<1>1. PICK s \in Slug, names \in SUBSET P!Name, noted \in SUBSET Slug :
         ts[s] = None /\ P!Matches(s, ts) \subseteq noted /\ new = Added(ts, s, names, noted)
  BY DEF IsAdded
<1>2. new[s] # None /\ new[s].distinct = noted /\ \A x \in Slug : x # s => new[x] = ts[x]
  BY <1>1, AddedIs
<1>3. ASSUME NEW t \in Slug, t # s, P!IsActive(new, t), {s, t} \in Similar PROVE t \in noted
  <2>1. ts[t] # None /\ ts[t].into = None
    BY <1>2, <1>3 DEF P!IsActive
  <2>2. P!Resolve(ts, t) = t
    BY <2>1 DEF P!Resolve
  <2>3. \E n \in {t, P!Resolve(ts, t)} \cup ts[t].aliases : {s, n} \in Similar \/ s = n
    BY <1>3
  <2>4. P!Resolve(ts, t) \in P!Matches(s, ts)
    BY <2>1, <2>3 DEF P!Matches
  <2> QED
    BY <1>1, <2>2, <2>4
<1>4. \A x \in Slug : x # s => (P!IsActive(new, x) <=> P!IsActive(ts, x))
  BY <1>2 DEF P!IsActive
<1> SUFFICES ASSUME NEW x \in Slug, NEW y \in Slug, P!IsActive(new, x), P!IsActive(new, y), x # y,
                    {x, y} \in Similar
             PROVE  y \in new[x].distinct \/ x \in new[y].distinct
  BY DEF Twins
<1>5. {x, y} = {y, x}
  OBVIOUS
<1>6. CASE x # s /\ y # s
  BY <1>2, <1>4, <1>6 DEF Twins
<1> QED
  BY <1>2, <1>3, <1>5, <1>6

LEMMA NoTwinsAliased ==
  ASSUME TopicConstants, NEW ts \in Registry, NEW new, IsAliased(ts, new), Twins(ts)
  PROVE  Twins(new)
<1>1. PICK s \in Slug, m \in Alias : P!IsActive(ts, s) /\ new = Aliased(ts, s, m)
  BY DEF IsAliased
<1>2. ts[s] # None /\ m \in P!Name
  BY <1>1 DEF P!IsActive, P!Name
<1>3. /\ new[s] # None /\ new[s].into = ts[s].into /\ new[s].distinct = ts[s].distinct
      /\ \A x \in Slug : x # s => new[x] = ts[x]
  BY <1>1, <1>2, AliasedIs
<1>4. \A x \in Slug : (P!IsActive(new, x) <=> P!IsActive(ts, x))
                      /\ (P!IsActive(ts, x) => new[x].distinct = ts[x].distinct)
  BY <1>2, <1>3 DEF P!IsActive
<1> QED
  BY <1>4 DEF Twins

LEMMA NoTwinsMerged ==
  ASSUME TopicConstants, NEW ts \in Registry, NEW new, NEW s, NEW t, IsMerged(ts, new, s, t),
         Twins(ts)
  PROVE  Twins(new)
<1>1. /\ s \in Slug /\ t \in Slug /\ s # t /\ ts[s] # None /\ ts[t] # None
      /\ ts[t].into = None /\ new = Merged(ts, s, t) /\ None \notin Slug
  BY SlugsAreNames DEF IsMerged, P!IsActive
<1>2. /\ new[s].into = t /\ new[t] # None /\ new[t].into = None /\
         new[t].distinct = ts[t].distinct \ {s}
      /\ \A x \in Slug : x # s /\ x # t => new[x] = ts[x]
  BY <1>1, MergedIs
<1>3. \A x \in Slug : P!IsActive(new, x) =>
         x # s /\ P!IsActive(ts, x) /\ \A y \in ts[x].distinct : y # s => y \in new[x].distinct
  BY <1>1, <1>2 DEF P!IsActive
<1> QED
  BY <1>3 DEF Twins
-----------------------------------------------------------------------------
LEMMA TopicsBegin ==
  ASSUME TopicConstants, P!TopicsInit
  PROVE  TopicsInv
<1> USE DEF P!TopicsInit
<1>1. [aliases |-> {}, into |-> None, distinct |-> {}] \in P!Topic
  BY DEF P!Topic
<1>2. topics \in Registry
  BY <1>1 DEF Registry
<1>3. P!Blank \in WantedOf
  BY DEF P!Blank, WantedOf
<1>4. tag \in [P!Document -> Tags]
  BY DEF Tags
<1>5. TopicsTyped
  BY <1>2, <1>3, <1>4 DEF TopicsTyped
<1>6. \A s \in Slug : topics[s] # None =>
         s \in FirstTopics /\ topics[s].aliases = {} /\ topics[s].into = None /\
           topics[s].distinct = {}
  OBVIOUS
<1>7. P!IsRegistry(topics)
  BY <1>6 DEF P!IsRegistry
<1>8. Twins(topics)
  BY <1>6 DEF Twins, TopicConstants, P!IsActive
<1> QED
  BY <1>5, <1>7, <1>8 DEF TopicsInv, Intends

(* What a commit does to the meaning of names.                              *)
Meanings ==
  topics' # topics =>
    /\ \A n \in P!Name : P!Resolve(topics, n) # None =>
          P!Resolve(topics', n) = P!Moved(P!Resolve(topics, n))
    /\ \A d \in P!Document : tag[d] # None =>
          \/ P!Resolve(topics', tag'[d]) = P!Moved(P!Resolve(topics, tag[d]))
          \/ \E c \in Agent : topicCall[c] = "apply" /\ topicCall'[c] = "done" /\ P!Torn(c, d)

(* A call that reads: the registry and the tags stay.                       *)
LEMMA TopicCallReads ==
  ASSUME TopicConstants, TopicsInv, NEW c \in Agent, NEW w \in WantedOf,
         wanted' = [wanted EXCEPT ![c] = w],
         NEW l \in {"documents", "head", "apply"}, topicCall' = [topicCall EXCEPT ![c] = l],
         UNCHANGED <<topics, tag, topicRevision, tags>>,
         Made(w), l = "documents" => Reviews(w)
  PROVE  TopicsInv' /\ Meanings
<1>1. TopicsTyped'
  BY DEF TopicsInv, TopicsTyped
<1>2. wanted'[c] = w /\ topicCall'[c] = l /\ \A d \in Agent : d # c =>
        wanted'[d] = wanted[d] /\ topicCall'[d] = topicCall[d]
  BY DEF TopicsInv, TopicsTyped
<1>3. ASSUME NEW d \in Agent PROVE Intends(d)'
  BY <1>2 DEF TopicsInv, Intends
<1> QED
  BY <1>1, <1>3 DEF TopicsInv, Meanings

LEMMA WantKeeps ==
  ASSUME TopicConstants, TopicsInv, NEW c \in Agent, NEW new \in Registry,
         NEW from \in Slug \cup {None},
         NEW to \in Slug \cup {None}, NEW l \in {"documents", "head"}, P!Want(c, new, from, to, l),
         \/ l = "head" /\ (IsAdded(topics, new) \/ IsAliased(topics, new))
         \/ IsMerged(topics, new, from, to)
  PROVE  TopicsInv' /\ Meanings
<1> DEFINE w == [P!Blank EXCEPT !.ts = topics, !.new = new, !.from = from, !.to = to]
<1>1. /\ wanted' = [wanted EXCEPT ![c] = w] /\ topicCall' = [topicCall EXCEPT ![c] = l]
      /\ UNCHANGED <<topics, tag, topicRevision, tags>> /\ P!IsRegistry(new)
  BY DEF P!Want, P!Goto
<1>2. topics \in Registry
  BY DEF TopicsInv, TopicsTyped
<1>3. /\ w \in WantedOf /\ w.ts = topics /\ w.new = new /\ w.from = from /\ w.to = to
      /\ w.read = <<>> /\ w.hashed = <<>>
  <2>1. P!Blank \in WantedOf /\ P!Blank.read = <<>> /\ P!Blank.hashed = <<>>
    BY DEF P!Blank, WantedOf
  <2> QED
    BY <1>2, <2>1 DEF WantedOf
<1> HIDE DEF w
<1>4. Made(w)
  BY <1>1, <1>2, <1>3 DEF Made
<1>5. l = "documents" => Reviews(w)
  <2>1. Len(w.hashed) <= Documents
    BY <1>3 DEF TopicConstants
  <2> QED
    BY <1>3, <2>1 DEF Reviews
<1> QED
  BY <1>1, <1>3, <1>4, <1>5, TopicCallReads

LEMMA AskedKeeps ==
  ASSUME TopicConstants, TopicsInv, NEW c \in Agent, NEW s \in Slug,
         \/ \E names \in {{}} \cup {{n} : n \in Alias},
            noted \in {{}} \cup {{t} : t \in Slug} : P!Add(c, s, names, noted)
         \/ \E n \in Alias : P!AddAlias(c, s, n)
         \/ \E t \in Slug : P!Merge(c, s, t)
  PROVE  TopicsInv' /\ Meanings
<1>0. topics \in Registry
  BY DEF TopicsInv, TopicsTyped
<1>1. ASSUME NEW names \in {{}} \cup {{n} : n \in Alias},
             NEW noted \in {{}} \cup {{t} : t \in Slug}, P!Add(c, s, names, noted)
      PROVE  TopicsInv' /\ Meanings
  <2> DEFINE new == Added(topics, s, names, noted)
  <2>1. names \in SUBSET P!Name /\ noted \in SUBSET Slug
    BY DEF P!Name
  <2>2. topics[s] = None /\ P!Matches(s, topics) \subseteq noted /\
          P!Want(c, new, None, None, "head")
    BY <1>1 DEF P!Add, Added
  <2>3. new \in Registry
    BY <1>0, <2>1, AddedIs
  <2>4. IsAdded(topics, new)
    BY <2>1, <2>2 DEF IsAdded
  <2> HIDE DEF new
  <2> QED
    BY <2>2, <2>3, <2>4, WantKeeps
<1>2. ASSUME NEW n \in Alias, P!AddAlias(c, s, n)
      PROVE  TopicsInv' /\ Meanings
  <2> DEFINE new == Aliased(topics, s, n)
  <2>1. P!IsActive(topics, s) /\ P!Want(c, new, None, None, "head")
    BY <1>2 DEF P!AddAlias, Aliased
  <2>2. new \in Registry
    BY <1>0, <2>1, AliasedIs DEF P!IsActive, P!Name
  <2>3. IsAliased(topics, new)
    BY <2>1 DEF IsAliased
  <2> HIDE DEF new
  <2> QED
    BY <2>1, <2>2, <2>3, WantKeeps
<1>3. ASSUME NEW t \in Slug, P!Merge(c, s, t)
      PROVE  TopicsInv' /\ Meanings
  <2> DEFINE new == Merged(topics, s, t)
  <2>1. s # t /\ P!IsActive(topics, s) /\ P!IsActive(topics, t) /\ P!Want(c, new, s, t, "documents")
    BY <1>3 DEF P!Merge, Merged
  <2>2. new \in Registry
    BY <1>0, <2>1, MergedIs DEF P!IsActive
  <2>3. IsMerged(topics, new, s, t)
    BY <2>1 DEF IsMerged
  <2> HIDE DEF new
  <2> QED
    BY <2>1, <2>2, <2>3, WantKeeps
<1> QED
  BY <1>1, <1>2, <1>3

(* What a merge reads of the documents.                                     *)
LEMMA SameMade ==
  ASSUME NEW w, NEW v, v.ts = w.ts, v.new = w.new, v.from = w.from, v.to = w.to, Made(w),
         v.read = w.read \/ IsMerged(w.ts, w.new, w.from, w.to)
  PROVE  Made(v)
BY DEF Made

LEMMA ReadingKeepsTopics ==
  ASSUME TopicConstants, TopicsInv, NEW c \in Agent, P!HashDocument(c) \/ P!ReadDocument(c) \/
         P!Propose(c)
  PROVE  TopicsInv' /\ Meanings
<1> DEFINE w == wanted[c]
<1>1. w \in WantedOf /\ wanted \in [Agent -> WantedOf] /\ tag \in [P!Document -> Tags] /\
        topicRevision \in Nat
  BY DEF TopicsInv, TopicsTyped
<1>2. CASE P!HashDocument(c)
  <2> DEFINE v == [w EXCEPT !.hashed = Append(@, tag[Len(w.read) + 1])]
  <2>1. /\ wanted' = [wanted EXCEPT ![c].hashed = Append(@, tag[Len(w.read) + 1])]
        /\ topicCall[c] = "documents" /\ UNCHANGED <<topics, tag, topicRevision, tags, topicCall>>
        /\ Len(w.read) < Documents
    BY <1>2 DEF P!HashDocument
  <2>2. wanted' = [wanted EXCEPT ![c] = v] /\ topicCall' = [topicCall EXCEPT ![c] = "documents"]
    BY <1>1, <2>1 DEF TopicsInv, TopicsTyped
  <2>3. Made(w) /\ Reviews(w)
    BY <2>1 DEF TopicsInv, Intends
  <2> HIDE DEF w
  <2>4. tag[Len(w.read) + 1] \in Tags
    <3>1. Len(w.read) \in Nat
      BY <1>1 DEF WantedOf
    <3>2. Len(w.read) + 1 \in P!Document
      BY <2>1, <3>1 DEF P!Document, TopicConstants
    <3> QED
      BY <1>1, <3>2
  <2> DEFINE h == Append(w.hashed, tag[Len(w.read) + 1])
  <2>5. h \in Seq(Tags) /\ Len(h) <= Documents
    <3>1. w.hashed \in Seq(Tags) /\ Len(w.hashed) = Len(w.read) /\ Len(w.read) \in Nat
      BY <1>1, <1>2 DEF WantedOf, P!HashDocument, w
    <3>2. Len(h) = Len(w.hashed) + 1
      BY <2>4, <3>1
    <3> QED
      BY <2>1, <2>4, <3>1, <3>2 DEF TopicConstants
  <2> HIDE DEF h
  <2>6. /\ v \in WantedOf /\ v.ts = w.ts /\ v.new = w.new /\ v.from = w.from /\ v.to = w.to
        /\ v.read = w.read /\ v.hashed = h
    <3>1. v = [w EXCEPT !.hashed = h]
      BY DEF h
    <3> HIDE DEF v
    <3> QED
      BY <1>1, <2>5, <3>1 DEF WantedOf
  <2> HIDE DEF v
  <2>7. Made(v) /\ Reviews(v)
    BY <2>3, <2>5, <2>6, SameMade DEF Reviews
  <2> QED
    BY <2>1, <2>2, <2>6, <2>7, TopicCallReads
<1>3. CASE P!ReadDocument(c)
  <2> DEFINE v == [w EXCEPT !.read = Append(@, tag[Len(w.hashed)])]
             l == IF Len(w.hashed) = Documents THEN "head" ELSE "documents"
  <2>1. /\ wanted' = [wanted EXCEPT ![c].read = Append(@, tag[Len(w.hashed)])]
        /\ topicCall[c] = "documents" /\ UNCHANGED <<topics, tag, topicRevision, tags>>
        /\ Len(w.hashed) > Len(w.read) /\ topicCall' = [topicCall EXCEPT ![c] = l]
    BY <1>3 DEF P!ReadDocument, P!Goto
  <2>2. wanted' = [wanted EXCEPT ![c] = v]
    BY <1>1, <2>1
  <2>3. Made(w) /\ Reviews(w)
    BY <2>1 DEF TopicsInv, Intends
  <2> HIDE DEF w
  <2>4. tag[Len(w.hashed)] \in Tags
    <3>1. Len(w.read) \in Nat /\ Len(w.hashed) \in Nat
      BY <1>1 DEF WantedOf
    <3>2. Len(w.hashed) \in P!Document
      BY <2>1, <2>3, <3>1 DEF Reviews, P!Document, TopicConstants
    <3> QED
      BY <1>1, <3>2
  <2> DEFINE r == Append(w.read, tag[Len(w.hashed)])
  <2>8. r \in Seq(Tags)
    <3>1. w.read \in Seq(Tags)
      BY <1>1 DEF WantedOf
    <3> QED
      BY <2>4, <3>1
  <2> HIDE DEF r
  <2>5. /\ v \in WantedOf /\ v.ts = w.ts /\ v.new = w.new /\ v.from = w.from /\ v.to = w.to
        /\ v.hashed = w.hashed
    <3>1. v = [w EXCEPT !.read = r]
      BY DEF r
    <3> HIDE DEF v
    <3> QED
      BY <1>1, <2>8, <3>1 DEF WantedOf
  <2> HIDE DEF v, l
  <2>6. Made(v) /\ Reviews(v)
    BY <2>3, <2>5, SameMade DEF Reviews
  <2>7. l \in {"documents", "head"}
    BY DEF l
  <2> QED
    BY <2>1, <2>2, <2>5, <2>6, <2>7, TopicCallReads
<1>4. CASE P!Propose(c)
  <2> DEFINE v == [w EXCEPT !.base = topicRevision]
  <2>1. /\ wanted' = [wanted EXCEPT ![c].base = topicRevision] /\ topicCall[c] = "head"
        /\ UNCHANGED <<topics, tag, topicRevision, tags>> /\
           topicCall' = [topicCall EXCEPT ![c] = "apply"]
    BY <1>4 DEF P!Propose, P!Goto
  <2>2. wanted' = [wanted EXCEPT ![c] = v]
    BY <1>1, <2>1
  <2>3. Made(w)
    BY <2>1 DEF TopicsInv, Intends
  <2> HIDE DEF w
  <2>4. v \in WantedOf /\ v.ts = w.ts /\ v.new = w.new /\ v.from = w.from /\ v.to = w.to /\
          v.read = w.read
    BY <1>1 DEF WantedOf
  <2> HIDE DEF v
  <2>5. Made(v)
    BY <2>3, <2>4, SameMade
  <2> QED
    BY <2>1, <2>2, <2>4, <2>5, TopicCallReads
<1> QED
  BY <1>2, <1>3, <1>4

LEMMA MadeNoTwins ==
  ASSUME TopicConstants, NEW w, Made(w), Twins(w.ts)
  PROVE  Twins(w.new)
BY NoTwinsAdded, NoTwinsAliased, NoTwinsMerged DEF Made

(* The commit of a merge moves the tags with the topic.                     *)
LEMMA ApplyKeepsTopics ==
  ASSUME TopicConstants, TopicsInv, NEW c \in Agent, P!Apply(c)
  PROVE  TopicsInv' /\ Meanings
<1> DEFINE w == wanted[c]
<1>1. /\ w \in WantedOf /\ Made(w) /\ topicCall[c] = "apply" /\ UNCHANGED <<tags, wanted>>
      /\ topics \in Registry /\ tag \in [P!Document -> Tags] /\ topicRevision \in Nat
  BY DEF P!Apply, TopicsInv, TopicsTyped, Intends
<1>2. CASE /\ P!Acceptable(w) /\ topics' = w.new
           /\ tag' = [d \in P!Document |-> IF d \in P!Retagged(w) THEN w.to ELSE tag[d]]
           /\ topicRevision' = topicRevision + 1 /\ topicCall' = [topicCall EXCEPT ![c] = "done"]
  <2>1. topicCall'[c] = "done" /\ \A d \in Agent : d # c => topicCall'[d] = topicCall[d]
    BY <1>2 DEF TopicsInv, TopicsTyped
  <2>2. topics = w.ts /\ \A d \in P!Retagged(w) : tag[d] = w.hashed[d]
    BY <1>2 DEF P!Acceptable
  <2>3. w.new \in Registry /\ P!IsRegistry(w.new) /\ P!IsRegistry(w.ts) /\ Twins(w.ts)
    BY <1>1, <2>2 DEF Made, TopicsInv
  <2>4. ASSUME NEW n \in P!Name, P!Resolve(topics, n) # None
        PROVE  P!Resolve(topics', n) = P!Moved(P!Resolve(topics, n)) /\ P!Resolve(topics', n) # None
    <3>1. P!Resolve(w.new, n) = Follow(w.new, P!Resolve(w.ts, n)) /\ P!Resolve(w.new, n) # None
      BY <1>1, <2>2, <2>3, <2>4, MadeMeans
    <3> HIDE DEF w
    <3> QED
      BY <1>2, <2>2, <3>1 DEF Follow, P!Moved
  <2>5. ASSUME NEW d \in P!Document, d \in P!Retagged(w)
        PROVE  /\ IsMerged(w.ts, w.new, w.from, w.to) /\ d \in DOMAIN w.read
               /\ P!Resolve(w.ts, w.read[d]) = w.from
    <3>1. d \in DOMAIN w.read /\ P!Resolve(w.ts, w.read[d]) = w.from
      BY <2>5 DEF P!Retagged
    <3>2. w.read # <<>>
      BY <3>1
    <3> QED
      BY <1>1, <3>1, <3>2 DEF Made
  <2>6. ASSUME NEW d \in P!Document, d \in P!Retagged(w)
        PROVE  /\ w.to \in Slug /\ P!Resolve(topics', w.to) = w.to /\ P!Moved(w.from) = w.to
    <3>1. /\ w.from \in Slug /\ w.to \in Slug /\ w.from # w.to /\ w.new = Merged(w.ts, w.from, w.to)
          /\ w.ts[w.from] # None /\ w.ts[w.to] # None /\ w.ts[w.to].into = None
      BY <2>5, <2>6 DEF IsMerged, P!IsActive
    <3>2. w.ts \in Registry
      BY <1>1, <2>2
    <3>3. w.new[w.from] # None /\ w.new[w.from].into = w.to /\ w.new[w.to] # None /\
            w.new[w.to].into = None
      BY <3>1, <3>2, MergedIs
    <3> HIDE DEF w
    <3> QED
      BY <1>2, <3>1, <3>3, SlugsAreNames DEF P!Resolve, P!Moved
  <2>7. ASSUME NEW d \in P!Document, tag[d] # None
        PROVE  /\ tag'[d] \in P!Name /\ P!Resolve(topics', tag'[d]) # None
               /\ \/ P!Resolve(topics', tag'[d]) = P!Moved(P!Resolve(topics, tag[d]))
                  \/ P!Torn(c, d)
    <3>0. tag[d] \in P!Name /\ P!Resolve(topics, tag[d]) # None
      BY <1>1, <2>7 DEF Tags, TopicsInv
    <3>1. CASE d \notin P!Retagged(w)
      <4>1. tag'[d] = tag[d]
        BY <1>2, <3>1
      <4> QED
        BY <2>4, <3>0, <4>1
    <3>2. CASE d \in P!Retagged(w)
      <4>1. tag'[d] = w.to
        BY <1>2, <3>2
      <4>2. tag'[d] \in P!Name /\ P!Resolve(topics', tag'[d]) = w.to /\ w.to # None
        BY <2>6, <3>2, <4>1, SlugsAreNames
      <4>3. CASE w.read[d] = w.hashed[d]
        <5>1. P!Resolve(topics, tag[d]) = w.from
          BY <2>2, <2>5, <3>2, <4>3
        <5> QED
          BY <2>6, <3>2, <4>2, <5>1
      <4>4. CASE w.read[d] # w.hashed[d]
        <5>1. P!Torn(c, d)
          BY <2>5, <3>2, <4>4 DEF P!Torn
        <5> QED
          BY <4>2, <5>1
      <4> QED
        BY <4>3, <4>4
    <3> QED
      BY <3>1, <3>2
  <2>8. ASSUME NEW d \in P!Document, tag[d] = None
        PROVE  tag'[d] \in Tags /\ (tag'[d] # None => P!Resolve(topics', tag'[d]) # None)
    <3>1. CASE d \in P!Retagged(w)
      BY <1>2, <2>6, <3>1, SlugsAreNames DEF Tags
    <3>2. CASE d \notin P!Retagged(w)
      BY <1>2, <2>8, <3>2 DEF Tags
    <3> QED
      BY <3>1, <3>2
  <2>9. tag' \in [P!Document -> Tags]
    BY <1>2, <2>7, <2>8 DEF Tags
  <2>10. TopicsTyped'
    BY <1>1, <1>2, <2>3, <2>9 DEF TopicsInv, TopicsTyped
  <2>11. Twins(w.new)
    BY <1>1, <2>3, MadeNoTwins
  <2>12. \A d \in Agent : Intends(d)'
    BY <1>1, <2>1 DEF TopicsInv, Intends
  <2>13. TopicsInv'
    BY <1>2, <2>3, <2>7, <2>8, <2>10, <2>11, <2>12 DEF TopicsInv
  <2>14. Meanings
    BY <1>1, <2>1, <2>4, <2>7 DEF Meanings
  <2> QED
    BY <2>13, <2>14
<1>3. CASE /\ topicCall' = [topicCall EXCEPT ![c] = "refused"] /\ UNCHANGED <<topics, tag>>
           /\ topicRevision' \in {topicRevision, topicRevision + 1}
  <2>1. topicCall'[c] = "refused" /\ \A d \in Agent : d # c => topicCall'[d] = topicCall[d]
    BY <1>3 DEF TopicsInv, TopicsTyped
  <2>2. TopicsTyped'
    BY <1>1, <1>3 DEF TopicsInv, TopicsTyped
  <2>3. \A d \in Agent : Intends(d)'
    BY <1>1, <2>1 DEF TopicsInv, Intends
  <2> QED
    BY <1>3, <2>2, <2>3 DEF TopicsInv, Meanings
<1> QED
  BY <1>2, <1>3 DEF P!Apply, P!Goto

LEMMA TagKeeps ==
  ASSUME TopicConstants, TopicsInv,
         (\E d \in P!Document, n \in P!Name : P!Tag(d, n)) \/ UNCHANGED topicVars
  PROVE  TopicsInv' /\ Meanings
<1>1. CASE UNCHANGED topicVars
  BY <1>1 DEF topicVars, TopicsInv, TopicsTyped, Intends, Meanings
<1>2. CASE \E d \in P!Document, n \in P!Name : P!Tag(d, n)
  <2>1. PICK d \in P!Document, n \in P!Name : P!Tag(d, n)
    BY <1>2
  <2>2. /\ tag' = [tag EXCEPT ![d] = n] /\ P!Resolve(topics, n) # None
        /\ topicRevision' = topicRevision + 1 /\ tags' = tags + 1 /\
           UNCHANGED <<topics, topicCall, wanted>>
    BY <2>1 DEF P!Tag
  <2>3. TopicsTyped'
    BY <2>2 DEF TopicsInv, TopicsTyped, Tags
  <2>4. \A e \in P!Document : tag'[e] # None => P!Resolve(topics', tag'[e]) # None
    BY <2>2 DEF TopicsInv, TopicsTyped
  <2>5. \A c \in Agent : Intends(c)'
    BY <2>2 DEF TopicsInv, Intends
  <2> QED
    BY <2>2, <2>3, <2>4, <2>5 DEF TopicsInv, Meanings
<1> QED
  BY <1>1, <1>2

LEMMA TopicsStep ==
  ASSUME TopicConstants, TopicsInv, [P!TopicsNext]_(P!topicVars)
  PROVE  TopicsInv' /\ Meanings
<1>1. P!topicVars = topicVars
  BY DEF P!topicVars, topicVars
<1>2. ASSUME NEW c \in Agent, P!HashDocument(c) \/ P!ReadDocument(c) \/ P!Propose(c) \/ P!Apply(c)
      PROVE  TopicsInv' /\ Meanings
  BY <1>2, ReadingKeepsTopics, ApplyKeepsTopics
<1>3. CASE \E c \in Agent, s \in Slug :
         \/ \E names \in {{}} \cup {{n} : n \in Alias},
            noted \in {{}} \cup {{t} : t \in Slug} : P!Add(c, s, names, noted)
         \/ \E n \in Alias : P!AddAlias(c, s, n)
         \/ \E t \in Slug : P!Merge(c, s, t)
  <2>1. PICK c \in Agent, s \in Slug :
         \/ \E names \in {{}} \cup {{n} : n \in Alias},
            noted \in {{}} \cup {{t} : t \in Slug} : P!Add(c, s, names, noted)
         \/ \E n \in Alias : P!AddAlias(c, s, n)
         \/ \E t \in Slug : P!Merge(c, s, t)
    BY <1>3
  <2> QED
    BY <2>1, AskedKeeps
<1> QED
  BY <1>1, <1>2, <1>3, TagKeeps DEF P!TopicsNext, topicVars, P!topicVars

LEMMA TopicsHold ==
  ASSUME TopicConstants
  PROVE  P!TopicsSpec => P!NamesKeepResolving /\ []P!NoSilentTwins
<1>1. P!TopicsInit => TopicsInv
  BY TopicsBegin
<1>2. TopicsInv /\ [P!TopicsNext]_(P!topicVars) => TopicsInv'
  BY TopicsStep
<1>3. TopicsInv => P!NoSilentTwins
  BY DEF TopicsInv, Twins, P!NoSilentTwins
<1>4. TopicsInv /\ [P!TopicsNext]_(P!topicVars) => Meanings
  BY TopicsStep
<1> QED
  BY <1>1, <1>2, <1>3, <1>4, PTL DEF P!TopicsSpec, P!NamesKeepResolving, Meanings

-----------------------------------------------------------------------------
(* All the records.                                                        *)
RecordsConstants ==
  SuggestionConstants /\ TaskConstants /\ EvidenceConstants /\ TopicConstants

RecordsInv == SuggestionsInv /\ TasksInv /\ EvidenceInv /\ TopicsInv

LEMMA RecordsInvHolds ==
  ASSUME RecordsConstants
  PROVE  RecordsSpec => []RecordsInv
<1>1. SuggestionConstants /\ TaskConstants /\ EvidenceConstants /\ TopicConstants
  BY DEF RecordsConstants
<1>2. S!SuggestionsInit => SuggestionsInv
  BY <1>1, SuggestionsBegin
<1>3. SuggestionsInv /\ [S!SuggestionsNext]_(S!suggestionVars) => SuggestionsInv'
  BY <1>1, SuggestionsStep
<1>4. T!TasksInit => TasksInv
  BY <1>1, TasksBegin
<1>5. TasksInv /\ [T!TasksNext]_(T!tasksVars) => TasksInv'
  BY <1>1, TasksStep
<1>6. E!EvidenceInit => EvidenceInv
  BY <1>1, EvidenceBegins
<1>7. EvidenceInv /\ [E!EvidenceNext]_(E!evidenceVars) => EvidenceInv'
  BY <1>1, EvidenceStep
<1>8. P!TopicsInit => TopicsInv
  BY <1>1, TopicsBegin
<1>9. TopicsInv /\ [P!TopicsNext]_(P!topicVars) => TopicsInv'
  BY <1>1, TopicsStep
<1> QED
  BY <1>2, <1>3, <1>4, <1>5, <1>6, <1>7, <1>8, <1>9, PTL
     DEF RecordsSpec, RecordsInv, S!SuggestionsSpec, T!TasksSpec, E!EvidenceSpec, P!TopicsSpec

(* What the model counts: an artifact is processed or not, and documents    *)
(* are tagged so often.                                                     *)
LEMMA ArtifactTyped ==
  E!EvidenceSpec => [](artifact \in {"pending", "processed"})
<1>1. E!EvidenceInit => artifact \in {"pending", "processed"}
  BY DEF E!EvidenceInit
<1>2. /\ artifact \in {"pending", "processed"} /\ [E!EvidenceNext]_(E!evidenceVars)
      => (artifact \in {"pending", "processed"})'
  BY DEF E!EvidenceNext, E!evidenceVars, E!Ask, E!Declare, E!Observe, E!Restore, E!Relate,
         E!Hash, E!Propose, E!Apply, E!Complete, E!Change, E!Move, E!Reindex
<1> QED
  BY <1>1, <1>2, PTL DEF E!EvidenceSpec

LEMMA TagsTyped ==
  ASSUME TopicConstants
  PROVE  P!TopicsSpec => [](tags \in 0..MaxTags)
<1> USE DEF TopicConstants
<1>1. P!TopicsInit => tags \in 0..MaxTags
  BY DEF P!TopicsInit
<1>2. ASSUME NEW c \in Agent, NEW s \in Slug,
             \/ \E names \in {{}} \cup {{n} : n \in Alias},
                   noted \in {{}} \cup {{t} : t \in Slug} : P!Add(c, s, names, noted)
             \/ \E n \in Alias : P!AddAlias(c, s, n)
             \/ \E t \in Slug : P!Merge(c, s, t)
      PROVE  UNCHANGED tags
  BY <1>2 DEF P!Want, P!Add, P!AddAlias, P!Merge
<1>3. ASSUME NEW c \in Agent,
             P!HashDocument(c) \/ P!ReadDocument(c) \/ P!Propose(c) \/ P!Apply(c)
      PROVE  UNCHANGED tags
  BY <1>3 DEF P!HashDocument, P!ReadDocument, P!Propose, P!Apply
<1>4. ASSUME NEW d \in P!Document, NEW n \in P!Name, P!Tag(d, n)
      PROVE  tags < MaxTags /\ tags' = tags + 1
  BY <1>4 DEF P!Tag
<1>5. [P!TopicsNext]_(P!topicVars) => UNCHANGED tags \/ (tags < MaxTags /\ tags' = tags + 1)
  BY <1>2, <1>3, <1>4, Zenon DEF P!TopicsNext, P!topicVars
<1>6. tags \in 0..MaxTags /\ [P!TopicsNext]_(P!topicVars) => (tags \in 0..MaxTags)'
  BY <1>5
<1> QED
  BY <1>1, <1>6, PTL DEF P!TopicsSpec

(* Every record, claim, document and topic is of its kind, and so is all    *)
(* that a call is about to write of them.                                   *)
THEOREM RecordsTyped ==
  ASSUME RecordsConstants
  PROVE  RecordsSpec => []RecordsTypeOK
<1>1. TopicConstants
  BY DEF RecordsConstants
<1>2. SuggestionsInv => S!SuggestionsTypeOK
  BY DEF SuggestionsInv, SuggestionsTyped, S!SuggestionsTypeOK
<1>3. TasksInv => T!TasksTypeOK
  BY DEF TasksInv, TasksTyped, T!TasksTypeOK
<1>4. TopicsInv /\ tags \in 0..MaxTags => P!TopicsTypeOK
  BY DEF TopicsInv, TopicsTyped, P!TopicsTypeOK, Registry, Tags
<1>5. EvidenceInv /\ artifact \in {"pending", "processed"} => E!EvidenceTypeOK
  BY DEF EvidenceInv, EvidenceTyped, E!EvidenceTypeOK, Staged, SoundPlan, PlanOf
<1>6. RecordsInv /\ artifact \in {"pending", "processed"} /\ tags \in 0..MaxTags => RecordsTypeOK
  BY <1>2, <1>3, <1>4, <1>5 DEF RecordsInv, RecordsTypeOK
<1> QED
  BY <1>1, <1>6, RecordsInvHolds, ArtifactTyped, TagsTyped, PTL DEF RecordsSpec

(* Calls that overlap lose nothing of each other: no suggestion is replaced *)
(* by another or by a decision about it (suggestions/service.py), an update *)
(* of a task changes the one field it is about (tasks/service.py), and what *)
(* is drawn from evidence adds to documents of others                       *)
(* (evidence/service.py).                                                   *)
THEOREM NothingGetsLost ==
  ASSUME RecordsConstants
  PROVE  RecordsSpec => NothingIsLost
BY SuggestionsSurvive, TasksHold, EvidenceHolds, PTL
   DEF RecordsConstants, RecordsSpec, NothingIsLost

(* The claims about a task tell what the task says, once the transaction of *)
(* a call is through (tasks/service.py, _update_claimed_field), and no      *)
(* document drawn from evidence is there twice (evidence/service.py).       *)
THEOREM RecordsStayAgreed ==
  ASSUME RecordsConstants
  PROVE  RecordsSpec => []RecordsAgree
<1>1. TasksInv => T!ClaimsTellTask
  BY GoodTells DEF RecordsConstants
<1>2. EvidenceInv => E!OneOfEach
  BY DEF EvidenceInv
<1>3. RecordsInv => RecordsAgree
  BY <1>1, <1>2 DEF RecordsInv, RecordsAgree
<1> QED
  BY <1>3, RecordsInvHolds, PTL

(* A name that once meant a topic goes on to mean it, or the topic it was   *)
(* merged into, tags too, and no two active topics look the same unless     *)
(* somebody noted that they differ (topics/service.py).                     *)
THEOREM TopicsStayAsTheyWere ==
  ASSUME RecordsConstants
  PROVE  RecordsSpec => TopicsStaySound
BY TopicsHold, PTL DEF RecordsConstants, RecordsSpec, TopicsStaySound
=============================================================================
