----------------------------- MODULE ContextPack -----------------------------
(***************************************************************************)
(* Context packs: a focal task or entity with what the index knows about   *)
(* it, in sections, ranked, and cut to a budget.  A pack is assembled from *)
(* many queries, each of which opens the index anew, while the index is    *)
(* rebuilt without waiting for readers; the metadata of the index before   *)
(* and after decide whether what was gathered is one generation of it.     *)
(*                                                                         *)
(* Documents, claims, observations and edges are numbers, the focal        *)
(* document is 0.  A record carries the scores of its confidence, its      *)
(* importance and its source quality, and the words a query may match;     *)
(* what text an item has is left out, and its size is given.               *)
(***************************************************************************)
EXTENDS Integers, Sequences, FiniteSets, FiniteSetsExt, SequencesExt

CONSTANTS
  Graph,        \* contents that the index can have
  Budget,       \* what callers ask for,
  Query,        \* and the words they look for
  Units(_),     \* the size of an item,
  FocalUnits,   \* of the focal item,
  MinimalUnits, \* and of its identity and state alone
  MaxBuilds,    \* how often the index is rebuilt
  None

VARIABLES
  index,    \* its content, and the number of its last build
  asked,    \* the budget and the options of the call, once they matter
  pc,       \* where the call is
  attempt,
  found,    \* what the queries of this attempt have returned
  pack      \* the pack, once it is built

packVars == <<index, asked, pc, attempt, found, pack>>

Focal == 0

(* What the caller asks for.  It changes no query, so that it is chosen     *)
(* when the pack is put together.                                          *)
Request == [budget : Budget, query : Query, history : BOOLEAN, architecture : BOOLEAN]

Ended == {"built", "not_found", "changed", "failed"}

Blank == [stamp |-> None, focal |-> None, edges |-> <<>>, nodes |-> <<>>, cited |-> {},
          observed |-> {}, claims |-> {}, tasks |-> <<>>, people |-> <<>>]

PackInit ==
  /\ index \in [graph : Graph, build : {0}]
  /\ asked = None
  /\ pc = "resolve" /\ attempt = 1 /\ found = Blank /\ pack = None
-----------------------------------------------------------------------------
(* Ranking: eight factors from 0 to 100 and their weights.                  *)
Weights == <<20, 15, 15, 10, 15, 10, 5, 10>>

Semantics(rel) ==
  CASE rel \in {"evidenced_by", "contradicts", "supersedes"} -> 100
    [] rel \in {"depends_on", "blocks", "waiting_on"} -> 95
    [] rel = "owned_by" -> 90
    [] rel \in {"parent_of", "requested_by"} -> 85
    [] rel = "calls" -> 70
    [] rel = "mentions" -> 40
    [] OTHER -> 0

(* The age in days of the evidence, as of the newest among the candidates.  *)
Recency(time, now) ==
  IF time = None THEN 0
  ELSE LET buckets == <<<<7, 100>>, <<30, 80>>, <<90, 60>>, <<180, 40>>, <<365, 20>>>>
           fits == {i \in DOMAIN buckets : now - time <= buckets[i][1]}
       IN IF fits = {} THEN 0 ELSE buckets[Min(fits)][2]

State(status) ==
  CASE status = "current" -> 100 [] status = "uncertain" -> 60
    [] status = "superseded" -> 25 [] status = "retracted" -> 0 [] OTHER -> 50

Match(query, words) ==
  IF query = {} THEN 0
  ELSE (100 * Cardinality(query \cap words)) \div Cardinality(query)

Factors(e, now, query) ==
  <<Semantics(e.rel), Recency(e.time, now), State(e.status), e.conf,
    Max({0, 100 - 20 * e.depth}), Match(query, e.words), e.importance, e.quality>>

(* Candidates are ordered by their total, then factor by factor, then by    *)
(* section and name.                                                        *)
Lower(a, b) == \E i \in DOMAIN a : a[i] < b[i] /\ \A j \in 1..i-1 : a[j] = b[j]

SortKey(e, now, query) ==
  LET fs == Factors(e, now, query)
      total == FoldFunction(+, 0, [i \in 1..8 |-> fs[i] * Weights[i]])
  IN <<-total>> \o [i \in 1..8 |-> -fs[i]] \o <<e.section>> \o e.id

Ranked(entries, query) ==
  LET times == {e.time : e \in entries} \ {None}
      now == IF times = {} THEN 0 ELSE Max(times)
      keyed == {<<SortKey(e, now, query), e>> : e \in entries}
      placed == {<<Cardinality({q \in keyed : Lower(q[1], p[1])}), p[2]>> : p \in keyed}
  IN [i \in 1..Cardinality(entries) |-> (CHOOSE p \in placed : p[1] = i - 1)[2]]
-----------------------------------------------------------------------------
(* The entries of each section; sections are numbered as their names sort.  *)
Architecture  == 1
Claims        == 2
Contradictory == 3
Decisions     == 4
Relationships == 5
People        == 6
Tasks         == 7
Observations  == 8

Nothing == [time |-> None, quality |-> 0]
Backing(o) == IF o = None THEN Nothing ELSE [time |-> o.time, quality |-> o.quality]
Plain(importance) == [conf |-> 0, importance |-> importance, words |-> {}]

Entry(section, id, tier, rel, record, backing, status, depth) ==
  [section |-> section, id |-> id, tier |-> tier, rel |-> rel, status |-> status,
   depth |-> depth, conf |-> record.conf, importance |-> record.importance,
   words |-> record.words, time |-> backing.time, quality |-> backing.quality]

Itself(n)  == <<0, n, 0>>
Edge(n)    == <<1, n, 0>>
Slot(n)    == <<2, n, 0>>
Contact(n, o) == <<3, n, o>>
Missing(n) == <<4, n, 0>>
Former(n)  == <<5, n, 0>>
Summary    == <<6, 0, 0>>

(* The first of the named observations that was found. *)
First(r, names) ==
  LET known == SelectSeq(names, LAMBDA n : \E o \in r.observed : o.id = n) IN
  IF known = <<>> THEN None ELSE CHOOSE o \in r.observed : o.id = known[1]

Historical(r) == {c \in r.claims : c.status \notin {"current", "uncertain"}}

ClaimEntries(r, history) ==
  {Entry(Claims, Itself(c.id), IF c \in Historical(r) THEN 1 ELSE 8, "evidenced_by", c,
         Backing(First(r, c.obs)), c.status, 0) :
     c \in IF history THEN r.claims ELSE r.claims \ Historical(r)}
  \cup IF history \/ Historical(r) = {} THEN {}
       ELSE {Entry(Claims, Summary, 1, "none",
                   [Plain(55) EXCEPT !.conf = Max({c.conf : c \in Historical(r)})],
                   Nothing, "superseded", 0)}

EdgeEntry(r, e, section, tier) ==
  LET record == r.nodes[e.with] IN
  Entry(section, Edge(e.id), tier, e.rel,
        [conf |-> e.conf, words |-> e.words,
         importance |-> IF record = None THEN 0 ELSE record.importance],
        Backing(First(r, e.obs)), "none", 1)

RelationshipEntries(r) ==
  {EdgeEntry(r, e, Relationships, 5) : e \in ToSet(r.edges)}

ObservationEntries(r) ==
  {Entry(Observations, Itself(o.id), 7, "evidenced_by", o, Backing(o), "none", 1) :
     o \in r.observed}
  \cup {Entry(Observations, Missing(n), 7, "evidenced_by", Plain(55), Nothing, "none", 1) :
          n \in r.cited \ {o.id : o \in r.observed}}

(* The neighbors of some types, each with the first edge that leads to it.  *)
NodeEntries(r, types, section, tier) ==
  {LET e == SelectSeq(r.edges, LAMBDA x : x.with = n)[1] IN
   Entry(section, Itself(n), tier, e.rel, r.nodes[n], Backing(First(r, e.obs)), "none", 1) :
     n \in {m \in DOMAIN r.nodes : r.nodes[m] # None /\ r.nodes[m].type \in types}}

(* What comes first under a name stays. *)
Unless(entries, others) ==
  entries \cup {e \in others : \A x \in entries : x.id # e.id}

Linked(links, section, tier) ==
  FoldSeq(LAMBDA l, acc : Unless(acc, {Entry(section, Itself(l.name), tier, l.rel,
                                             l.record, Nothing, "none", 1)}),
          {}, SelectSeq(links, LAMBDA l : l.record # None))

TaskEntries(r) ==
  Unless(NodeEntries(r, {"task"}, Tasks, 4), Linked(r.tasks, Tasks, 4))
  \cup {LET l == r.tasks[i] IN
        Entry(Tasks, Slot(i), 4, l.rel,
              [conf |-> r.focal.conf, words |-> {},
               importance |-> IF l.record = None THEN 70 ELSE l.record.importance],
              Nothing, "none", 1) :
          i \in {j \in DOMAIN r.tasks : r.tasks[j].field}}

PeopleEntries(r) ==
  LET linked == Unless(NodeEntries(r, {"person"}, People, 2), Linked(r.people, People, 2))
      names  == {e.id[2] : e \in linked}
      strange == {r.people[i].name : i \in {j \in DOMAIN r.people : r.people[j].record = None}}
      strangers == {Entry(People, Contact(n, 0), 2,
                          SelectSeq(r.people, LAMBDA l : l.name = n)[1].rel,
                          Plain(60), Nothing, "none", 1) : n \in strange}
      met(n) == SelectSeq(r.edges, LAMBDA e : e.with = n)
      by(n, o) == SelectSeq(met(n), LAMBDA e : o.id \in ToSet(e.obs))
      talks == {Entry(People, Contact(x[1], x[2].id), 2, by(x[1], x[2])[1].rel,
                      [x[2] EXCEPT !.importance = 60], Backing(x[2]), "none", 1) :
                  x \in {y \in names \X r.observed : by(y[1], y[2]) # <<>>}}
  IN linked \cup strangers \cup talks

ContradictoryEntries(r) ==
  {EdgeEntry(r, e, Contradictory, 6) :
     e \in {x \in ToSet(r.edges) : x.rel \in {"contradicts", "supersedes"}}}
  \cup {Entry(Contradictory, Former(c.id), 6, "supersedes", c, Backing(First(r, c.obs)),
              c.status, 1) : c \in Historical(r)}

Entries(r, a) ==
  ClaimEntries(r, a.history) \cup RelationshipEntries(r) \cup ObservationEntries(r)
  \cup TaskEntries(r) \cup PeopleEntries(r)
  \cup NodeEntries(r, {"decision", "risk", "question"}, Decisions, 3)
  \cup ContradictoryEntries(r)
  \cup IF a.architecture THEN NodeEntries(r, {"system", "module"}, Architecture, 0) ELSE {}
-----------------------------------------------------------------------------
(* The budget: entries go tier by tier, the lowest ranked first, until the  *)
(* rest fits; when nothing is left to go, the focal item is compacted.      *)
RemovalOrder(ranked) ==
  FlattenSeq([n \in 1..9 |-> Reverse(SelectSeq(ranked, LAMBDA e : e.tier = n - 1))])

(* UnitsAfter(order)[k]: what is left when the first k are gone. *)
UnitsAfter(order) ==
  LET left[k \in 0..Len(order)] ==
        IF k = Len(order) THEN 0 ELSE Units(order[k+1]) + left[k+1]
  IN left

FittingBelow(order, a) ==
  {k \in 0..Len(order) : FocalUnits + UnitsAfter(order)[k] < a.budget}

Fitting(order, a) ==
  {k \in 0..Len(order) : FocalUnits + UnitsAfter(order)[k] <= a.budget}

Cut(entries, a) ==
  LET ranked == Ranked(entries, a.query)
      order  == RemovalOrder(ranked)
      fits   == Fitting(order, a)
      k      == IF fits = {} THEN Len(order) ELSE Min(fits)
      gone   == SubSeq(order, 1, k)
      focal  == IF fits = {} THEN MinimalUnits ELSE FocalUnits
      used   == focal + UnitsAfter(order)[k]
  IN [items |-> SelectSeq(ranked, LAMBDA e : \A i \in 1..k : gone[i] # e),
      omitted |-> gone, focal |-> focal, used |-> used, within |-> used <= a.budget]
-----------------------------------------------------------------------------
(* The queries of an attempt, in their order. *)

Known(g, n) == IF n \in DOMAIN g.node THEN g.node[n] ELSE None

Nodes(g, r) == [n \in {r.edges[i].with : i \in DOMAIN r.edges} |-> Known(g, n)]

(* Observations that edges, claims of whatever status, and a task name.     *)
CitedBy(g) ==
  IF g.focal = None THEN {}
  ELSE g.focal.sources \cup UNION {ToSet(c.obs) : c \in g.claims}
                       \cup UNION {ToSet(e.obs) : e \in ToSet(g.edges)}

Observed(g, r) == {o \in g.obs : o.id \in r.cited \/ o.parent = Focal}

(* Subtasks and what the fields of the task name; people its fields name.   *)
TaskLinks(g, r) ==
  LET children == SetToSeq({n \in DOMAIN g.node : g.node[n].parent = Focal})
      link(n, rel, field) == [name |-> n, rel |-> rel, field |-> field, record |-> Known(g, n)]
  IN [i \in DOMAIN children |-> link(children[i], "parent_of", FALSE)]
     \o [i \in DOMAIN r.focal.tasks |->
           link(r.focal.tasks[i].name, r.focal.tasks[i].rel,
                r.focal.tasks[i].rel # "parent_of")]

PeopleLinks(g, r) ==
  [i \in DOMAIN r.focal.people |->
     [name |-> r.focal.people[i].name, rel |-> r.focal.people[i].rel,
      record |-> Known(g, r.focal.people[i].name)]]

Reply(l, g, r) ==
  CASE l = "edges"    -> [r EXCEPT !.edges = g.edges]
    [] l = "nodes"    -> [r EXCEPT !.nodes = Nodes(g, r)]
    [] l = "cited"    -> [r EXCEPT !.cited = CitedBy(g)]
    [] l = "observed" -> [r EXCEPT !.observed = Observed(g, r)]
    [] l = "claims"   -> [r EXCEPT !.claims = g.claims]
    [] l = "tasks"    -> IF r.focal.task THEN [r EXCEPT !.tasks = TaskLinks(g, r)] ELSE r
    [] l = "people"   -> IF r.focal.task THEN [r EXCEPT !.people = PeopleLinks(g, r)] ELSE r

Stages == <<"edges", "nodes", "cited", "observed", "claims", "tasks", "people", "after">>

Gather(i) ==
  /\ pc = Stages[i]
  /\ found' = Reply(Stages[i], index.graph, found)
  /\ pc' = Stages[i+1]
  /\ UNCHANGED <<index, asked, attempt, pack>>
-----------------------------------------------------------------------------
(* The call. *)

ResolveFocal(from, to) ==
  /\ pc = from
  /\ pc' = IF index.graph.focal = None THEN "not_found" ELSE to
  /\ found' = [found EXCEPT !.focal = index.graph.focal]
  /\ UNCHANGED <<index, asked, attempt, pack>>

Resolve == ResolveFocal("resolve", "before")
Refocus == ResolveFocal("focal", "edges")

Before ==
  /\ pc = "before"
  /\ found' = [Blank EXCEPT !.stamp = index]
  /\ pc' = "focal"
  /\ UNCHANGED <<index, asked, attempt, pack>>

SameContent(left, right) == left.graph = right.graph

SameProjection(left, right) == left = right

(* A pack is built if the index is what it was; a first attempt that failed *)
(* is followed by a second one, and that is all.                            *)
After ==
  /\ pc = "after"
  /\ \/ /\ SameProjection(found.stamp, index)
        /\ asked' \in Request
        /\ pack' = Cut(Entries(found, asked'), asked')
        /\ pc' = "built"
        /\ UNCHANGED attempt
     \/ /\ ~SameProjection(found.stamp, index) /\ attempt = 1
        /\ attempt' = 2 /\ pc' = "before"
        /\ UNCHANGED <<asked, pack>>
     \/ /\ ~SameProjection(found.stamp, index) /\ attempt = 2
        /\ pc' = "changed"
        /\ UNCHANGED <<attempt, asked, pack>>
  /\ UNCHANGED <<index, found>>

(* A query that cannot open the index, or is told that it is invalid.       *)
Fail ==
  /\ pc \notin Ended
  /\ pc' = "failed"
  /\ UNCHANGED <<index, asked, attempt, found, pack>>

Rebuild ==
  /\ pc \notin Ended /\ index.build < MaxBuilds
  /\ \E g \in Graph : index' = [graph |-> g, build |-> index.build + 1]
  /\ UNCHANGED <<asked, pc, attempt, found, pack>>

PackNext ==
  \/ Resolve \/ Before \/ Refocus \/ After \/ Fail \/ Rebuild
  \/ \E i \in 1..Len(Stages)-1 : Gather(i)

PackSpec == PackInit /\ [][PackNext]_packVars
-----------------------------------------------------------------------------
PackTypeOK ==
  /\ index \in [graph : Graph, build : 0..MaxBuilds]
  /\ pc \in {"resolve", "before", "focal"} \cup ToSet(Stages) \cup Ended
  /\ attempt \in 1..2

(* All that the queries of an attempt have returned is what one index holds. *)
OfGeneration(g) ==
  /\ found.focal = g.focal /\ found.edges = g.edges /\ found.claims = g.claims
  /\ found.nodes = Nodes(g, found)
  /\ found.cited = CitedBy(g) /\ found.observed = Observed(g, found)
  /\ found.tasks = IF g.focal.task THEN TaskLinks(g, found) ELSE <<>>
  /\ found.people = IF g.focal.task THEN PeopleLinks(g, found) ELSE <<>>

(* A pack never mixes generations: all it was assembled from is what the    *)
(* index it is stamped with holds, even when rebuilds bring back an earlier *)
(* content, and only a call that saw two of them gives up                   *)
(* (retrieval/builder.py, build_pack).                                      *)
PacksOfOneGeneration ==
  /\ pc = "built" => OfGeneration(found.stamp.graph)
  /\ pc = "changed" => index.build >= 2

(* docs/reference/context-packs.md, "Budget units and truncation": the      *)
(* order in which items are removed.                                        *)
Worth(e) ==
  CASE e.section = Architecture -> 1
    [] e.section = Claims -> IF e.status \in {"current", "uncertain"} THEN 9 ELSE 2
    [] e.section = People -> 3
    [] e.section = Decisions -> 4
    [] e.section = Tasks -> 5
    [] e.section = Relationships -> 6
    [] e.section = Contradictory -> 7
    [] e.section = Observations -> 8

(* A pack accounts for everything that was gathered, each item once, drops  *)
(* nothing before something that matters less and nothing without need, and *)
(* touches the focal item last (retrieval/builder.py, _rank_and_group and   *)
(* _apply_budget).                                                          *)
BudgetsAreKept ==
  pc = "built" =>
    LET kept == ToSet(pack.items)
        gone == ToSet(pack.omitted)
        order == Ranked(kept \cup gone, asked.query)
        value == [i \in DOMAIN order |-> <<Worth(order[i]), -i>>]
    IN /\ \A e, f \in kept \cup gone :
             e.section = f.section /\ e.id = f.id => e = f
       /\ kept \cup gone = Entries(found, asked) /\ kept \cap gone = {}
       /\ \A i, j \in DOMAIN order :
             order[i] \in gone /\ order[j] \in kept => Lower(value[i], value[j])
       /\ pack.used = pack.focal + MapThenSumSet(Units, kept)
       /\ pack.within <=> pack.used <= asked.budget
       /\ pack.focal = MinimalUnits => kept = {}
       /\ gone # {} =>
            FocalUnits + MapThenSumSet(Units, kept \cup {Last(pack.omitted)}) > asked.budget
=============================================================================
