--------------------------- MODULE WorkspaceRules ---------------------------
(***************************************************************************)
(* What `workctx context validate' finds wrong with a workspace            *)
(* (validation/engine.py), and which documents the projection leaves out   *)
(* of the index (adapters/sqlite/projection.py), as functions of the tree. *)
(*                                                                         *)
(* A path is a number, in the order in which sorted paths are visited; its *)
(* Zone says where it lies and Stem which identity its name promises.      *)
(* An identity is <<type, number, part>>: part is the number of the        *)
(* observation in its evidence, or of the subtask in its task.  A          *)
(* reference is an identity, or a triple whose first member says what else *)
(* it is ("digest" of an artifact, "foreign", "malformed", "alien" type,   *)
(* "moving" repository reference without a commit, "external").            *)
(***************************************************************************)
EXTENDS Naturals, Sequences, FiniteSets, SequencesExt

CONSTANTS Paths, Zone, Stem, NoFile, None, Latest

Place == 1..Paths
Canonical == {"knowledge", "integrations", "work", "outbox"}
Narrative == Canonical \cup {"views"}   \* zones of Markdown files

(* A document as the rules tell documents apart: a typed one has the       *)
(* fields of its model, a broken one cannot be parsed, an invalid one      *)
(* fails its model, a note has no frontmatter and bytes are not text.      *)
Blank ==
  [form |-> "typed", id |-> None, obs |-> <<>>,
   refs |-> {},    \* typed references
   body |-> {},    \* references in the text
   extra |-> {},   \* references in any other scalar
   needs |-> {}, blocks |-> {},                   \* relations of a task
   about |-> None, from |-> 0, to |-> Latest, current |-> FALSE,
   older |-> None, newer |-> None,                \* the same of a claim
   digest |-> None,                               \* content of an artifact
   topics |-> {}, merged |-> {},                  \* used, or registered
   acked |-> {},                                  \* <<path, content>>
   marks |-> {}]   \* "secret", "absolute", "escape", "badobs"

ThePath(zone) == CHOOSE p \in Place : Zone[p] = zone
IdOf(d)       == d.id[1]
Root(id)      == [id EXCEPT ![3] = 0]
Owned(d)      == <<d.id>> \o d.obs
Owns(d, id)   == \E k \in DOMAIN Owned(d) : Owned(d)[k] = id
Repeats(d)    == ~IsInjective(Owned(d))
StraysIn(d)   == {k \in DOMAIN d.obs : d.obs[k][2] # d.id[2]}

(* A document whose identities the engine and the projection can tell.     *)
Sound(d) ==
  /\ d.form = "typed" /\ "badobs" \notin d.marks
  /\ ~Repeats(d) /\ StraysIn(d) = {}

Files(t)     == {p \in Place : t[p] # NoFile}
In(t, zones) == {p \in Files(t) : Zone[p] \in zones}
Texts(t)     == {p \in Files(t) : t[p].form # "bytes"}
Documents(t) == {p \in In(t, Canonical \cup {"manifests"}) : t[p].form \in {"typed", "invalid"}}
Valid(t)     == {p \in Documents(t) : t[p].form = "typed"}
Kind(t, k)   == {p \in Valid(t) : IdOf(t[p]) = k}
Identities(t) == UNION {Range(Owned(t[p])) : p \in Valid(t)}

(* The first document of each identity stands for it.                      *)
First(t, id)     == CHOOSE p \in Valid(t) : t[p].id = id /\ \A q \in Valid(t) : t[q].id = id => p <= q
Standing(t, k)   == {t[p].id : p \in Kind(t, k)}
Before(x, y)     == x[2] < y[2] \/ (x[2] = y[2] /\ x[3] < y[3])
Ordered(ids)     == SetToSortSeq(ids, Before)

(***************************************************************************)
(* Issues.                                                                 *)
(***************************************************************************)
Warnings   == {"CTX-MISPLACED-ENTITY", "CTX-NON-UTF8", "CTX-ABSOLUTE-PATH", "TOPIC-MERGED"}
Advisories == {"REF-ARTIFACT-UNAVAILABLE", "REF-EXTERNAL-UNAVAILABLE"}

Report(code, severity, ps) == {[code |-> code, path |-> p, severity |-> severity] : p \in ps}
At(code, ps) ==
  Report(code, IF code \in Warnings THEN "warning"
               ELSE IF code \in Advisories THEN "advisory" ELSE "error", ps)

AckFile(t) == t[ThePath("acks")]
Acknowledged(t, p) ==
  /\ AckFile(t) # NoFile /\ AckFile(t).form = "typed"
  /\ <<p, t[p]>> \in AckFile(t).acked

TextIssues(t) ==
  LET found   == {p \in Texts(t) : "secret" \in t[p].marks}
      known   == {p \in found : Acknowledged(t, p)}
      work(S) == {p \in S : Zone[p] = "outputs"}
      roots   == {p \in Texts(t) : "absolute" \in t[p].marks}
      bytes   == Files(t) \ Texts(t)
  IN  Report("CTX-POSSIBLE-SECRET", "advisory", known)
      \cup Report("CTX-POSSIBLE-SECRET", "warning", work(found \ known))
      \cup At("CTX-POSSIBLE-SECRET", found \ (known \cup work(found)))
      \cup At("CTX-ABSOLUTE-PATH", roots \ work(roots))
      \cup Report("CTX-ABSOLUTE-PATH", "advisory", work(roots))
      \cup At("CTX-NON-UTF8", bytes)
      \cup At("CTX-SECRET-ACKNOWLEDGMENT-INVALID",
              {p \in Texts(t) : Zone[p] = "acks" /\ t[p].form # "typed"})

(* An absent registry is an empty one; without a readable one the topics   *)
(* of documents are not checked and no checkpoint's topic resolves.        *)
TopicFile(t) == t[ThePath("topics")]
Registered(t) == TopicFile(t) = NoFile \/ TopicFile(t).form = "typed"
Resolves(t, topic) ==
  TopicFile(t) # NoFile /\ TopicFile(t).form = "typed"
    /\ topic \in TopicFile(t).topics \cup TopicFile(t).merged
Merged(t, topic) == TopicFile(t) # NoFile /\ topic \in TopicFile(t).merged

Entities(t) == {p \in Valid(t) : IdOf(t[p]) \notin {"claim", "observation", "artifact"}}

TopicIssues(t) ==
  At("TOPIC-REGISTRY", {p \in Files(t) : Zone[p] = "topics" /\ ~Registered(t)})
  \cup (IF ~Registered(t) THEN {}
        ELSE At("TOPIC-MERGED", {p \in Entities(t) : \E x \in t[p].topics : Merged(t, x)})
             \cup At("TOPIC-UNKNOWN",
                     {p \in Entities(t) : \E x \in t[p].topics : ~Resolves(t, x)}))
  \cup At("CHECKPOINT-INVALID",
          {p \in Texts(t) : /\ Zone[p] = "checkpoints"
                            /\ \/ t[p].form # "typed" \/ t[p].id # Stem[p]
                               \/ \E x \in t[p].topics : ~Resolves(t, x)
                               \/ \E r \in t[p].refs : r[1] = "foreign"})

DocumentIssues(t) ==
  LET evidence == Kind(t, "evidence")
      named(p) == Stem[p] # None \/ Zone[p] = "manifests"
  IN  At("CTX-MISPLACED-ENTITY",
         {p \in In(t, Narrative \ {"integrations"}) :
            t[p].form = "typed" /\ t[p].id # None /\ IdOf(t[p]) = "integration"})
      \cup At("DOC-PARSE",
              {p \in In(t, Canonical \cup {"manifests"}) :
                 t[p].form = "broken" \/ (t[p].form \in {"note", "bytes"} /\ named(p))})
      \cup At("DOC-MODEL", Documents(t) \ Valid(t))
      \cup At("DOC-FILENAME-ID", {p \in Valid(t) : t[p].id # Stem[p]})
      \cup At("CTX-PATH-ESCAPE", {p \in Kind(t, "artifact") : "escape" \in t[p].marks})
      \cup At("OBS-INVALID", {p \in evidence : "badobs" \in t[p].marks})
      \cup At("OBS-EVIDENCE-ID", {p \in evidence : StraysIn(t[p]) # {}})
      \cup At("DOC-DUPLICATE-ID",
              {p \in Valid(t) : \/ Repeats(t[p])
                                \/ \E q \in Valid(t) : q < p /\ \E k \in DOMAIN Owned(t[p]) :
                                                                  Owns(t[q], Owned(t[p])[k])})

(* References of a document that is not valid are followed too, but for    *)
(* its own identity.                                                       *)
Unresolvable ==
  [malformed |-> "REF-INVALID-URI", foreign |-> "REF-CONTEXT-MISMATCH",
   alien |-> "REF-UNKNOWN-ENTITY-TYPE", moving |-> "REF-REPO-SHA",
   external |-> "REF-EXTERNAL-UNAVAILABLE"]

Mentions(d) == d.refs \cup d.body \cup d.extra
Local(r)    == r[1] \notin DOMAIN Unresolvable /\ r[1] # "digest"

ReferenceIssues(t) ==
  LET from(R(_)) == {p \in Documents(t) : \E r \in Mentions(t[p]) : R(r)}
      kept       == {t[p].digest : p \in Kind(t, "artifact")}
      known      == Identities(t)
      dangling(r)  == Local(r) /\ r \notin known
      withdrawn(r) == r[1] = "digest" /\ r[2] \notin kept
  IN  At("REF-UNRESOLVED", from(dangling))
      \cup At("REF-ARTIFACT-UNAVAILABLE", from(withdrawn))
      \cup UNION {At(Unresolvable[c], {p \in Documents(t) : \E r \in Mentions(t[p]) : r[1] = c}) :
                    c \in DOMAIN Unresolvable}

(***************************************************************************)
(* The groups of nodes that reach each other, found in two passes: one     *)
(* that notes in which order nodes are left, and one back over the edges.  *)
(***************************************************************************)
RECURSIVE Leaving(_, _, _)
Leaving(g, nodes, walk) ==
  IF nodes = <<>> THEN walk
  ELSE IF Head(nodes) \in walk.seen THEN Leaving(g, Tail(nodes), walk)
  ELSE LET n      == Head(nodes)
           deeper == Leaving(g, Ordered(g[n]), [walk EXCEPT !.seen = @ \cup {n}])
       IN  Leaving(g, Tail(nodes), [deeper EXCEPT !.order = Append(@, n)])

TransposedNot(g) == g

Transposed(g) == [n \in DOMAIN g |-> {m \in DOMAIN g : n \in g[m]}]

RECURSIVE Gathered(_, _, _)
Gathered(back, group, taken) ==
  LET more == UNION {back[n] : n \in group} \ (group \cup taken)
  IN  IF more = {} THEN group ELSE Gathered(back, group \cup more, taken)

CyclicComponents(g) ==
  LET left == Leaving(g, Ordered(DOMAIN g), [seen |-> {}, order |-> <<>>]).order
      back == Transposed(g)
      take(groups, n) ==
        IF n \in UNION groups THEN groups
        ELSE groups \cup {Gathered(back, {n}, UNION groups)}
      all  == FoldLeft(take, {}, Reverse(left))
  IN  {c \in all : Cardinality(c) > 1 \/ \E n \in c : n \in g[n]}

Least(ids) == CHOOSE x \in ids : \A y \in ids \ {x} : Before(x, y)
OnCycles(t, code, g) == At(code, {First(t, Least(c)) : c \in CyclicComponents(g)})

(***************************************************************************)
(* Tasks: a subtask has its parent, an edge leads to a task that waits.    *)
(***************************************************************************)
TaskGraph(t) ==
  LET ids == Standing(t, "task")
  IN  [id \in ids |-> {x \in ids : \/ id \in t[First(t, x)].needs
                                   \/ x \in t[First(t, id)].blocks}]

TaskIssues(t) ==
  LET ids   == Standing(t, "task")
      asked == {First(t, id) : id \in ids}
  IN  At("TASK-HIERARCHY",
         {p \in Kind(t, "task") : Root(t[p].id) \notin ids \/ p \notin asked})
      \cup At("REF-UNRESOLVED",
              {p \in asked : \E r \in t[p].needs : r[1] = "task" /\ r \notin ids})
      \cup At("TASK-RELATION-TARGET",
              {p \in asked : \E r \in t[p].needs \cup t[p].blocks : r[1] # "task"})
      \cup OnCycles(t, "TASK-RELATION-CYCLE", TaskGraph(t))

(***************************************************************************)
(* Claims: intervals, one current claim at a time, and supersession.       *)
(***************************************************************************)
Backward(d) == d.from # 0 /\ d.to # Latest /\ d.to <= d.from
StartsFirst(x, y) == x.from < y.from \/ (x.from = y.from /\ Before(x.id, y.id))

OverlappingLast(claims) ==
  LET sweep(acc, d) ==
        [end |-> d.to, late |-> IF d.from < acc.end THEN acc.late \cup {d.id} ELSE acc.late]
  IN  FoldLeft(sweep, [end |-> 0, late |-> {}], SetToSortSeq(claims, StartsFirst)).late

Overlapping(claims) ==
  LET sweep(acc, d) ==
        [end  |-> IF d.to > acc.end THEN d.to ELSE acc.end,
         late |-> IF d.from < acc.end THEN acc.late \cup {d.id} ELSE acc.late]
  IN  FoldLeft(sweep, [end |-> 0, late |-> {}], SetToSortSeq(claims, StartsFirst)).late

ClaimGraph(t) ==
  LET ids == Standing(t, "claim")
  IN  [c \in ids |-> {o \in ids : \/ o = t[First(t, c)].older
                                  \/ c = t[First(t, o)].newer}]

ClaimIssues(t) ==
  LET ids     == Standing(t, "claim")
      docs    == {t[First(t, c)] : c \in ids}
      current == {d \in docs : d.current /\ ~Backward(d)}
      late    == UNION {Overlapping({d \in current : d.about = a}) : a \in {d.about : d \in current}}
  IN  At("CLAIM-INTERVAL", {First(t, d.id) : d \in {e \in docs : Backward(e)}})
      \cup At("CLAIM-CURRENT-OVERLAP", {First(t, c) : c \in late})
      \cup At("CLAIM-SUPERSESSION-MISSING",
              {First(t, d.id) : d \in {e \in docs : ~({e.older, e.newer} \subseteq ids \cup {None})}})
      \cup OnCycles(t, "CLAIM-SUPERSESSION-CYCLE", ClaimGraph(t))

Issues(t) ==
  TextIssues(t) \cup TopicIssues(t) \cup DocumentIssues(t) \cup ReferenceIssues(t)
    \cup TaskIssues(t) \cup ClaimIssues(t)

(* Warnings on some paths count as errors.                                 *)
Errors(issues, strict) ==
  {<<i.code, i.path>> : i \in {j \in issues : \/ j.severity = "error"
                                              \/ j.severity = "warning" /\ j.path \in strict}}

(***************************************************************************)
(* The index: documents of knowledge and work in the order of their paths, *)
(* each identity from the first that has it; then tasks, parents first.    *)
(***************************************************************************)
IndexedZones == {"knowledge", "integrations", "work"}

Parsed(t) ==
  LET readable == {p \in In(t, IndexedZones) :
                     Sound(t[p]) /\ \A r \in t[p].refs : r[1] # "foreign"}
      take(acc, p) ==
        IF \E id \in acc.seen : Owns(t[p], id) THEN acc
        ELSE [seen |-> acc.seen \cup Range(Owned(t[p])), kept |-> acc.kept \cup {p}]
  IN  FoldLeft(take, [seen |-> {}, kept |-> {}], SetToSortSeq(readable, <)).kept

Accepted(t) ==
  LET parents == {t[p].id : p \in Parsed(t)}
  IN  {p \in Parsed(t) : IdOf(t[p]) = "task" => Root(t[p].id) \in parents}

Skipped(t) == In(t, IndexedZones) \ Accepted(t)
Indexed(t) == UNION {{<<id, p>> : id \in Range(Owned(t[p]))} : p \in Accepted(t)}
=============================================================================
