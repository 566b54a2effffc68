----------------------------- MODULE Proposals -----------------------------
(***************************************************************************)
(* What the engine demands of a proposal (transactions/engine.py): a dry   *)
(* run that only reads, and an apply that indexes, compiles, checks,       *)
(* prepares, replaces, looks at the result and commits it or takes it      *)
(* back, while documents are edited by hand.  TransactionEngine models how *)
(* an apply reaches the disk, step by step; here a replacement is one      *)
(* step, and the content of documents decides.                             *)
(***************************************************************************)
EXTENDS WorkspaceRules

CONSTANTS
  Scenario,   \* <<tree, index, proposal, how many edits>>
  Edits       \* <<path, content>> that somebody may save

VARIABLES
  tree,      \* the documents on disk
  index,     \* <<identity, path>> of the projection, None when it is not ready
  asked,     \* the proposal
  at,        \* where the apply is
  preview,   \* what the dry run said
  held,      \* documents this apply has read and will not read again
  final,     \* what the proposal makes of each path it touches
  baseline,  \* the errors before anything was replaced
  prior,     \* what is to be restored
  outcome,
  spare,     \* edits by hand that may still come
  calm       \* nobody has edited anything

proposalVars == <<tree, index, asked, at, preview, held, final, baseline, prior, outcome, spare, calm>>

Nowhere == [p \in {} |-> NoFile]
Over(t, f) == [p \in DOMAIN t |-> IF p \in DOMAIN f THEN f[p] ELSE t[p]]

ProposalsInit ==
  /\ \E s \in Scenario : tree = s[1] /\ index = s[2] /\ asked = s[3] /\ spare = s[4]
  /\ at = "preview" /\ preview = "none" /\ outcome = "none"
  /\ held = Nowhere /\ final = Nowhere /\ prior = Nowhere
  /\ baseline = {} /\ calm = TRUE

(***************************************************************************)
(* Operations.  Paths of a proposal are distinct, so that what each path   *)
(* becomes does not depend on their order.                                 *)
(***************************************************************************)
Operations == Range(asked.ops)
Writes     == {o \in Operations : o.op \in {"create", "update"}}
Moves      == {o \in Operations : o.op = "move"}
Touched    == {o.target : o \in Operations} \cup {o.to : o \in Moves}

Becomes(t) ==
  [p \in Touched |->
     LET written == {o \in Writes : o.target = p}
         arrived == {o \in Moves : o.to = p}
     IN  IF written # {} THEN (CHOOSE o \in written : TRUE).doc
         ELSE IF arrived # {} THEN t[(CHOOSE o \in arrived : TRUE).target]
         ELSE NoFile]

(* A move into a narrative zone, or out of one, takes a document of that   *)
(* zone to a name that fits its identity.                                  *)
Misplaced(o, t) ==
  /\ {Zone[o.target], Zone[o.to]} \cap Canonical # {}
  /\ \/ Zone[o.to] \notin Canonical
     \/ t[o.target].form # "typed" \/ t[o.target].id # Stem[o.to]
     \/ IdOf(t[o.target]) = "task" /\ Zone[o.to] # "work"

(* Operations that cannot be compiled against what lies on their paths.    *)
Uncompilable(t) ==
  \/ \E o \in Writes :
       CASE o.op = "create" -> t[o.target] # NoFile
         [] o.op = "update" -> \/ t[o.target] # o.expected
                               \/ t[o.target].form # "typed" \/ t[o.target].id # o.doc.id
  \/ \E o \in Operations \ Writes : t[o.target] = NoFile \/ t[o.target] # o.expected
  \/ \E o \in Moves : \/ t[o.to] # NoFile \/ Misplaced(o, t)
                      \/ Zone[o.to] = "manifests" /\ t[o.target].form # "typed"

Manifests(t)   == {p \in In(t, {"manifests"}) : t[p].form = "typed"}
Outbox(t)      == {p \in In(t, {"outbox"}) : Sound(t[p])}
Present(f)     == {p \in DOMAIN f : f[p] # NoFile}
Staged(f)      == {p \in Present(f) : Zone[p] \in Canonical}
StagedFiles(f) == {p \in Present(f) : Zone[p] = "manifests"}

(* The index answers which document has an identity, and is believed if    *)
(* that document has it still; documents of the outbox are not indexed.    *)
RecordIsBelieved(t, id, p) == TRUE

RecordIsCurrent(t, id, p) == p \in Files(t) /\ Sound(t[p]) /\ Owns(t[p], id)
Owners(t, ix, id) ==
  {p \in Outbox(t) : Owns(t[p], id)}
    \cup {p \in Place : <<id, p>> \in ix /\ RecordIsCurrent(t, id, p)}

Collides(t, ix, f) ==
  \/ \E p \in Staged(f) : ~Sound(f[p])
  \/ \E p \in Staged(f) : \E k \in DOMAIN Owned(f[p]) :
       LET id == Owned(f[p])[k]
       IN  \/ \E q \in Staged(f) \ {p} : Sound(f[q]) /\ Owns(f[q], id)
           \/ Owners(t, ix, id) \ DOMAIN f # {}
  \/ \E p \in StagedFiles(f) :
       \/ \E q \in StagedFiles(f) \ {p} : f[q].id = f[p].id
       \/ \E q \in Manifests(t) \ DOMAIN f : t[q].id = f[p].id

(* Whoever approves a possible secret acknowledges the exact content that  *)
(* is about to be written; the record is one more operation.               *)
BadRequest(t, f) ==
  \/ ThePath("acks") \in DOMAIN f
  \/ \E p \in asked.acks : ~(p \in Present(f) /\ f[p].form # "bytes" /\ "secret" \in f[p].marks)
  \/ asked.acks # {} /\ AckFile(t) # NoFile /\ AckFile(t).form # "typed"

WithRequest(t, f) ==
  LET old == IF AckFile(t) = NoFile THEN {} ELSE AckFile(t).acked
      new == {e \in old : e[1] \notin asked.acks} \cup {<<p, f[p]>> : p \in asked.acks}
  IN  IF asked.acks = {} THEN f
      ELSE [p \in DOMAIN f \cup {ThePath("acks")} |->
              IF p = ThePath("acks") THEN [Blank EXCEPT !.acked = new] ELSE f[p]]

TellsSecret == \E o \in Writes : "secret" \in o.doc.marks /\ o.target \notin asked.acks

(***************************************************************************)
(* References and conditions, before the proposal and after it.            *)
(***************************************************************************)
Describes(d, r) == IF r[1] = "digest" THEN d.digest = r[2] ELSE d.id = r
OfArtifact(r)   == r[1] \in {"artifact", "digest"}

Carriers(t, ix, r) ==
  IF OfArtifact(r) THEN {p \in Manifests(t) : Describes(t[p], r)} ELSE Owners(t, ix, r)

Exists(t, ix, f, r) ==
  \/ OfArtifact(r) /\ \E p \in StagedFiles(f) : Describes(f[p], r)
  \/ ~OfArtifact(r) /\ \E p \in Staged(f) : Sound(f[p]) /\ Owns(f[p], r)
  \/ Carriers(t, ix, r) \ DOMAIN f # {}

Named(d) == {r \in d.refs \cup d.body : r[1] # "external"}

Lacks(t, ix, f, d) ==
  \/ \E r \in Named(d) : ~Exists(t, ix, f, r)
  \/ \E r \in d.needs : r[1] # "task" \/ ~Exists(t, ix, f, r)
  \/ IdOf(d) = "task" /\ ~Exists(t, ix, f, Root(d.id)) /\ d.id # Root(d.id)
  \/ \E r \in {d.older, d.newer} \ {None} : ~Exists(t, ix, f, r)

Demanded == {c.ref : c \in {d \in asked.pre \cup asked.post : d.kind = "known"}}

Holds(c, t, known) ==
  CASE c.kind = "exists" -> t[c.path] # NoFile
    [] c.kind = "absent" -> t[c.path] = NoFile
    [] c.kind = "is"     -> t[c.path] = c.doc
    [] c.kind = "known"  -> c.ref \in known

Wrong(t, ix, f) ==
  LET before == {r \in Demanded : Carriers(t, ix, r) # {}}
      after  == {r \in Demanded : Exists(t, ix, f, r)}
  IN  \/ TellsSecret
      \/ \E c \in asked.pre : ~Holds(c, t, before)
      \/ \E c \in asked.post : ~Holds(c, Over(t, f), after)
      \/ \E o \in Writes : Lacks(t, ix, f, o.doc)

(* After the replacement nobody asks the index: files are read in order,   *)
(* and one that cannot be read ends the search.                            *)
LiveKnown(r) ==
  IF OfArtifact(r) THEN Carriers(tree, {}, r) # {}
  ELSE \E p \in In(tree, Canonical) :
         /\ Owns(tree[p], r)
         /\ \A q \in In(tree, Canonical) : q <= p => Sound(tree[q])

BlockingNewCodes(base, t, written) ==
  {e \in Errors(Issues(t), written) : e[2] \in written \/ e[1] \notin {b[1] : b \in base}}

BlockingNewOnly(base, t, written) == Errors(Issues(t), written) \ base

(* Errors that the written paths have, or nobody had before.               *)
Blocking(base, t, written) ==
  {e \in Errors(Issues(t), written) : e[2] \in written \/ e \notin base}

(***************************************************************************)
(* The dry run reads the index it finds, if that has every identity where  *)
(* it is, and predicts the report on the tree as it would be.              *)
(***************************************************************************)
Ready ==
  /\ index # None
  /\ \A p \in In(tree, IndexedZones) :
       Sound(tree[p]) /\ \A k \in DOMAIN Owned(tree[p]) : <<Owned(tree[p])[k], p>> \in index

Acceptable ==
  /\ ~Uncompilable(tree)
  /\ LET plain == Becomes(tree)
         f     == WithRequest(tree, plain)
     IN  /\ ~BadRequest(tree, plain) /\ ~Collides(tree, index, plain) /\ ~Wrong(tree, index, f)
         /\ Blocking(Errors(Issues(tree), {}), Over(tree, f), Present(f)) = {}

Preview ==
  /\ at = "preview" /\ at' = "rebuild"
  /\ preview' = IF ~Ready THEN "not ready" ELSE IF Acceptable THEN "valid" ELSE "invalid"
  /\ UNCHANGED <<tree, index, asked, held, final, baseline, prior, outcome, spare, calm>>

(***************************************************************************)
(* The apply.                                                              *)
(***************************************************************************)
End(result) == at' = "done" /\ outcome' = result
Onward(to)  == at' = to /\ UNCHANGED outcome

Rebuild ==
  /\ at = "rebuild"
  /\ index' = Indexed(tree)
  /\ IF Skipped(tree) = {} THEN Onward("compile") ELSE End("refused")
  /\ UNCHANGED <<tree, asked, preview, held, final, baseline, prior, spare, calm>>

(* What has been read once is not read again before the replacement.       *)
Seen == Over(tree, held)

ReadToCompile(f) ==
  LET ids == UNION {Range(Owned(f[p])) : p \in {q \in Staged(f) : Sound(f[q])}}
  IN  DOMAIN f
      \cup {p \in Place : Zone[p] = "manifests" /\ StagedFiles(f) # {}}
      \cup {p \in Files(tree) : Zone[p] = "outbox" /\ ids # {}}
      \cup {e[2] : e \in {x \in index : x[1] \in ids}}

Compile ==
  /\ at = "compile"
  /\ IF Uncompilable(tree) THEN End("refused") /\ UNCHANGED <<held, final>>
     ELSE LET plain == Becomes(tree)
              f     == WithRequest(tree, plain)
          IN  IF BadRequest(tree, plain) \/ Collides(tree, index, plain)
              THEN End("refused") /\ UNCHANGED <<held, final>>
              ELSE /\ Onward("check")
                   /\ final' = f
                   /\ held' = [p \in ReadToCompile(f) |-> tree[p]]
  /\ UNCHANGED <<tree, index, asked, preview, baseline, prior, spare, calm>>

Check ==
  /\ at = "check"
  /\ IF Wrong(Seen, index, final) THEN End("refused") ELSE Onward("baseline")
  /\ UNCHANGED <<tree, index, asked, preview, held, final, baseline, prior, spare, calm>>

Baseline ==
  /\ at = "baseline" /\ Onward("prepare")
  /\ baseline' = Errors(Issues(tree), {})
  /\ UNCHANGED <<tree, index, asked, preview, held, final, prior, spare, calm>>

(* Preparing records what it is about to replace; if that is not what the  *)
(* proposal was compiled against, it is recorded as rolled back.           *)
Prepare ==
  /\ at = "prepare"
  /\ IF \/ \E o \in Moves : tree[o.to] # NoFile
        \/ \E o \in Operations \ Writes : tree[o.target] = NoFile
     THEN End("refused") /\ UNCHANGED prior
     ELSE IF \E p \in DOMAIN final : tree[p] # held[p] THEN End("rolled_back") /\ UNCHANGED prior
     ELSE Onward("replace") /\ prior' = [p \in DOMAIN final |-> tree[p]]
  /\ UNCHANGED <<tree, index, asked, preview, held, final, baseline, spare, calm>>

Replace ==
  /\ at = "replace"
  /\ IF \E p \in DOMAIN final : tree[p] # prior[p] THEN End("pending") /\ UNCHANGED tree
     ELSE Onward("conditions") /\ tree' = Over(tree, final)
  /\ UNCHANGED <<index, asked, preview, held, final, baseline, prior, spare, calm>>

(* A result that is not as promised is taken back, unless a file has been  *)
(* changed in between: then the intent stays pending.                      *)
TakeBack ==
  IF \E p \in DOMAIN final : tree[p] \notin {final[p], prior[p]}
  THEN End("pending") /\ UNCHANGED tree
  ELSE End("rolled_back") /\ tree' = Over(tree, prior)

Conditions ==
  /\ at = "conditions"
  /\ IF \A c \in asked.post : Holds(c, tree, {r \in Demanded : LiveKnown(r)}) THEN Onward("report") ELSE Onward("failed")
  /\ UNCHANGED <<tree, index, asked, preview, held, final, baseline, prior, spare, calm>>

Conclude ==
  /\ \/ /\ at = "report" /\ Blocking(baseline, tree, Present(final)) = {}
        /\ End("committed")
        /\ index' = IF Skipped(tree) = {} THEN Indexed(tree) ELSE None
        /\ UNCHANGED tree
     \/ /\ \/ at = "failed"
           \/ at = "report" /\ Blocking(baseline, tree, Present(final)) # {}
        /\ TakeBack /\ UNCHANGED index
  /\ UNCHANGED <<asked, preview, held, final, baseline, prior, spare, calm>>

(* Somebody saves a document at any time.                                  *)
Save ==
  /\ at \notin {"preview", "done"} /\ spare > 0
  /\ \E e \in Edits : tree[e[1]] # e[2] /\ tree' = [tree EXCEPT ![e[1]] = e[2]]
  /\ spare' = spare - 1 /\ calm' = FALSE
  /\ UNCHANGED <<index, asked, at, preview, held, final, baseline, prior, outcome>>

ProposalsNext ==
  Preview \/ Rebuild \/ Compile \/ Check \/ Baseline \/ Prepare \/ Replace \/ Conditions
    \/ Conclude \/ Save

(***************************************************************************)
(* Properties.                                                             *)
(***************************************************************************)

(* A dry run and an apply right after it agree: validating the overlay on  *)
(* an index that may lag (engine.py:629, 1865) tells what the replacement  *)
(* itself will be told (engine.py:480-520) -- as long as the projection    *)
(* leaves no document out and every file of the outbox can be read.        *)
VerdictsAgree ==
  (/\ calm /\ outcome # "none" /\ preview # "not ready"
   /\ Skipped(tree) = {} /\ \A p \in In(tree, {"outbox"}) : Sound(tree[p])) =>
     \/ preview = "valid" /\ outcome = "committed"
     \/ preview = "invalid" /\ outcome \in {"refused", "rolled_back"}

(* What a node reaches: what every closed set around its targets contains. *)
Reach(g, n) ==
  {m \in DOMAIN g : \A C \in SUBSET DOMAIN g :
                      (g[n] \subseteq C /\ \A x \in C : g[x] \subseteq C) => m \in C}
Acyclic(g) == \A n \in DOMAIN g : n \notin Reach(g, n)

Unless(codes, q) == \A c \in codes : <<c, q>> \notin baseline
Untold(code)     == \A p \in Place : <<code, p>> \notin baseline
RefCodes         == {"REF-UNRESOLVED", "REF-CONTEXT-MISMATCH", "REF-INVALID-URI"}

Resolved(t, q) == \A r \in Mentions(t[q]) : Local(r) => r \in Identities(t)
Excludes(t, p, q) ==   \* claims that cannot both be current
  LET d == t[p]  e == t[q]
  IN  d.current /\ e.current /\ d.about = e.about /\ ~Backward(d) /\ ~Backward(e)
      => d.to <= e.from \/ e.to <= d.from

SoundCommit(t, written) ==
  /\ \A q \in Documents(t) : q \in written \/ Unless(RefCodes, q) => Resolved(t, q)
  /\ \A p \in written \cap Files(t) : "secret" \in t[p].marks => Acknowledged(t, p)
  /\ calm \/ Untold("DOC-DUPLICATE-ID") =>
       \A p \in written \cap Valid(t) : \A q \in Valid(t) \ {p} :
         \A k \in DOMAIN Owned(t[p]) : ~Owns(t[q], Owned(t[p])[k])
  /\ Untold("CLAIM-CURRENT-OVERLAP") =>
       \A p \in written \cap Kind(t, "claim") : \A q \in Kind(t, "claim") \ {p} : Excludes(t, p, q)
  /\ Untold("TASK-RELATION-CYCLE") => Acyclic(TaskGraph(t))
  /\ Untold("CLAIM-SUPERSESSION-CYCLE") => Acyclic(ClaimGraph(t))

(* A commit leaves the workspace whole, whatever is edited by hand before  *)
(* the last look at it (engine.py:489-520, 2330-2371): what it wrote       *)
(* refers to what is there and holds no secret nobody acknowledged; no     *)
(* document it left alone loses what it refers to; an identity it wrote    *)
(* has one owner, a claim no rival, and no cycle closes.                   *)
CommitsStaySound ==
  [][outcome' = "committed" /\ outcome # "committed" => SoundCommit(tree', Present(final))]_proposalVars

(* The rules find what they are about, and nothing else: the groups of     *)
(* tasks on cycles (validation/engine.py:1670-1717) and the current claims *)
(* that begin before an earlier one has ended (1090-1105).                 *)
RulesFindAll ==
  LET found(code) == {i.path : i \in {j \in Issues(tree) : j.code = code}}
      heads(g)    == {n \in DOMAIN g : /\ n \in Reach(g, n)
                                       /\ \A m \in Reach(g, n) \ {n} :
                                            n \in Reach(g, m) => Before(n, m)}
      late(d)     == \E q \in Kind(tree, "claim") :
                       LET e == tree[q]
                       IN  /\ e.current /\ e.about = d.about /\ ~Backward(e) /\ ~Backward(d)
                           /\ StartsFirst(e, d) /\ d.from < e.to
  IN  /\ found("TASK-RELATION-CYCLE") = {First(tree, n) : n \in heads(TaskGraph(tree))}
      /\ found("CLAIM-SUPERSESSION-CYCLE") = {First(tree, n) : n \in heads(ClaimGraph(tree))}
      /\ found("CLAIM-CURRENT-OVERLAP") =
           {p \in Kind(tree, "claim") : tree[p].current /\ late(tree[p])}
=============================================================================
