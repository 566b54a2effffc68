---------------------------- MODULE MCProposals ----------------------------
(***************************************************************************)
(* What MCGuards checks, apart from that the proposals the engine is       *)
(* given, and apart from that the rules by which it judges them, on all    *)
(* small graphs of tasks and of claims and on small sets of intervals.     *)
(*                                                                         *)
(* The documents are an artifact, two claims about an evidence note with   *)
(* two observations, a task, which moves when it is done, its subtask, a   *)
(* view, a draft, a checkpoint, the acknowledged secrets and the topics.   *)
(***************************************************************************)
EXTENDS MCGuards, Sequences, FiniteSets

CONSTANT NoFile

VARIABLES pTree, pIndex, asked, stage, preview, held, final, baseline, prior, outcome, spare, calm

Names ==
  <<<<"manifests", "artifact", 1, 0>>, <<"knowledge", "claim", 1, 0>>, <<"knowledge", "claim", 2, 0>>,
    <<"knowledge", "evidence", 1, 0>>, <<"work", "task", 1, 0>>, <<"work", "task", 1, 0>>,
    <<"work", "task", 1, 1>>, <<"views">>, <<"outbox", "draft", 1, 0>>,
    <<"checkpoints", "checkpoint", 1, 0>>, <<"acks">>, <<"topics">>>>

PZone == [p \in DOMAIN Names |-> Names[p][1]]
PStem == [p \in DOMAIN Names |-> IF Len(Names[p]) = 1 THEN None ELSE Tail(Names[p])]
Art == 1
Clm1 == 2
Clm2 == 3
Evd == 4
Done == 5
Task == 6
Sub == 7
View == 8
Outgoing == 9
Chk == 10
Acks == 11
Topics == 12

art   == <<"artifact", 1, 0>>
clm1  == <<"claim", 1, 0>>
clm2  == <<"claim", 2, 0>>
evd   == <<"evidence", 1, 0>>
obs1  == <<"observation", 1, 1>>
obs2  == <<"observation", 1, 2>>
tsk   == <<"task", 1, 0>>
sub   == <<"task", 1, 1>>
dft   == <<"draft", 1, 0>>
nobody == <<"person", 9, 0>>
unkept == <<"digest", 2, 0>>

B == INSTANCE WorkspaceRules WITH Paths <- Len(Names), Zone <- PZone, Stem <- PStem, Latest <- 9

Typed(id) == [B!Blank EXCEPT !.id = id]
Asserting(id, from, to) ==
  [Typed(id) EXCEPT !.about = evd, !.refs = {evd}, !.from = from, !.to = to, !.current = TRUE]

Art1  == [Typed(art) EXCEPT !.digest = 1]
Evd1  == [Typed(evd) EXCEPT !.obs = <<obs1, obs2>>, !.refs = {<<"digest", 1, 0>>}]
Evd2  == [Evd1 EXCEPT !.obs = <<obs2>>]
First1 == [Asserting(clm1, 1, 3) EXCEPT !.refs = {evd, obs1}]
Next2  == [Asserting(clm2, 3, 9) EXCEPT !.older = clm1]
Task1  == [Typed(tsk) EXCEPT !.body = {evd}]
Sub1   == [Typed(sub) EXCEPT !.needs = {tsk}]
Draft1 == [Typed(dft) EXCEPT !.refs = {tsk}]
Plaintext   == [B!Blank EXCEPT !.form = "note"]
Broken == [B!Blank EXCEPT !.form = "broken"]
List   == [B!Blank EXCEPT !.topics = {"known"}, !.merged = {"old"}]
Point  == [Typed(<<"checkpoint", 1, 0>>) EXCEPT !.topics = {"known"}]

Secretly(d) == [d EXCEPT !.marks = {"secret"}]
With(d, refs) == [d EXCEPT !.extra = refs]

Plain ==
  [p \in DOMAIN Names |->
     CASE p = Art -> Art1 [] p = Clm1 -> First1 [] p = Evd -> Evd1 [] p = Task -> Task1
       [] p = Sub -> Sub1 [] p = View -> Plaintext [] p = Outgoing -> Draft1 [] p = Topics -> List
       [] OTHER -> NoFile]

(* Operations, conditions and proposals.                                   *)
Create(p, d)     == [op |-> "create", target |-> p, doc |-> d]
Update(t, p, d)  == [op |-> "update", target |-> p, expected |-> t[p], doc |-> d]
Move(t, p, to)   == [op |-> "move", target |-> p, expected |-> t[p], to |-> to]
Delete(t, p)     == [op |-> "delete", target |-> p, expected |-> t[p]]
That(kind, p)    == [kind |-> kind, path |-> p]
Known(r)         == [kind |-> "known", ref |-> r]
Ask(ops)         == [ops |-> ops, acks |-> {}, pre |-> {}, post |-> {}]

Asked(t) ==
  {Ask(<<Create(Clm2, Next2), Update(t, Clm1, [First1 EXCEPT !.newer = clm2])>>),
   [Ask(<<Create(Clm2, Asserting(clm2, 2, 9))>>) EXCEPT !.pre = {That("absent", Clm2)}],
   [Ask(<<Create(Clm2, Asserting(clm2, 4, 4))>>) EXCEPT !.post = {Known(clm2), That("exists", Clm2)}],
   [Ask(<<Update(t, Evd, Evd2)>>) EXCEPT !.post = {Known(obs2)}],
   Ask(<<Update(t, Evd, Evd2), Update(t, Clm1, Asserting(clm1, 1, 3))>>),
   [Ask(<<Move(t, Task, Done)>>) EXCEPT !.post = {That("absent", Task), Known(tsk), Known(dft)}],
   Ask(<<Create(Done, Task1)>>),
   Ask(<<Update(t, Task, [Task1 EXCEPT !.needs = {sub}])>>),
   [Ask(<<Update(t, Outgoing, Secretly(Draft1))>>) EXCEPT !.acks = {Outgoing}],
   Ask(<<Update(t, Outgoing, Secretly(Draft1))>>),
   Ask(<<Update(t, Outgoing, With(Draft1, {nobody}))>>),
   Ask(<<Update(t, Outgoing, [Draft1 EXCEPT !.body = {clm2}])>>),
   [Ask(<<Delete(t, View)>>) EXCEPT !.pre = {Known(art), Known(obs1)}],
   Ask(<<Update(t, Task, [Task1 EXCEPT !.topics = {"old"}])>>),
   Ask(<<Update(t, Art, [Art1 EXCEPT !.digest = 2]), Update(t, Evd, [Evd1 EXCEPT !.body = {<<"digest", 1, 0>>}])>>)}

(* Workspaces as they may be found, and the index that may be left there.  *)
Placed(t, p, d) == [t EXCEPT ![p] = d]
Trees ==
  {Plain, Placed(Plain, Clm2, Next2), Placed(Plain, Clm2, Asserting(clm2, 2, 9)), Placed(Plain, Clm2, Broken),
   Placed(Plain, Sub, With(Sub1, {nobody})), Placed(Placed(Plain, Task, NoFile), Done, Task1),
   Placed(Placed(Plain, Topics, Broken), Task, [Task1 EXCEPT !.topics = {"known"}]),
   Placed(Placed(Plain, Acks, [B!Blank EXCEPT !.acked = {<<View, Plaintext>>}]), View, Secretly(Plaintext)),
   Placed(Plain, Evd, Evd2), Placed(Placed(Plain, Task, NoFile), Sub, NoFile),
   Placed(Placed(Plain, Chk, Point), Outgoing, Broken)}

Rival == Placed(Plain, Clm2, Next2)
Lagging(t) ==
  B!Indexed(t) \cup {row \in B!Indexed(Rival) : \A now \in B!Indexed(t) : now[1] # row[1]}
Indexes(t) == {B!Indexed(t), Lagging(t), None}

PEdits ==
  {<<Clm2, Next2>>, <<Clm1, Asserting(clm1, 1, 9)>>, <<Outgoing, [Draft1 EXCEPT !.refs = {obs1}]>>,
   <<Outgoing, Broken>>, <<Task, NoFile>>, <<Done, Task1>>, <<Sub, [Sub1 EXCEPT !.topics = {"known"}]>>}

Fit(t) == {q \in Asked(t) : \A k \in DOMAIN q.ops :
                              q.ops[k].op = "create" \/ t[q.ops[k].target] # NoFile}

PScenario ==
  UNION {{<<t, ix, q, 0>> : ix \in Indexes(t), q \in Fit(t)} : t \in Trees}
  \cup UNION {{<<t, B!Indexed(t), q, 1>> : q \in Fit(t)} : t \in Trees}
  \cup {<<Plain, B!Indexed(Plain), q, 2>> : q \in Fit(Plain)}

(* Three claims or three tasks, related or ending in every way.            *)
Three(d(_)) == [p \in DOMAIN Names |-> IF p \in 2..4 THEN d(p - 1) ELSE NoFile]
Ident(kind, n) == <<kind, n, 0>>

RuleTrees ==
  LET spans == {<<from, to>> \in (0..2) \X {1, 2, 3, 9} : TRUE}
      ids(kind, ns) == {Ident(kind, n) : n \in ns}
  IN  {Three(LAMBDA n : [Typed(Ident("task", n)) EXCEPT !.needs = ids("task", f[n])]) :
         f \in [1..3 -> SUBSET (1..3)]}
      \cup {Three(LAMBDA n : Asserting(Ident("claim", n), f[n][1], f[n][2])) : f \in [1..3 -> spans]}
      \cup {Three(LAMBDA n : [Typed(Ident("claim", n)) EXCEPT
                                !.older = IF f[n] = 0 THEN None ELSE Ident("claim", f[n]),
                                !.newer = IF g[n] = 0 THEN None ELSE Ident("claim", g[n])]) :
              f \in [1..3 -> 0..3], g \in [1..3 -> 0..3]}

P == INSTANCE Proposals WITH
       Paths <- Len(Names), Zone <- PZone, Stem <- PStem, Latest <- 9,
       Scenario <- PScenario, Edits <- PEdits,
       tree <- pTree, index <- pIndex, at <- stage

pVars == <<pTree, pIndex, asked, stage, preview, held, final, baseline, prior, outcome, spare, calm>>

(* What rests is small: TLC looks at all of a state in each step.           *)
Unasked ==
  /\ pTree = None /\ pIndex = None /\ asked = None /\ stage = "done" /\ preview = "none"
  /\ held = <<>> /\ final = <<>> /\ prior = <<>> /\ baseline = {} /\ outcome = "none" /\ spare = 0 /\ calm = TRUE

Judged ==
  /\ pTree \in RuleTrees /\ pIndex = None /\ asked = Ask(<<>>) /\ stage = "done" /\ preview = "none"
  /\ held = <<>> /\ final = <<>> /\ prior = <<>> /\ baseline = {}
  /\ outcome = "none" /\ spare = 0 /\ calm = TRUE

JudgedInit ==
  \/ MCInit /\ Unasked
  \/ part = "proposals" /\ Unguarded /\ P!ProposalsInit
  \/ part = "rules" /\ Unguarded /\ Judged

Guarded == MCNext /\ UNCHANGED pVars

ProposalsPart ==
  /\ part = "proposals"
  /\ P!ProposalsNext
  /\ UNCHANGED MCVars

JudgedSpec == JudgedInit /\ [][Guarded \/ ProposalsPart]_<<MCVars, pVars>>

(* What judges a proposal before it is applied and after it has been, and   *)
(* the rules by themselves.                                                *)
RulesDecide ==
  /\ part = "proposals" => P!VerdictsAgree
  /\ part = "rules" => P!RulesFindAll
CommitsStaySound == P!CommitsStaySound
=============================================================================
