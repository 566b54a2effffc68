----------------------------- MODULE MCDerived ------------------------------
(***************************************************************************)
(* Small instances of what is derived from a context: its index, with the  *)
(* views, the context packs and the checkpoints that are taken from it     *)
(* while it is rebuilt; and of the installations of agent adapters.        *)
(* Each behavior is one of the component `part'; the others rest in an     *)
(* initial state of theirs, so that one run checks each of them by itself. *)
(***************************************************************************)
EXTENDS Derived, TLC

(* Two releases that share a file, one of which has another file besides. *)
MCInstaller == {"p", "q"}
MCRelease == {"v1", "v2"}
MCOwns == [v \in Release |-> IF v = "v1" THEN {1, 2} ELSE {2}]
MCEdits == {"e"}

(* A process that applies, recovers and rebuilds the index, another one    *)
(* that shows a view or a brief, and one call that fails or process that   *)
(* dies or edit by hand.                                                   *)
MCIndexer == {"index"}
MCViewer == {"brief", "view"}
MCBrief == {"brief"}
MCSide == [x \in {Engine} \cup Indexer \cup Viewer |-> IF x \in Viewer THEN "q" ELSE "p"]

(* A task with a neighbor, a claim and an observation of each interesting   *)
(* kind; the same after some of them have changed; and without the task.    *)
Doc(type, parent, importance) ==
  [type |-> type, parent |-> parent, conf |-> 60, importance |-> importance, words |-> {}]
Obs(i, parent, time, quality) ==
  [id |-> i, parent |-> parent, time |-> time, quality |-> quality,
   conf |-> 60, importance |-> 55, words |-> {"w"}]
Clm(i, status, obs) ==
  [id |-> i, status |-> status, obs |-> obs, conf |-> 100, importance |-> 55, words |-> {}]
Edg(i, rel, with, obs) ==
  [id |-> i, rel |-> rel, with |-> with, obs |-> obs, conf |-> 25, words |-> {"w"}]

Rich ==
  [focal |-> [task |-> TRUE, conf |-> 60, sources |-> {1},
              tasks |-> <<[name |-> 2, rel |-> "depends_on"], [name |-> 9, rel |-> "blocks"]>>,
              people |-> <<[name |-> 3, rel |-> "owned_by"],
                           [name |-> 8, rel |-> "waiting_on"]>>],
   node |-> (1 :> Doc("system", None, 65)) @@ (2 :> Doc("task", 0, 80))
            @@ (3 :> Doc("person", None, 60)) @@ (4 :> Doc("decision", None, 85)),
   edges |-> <<Edg(1, "calls", 1, <<>>), Edg(2, "contradicts", 4, <<7, 2>>),
               Edg(3, "mentions", 3, <<1>>), Edg(4, "waiting_on", 3, <<1, 2>>)>>,
   claims |-> {Clm(1, "current", <<2>>), Clm(2, "superseded", <<7, 1>>)},
   obs |-> {Obs(1, None, 10, 100), Obs(2, 0, 60, 62)}]
Plain == [Rich EXCEPT !.claims = {Clm(1, "superseded", <<2>>), Clm(3, "uncertain", <<1>>)},
                      !.edges = SubSeq(Rich.edges, 1, 2),
                      !.focal.task = FALSE, !.focal.sources = {}]
Gone == [Rich EXCEPT !.focal = None]

MCGraph == {Rich, Plain, Gone}
MCBudget == {0, 9, 17, 40}
MCQueries == {{}, {"w"}}
MCItemUnits(e) == IF e.section = 2 THEN 3 ELSE 1

(* A checkpoint of two documents, and one that may supersede them. *)
MCItem == <<"x", "y">>
MCBody == {"a", "b"}

VARIABLE part

vars == <<part, adapterVars, viewVars, packVars, checkpointVars>>

Init ==
  /\ part \in {"adapters", "views", "packs", "checkpoints"}
  /\ A!AdapterInit
  /\ V!ViewsInit /\ (part # "views" => db = None)
  /\ C!CheckpointsInit
  /\ P!PackInit /\ (part # "packs" => index.graph = Gone)

AdaptersPart ==
  /\ part = "adapters"
  /\ A!AdapterNext
  /\ UNCHANGED <<part, viewVars, packVars, checkpointVars>>

ViewsPart ==
  /\ part = "views"
  /\ V!ViewsNext
  /\ UNCHANGED <<part, adapterVars, packVars, checkpointVars>>

PacksPart ==
  /\ part = "packs"
  /\ P!PackNext
  /\ UNCHANGED <<part, adapterVars, viewVars, checkpointVars>>

CheckpointsPart ==
  /\ part = "checkpoints"
  /\ C!CheckpointsNext
  /\ UNCHANGED <<part, adapterVars, viewVars, packVars>>

Next == AdaptersPart \/ ViewsPart \/ PacksPart \/ CheckpointsPart

(* Nothing that fairness drives is enabled in a component at rest. *)
Spec == Init /\ [][Next]_vars /\ A!AdapterFairness /\ V!ViewsFairness

(* An interrupted installation comes to an end, and rebuilds never wait for *)
(* each other (adapters/agents/service.py, adapters/sqlite/projection.py).  *)
InterruptedInstallsEnd == A!InterruptedInstallsEnd
GateReopens            == V!GateReopens

(* A rebuilt view shows one state of the index (views/service.py).          *)
OneConsistentSnapshot == V!OneConsistentSnapshot
=============================================================================
