---------------------------- MODULE MCServices -----------------------------
(***************************************************************************)
(* Small instances of the services that work on a context: the outbox, the *)
(* connectors, the inbox, and the records an operator keeps: suggestions,  *)
(* tasks and topics.  Each behavior is one of the component `part'; the    *)
(* others rest in an initial state of theirs, so that one run checks each  *)
(* of them by itself.                                                      *)
(***************************************************************************)
EXTENDS Outbox, Ingestion, Connectors, Records

(* Two senders and one author of a draft. *)
MCSender == {"p", "q"}
MCSaver == {"u"}
MCTarget == {"t1"}

(* Two syncs, the first of everything that is due, the second of one        *)
(* connector whether it is due or not.                                     *)
MCRun == {"r1", "r2"}
MCDueOnly == {"r1"}
MCConnector == {"a", "b"}
MCScope == [r \in Run |-> IF r = "r1" THEN {"a", "b"} ELSE {"a"}]
MCSnapshot == {"x", "y"}
MCSnapshotsOf == [c \in Connector |-> IF c = "a" THEN <<"x", "y">> ELSE <<"x">>]
MCInterval == [c \in Connector |-> [x |-> 1, y |-> IF c = "a" THEN 2 ELSE 0]]
MCResponse == {1}

(* Two batches and one lone registration; one content is suspicious. *)
MCSession == {"s1", "s2", "s3"}
MCBatch == {"s2", "s3"}
MCPath == {"p1", "p2"}
MCStem == [p \in Path |-> p]
MCContent == {"c", "q"}
MCSuspicious == {"q"}

(* Two calls on records: a suggestion for the change of one document, which *)
(* an editor changes too; one task and room for another; two topics, and    *)
(* one that the guard takes for the first of them.                          *)
MCAgent == {"c1", "c2"}
MCEditor == {"e"}
MCSuggestion == {1, 2}
MCTask == {"t1", "t2"}
MCValue == {"y"}
MCSlug == {"a", "b", "c"}
MCAlias == {"n"}
MCFirstTopics == {"a", "b"}
MCSimilar == {{"a", "c"}}

(* One entity and one task, and what two agents may author of an artifact:  *)
(* a note, a note with a claim, a note with another entity.                *)
MCUri == {"n", "m", "e", "t", "f", "k"}
MCExisting == {"e", "t"}
MCClaims == {"k"}
MCNames == [u \in Uri |-> CASE u = "e" -> {"x"} [] u = "f" -> {"x", "y"} [] OTHER -> {}]
MCPayload == [c \in Agent |->
  IF c = "c1"
  THEN {[note |-> "n", stamp |-> 1, new |-> {}, tasks |-> {"t"}, claims |-> {},
         about |-> None, sources |-> <<"e">>, cites |-> {"n"}],
        [note |-> "m", stamp |-> 2, new |-> {"f"}, tasks |-> {}, claims |-> {},
         about |-> None, sources |-> <<>>, cites |-> {"m"}]}
  ELSE {[note |-> "m", stamp |-> 2, new |-> {}, tasks |-> {}, claims |-> {"k"},
         about |-> "x", sources |-> <<"e", "t">>, cites |-> {"n", "m"}],
        [note |-> "m", stamp |-> 3, new |-> {}, tasks |-> {}, claims |-> {},
         about |-> None, sources |-> <<"m">>, cites |-> {"m"}]}]

VARIABLE part

serviceVars == <<outboxVars, connectorVars, ingestionVars, evidenceVars>>
recordVars  == <<suggestionVars, tasksVars, topicVars>>

vars == <<part, serviceVars, recordVars>>

Init ==
  /\ part \in {"outbox", "connectors", "inbox", "evidence", "suggestions", "tasks", "topics"}
  /\ OutboxInit /\ ConnectorsInit /\ IngestionInit /\ E!EvidenceInit
  /\ S!SuggestionsInit /\ T!TasksInit /\ P!TopicsInit
  /\ part # "suggestions" => record = [i \in Suggestion |-> None]
  /\ part # "outbox" => draft = None
  /\ part # "inbox" => raw = [p \in Path |-> Both("c")]

OutboxPart ==
  /\ part = "outbox"
  /\ OutboxNext
  /\ UNCHANGED <<part, connectorVars, ingestionVars, evidenceVars, recordVars>>

ConnectorsPart ==
  /\ part = "connectors"
  /\ ConnectorsNext
  /\ UNCHANGED <<part, outboxVars, ingestionVars, evidenceVars, recordVars>>

InboxPart ==
  /\ part = "inbox"
  /\ IngestionNext
  /\ UNCHANGED <<part, outboxVars, connectorVars, evidenceVars, recordVars>>

EvidencePart ==
  /\ part = "evidence"
  /\ E!EvidenceNext
  /\ UNCHANGED <<part, outboxVars, connectorVars, ingestionVars, recordVars>>

SuggestionsPart ==
  /\ part = "suggestions"
  /\ S!SuggestionsNext
  /\ UNCHANGED <<part, serviceVars, tasksVars, topicVars>>

TasksPart ==
  /\ part = "tasks"
  /\ T!TasksNext
  /\ UNCHANGED <<part, serviceVars, suggestionVars, topicVars>>

TopicsPart ==
  /\ part = "topics"
  /\ P!TopicsNext
  /\ UNCHANGED <<part, serviceVars, suggestionVars, tasksVars>>

Next ==
  \/ OutboxPart \/ ConnectorsPart \/ InboxPart \/ EvidencePart
  \/ SuggestionsPart \/ TasksPart \/ TopicsPart

(* Nothing that fairness drives is enabled in a component at rest. *)
Spec == Init /\ [][Next]_vars /\ IngestionFairness

(* Types, and what each step of a run, a batch or a move relies on. *)
TypeOK ==
  OutboxTypeOK /\ ConnectorsTypeOK /\ IngestionTypeOK /\ RecordsTypeOK
=============================================================================
