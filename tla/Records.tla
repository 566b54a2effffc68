------------------------------- MODULE Records -------------------------------
(***************************************************************************)
(* The records of a context, side by side: what is drawn from evidence,    *)
(* suggestions, tasks with their claims, and topics.  Each service has a   *)
(* part of the tree to itself, of which the engine refuses the proposals   *)
(* that are stale; no step here touches two of them.                       *)
(***************************************************************************)
EXTENDS Naturals, Sequences, FiniteSets, Absent

CONSTANTS
  Agent, First,          \* calls on records; the first content of a document
  Editor, Suggestion,    \* see Suggestions: other writers, identities
  Task, FirstTask, Value, MaxClaims,                              \* see Tasks
  Slug, Alias, Similar, FirstTopics, Documents, MaxTags,          \* see Topics
  Uri, Claims, Existing, Names, Payload, Stray                    \* see Evidence

VARIABLES
  record, document, revision, call, asked,
  doc, claims, index, head, half, before, step, plan,
  topics, tag, tags, topicRevision, topicCall, wanted,
  tree, located, events, used, artifact, agent, authored

S == INSTANCE Suggestions WITH Caller <- Agent, Id <- Suggestion
T == INSTANCE Tasks WITH Caller <- Agent
P == INSTANCE Topics WITH Caller <- Agent, revision <- topicRevision, call <- topicCall
E == INSTANCE Evidence WITH
  Caller <- Agent, doc <- tree, index <- located, count <- events, call <- agent, plan <- authored

suggestionVars == <<record, document, revision, call, asked>>
tasksVars      == <<doc, claims, index, head, half, before, step, plan>>
topicVars      == <<topics, tag, topicRevision, tags, topicCall, wanted>>
evidenceVars   == <<tree, located, events, used, artifact, agent, authored>>

RecordsSpec ==
  S!SuggestionsSpec /\ T!TasksSpec /\ P!TopicsSpec /\ E!EvidenceSpec
-----------------------------------------------------------------------------
(* Types.                                                                  *)
RecordsTypeOK == S!SuggestionsTypeOK /\ T!TasksTypeOK /\ P!TopicsTypeOK /\ E!EvidenceTypeOK

(* Suggestions, tasks and evidence: calls that overlap lose nothing of each *)
(* other (suggestions/service.py, tasks/service.py, evidence/service.py).   *)
NothingIsLost  == S!RecordsSurvive /\ T!EditsOneField /\ E!RelationsOnlyAdd

(* The claims about a task follow it, and no document that is drawn from    *)
(* evidence exists twice (tasks/service.py, evidence/service.py).           *)
RecordsAgree == T!ClaimsTellTask /\ E!OneOfEach

(* Topics: names keep their meaning, and no two topics are the same         *)
(* (topics/service.py).                                                     *)
TopicsStaySound == P!NamesKeepResolving /\ []P!NoSilentTwins
=============================================================================
