------------------------------- MODULE Derived -------------------------------
(***************************************************************************)
(* What is derived from a context: its index, with the views, the context  *)
(* packs and the checkpoints that are taken from it while it is rebuilt;   *)
(* and the installations of agent adapters.  They share nothing that is    *)
(* written: no step here touches two of them.                              *)
(***************************************************************************)
EXTENDS Naturals, Sequences, FiniteSets, Absent

CONSTANTS
  Installer, Release, N, Owns, Edits, Empty, MaxStrikes, MaxForgets, \* see AdapterInstall
  Docs, Engine, Indexer, Viewer, Side,                               \* see Projection
  MaxApplies, MaxRecoveries, MaxIndexes, MaxViews, MaxTroubles,
  Brief,                                                             \* see Views
  Graph, Budget, Queries, ItemUnits(_), FocalUnits, MinimalUnits,    \* see ContextPack
  MaxBuilds,
  Item, Successor, Body, MaxChanges                                  \* see Checkpoints

VARIABLES
  project, trust, lease, journal, job, strikes, forgets,
  tree, ledger, pending, db, gate, swapping, readers, writer, task, spent, crossed,
  spoiled, head, shown, sound,
  index, asked, pc, attempt, found, pack,
  disk, known, revision, changes, saver, checker, taken, checkpoint, looked,
  verdict, sighted

A == INSTANCE AdapterInstall WITH Edit <- Edits
V == INSTANCE Views WITH ProcessOf <- Side, job <- task
P == INSTANCE ContextPack WITH Query <- Queries, Units <- ItemUnits
C == INSTANCE Checkpoints

adapterVars    == <<project, trust, lease, journal, job, strikes, forgets>>
viewVars       == <<tree, ledger, pending, db, gate, swapping, readers, writer, task,
                    spent, crossed, spoiled, head, shown, sound>>
packVars       == <<index, asked, pc, attempt, found, pack>>
checkpointVars == <<disk, known, revision, changes, saver, checker, taken, checkpoint,
                    looked, verdict, sighted>>

DerivedSpec ==
  A!AdapterSpec /\ V!ViewsSpec /\ P!PackSpec /\ C!CheckpointsSpec
-----------------------------------------------------------------------------
(* Types, and what each step of an installation relies on. *)
DerivedTypeOK ==
  A!AdapterTypeOK /\ P!PackTypeOK /\ C!CheckpointsTypeOK

(* Adapters: what is trusted is whole, what is not can be put back, and     *)
(* what the user has edited stays (adapters/agents/service.py).             *)
InstallsAreWhole ==
  [](A!TrustedIsWhole /\ A!TornOnlyUnderIntent) /\ A!EditsSurvive

(* Index and views: what a transaction calls fresh is current, and what a   *)
(* view is stamped with it shows (projection.py, views/service.py).         *)
ViewsShowTheirRevision == V!FreshMeansCurrent /\ V!ViewsShowTheirRevision

(* Packs and checkpoints: what is read piece by piece while it changes is   *)
(* of one moment, or is not said to be: a pack is of one generation of the *)
(* index, and what a check calls unchanged is the same                     *)
(* (retrieval/builder.py, checkpoints/service.py).                         *)
ReadingsAgree == P!PacksOfOneGeneration /\ C!UnchangedIsTheSame

(* Packs: what is kept is worth more than what is left out, and fits        *)
(* (retrieval/builder.py).                                                  *)
PacksKeepBudget == P!BudgetsAreKept
=============================================================================
