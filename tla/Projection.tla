----------------------------- MODULE Projection -----------------------------
(***************************************************************************)
(* The SQLite projection of a context (adapters/sqlite/projection.py): the *)
(* one index file that every process reads, its rebuilds, and the gate by  *)
(* which the threads of a process keep readers out while it is replaced.   *)
(* Transactions rebuild it under the context lock before they analyse a    *)
(* proposal and after they commit it (transactions/engine.py); `workctx    *)
(* index rebuild' does without that lock.                                  *)
(*                                                                         *)
(* A document is the number of its version; whatever is derived from it in *)
(* the index is that number.  Documents the parser skips are left out.     *)
(***************************************************************************)
EXTENDS Naturals, Sequences, FiniteSets

CONSTANTS
  Docs,         \* how many documents are indexed, in the order of their paths
  Engine,       \* who applies and recovers transactions
  Indexer,      \* explicit rebuilds
  Viewer,       \* readers that make sure the index is there
  ProcessOf,    \* the process of each of them
  None,
  MaxApplies, MaxRecoveries, MaxIndexes, MaxViews,   \* how often each starts
  MaxTroubles   \* documents edited by hand, processes that die, calls that fail

VARIABLES
  tree,      \* the version of each document on disk
  ledger,    \* the versions that each audit event left behind
  pending,   \* what a transaction has replaced and not recorded, as it was
  db,        \* the versions the index shows, None when there is no index
  gate,      \* writer_lock of each process
  swapping,  \* processes whose gate is shut
  readers,   \* threads that keep a reader open
  writer,    \* holder of the context lock
  job,       \* what each of them is about
  spent,
  crossed,   \* somebody else replaced the index under the context lock
  spoiled    \* an index showed what no event had recorded yet

projectionVars == <<tree, ledger, pending, db, gate, swapping, readers, writer, job,
                    spent, crossed, spoiled>>

Doc     == 1..Docs
Actor   == {Engine} \cup Indexer \cup Viewer
Process == {ProcessOf[a] : a \in Actor}
Nothing == [d \in Doc |-> None]
Idle    == [at |-> "idle", why |-> "none", scan |-> Nothing, report |-> None, told |-> "none"]
Newest  == ledger[Len(ledger)]

ProjectionInit ==
  /\ tree = [d \in Doc |-> 0]
  /\ ledger = <<tree>>
  /\ pending = None
  /\ db \in {None, tree}
  /\ gate = [p \in Process |-> None]
  /\ swapping = {} /\ readers = {}
  /\ writer = None
  /\ job = [a \in Actor |-> Idle]
  /\ spent = [k \in {"applies", "recoveries", "indexes", "views", "edits", "troubles", "versions"} |-> 0]
  /\ crossed = FALSE /\ spoiled = FALSE

files  == <<tree, ledger, pending>>
index  == <<db, crossed, spoiled>>
latches == <<gate, swapping, readers>>

Goto(a, at)   == job' = [job EXCEPT ![a].at = at]
Spend(k)      == spent' = [spent EXCEPT ![k] = @ + 1]
Trouble       == spent["troubles"] < MaxTroubles /\ Spend("troubles")
Shut(a)       == ProcessOf[a] \in swapping

(* A rebuild that is asked for waits for writer_lock first.                *)
AskFor(a, why) == job' = [job EXCEPT ![a].at = "gate", ![a].why = why]

Start(a, next) ==
  /\ job[a].at = "idle"
  /\ \/ a = Engine /\ spent["applies"] < MaxApplies /\ Spend("applies")
     \/ a \in Indexer /\ spent["indexes"] < MaxIndexes /\ Spend("indexes")
     \/ a \in Viewer /\ spent["views"] < MaxViews /\ Spend("views")
  /\ next

(* How a rebuild ends, for whom: with an index, or with an error.          *)
AfterBuild == [preflight |-> "analyse", refresh |-> "done", explicit |-> "idle", ready |-> "query"]
AfterError == [preflight |-> "failed", refresh |-> "invalidate", explicit |-> "idle", ready |-> "failed"]

Rebuilt(a) ==
  [job[a] EXCEPT
    !.at = AfterBuild[job[a].why],
    !.scan = Nothing,
    !.report = IF job[a].why = "preflight" THEN job[a].scan ELSE @,
    !.told = IF job[a].why = "refresh" THEN "fresh" ELSE @]

Unbuilt(a) == [job[a] EXCEPT !.at = AfterError[job[a].why], !.scan = Nothing]
-----------------------------------------------------------------------------
(* _rebuild_locked, rebuild and the second look of ensure_ready: under the *)
(* writer_lock, after a transaction with a preflight the files are scanned *)
(* for whether they still are those of the preflight.                      *)
EnterGate(a) ==
  LET p == ProcessOf[a] IN
    /\ job[a].at = "gate" /\ gate[p] = None
    /\ IF job[a].why = "ready" /\ db # None
       THEN job' = [job EXCEPT ![a] = Rebuilt(a)] /\ UNCHANGED gate
       ELSE /\ gate' = [gate EXCEPT ![p] = a]
            /\ job' = [job EXCEPT ![a].scan = Nothing,
                         ![a].at = IF job[a].why = "refresh" /\ job[a].report # None
                                   THEN "rescan" ELSE "scan"]
    /\ UNCHANGED <<files, index, swapping, readers, writer, spent>>

(* _collect_sources reads one document after the other.                    *)
Scan(a, d) ==
  /\ job[a].at \in {"rescan", "scan"} /\ job[a].scan[d] = None
  /\ \A e \in 1..(d - 1) : job[a].scan[e] # None
  /\ job' = [job EXCEPT ![a].scan[d] = tree[d]]
  /\ UNCHANGED <<files, index, latches, writer, spent>>

Scanned(a) == \A d \in Doc : job[a].scan[d] # None

(* Fault of StillCurrent: the preflight is taken for current.              *)
StillCurrentUnread(a) == job[a].scan = job[a].scan

StillCurrent(a) == job[a].scan = job[a].report

(* _preflight_projection_still_current: the report is returned again, or   *)
(* everything is scanned once more.                                        *)
Reuse(a) ==
  /\ job[a].at = "rescan" /\ Scanned(a)
  /\ IF StillCurrent(a)
     THEN /\ job' = [job EXCEPT ![a] = Rebuilt(a)]
          /\ gate' = [gate EXCEPT ![ProcessOf[a]] = None]
     ELSE /\ job' = [job EXCEPT ![a].at = "scan", ![a].scan = Nothing]
          /\ UNCHANGED gate
  /\ UNCHANGED <<files, index, swapping, readers, writer, spent>>

(* The temporary database is complete; new readers are kept out.           *)
ShutGate(a) ==
  /\ job[a].at = "scan" /\ Scanned(a)
  /\ swapping' = swapping \cup {ProcessOf[a]}
  /\ Goto(a, "drain")
  /\ UNCHANGED <<files, index, gate, readers, writer, spent>>

OpenGate(a) ==
  /\ swapping' = swapping \ {ProcessOf[a]}
  /\ gate' = [gate EXCEPT ![ProcessOf[a]] = None]

Drained(a) == \A r \in readers : ProcessOf[r] # ProcessOf[a]

Swap(a) ==
  /\ job[a].at = "drain" /\ Drained(a)
  /\ db' = job[a].scan
  /\ crossed' = (crossed \/ writer \notin {a, None})
  /\ spoiled' = (spoiled \/ \E d \in Doc : db'[d] > Newest[d])
  /\ job' = [job EXCEPT ![a] = Rebuilt(a)]
  /\ OpenGate(a)
  /\ UNCHANGED <<files, readers, writer, spent>>

(* A scan, a check, the build or the replacement fails: the former index   *)
(* stays.                                                                  *)
RebuildFails(a) ==
  /\ job[a].at \in {"scan", "drain"}
  /\ job[a].at = "drain" => Drained(a)
  /\ Trouble
  /\ job' = [job EXCEPT ![a] = Unbuilt(a)]
  /\ OpenGate(a)
  /\ UNCHANGED <<files, index, readers, writer>>

Rebuild(a) ==
  \/ EnterGate(a) \/ Reuse(a) \/ ShutGate(a) \/ Swap(a) \/ RebuildFails(a)
  \/ \E d \in Doc : Scan(a, d)

Index(a) ==
  /\ Start(a, AskFor(a, "explicit"))
  /\ UNCHANGED <<files, index, latches, writer>>
-----------------------------------------------------------------------------
(* Transactions, as far as the projection is concerned.                    *)

LockContext(a) == writer = None /\ writer' = a /\ crossed' = FALSE

BeginApply ==
  /\ pending = None
  /\ LockContext(Engine)
  /\ Start(Engine, job' = [job EXCEPT ![Engine] =
                             [Idle EXCEPT !.at = "gate", !.why = "preflight"]])
  /\ UNCHANGED <<files, db, spoiled, latches>>

(* The analysis opens a reader that stays open until the projection is     *)
(* refreshed, or refuses the proposal.                                     *)
Analyse ==
  /\ job[Engine].at = "analyse" /\ ~Shut(Engine)
  /\ \/ readers' = readers \cup {Engine} /\ Goto(Engine, "decided")
     \/ UNCHANGED readers /\ Goto(Engine, "failed")
  /\ UNCHANGED <<files, index, gate, swapping, writer, spent>>

Replace(d) ==
  /\ job[Engine].at = "decided"
  /\ Spend("versions")
  /\ tree' = [tree EXCEPT ![d] = spent'["versions"]]
  /\ pending' = [doc |-> d, was |-> tree[d]]
  /\ Goto(Engine, "replaced")
  /\ UNCHANGED <<ledger, index, latches, writer>>

(* A proposal that only changes what is not indexed, or is rolled back     *)
(* since a target had changed.                                             *)
CommitElsewhere ==
  /\ job[Engine].at = "decided"
  /\ ledger' = Append(ledger, Newest)
  /\ Goto(Engine, "close")
  /\ UNCHANGED <<tree, pending, index, latches, writer, spent>>

Commit ==
  /\ job[Engine].at = "replaced"
  /\ ledger' = Append(ledger, [Newest EXCEPT ![pending.doc] = tree[pending.doc]])
  /\ pending' = None
  /\ Goto(Engine, "close")
  /\ UNCHANGED <<tree, index, latches, writer, spent>>

Restored == [tree EXCEPT ![pending.doc] = pending.was]

(* Validation refuses the files: they are put back and the index is the    *)
(* one of the preflight, which _fresh_projection_status calls fresh.       *)
RollBack ==
  /\ job[Engine].at = "replaced"
  /\ tree' = Restored /\ pending' = None
  /\ ledger' = Append(ledger, Newest)
  /\ job' = [job EXCEPT ![Engine].at = "done", ![Engine].told = "fresh"]
  /\ UNCHANGED <<index, latches, writer, spent>>

(* recover of what a crash has left, or of a transaction that is done: the *)
(* projection is another one and has no preflight.                         *)
Recover ==
  /\ job[Engine].at = "idle" /\ LockContext(Engine)
  /\ spent["recoveries"] < MaxRecoveries /\ Spend("recoveries")
  /\ IF pending # None
     THEN tree' = Restored /\ pending' = None /\ ledger' = Append(ledger, Newest)
     ELSE Len(ledger) > 1 /\ UNCHANGED files
  /\ job' = [job EXCEPT ![Engine] = [Idle EXCEPT !.at = "gate", !.why = "refresh"]]
  /\ UNCHANGED <<db, spoiled, latches>>

(* Fault of CloseReader: the rebuild is asked for with the reader open.    *)
KeepReader ==
  /\ job[Engine].at = "close"
  /\ AskFor(Engine, "refresh")
  /\ UNCHANGED <<files, index, latches, writer, spent>>

CloseReader ==
  /\ job[Engine].at = "close"
  /\ readers' = readers \ {Engine}
  /\ AskFor(Engine, "refresh")
  /\ UNCHANGED <<files, index, gate, swapping, writer, spent>>

(* A refresh that failed removes the index; whether it is gone is looked   *)
(* up afterwards.                                                          *)
Invalidate ==
  /\ job[Engine].at = "invalidate" /\ gate[ProcessOf[Engine]] = None
  /\ \/ db' = None /\ UNCHANGED spent
     \/ Trouble /\ UNCHANGED db
  /\ Goto(Engine, "confirm")
  /\ UNCHANGED <<files, crossed, spoiled, latches, writer>>

Confirm ==
  /\ job[Engine].at = "confirm" /\ ~Shut(Engine)
  /\ job' = [job EXCEPT ![Engine].at = "done",
               ![Engine].told = IF db = None THEN "stale" ELSE "unconfirmed"]
  /\ UNCHANGED <<files, index, latches, writer, spent>>

EndApply ==
  /\ job[Engine].at \in {"done", "failed"}
  /\ readers' = readers \ {Engine}
  /\ writer' = None
  /\ job' = [job EXCEPT ![Engine] = Idle]
  /\ UNCHANGED <<files, index, gate, swapping, spent>>

Transact ==
  \/ Analyse \/ Commit \/ CommitElsewhere \/ RollBack \/ CloseReader
  \/ Invalidate \/ Confirm \/ EndApply
  \/ \E d \in Doc : Replace(d)
-----------------------------------------------------------------------------
EditDoc(d) ==
  /\ spent["troubles"] < MaxTroubles
  /\ pending # None => pending.doc # d
  /\ spent' = [spent EXCEPT !["edits"] = @ + 1, !["troubles"] = @ + 1, !["versions"] = @ + 1]
  /\ tree' = [tree EXCEPT ![d] = spent'["versions"]]
  /\ UNCHANGED <<ledger, pending, index, latches, writer, job>>

(* A process dies with everything in it; its context lock goes stale.      *)
Die(p) ==
  LET gone == {a \in Actor : ProcessOf[a] = p} IN
    /\ \E a \in gone : job[a].at # "idle"
    /\ Trouble
    /\ job' = [a \in Actor |-> IF a \in gone THEN Idle ELSE job[a]]
    /\ gate' = [gate EXCEPT ![p] = None]
    /\ swapping' = swapping \ {p} /\ readers' = readers \ gone
    /\ writer' = IF writer \in gone THEN None ELSE writer
    /\ UNCHANGED <<files, index>>

ProjectionNext ==
  \/ BeginApply \/ Recover \/ Transact
  \/ \E a \in Indexer : Index(a)
  \/ \E a \in Actor : Rebuild(a)
  \/ \E d \in Doc : EditDoc(d)
  \/ \E p \in Process : Die(p)

-----------------------------------------------------------------------------
(* A transaction that reports a fresh projection leaves an index behind    *)
(* which shows all that was ever committed, edits by hand and failures or  *)
(* not, unless another process replaced the index in the meantime.         *)
FreshMeansCurrent ==
  job[Engine].at = "done" /\ job[Engine].told = "fresh" /\ ~crossed =>
    db # None /\ \A d \in Doc : db[d] >= Newest[d]

(* Whoever rebuilds the index in the engine's process gives writer_lock     *)
(* back: no thread waits for a reader that stays open until that thread is *)
(* done.  Only transactions keep a reader open between calls.  That it is   *)
(* held ~> free is the same formula.                                       *)
GateReopens == []<>(gate[ProcessOf[Engine]] = None)
=============================================================================
