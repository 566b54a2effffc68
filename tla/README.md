# Verification of workctx

TLA+ modules, TLC configurations and TLAPS proofs kept beside `workctx`, a local, file-based
work-context store.  Everything that changes a context's canonical files goes through one
protocol: a *proposal* is applied under a *context lock*, through a *staged replacement* with a
write-ahead *intent*, and becomes durable when its *audit event* is appended to a hash-chained
ledger.  These modules describe that protocol, the services that work through it (outbox, inbox,
connectors, evidence, tasks, topics, suggestions), the rules by which a workspace is judged, the index
and the views, context packs and checkpoints drawn from the files, and what the program keeps per machine or project (registry, secrets, usage log, installed agent adapters).
Line numbers are those of the commit the modules were written against; `PROJECT.json` maps every
definition to its lines.

Paths below are relative to `src/src/workctx/` unless they start with `docs/`.

## The system

`workctx` is one Python program, used from a command line and as an MCP server, by several
processes on one or several hosts at once.  There is no server that orders them: they meet in the
files of a context directory only.

| Component | State it keeps | Operations | Meets others through | What makes it correct | Module |
|---|---|---|---|---|---|
| Context writer lock (`adapters/filesystem/lock.py`) | `98_state/lock.json`, its archives | acquire, takeover, heartbeat, verify_fence, release | the lock file, pid probes | at most one live lease; a stale lease can be taken over; release and heartbeat never touch a successor's lease | `ContextLock`, `Lease` |
| Mutation guard (same file) | `.lock-guard-*` claim files | enter, leave, cancel, reap | claim files | mutual exclusion of every mutation of `lock.json`; nobody waits for a dead process for ever | `MutationGuard` |
| Staged replacement (`adapters/filesystem/staging.py`) | transaction directory with backups and staged files, `intent.json` | prepare, apply, rollback, inspect, rollback_recovery, finalize | the canonical files | all targets or none; recovery decides from the disk alone | `StagedReplacement` |
| Audit ledger (`transactions/ledger.py`) | `99_meta/audit/ledger.jsonl` | verify, append_event, find by proposal id | the ledger file | an unbroken chain, one event per proposal | `AuditLedger` |
| Transaction engine (`transactions/engine.py`) | nothing of its own | preview, validate, apply, recover | all of the above | atomicity, no lost update, truthful audit, recoverability | `TransactionEngine`, `AtomicStore`, `Proposals` |
| Validation (`validation/`) | nothing of its own | validate a tree | called by the engine before and after a replacement | every error of a tree is reported, whatever the order of its files | `WorkspaceRules` |
| SQLite projection (`adapters/sqlite/`) | a rebuildable database and its manifest | rebuild, invalidate, freshness, queries | canonical files, an in-process lock and swap gate | what is reported fresh shows all that was committed; rebuilds never block each other | `Projection` |
| Views (`views/service.py`) | generated files stamped with a revision | rebuild, brief | projection, ledger, documents | what is stamped with a revision shows that revision | `Views` |
| Outbox (`drafting/`) | the draft and its delivery record, a remote comment | save, preview, send | HTTP, the engine | nothing unreviewed is posted; what is reported and recorded is true | `Outbox` |
| Ingestion (`ingestion/service.py`) | raw files, manifests, quarantine and archive, an intent of its own | register, register_batch, archive_after | the lock, the engine | evidence is never lost, moved in half or without authority | `Ingestion` |
| Connectors (`connectors/`) | raw files, `last-sync.json` | sync, sync_all | HTTP, ingestion | a noted time belongs to a sync that succeeded; registered files stay | `Connectors` |
| Tasks (`tasks/service.py`) | task documents and claims about them | create, change a field | projection, the engine | claims and documents agree; a change touches one field | `Tasks` |
| Topics (`topics/`) | the topic registry, the tags of documents | add, alias, merge | the engine | names keep their meaning; no two topics are the same | `Topics` |
| Suggestions (`suggestions/service.py`) | suggestion records | create, adopt, reject | the engine | records are never lost; decisions are final | `Suggestions` |
| Context registry (`adapters/filesystem/registry.py`) | a registry file under an OS file lock | register, register_if_changed, unregister, set_active | the file lock | no lost registration, no silent rebinding | `Registry` |
| Secrets (`secrets/`) | the OS credential store and an index of names | store, delete | a file lock on the index | index and store agree | `SecretStore` |
| Usage recording (`usage/recording.py`) | JSONL files with rotation | record | an in-process lock | recent events are kept, in order | `UsageLog` |
| Agent adapters (`adapters/agents/`) | project files, a project lock, a journal, a trust record per user | install, repair, uninstall, status, recover, forget | the file system, the shipped kit | what is trusted is whole; an interrupted installation can be put back; edits outlive upgrades; status and plans agree | `AdapterInstall`, `AdapterPlans` |
| Context packs (`retrieval/`) | nothing of its own | build_pack | the index, rebuilt meanwhile | a pack shows one generation of the index, in rank order, within its budget | `ContextPack` |
| Checkpoints (`checkpoints/service.py`) | a checkpoint record | save, check | the index, the engine | what is called unchanged is the same | `Checkpoints` |
| Evidence (`evidence/service.py`) | canonical documents of an artifact | stage, build one proposal, complete | index, documents, the engine | relations only add to documents; no document exists twice | `Evidence` |
| Graph, Obsidian export, migration, MCP server, CLI, doctor, guide | none, or one-shot | | | | not modelled |

### Behaviours that are hard

* **Concurrency without a server.** Two processes race for the lock, for `intent.json` and for the
  ledger file.  A lease can be taken over while its owner sleeps, and the owner then works on.
* **Check, then act.** Every fence check and every hash check of a target is a separate system
  call from the rename or unlink it protects.
* **Crashes anywhere.** Recovery has nothing but the disk: a prefix of targets replaced, a
  rollback half done, an event appended whose intent was not removed, an `intent.json` created but
  not filled.
* **Partial failure.** Validation vetoes after every file was replaced; an I/O call fails between
  two targets; a heartbeat is lost at any step.
* **Foreign writers.** People edit canonical files by hand while a transaction runs.
* **Retries.** A client that timed out applies the same proposal again, after it was committed or
  rolled back by recovery.

`PROJECT.json` lists each of these under `hazards` with the line where it bites and the properties
that would catch it.

## Modules

```
StagedReplacement   data: operations, recorded images, target classification
AuditLedger         data: the chain, lookup, the append check
      \    /
 TransactionEngine  the protocol: apply and recover, crashes, stalls, edits
   |      |    \____ refines ____ AtomicStore  (abstract specification)
   |   TransactionEngineProofs    theorems: whatever happens; while leases are kept up
   |   FaithfulEngineProofs       theorems: and nobody edits by hand; the refinement
 MCTransactionEngine              instances for TLC
        .
        .  relies on leases (lock.json)
        .
   ContextLock  ____ refines ____ Lease        (abstract specification)
   |   ContextLockProofs          theorems     MCContextLock      instances
        .
        .  relies on mutual exclusion
        .
  MutationGuard
       MutationGuardProofs        theorems     MCGuards           instances

 MCServices    Outbox  Connectors  Ingestion  Records
   |                              Records: Suggestions  Tasks  Topics  Evidence, side by side
   |   ServicesProofs (Outbox, Ingestion, Connectors), RecordsProofs    theorems
 Stores        Registry  SecretStore  UsageLog, each behind a lock of its own
   |   StoresProofs               theorems
 MCGuards      MutationGuard  Stores  ContextLock
 MCProposals   MCGuards, Proposals (which extends WorkspaceRules)
 MCAdapterPlans  MCProposals, AdapterPlans
 Derived       AdapterInstall  Views  ContextPack  Checkpoints, side by side
   |                           Views extends Projection
   |   DerivedProofs              theorems
 MCDerived     Derived
 MCAdapterInstall, MCIngestion                 instances of one component for a finding
```

The layers are joined by their promises.  `MutationGuard` shows that one process at a time is
inside the guard; `ContextLock` takes that as given and shows that `lock.json` is a lease;
`TransactionEngine` takes leases as given, stale ones under live processes included; the services
and the projection take the engine as `AtomicStore` describes it, with as many of its steps as they
can tell apart.  Composing the layers in one state space would multiply their states without a step
in which two layers interact: each meets the one below through entry, refusal and loss only, and
these are its inputs.

Where components do interact step by step they are composed: `Views` extends `Projection`, since a
view is asked for while transactions and rebuilds replace the index under it; `Outbox`, `Tasks`,
`Topics` and `Suggestions` contain the calls of several processes and the engine's transactions
between them.

`MCServices`, `MCGuards`, `MCDerived`, `MCProposals`, `MCAdapterPlans` and `MCContextLock` put several independent components into one run.
Every behaviour is of one component (`part`), and the others rest in one initial state of theirs,
so each is checked by itself and the number of states is the sum, not the product.  Fairness
conditions of a resting component hold trivially: none of its actions is enabled.

### StagedReplacement and AuditLedger

Constant-level modules.  A *content* stands for bytes and their SHA-256 hash at once; `Absent` for
a missing file.  An intent target is a kind with two partial maps from paths to contents, `pre` and
`post`; this is all `StagedWrite`, `StagedMove` and `StagedDelete` differ in.  `Applied`, `Pending`
and `Conflict` are `_classify_targets` (the postimage is tried first, as in the code); `Mutated` is
one `os.replace` or unlink, where a move carries whatever its source holds at that moment.  In the
ledger a hash stands for the prefix it digests, so a `prev_hash` check is equality of ledgers.

### TransactionEngine

The state is what is on disk (`files`, `ledger`, `intent`, `stages`, `assets`, `lock`), what each
proposal recorded when it was written (`proposal`), and what a running process remembers (`pc`,
`run`, `outcome`).  A *session* is a process slot: after a run ends, or the process dies, the slot
starts another run, which shares nothing with the former one but the disk.

One run of `apply` (`engine.py:337-607`) goes through

    inspect -> prepare -> publish -> create -> fill -> prepared -> scan -> apply/mutate*
            -> validate -> append -> extend -> finalize -> remove -> release

with `rescan -> rollback/restore*` in front of `append` when validation vetoes.  One run of
`recover` (`engine.py:665-803`) starts at `inspect` and joins at `rescan` (no event yet: roll back)
or at `finalize` (the event is there).  Each label is the window between two system calls that
another process can fall into: the fence check and the classification of one target are the step
`ApplyNext`, the rename is the step `MutateTarget`.  `CreateIntent` and `FillIntent` are the two
calls of `_publish_intent`; `CheckAppend` and `ExtendLedger` are the verification and the
replacement of the ledger file; `CheckFinalize` and `RemoveIntent` likewise.

Every step can raise; `Raise` is the exception handler of `apply` and `recover`, which reports
`pending` when it knows of an intent and one is on disk.  `Fail` lets any call fail for good or a
heartbeat be lost; `Crash` kills the process at any step; `Stall` lets the lease go stale under a
live process, and `Heartbeat` lets it be refreshed again on waking; `Edit` is a foreign write.

What is abstracted: the analysis of a proposal is its verdict; path hardening, permissions, fsync
and the layout of files are left out; a call retried on `PermissionError` repeats its check before
each attempt, and is one check and one mutation; the inspection of the ledger and of the intent at
the start of `recover` is one step, since its later re-verification is contained in `CheckAppend`;
the refresh of the projection after finalisation does not touch the state modelled.  `preview` and
`validate` only read.  The lock is seen through its promises: acquisition, takeover, fence and
release are each atomic here.  A file that does not change between two checks made under one
process is read once.

### AtomicStore

What the engine promises.  `Propose` records a revision and what is expected of the files; `Commit`
changes all files of a proposal and logs its receipt in one step, if the head is still the recorded
revision and every expected file is as expected; `Abort` only logs.  `TransactionEngine` implements
it under the refinement mapping `Store`: an intent without a committed event *has not happened*, so
the files a reader may rely on show its preimages (`Reliable`), and the commit is the step
`ExtendLedger`.

### WorkspaceRules and Proposals

`WorkspaceRules` is the validation engine as functions of a tree (`Issues`), together with what the
projection indexes of it (`Indexed`).  A path is a number with a zone and the identity its name
promises; a document has the fields the rules tell documents apart by.  Severities, the codes that
are errors when strict, and the order in which sorted paths are visited are those of the code, and so
is the way the rules are computed: strongly connected components by the two passes of Kosaraju's
algorithm, overlapping claims by one sweep that remembers the latest end.  The recursion this takes
keeps theorems out of these two modules.

`Proposals` is what the engine does with it.  The dry run (`Preview`) decides on the tree as it is;
an apply rebuilds the index, reads what it needs once to compile (`held`), checks preconditions and
references, takes a baseline of errors, prepares, replaces, and then looks at the live tree: errors
that were not there before, and the postconditions, decide between commit and restoration.  Documents
are saved by hand in between.  The replacement is one step, since `TransactionEngine` has the steps;
approval and the configuration are given; the two secret patterns are one mark.

### MutationGuard

`_acquire_mutation_guard` and `_release_mutation_guard` (`lock.py:480-729`), the file-only bakery.
A *nonce* is one attempt to enter; it is used once, and its order breaks ties between equal tickets.
An attempt goes through

    claim (choosing) -> count (read tickets) -> write (own ticket) -> open (withdraw choosing)
          -> choosing (scan) -> tickets (scan) -> hold | rescan | quit -> resign -> done

* A claim file is `none`, `torn` (created, still empty) or `whole`: `_write_exclusive` creates and
  fills it in two system calls.  Meeting a torn one makes a reader raise.
* A scan is not atomic.  It reads entry by entry in name order (`Visit`), while the others go on;
  an entry that is not there counts as read as early as one likes, which contains every result a
  directory listing made at one moment, or across several, can give.
* What a reader may remove: an entry whose owner is dead on its own host, one retired by a
  cancellation marker (left where the unlink failed), and a torn one that is an hour old.  The last
  is compared first and unlinked in a second step (`Reap`), as in `_unlink_if_unchanged`.
* `MarkerGone`: a second reader may collect a retired claim and its marker between our reading of
  the one and our search for the other; the claim then counts.
* A failing call ends the attempt (`Fail`), which withdraws its two claims one after the other
  (`Quit`, `Resign`), each of which may fail in turn.  `Exit` is a death at any step.

Left out: `PermissionError` retries, which repeat the same call; pid reuse and pid namespaces; the
age of a whole claim, which the code ignores.

### ContextLock and Lease

`acquire`, `heartbeat` and `release` (`lock.py:218-361`, `436-477`).  A *lease* is one call of
`acquire` with the nonce it writes.  `lock` names the file at `lock.json` by the lease that wrote it
and the number of its heartbeat, which is what inode, time and content tell apart in the code;
`file` says whether the file a lease created has its content; `old` whether it has not been
refreshed for `stale_after`.  `Create` and `Fill` are the two calls of `_write_exclusive`; a takeover
is `Inspect`, `Recheck`, `Link`, `Compare`, `Unlink` and another `Create`.  Archives are second names
of a file (`evidence`), so what is filled later shows in them too.  A heartbeat takes its time stamp
*before* it enters the guard (`Stamp`), and `late` holds those whose stamp has expired by the time
it is written: such a heartbeat leaves the lock as stale as it was.

The guard is the set `inside`.  `EnterGuard` needs it empty, or spends one of `MaxBreaches`: with
breaches the comparisons around the archive, which exclusion makes redundant, come to matter.
`Collect` is the reclaiming of a dead process's ticket by somebody on its host; `Leak` a ticket that
cannot be withdrawn.  After a leak at the end of `acquire` the caller has an error and `lock.json` a
lease nobody knows of, which others take over once it is stale.

Abstracted: the second inspection in `_archive_if_unchanged` is the comparison of the snapshot,
since an unchanged stale file stays stale; the two fence checks of a heartbeat are the last one; the
comparison inside the discarding of an archive is part of `Compare`.  A clock set back is not
modelled.

`Lease` is the promise: an owner, granted when there is none and never to one who had it, whose
lease ends by its own release or while it is stale.  `ContextLock` refines it under `Implemented`.

### Outbox

One draft, its authors (`Saver`) and its senders.  A send goes `Preview` (what the operator is
shown), `Send` (the approval fingerprint must be that of what is there now), `Deliver` (the post),
then the recording transaction.  Only an answer that was read tells success or failure: a lost, late
or unreadable one leaves the outcome `unknown`, and the comment may or may not be there.  A save
reads the draft (`ReadDraft`), hashes it again (`HashDraft`) and submits.  Of a transaction the
replacement (`Apply`), the event (`Commit`) and the rollback are apart, since readers take no lock
and see a file that is not committed yet.  `Crash` ends a call anywhere; a rollback by a recovery
follows.  Texts and targets are the values they can be told apart by.

### Connectors

A run is one call of `sync_all` or `sync`: due evaluation on what `last-sync.json` said at its start,
then per connector fetch, primary file, sidecar, registration, and the read-modify-write of
`last-sync.json`, each a step of its own, beside other runs, with failures and deaths in all of them.
A raw file is named by connector, snapshot and the second of its retrieval, so two runs may meet in
one name.  Requests and redirects are a fetch that succeeds or fails.  Ingestion is external here: of
a batch it registers the files in order and may fail at any of them.

### Ingestion

`register`, `register_batch` and `archive_after` with the resumption of interrupted moves.  A
registration commits a manifest, then a receipt, then moves a suspicious file to quarantine; the
archive moves a file a transaction refers to.  Moves go file by file (primary, sidecar) under the
context lock and behind an intent of their own, which a later session adopts if every file is in one
of its two places.  An engine commit is one step.  Scanning is a property of the content.  `Put` is
an operator who places another file at a raw path, `Fall` a session that dies or fails.

### Evidence

Processing one artifact: an agent authors a note, new entities, tasks, claims and relations (one
`Payload`), and `stage_observations` turns them into one proposal in the order of the code: `Declare`
(the shells, which must be new by the *index*, tasks excepted), `Observe` (observations and claims),
`Restore` (the references put aside until all names are known), and one `Relate` per relation.  A
relation is a reference added to the document of its source; an existing document is read where the
index has it (`Relate`) and hashed by a second reading (`Hash`).  The base revision is taken last
(`Propose`), and a transaction is one step (`Apply`).  Others edit and move documents at any moment, and
the index follows when it does (`Reindex`).  Names resolve by a relation (`Names`); texts and references
are named by who wrote them; the filter for secrets is left out.

### Tasks, Topics and Suggestions

All three build a proposal from several readings and leave it to the engine to refuse what has
changed; the models keep every reading apart.

* `Suggestions`: a call decides on one reading of a record, takes its hash from a second and the base
  revision after both.  A transaction is one step.  `Edit` is one change of the document a
  suggestion is about, and happens once.  The two kinds of suggestion that carry no change are one.
* `Tasks`: a call brings the index up to date, reads the task, takes free claim numbers from the files
  and the current claim from the *index*, then the base revision.  The transaction is `Replace`,
  `Commit` or `RollBack`, and `Refresh`, which may fail and leave the index behind.  A transaction's
  files are replaced in one step, and its preflight rebuild of the index is part of `Replace`.
* `Topics`: the registry is read with its hash once, for a merge then document after document, hash
  before content, and the base revision last.  The duplicate guard's normalisation and edit distance
  are a relation on names (`Similar`); the integrity rules of a registry are `IsRegistry`.  An empty
  registry stands for an absent file.

### Registry, SecretStore and UsageLog

* `Registry`: load, decide and replace under the file lock, by callers that give up waiting and
  processes that die (the operating system then drops the lock).  `intended` is what the calls, one
  after the other and each on its own id, make of the empty registry.
* `SecretStore`: the value goes to the credential store, the name to the index, one after the other;
  only the index is guarded.  `torn` remembers names whose last operation failed or was not alone.
* `UsageLog`: rotation look by look and rename by rename, over names and inodes, by threads that
  share a lock in a process and by processes that share nothing.  `Keep` is at least 1, as in the
  code.

### AdapterInstall

Plan, apply, recover, adoption and `forget` for one client's files in one project.  A plan is what it
saw and what it wants; applying it re-checks everything under the project lock, marks the trust
record pending, writes the intent, moves the files with the manifest last, retires the intent and
settles the trust record on the manifest it finds.  A new file is reserved empty and then replaced.
Installers die anywhere or lose their lease by stopping too long; users edit files and forget the
record.  A fence check and the file operation behind it are one step, as are the compare-and-swap of
the install record and an adoption; the identity of files is abstracted; staged bytes and preimages
exist as long as their intent does; edited generated files make a plan report-only.

### AdapterPlans

What the plans above want, which `AdapterInstall` takes as given: `Selection` (which skills, which of
the project's own files to refresh, which edits to keep), `PlanInstall` (install and repair),
`PlanUninstall`, the manifest they record and `Status`, each a function of the project's files
(`tree`), the manifest, the trust record and the kit the installed release ships.  One step plans and
applies; in between come releases (`Upgrade`), the operator's edits and deletions (`Operate`), lost
manifests and forgotten trust records.  The client is Codex, which reads a context's own skills
natively, or another, which gets rendered copies; the root is a context or a repository.

A content is a tuple and stands for its hash.  What the program builds (a rendered skill, a bridge
with the personal layer in it, a refreshed registry) is a tuple of what it is built from, so that two
of them are equal exactly when the program's are.  A skill is its `SKILL.md` and one resource; the
registry is its packaged section and its custom one.  Left out: retained backups are never made by
this release and are only found; versions of the renderer; locks, staging and unsupported clients,
which `AdapterInstall` has or which end a call at once.  `mine` is history: the operator's edits of
what is installed, until they are what the kit ships.

### Projection and Views

The index (`db`) and the documents are version numbers: `tree` is what the files say, `ledger` what
was committed.  Rebuilds scan document after document, shut the swap gate of their process, wait for
its readers and replace the database; a transaction rebuilds first (preflight), keeps a reader open
while it analyses, and refreshes after its commit, by reuse when a scan finds nothing changed.  A
failed refresh invalidates, and whether the index is gone is looked up afterwards.  Indexers take no
context lock.  A view is opened with the head of the ledger, asks twice (each time making sure there
is an index), reads documents, and compares the head again; a brief does the same without the lock
and shows no documents.

Left out: documents the parser skips, the queries themselves, a fence lost after a successful swap,
and the replacement of the view files, which happens under the lock.  Readers of view queries are
atomic; only transactions keep one open.  The history variables `crossed` (another process replaced
the index meanwhile), `spoiled` (an index was built from files no event records) and `sound` name
the exceptions the properties make.

### ContextPack

One call of `build_pack`: the queries an attempt makes, in the code's order (resolution, edges,
neighbors, claims, observations, tasks, people), each against the index as it is at that moment,
between two readings of the index's metadata.  When the two differ, or a record is gone, the attempt
is made once more and then refused.  What was gathered is put into the sections, ranked by the eight
weighted factors (with the recency buckets, against the newest candidate) and cut to the budget, tier
by tier from the least important, the focal item being compacted only when it is alone.  Records are
numbers with the scores and the words a query may match; an item's text is its size.

### Checkpoints

`save` looks each item up in the index, hashes its file, reads the base revision and submits; `check`
looks each item up, then what supersedes it by either end of the relation, then hashes it.  Meanwhile
documents are edited, moved, deleted and superseded, and the index is brought up to date, each at any
moment.  `sighted` collects what has been at an item's place during a save or a check, against which
`UnchangedIsTheSame` is stated, the second half of `ReadingsAgree`.

## What TLC checks

Twelve runs, six of which pass:

| Run | Instance and bounds | Question |
|---|---|---|
| `EngineCrash` | 2 sessions, 2 proposals, 3 paths, 2 contents; 2 crashes, 1 failure; fairness | Is the engine an atomic, append-only, lost-update-free store whatever is interrupted, recovery included, and is every interrupted intent in the end resolved? |
| `EngineTrouble` | the same; 1 crash and either 2 hand edits or 2 stale leases under live sessions (`Mixed = FALSE`) | Does it ever overwrite a hand edit it has not recorded? What survives when two sessions believe in their lease? |
| `Guards` | 3 attempts on 2 hosts, 1 scan each, 1 failure, 1 death; and four components behind locks, proposals and rules, adapter plans, one at a time (below) | Is at most one inside, and is no live claim lost? Is anything lost behind the other locks, and what do the lock's own checks hold when the guard let two in? Does a dry run tell what an apply does, and is what is committed sound? Do adapter plans keep edits and agree with status? |
| `LockLease` | 3 leases on 2 hosts, 2 creations, 1 heartbeat each, 1 failure, 1 death; or 2 attempts at the guard on 1 host, 2 scans, 1 failure, 1 death, aged claims; fairness | Is `lock.json` a lease, with evidence of every takeover? Does every `acquire` end, a stale lock yield, and nobody wait for the dead? |
| `Services` | seven components, one at a time (below); fairness of the inbox | Do calls that overlap, fail and die lose or invent anything? |
| `Derived` | four components, one at a time (below); fairness of installers and rebuilds | Is what is derived from a context (index, views, packs, checkpoints, installed adapters) true of it while others change and rebuild it? |

### The engine

The instance (`MCTransactionEngine`) has two sessions, two proposals, three paths and two contents.
The first proposal replaces one file and moves another; the second writes the move's destination
(creating it, or changing nothing, depending on what came before) and deletes the file the first
one replaces.  So every kind of operation occurs, the proposals conflict on two paths, one can be
drafted before or after the other, and an update that changes nothing is reachable.  Two sessions
are enough for a takeover beside the former owner; two targets for every prefix that is neither
none nor all.  Two crashes are the interesting number: one interrupts `apply`, one the `recover` that
follows; the bound on failures lets a failure be combined with both.

* `LedgerVerifies`, `CommittedAtItsBase`: no second event for a proposal, no gap in the chain, and
  a committed event directly follows the revision its proposal was written against.  These two
  survive even stale leases, and they are proved.
* `EventTellsTruth`, `CleanTreeFollowsLedger`: from the commit point on the files show what the
  event recorded; without an intent the files are exactly what replaying the ledger gives.
* `CommitByOwnLease`, `IntentLeavesAfterAudit`: recovery never commits; an intent leaves the disk
  only after its own event.
* `EditsAreKept`: while no lease goes stale, a path changes only between the two images the intent
  records, whatever is edited by hand in between.  It is proved, too.
* `ImplementsAtomicStore`: the refinement above.  `RecoveryEnds`: a whole intent is in the end
  resolved.

Hand edits are not made between a hash check and its rename (`EditInWindow = FALSE`).
`docs/reference/canonical-store.md` states this limit: a writer that ignores the lock can change a
file between the last check and the rename, and no user-space check can prevent that.  With
`EditInWindow = TRUE` `EditsAreKept` is of course false.  Hand edits and stale leases are not mixed in one
behaviour of the runs (`Mixed = FALSE`): what survives a stale lease is proved with edits, and
`EditsAreKept` speaks only of behaviours without one.

### The guard and the lock

Three attempts are the least number with a tie between two and a third that reads both, and with
a claim of the other host that no probe can reach; a second scan of an attempt starts from the same
memory as its first, and occurs in the instance with two attempts.  Three leases are an owner, a
taker on its host and one on another, which must wait for age where the neighbour can probe.  A
second heartbeat repeats the first with another number; the second creation is the one after a
takeover.

* `MutualExclusion`: two attempts are never in at once.
* `OnlyDeadReclaimed`: a parseable claim leaves the disk only by its owner's own step, or because a
  reader of its host finds the owner dead.  Age alone never takes it.
* `AttemptsEnd`, `AcquireEnds`: every attempt and every `acquire` ends, also before claims that
  nobody withdraws.
* `LeftoversDoNotBlock`: an attempt alone among retired claims and its own host's dead enters.
* `ImplementsLease`: a heartbeat or release touches its own file only, a takeover ends stale leases
  only, and nobody gets back what he has lost.
* `EvidenceKept`: a lease that ends without its owner's doing is in an archive.
* `StaleYields`: whoever is inside the guard before a stale lock, or none, has the lease in the end
  unless one of its own calls fails; torn files and locks nobody knows of are no exception.
* `NoFreshEvidence` (`Guards`, one breach of the guard): with two processes in the guard at once, an
  archive that was checked never shows a lock that is fresh.

Two limits follow from the code and are not violations.  A dead process's claim on another host
is never reclaimed by readers here, and a torn claim blocks for an hour: both end attempts with a
refusal, which is why `LeftoversDoNotBlock` speaks of the reader's own host and of whole claims.

### Proposals and rules (`Guards`)

* `RulesDecide` (dry run): undisturbed, an apply commits exactly what the dry run called valid, unless the
  index it rebuilds hides a document the stale one showed.
* `CommitsStaySound`: what a commit writes, and what it leaves behind, keeps the workspace sound:
  references resolve, identities are unique, claims that are current do not overlap, relations are
  acyclic, and no secret is written that was not acknowledged, unless the same error was there before.
* `RulesDecide` (rules): cycles and overlaps are found exactly where the definition of a cycle and of an
  overlap says, whatever the order in which the rules meet them.

`MCProposals` has twelve paths, one of each kind of document that another may depend on.  Fifteen
proposals meet eleven trees, with an index that is current, lags behind or is absent, and with one
edit by hand out of seven, two on the plain tree.  The rules are compared on every graph of three
tasks, every pair of relations of three claims and every three short intervals: three is the least
number with a cycle beside a path into it, and with an overlap that is not between neighbours.

### Adapter plans (`Guards`)

`PlansKeepPromises` is three promises:

* `EditsSurvive`: what the operator wrote over a recorded file, or where nothing was recorded,
  survives every install, repair and uninstall, over any releases, overrides and lost records.
* `ReinstallIsClean`: an install right after an install finds nothing to do
  (`docs/reference/agent-adapters.md:175`), except where a context's own skill file differs from the
  shipped one and was recorded as it was found, or not at all (`Stray`, see below).
* `CurrentIsRepaired`: of what status calls current, repair is never refused and writes no file,
  except where it takes a pristine bridge back (`Healing`, see below).

Two kits, of which the second changes every text, adds a resource to the first skill and ships a
second one; a third skill is the operator's.  Eight projects to start from: nothing, a context with
skills of its own, one with a custom skill, one installed by an early release, for Codex, Claude or
a repository.  Three changes of the operator, of the release or of the records, among thirteen
writes, with any number of installs, repairs and uninstalls between them: an edit, a release and one
more change is what each of the mutants takes.

### The services

| Part | Instance | Why it is enough |
|---|---|---|
| outbox | 2 senders, 1 author | two deliveries of one draft, with a save before, between or after them |
| connectors | 2 runs, 2 connectors, 3 snapshots, 2 hours, 1 death | a run over everything beside a run over one, names that meet in one second, one that fails between its files |
| inbox | 3 sessions of which 2 batches, 2 paths, 2 contents, 2 manifests, 1 foreign file, 1 fall | a duplicate in another batch, a quarantine and an archive interrupted and resumed by someone else |
| evidence | 2 agents with 2 payloads each, 2 existing documents, 4 new ones, 1 stray place | two relations to one document, two notes of one name, a document moved while the index has its old place |
| suggestions | 2 calls, 2 ids, 1 editor | both decide one record, or one supersedes what the other adopts |
| tasks | 2 calls, 2 tasks, 4 claim numbers | two changes of one field, of two fields, a new task beside a change, an index left behind |
| topics | 2 calls, 3 slugs, 1 alias, 2 documents, 1 tagging | a merge beside an add or another merge, a document tagged before or after it is read |

`DeliveriesTold` (outbox: what is posted was reviewed, what is recorded happened); `SyncsTold`
(connectors); `EvidenceIsKept` (inbox: evidence is somewhere whole, moves are authorized, batches
refuse duplicates) and `InterruptedMovesEnd`; `NothingIsLost`
(suggestions: no record is replaced or reopened; tasks: a call changes its own field only; evidence: a
relation adds to a document and takes nothing from it),
`RecordsAgree` (tasks: the claims about a task tell what it says; evidence: no document ever exists
twice) and `TopicsStaySound` (topics: every name keeps resolving to the topic it
meant or to what that was merged into, and no two active topics are similar without a reviewed note).
Two moments are set aside by name (`Torn`): a document, or its tag, that somebody changes just between
the two readings a call takes its hash and its content from.  For topics it must also be changed back,
which takes three topics and three taggings; the instance has one tagging, the theorem any number.

### Behind the other locks, and what is derived

| Run | Part | Instance |
|---|---|---|
| `Guards` | registry | 2 processes, 2 ids, 2 roots, 1 death |
| | secrets | 2 processes, 2 names, 2 failures or deaths |
| | usage | 3 threads in 2 processes, files of 2 events, 2 rotated files, 9 events, 1 kill |
| | breach | 2 leases on 1 host, 1 breach of the guard, 3 creations, 1 death |
| `Derived` | adapters | 2 installers, 2 releases that share a file, 2 strikes (death, edit or lost lease), 1 forget |
| | views | 2 documents; 1 apply, 1 recovery, 1 index rebuild, 1 view or brief each, and 1 of failure, death or hand edit |
| | packs | 3 contents of the index, 4 budgets, 2 queries, 3 rebuilds |
| | checkpoints | 2 items, 1 successor, 2 contents, 2 changes |

`RegistrationsKept` (registry: no update is lost, no root silently rebound); `IndexTellsWhatIsStored`
(secrets); `RecentEventsKept` (usage: in order as long as no two processes recorded at once, only the
oldest dropped, and no name ever means an older file than the next); `InstallsAreWhole` (what is
trusted is whole, and edits survive) and `InterruptedInstallsEnd` (adapters);
`ViewsShowTheirRevision` (what a transaction calls fresh is current, what is stamped with a revision
shows it) and `GateReopens` (index and views); `ReadingsAgree` (a pack is of
one generation of the index, and what a check calls unchanged is) and `PacksKeepBudget` (what is kept is worth
more than what is left out, and fits).  Two of each actor and one trouble are the smallest instance in
which each of these can go wrong, as the mutants in `PROJECT.json` show: every property is violated by
a plausible mistake in the code it is about, under the run's own bounds.  The three contents of the
index have every kind of record a section takes, some of them changed, and none; the budgets are none,
one that fits the compacted focal item, one in between and one that fits all; three rebuilds are one
for each attempt and one more.

All but the engine's runs set `CHECK_DEADLOCK FALSE`, since attempts, leases and calls are used once
and end.

### Where the program differs from what is said of it

Six runs end in a violation of something the repository says; each has an entry under `findings`.

* `EngineNoOp` (`AuditedIntentsFinalize`): a rolled-back update that changes nothing, and a crash
  before its finalisation, leave an intent with its event that `recover` refuses each time.
* `DraftUnsent` (`SentIsFinal`): a save that read the draft before it was sent, and its hash
  afterwards, replaces the sent draft and its delivery record.
* `InboxStuck` (`InterruptedMovesEnd`, batches only): a batch interrupted in a quarantine move leaves
  an intent with which no batch opens; only `register` for that one file resolves it.
* `AdapterStuck` (`EveryCrashIsRecoverable`): a crash between the reservation of a new file and its
  replacement leaves an empty file that no recovery accepts.
* `ViewMixed` (`OneConsistentSnapshot`): an index rebuild, which takes no context lock, between two
  queries of a view rebuild mixes two states of the index under one revision.
* `RemovedOverride` (`RecordedIsThere`): an install that gives a packaged Codex skill back after its
  override was removed records a resource that a newer release ships and does not write it; installs
  are refused from then on.

Other limits met while modelling, without a run of their own; the hazards name their lines.

* A heartbeat lost right after `prepare` has published the intent makes `apply` raise an ordinary
  error (`transactions/engine.py:424`), though an intent is pending.
* A crash between the two calls that publish `intent.json` leaves one that names no target
  (`adapters/filesystem/staging.py:1182`) and blocks the context until it is removed by hand.
* A ticket created an hour before its live owner fills it may be found torn and old, be filled, and
  then be unlinked (`lock.py:725`): the only way two attempts are in the guard at once.  It takes a
  process suspended for an hour, or a clock that steps, between two system calls.
* A session that sleeps through its lease between fence and rename changes a file after its
  successor has rolled back: `CleanTreeFollowsLedger` holds only while no lease goes stale.
* New errors are told from old ones by code and path only (`transactions/engine.py:2330`): a document
  that is in error already may get a second error of the same code.
* A dry run judges by the index as it is.  One that is stale and still shows a document the parser
  now skips lets a proposal through that the apply, after its rebuild, refuses.
* An unreadable note in `05_outbox` that sorts before the document a postcondition names makes the
  search for it fail, and the apply is rolled back.
* A topic merge lists the documents to retag before it reads the base revision; one that is tagged
  in between keeps the old name (`topics/service.py:241`), which still resolves.
* A suggestion is decided on one reading and replaced by the hash of another (`suggestions/service.py:279`):
  of two decisions at once the later one wins, although a terminal record cannot be decided again.
* A document an agent relates to is replaced in the same way (`evidence/service.py:947`): an edit just
  between the two readings is lost, and `RelationsOnlyAdd` sets that moment aside.
* A context's own Codex skill file that is not the kit's is recorded as found by the first install,
  taken for pristine by the second, and refreshed or removed (`adapters/agents/service.py:1018`).
* A change of the custom section between an install and a release makes the packaged section count as
  edited (`service.py:883`); it is not refreshed until the section is what the kit ships.
* A user-owned bridge that is replaced by a pristine template after the sources changed is not healed:
  the manifest keeps the old source hash and does not validate (`service.py:2885`, `manifest.py:364`).
* An override that was made from an older kit than the one recorded may not replace the `SKILL.md`
  and blocks the install as an untracked conflict (`service.py:706`).
* The check of recorded outputs against the renderer's (`service.py:1894`) looks only at outputs that
  were found equal before, and never reports anything.

### Fairness

* `EngineCrash`: weak fairness of a running session's own steps (a process that is not killed runs
  on: no step of `apply` or `recover` waits for another process) and strong fairness of
  `BeginRecover` (the operator, told that recovery is pending, keeps calling `recover`; the lock is
  free or stale again and again, and a call eventually falls on such a moment).  `RecoveryEnds`
  leaves out intents with an update that changes nothing, which is the case `EngineNoOp` shows.
* `LockLease`: weak fairness of the steps of an attempt or lease that has begun, for each on its own:
  between its claim and its end no step waits for another process (it reads, decides, sleeps and
  reads again).
* Inbox: weak fairness of the work of a session that has begun and of closing a batch, and strong
  fairness of `Retry`, the operator who repeats the interrupted operation as
  `docs/reference/inbox.md` tells him to.
* Adapters (`Derived`): weak fairness of a running installer's own steps, and of recovery: the next command a
  user gives reports the unfinished transition and asks for `recover`.
* Views (`Derived`): weak fairness of a running transaction's steps and of each rebuild that was started; this is
  what threads that are not killed do, and `GateReopens` shows that none of them waits for one that
  waits for it.

`InterruptedMovesEnd`, `InterruptedInstallsEnd` and `GateReopens` are of the form `P ~> Q` where `~P => Q` (no intent, an
empty journal, an open gate), which is the same as `[]<>Q`; they are written so because TLC then follows
half as many states.

Nothing is assumed of crashes, failures, edits or of beginnings: nobody has to try, to send
heartbeats, to release, to propose or to install.

## What is proved

### The engine

Two modules and three groups of assumptions, for every set of sessions, proposals, paths and contents,
every assignment of operations to proposals, and every bound.  Assumed of the constants in all of them:
operations are operations, the seed assigns images to paths, the markers `None`, `Torn` and `Absent` are
not values of the sets they mark.

**Whatever happens** (`TransactionEngineProofs`):

* `TypeCorrect`: `Spec => []TypeOK`;
* `LedgerAlwaysVerifies`: `Spec => []LedgerVerifies`;
* `CommitsFollowTheirBase`: `Spec => []CommittedAtItsBase`.

Neither safety property is inductive.  Between `CheckAppend` and `ExtendLedger` another session may
take over and append, and the append then replaces the whole ledger file by an extension of what
its writer *remembers*.  So the invariant must speak of the remembered base of every run at every
label, zombies included: `Attributed` says that the ledger is verified and honest (every committed
event follows its proposal's base), and that for every session (`Bearings`) its remembered base is
itself verified and honest, that its proposal is not recorded in that base once it may append, and
that a run whose verdict is to commit remembers the base of its own proposal.  Then an append, made
on the disk's ledger or over a successor's, yields a verified and honest ledger again.  This is why
the two properties survive a lost lease while `CleanTreeFollowsLedger` does not.

**While leases are kept up** (`TransactionEngineProofs`; `Steady`: no lease has gone stale under a session
that works on):

* `CommitsByOwnLease`: `Spec /\ []Steady => CommitByOwnLease`;
* `IntentsLeaveAudited`: `Spec /\ []Steady => IntentLeavesAfterAudit`.

`Exclusive` adds to `Attributed` that one session works at a time (`OneAtATime`), and what the label of a
run says about the disk (`Anchored`): whether there is an intent and whose it is, whether it is recorded
already, and that what a run is about to extend is the ledger.  Crashes make this less obvious than it
looks: the intent a recovery works on is one it did not write.

**And nobody edits by hand** (`FaithfulEngineProofs`; `Undisturbed`: `Steady`, and no hand edit):

* `EventsTellTruth`: `Spec /\ []Undisturbed => []EventTellsTruth`;
* `CleanTreesFollowLedger`: `Spec /\ []Undisturbed => []CleanTreeFollowsLedger`;
* `ImplementsStore`: `Spec /\ []Undisturbed => ImplementsAtomicStore`.

Both hypotheses are needed.  A session that sleeps through its lease renames a file after its successor
has rolled back, and a file that is edited by hand is not what any event recorded; the code documents
both limits.  They are hypotheses about the behaviour and not bounds, so the theorems hold of any run of
the program that meets them; `BoundsSuffice` says that an instance without stalls and edits does, which is
how `EngineCrash` checks the same three properties.

`Faithful` is the inductive invariant.  Its parts:

* `Intact`: the targets of an intent are `Sound` (no path in two of them, a move empties one path and
  fills another with the same content), an intent without its event is in no conflict with the files, and
  one with its event shows what the event says.
* `Kept`: what each label knows of the files: everything before the cursor of a replacement is applied,
  everything is pending again before a rollback is audited, a file is in the image its target will be
  moved from.  It holds for every prefix of the targets, in whatever order crashes interrupt them.
* `Traceable`, and `Reliable = Replay(ledger)`: the files a reader may rely on (those on disk, with the
  preimages of an intent that has no committed event) are always what the ledger says.  The only step that
  changes either is the append, and it changes both in the same way: a path some target touches gets its
  postimage, any other keeps what the last event that wrote it left.

The refinement then needs one lemma per kind of step: the append of a committed event is the abstract
`Commit` (its guard, the head being the recorded base and the files as expected, is what `Attributed` and
`Intact` say), the append of any other is `Abort`, a draft is `Propose`, and every other step, crash and
recovery is a stutter.  `Replay` is defined by the last event that writes a path and not by recursion over
the ledger, since the provers have no induction over data.

**Hand edits** (`FaithfulEngineProofs`):

* `HandEditsAreKept`: with `~EditInWindow`, `Spec => EditsAreKept`.

Here edits are allowed, any number at any time but between a check and the call it protects.  `Faithful`
is lost with the first of them, so the invariant is another one: `Watchful` adds to `Exclusive` that
the targets of an intent are sound, and that at the label where a file is moved (put back) it still shows
the preimage (postimage) of its target: it was seen so, and no step of the others falls in between.  Behaviours in which a lease has gone stale are not excluded by a hypothesis but by the property
itself, which speaks of the steps before.

### The guard

`MutationGuardProofs` proves, for any attempts on any hosts and any number of scans, failures and
deaths, under the one assumption that nobody alive takes an hour between the two calls that write a
claim (`~Aging`); torn claims of dead attempts may still grow old and be unlinked for it:

* `GuardExcludes`: `Spec => []MutualExclusion`;
* `HolderStaysVisible`: `Spec => []HolderIsVisible`;
* `LiveClaimsStay`: `Spec => OnlyDeadReclaimed`.

Exclusion is not inductive because a scan is spread over many steps: when an attempt decides, what
it has read is the past.  The invariant `Bakery` therefore says, besides the types, that the claims
of a live attempt are on disk and unretired (`Claims`), and for every pair of attempts what the
scans of `n` have established about `m` so far (`Order`): once the first scan has passed `m`'s
choosing entry without meeting it, `m` either has its ticket already or cannot number one without
taking `n`'s into account; once the second scan has passed `m`'s ticket as well, `m` stands `Behind`
`n`, whether its number is known, being counted, or still to come.  Two attempts inside would each
stand behind the other.  A second invariant is needed beside it, since a reader compares an aged
claim first and unlinks it in a later step: whatever a reader is about to unlink belongs to a dead
attempt (`Reaping`).

### The lock

`ContextLockProofs` proves, for any leases on any hosts and any number of heartbeats, creations,
failures and deaths, under the assumption that the guard is not breached (`MaxBreaches = 0`):

* `LockTyped`: `Spec => []TypeOK`;
* `LockIsLease`: `Spec => ImplementsLease`, the refinement of `Lease`;
* `TakeoverLeavesEvidence`: `Spec => EvidenceKept`.

The inductive invariant adds to the types that one process is inside (`Excluded`), that no lease
owns the lock before it has created a file (`Files`), and that whoever is about to write, replace or
remove `lock.json` owns it or has a stale lock before it (`Entitled`).  Each step of a takeover needs
it: staleness is established at `Inspect` and used at `Unlink`, four steps later.

### The stores

`StoresProofs`, for any processes, contexts, secrets and threads, and any number of
failures and deaths.  Assumed of the constants (`RegistryConstants`, `SecretConstants`,
`UsageConstants`): the markers `None`, `NoOne` and `Void` are none of the values they mark, every root
names an id, and a log keeps at least one rotated file.

* `RegistrationsAreKept`: `RegistrySpec => RegistrationsKept`.  The invariant is `Guarded`: who is past
  the guard owns it, what was read under it is the registry still, and every registry ever written is one
  its loader accepts (`Loadable`).  The decision of `register_if_changed` is made twice, before the
  guard and under it, and only the second reading counts: that is the part the proof turns on, and
  `LoadWhatWasSeen`, which reuses the first, is the mutant.
* `IndexTellsTruth`: `SecretSpec => []IndexTellsWhatIsStored`.  The invariant is `Told`: who holds the
  index has read what it says (`Latched`), and what an operation that is alone on its name has done to
  the value stays so until its end, whoever works on other names (`Undisturbed`).
* `RecentEventsAreKept`: `UsageSpec => []RecentEventsKept`.  That no two names mean one file and newer
  names mean newer files holds whatever any number of processes do, and is inductive nearly as it
  stands.  That the files are the last events in order needs `Rotated`: event numbers grow from inode to
  inode (`Numbered`), what has a name is newer than what has lost it and full (`Named`), what a rotation has
  looked up still is so (`Placed`), and, as long as nobody dies, the free name the rotation moves down
  is the only gap (`Hole`, `Whole`).  The last conjunct is what tells a rotation that drops a file
  too early from one that drops it when all names are taken.
* `StoresTyped`: the three side by side keep their types, which for the registry is that its loader
  accepts it.

### The outbox

`ServicesProofs`, for any senders, authors and targets.  Assumed of the constants (`OutboxConstants`): a call
sends or saves and not both, and `None` is neither a call nor a draft nor a preview.

* `DeliveriesAreTold`: `OutboxSpec => []DeliveriesTold`.  The invariant `OutboxInv` says what each call
  may still rely on: a send that is past its check works on the draft its operator was shown
  (`Shown`), each comment is that of a send that is past its post, died, or was left in the dark
  (`Posts`, `Comments`), and the writer, alive or dead, has replaced the draft it has seen, which is
  still the last state the ledger shows (`Writes`).  Everything said of the records turns on the last: it is
  why a rollback restores what was there, and why a record adds nothing but the delivery.
  That only one of two sends of one draft is told that it was sent needs `Stands` and `Once`: a recorded
  delivery is the last state until a save replaces it, so that a second one is recorded only after a save.
* `OutboxTyped`: `OutboxSpec => []OutboxTypeOK`.

That a draft once sent stays sent is not among them: it is false (`DraftUnsent`).

### The inbox and the connectors

`ServicesProofs`.  Assumed of the constants: batches are sessions, and `None` is none of the values it marks
(`IngestionConstants`); there are finitely many connectors (`ConnectorConstants`).

* `IngestionTyped`: `IngestionSpec => []IngestionTypeOK`, and
* `EvidenceStaysKept`: `IngestionSpec => []EvidenceIsKept`, for any sessions, paths and contents, any number of
  deaths, and an operator who replaces files at any moment.  The invariant `IngestionInv` has two halves.
  `World` is what the disk says whoever works: a manifest is named by its path and there is one of a
  path unless the operator has put another file there, a file is in a place its manifest's status or the
  intent of a move accounts for, and its bytes are somewhere unless they were replaced.  `Sessions` is what each
  session may rely on: one that is moving files holds the context lock and its intent is the staged
  one, and what it is about to move is still where it found it.  The first half holds in the middle of a
  dead session's move too, which is what lets another one resume it.
* `SyncsToldTruly`: `ConnectorsSpec => []SyncsTold`.  `ConnectorsInv`: a run has each connector once and is
  at its first (`Runs`); a time recorded, or read and about to be written back, is that of a
  registered sync (`Times`); there is one file of a name and part (`Disk`), and each is handed over, or in
  the hands of the run that made it, or that run is dead (`Followed`); of what a sync registered itself
  both files are there (`Owned`).  The last needs that a run cleans up only behind the connector it is at.

### The records

`RecordsProofs`, for any agents, identities, fields, documents and names.  Each service has its own inductive
invariant, and the form is the same: of a call under way, how the proposal it has staged relates
to what it has *read*; of the engine's check, that what was read is then still so.

* `NothingGetsLost`: `RecordsSpec => NothingIsLost`;
* `RecordsStayAgreed`: `RecordsSpec => []RecordsAgree`;
* `TopicsStayAsTheyWere`: `RecordsSpec => TopicsStaySound`;
* `RecordsTyped`: `RecordsSpec => []RecordsTypeOK`.

What the invariants say beside the types:

* `SuggestionsInv`: what a call has read of a record says the same as what is there (`SameRecord`: the same
  change, the same predecessor), since no step changes these; the status may have moved on, and the hash
  is what notices that.
* `TasksInv`: a transaction that is half done relates the files to those it found (`HalfDone`), which had good
  claims, and which the rollback restores; the index, however old, agrees with the files on
  which task and field a claim is about (`Agree`), and that is enough: a call that takes the current claim
  from an old index is refused by the claim's hash.  Between transactions the claims are `Good`: one
  current claim for a field, about its value, and claims that supersede each other name each other.  New claims
  have free numbers because the engine wants their files absent.
* `EvidenceInv`: each staged write either replaces what its agent authors or adds to what was read
  (`SoundWrite`), and no document exists twice.
* `TopicsInv`: a registry is valid, no two topics are silent twins, tags resolve, and each staged registry is
  what was read with one topic added, one alias added, or one merged into another (`Made`); for each of the
  three it is proved what every name means afterwards.

Assumed of the constants (`RecordsConstants`): the markers mark nothing else, the first task is a task and
there is room for one claim, what there is in the beginning and what agents author are documents, the
first topics are topics that do not look the same (the program starts with none), and bounds are numbers.
Where a claim number is picked, the least and greatest of a set of numbers are needed: `Least` and
`Greatest` get them from the well-foundedness of the order on numbers, not by induction.

Two of these theorems changed the model's statement.  `NamesKeepResolving` had no exception for a document changed and
changed back between a merge's two readings; the proof did not go through, and TLC found the
behavior with three topics.  `ClaimsTellTask` is not inductive as it stands, for the reasons above.

### What is derived

`DerivedProofs`; the four parts share no variable, and each has its own inductive invariant.

* `InstallsStayWhole`: `A!AdapterSpec => InstallsAreWhole /\ []A!AdapterTypeOK`, for any installers, releases
  and files.  Assumed (`AdapterConstants`): every release has a manifest, and releases, edits, `Empty` and `None`
  are different contents.  `TrustedIsWhole` says nothing while a transition is pending, and `TornOnlyUnderIntent`
  nothing of how files are torn; `InstallsInv` does.  Under an intent every file is at one end of its plan,
  edited, or reserved (`BetweenEnds`); without one all of them are of one release (`WholeWithoutIntent`).
  Only who holds the project lock writes or removes an intent, and past its writing it is the holder's own plan
  (`HolderKnows`).  The exception is a reservation: its replacement is not fenced, so an installer may
  fill one after it has lost the lock.  `ReservationsLast` says why that is harmless: as long as somebody has a reservation
  the file is at no end of the plan, so nobody else can move it or remove the intent.  And when a record was settled under an
  installer that had begun (`TrustHolds`), the intent it then writes has moved nothing yet and never will.
* `ViewsAreOfTheirRevision`: `V!ViewsSpec => []ViewsShowTheirRevision`, for any documents, indexers and viewers.
  Assumed (`ViewConstants`): transactions, indexers and viewers are different actors, and `None` marks nothing
  else.  `ViewsInv`: no document is older than the ledger says, nor will be once a rollback has put back
  what it holds (`Aged`), the index is not ahead of the ledger unless it was spoiled (`Unspoiled`), what a
  transaction has scanned is at least as new as the ledger (`Current`), and what a snapshot has
  read so far is not ahead of the revision it will be stamped with, and is exactly that where it could have been
  (`Viewing`).
* `ReadingsStayAgreed`: `P!PackSpec /\ C!CheckpointsSpec => []ReadingsAgree`, for any contents of the index, any number of
  rebuilds, any items.  Assumed: the bound on rebuilds is a number (`PackConstants`); items are
  documents and a document has a text (`CheckpointConstants`).  A pack: as long as the index still carries
  the stamp the attempt began with, everything gathered so far is what this index has (`Gathered`), and stamps of
  different builds differ (`Stamped`); so an attempt whose stamp is confirmed at the end is of one generation, also when a
  rebuild in between brought back an earlier content.  A checkpoint: everything that is at an item's place during a save or a check is
  sighted (`Watched`), the hash a save or check has taken is among that (`Saved`, `Checking`).
* `DerivedTyped`: `DerivedSpec => []DerivedTypeOK`.

The proof of the checkpoints changed the model: `Refused`, the end of a call that is refused, was a fixed number,
which a long list of items would have reached.

### Not proved

Model-checked only: `NoFreshEvidence` (a lock behind a breached guard), `RulesDecide`, `CommitsStaySound`
and `PlansKeepPromises` (their rules are recursive definitions, and induction over data is outside the
provers' reach), `PacksKeepBudget` (what the cut drops is a recursion over the ranked entries),
and all liveness (fairness and ENABLED): `InterruptedInstallsEnd` and `GateReopens` among what is derived.

## What is not modelled

* Canonical store and paths, parsing and rendering: reads and pure functions of their inputs.  Path
  hardening, permissions, fsync and power loss: a crash here is a process that dies, so what was
  written stays written.
* Validation of the configuration, of required directories, links and unreadable paths, and of the
  packaged schemas: diagnostics that no commit depends on in another way than on the rules modelled.
* Graph and Obsidian export: deterministic, read-only derivations.
* Migration: a one-shot import into a fresh tree.
* MCP server, CLI, doctor and guide: they expose the operations above.

`PROJECT.json` lists each component with its status and the reason.
