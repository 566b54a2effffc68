-------------------------------- MODULE Tasks --------------------------------
(***************************************************************************)
(* Tasks and the claims about them.  The document of a task says what its  *)
(* status, owner and next action are; each value that status or owner has  *)
(* ever had is a claim of its own, of which one is current.  A change of a *)
(* field reads the task, finds the current claim in the index, and submits *)
(* one transaction that updates the task, supersedes that claim and adds a *)
(* new one.                                                                *)
(*                                                                         *)
(* The engine is what TransactionEngine shows it to be: one writer at a    *)
(* time, and a rollback, also of a writer that died, which puts the old    *)
(* files back.  The deadline is one more field like the owner, waiting_on  *)
(* one more like the next action.                                          *)
(***************************************************************************)
EXTENDS Naturals, Sequences, FiniteSets, FiniteSetsExt

CONSTANTS Caller, Task, Value, None,
          FirstTask,   \* the task that is there in the beginning,
          First,       \* and the value of its fields
          MaxClaims    \* the last claim number of a year

VARIABLES
  doc,      \* the documents of the tasks
  claims,   \* the documents of the claims
  index,    \* what the index knows of either
  head,     \* the number of events in the ledger
  half,     \* who holds the lock of the context
  before,   \* the files as the transaction under way found them
  step,     \* where each call is
  plan      \* what each call is about to propose

tasksVars == <<doc, claims, index, head, half, before, step, plan>>

Claimed == {"status", "owner"}
Field   == Claimed \cup {"next"}
Id      == 1..MaxClaims

(* A claim is current until another one supersedes it. *)
NewClaim(t, f, v, old) ==
  [task |-> t, field |-> f, object |-> v, supersedes |-> old, by |-> None]

Current(cs, t, f) ==
  {i \in Id : cs[i] # None /\ cs[i].task = t /\ cs[i].field = f /\ cs[i].by = None}

Files == [doc |-> doc, claims |-> claims]

Blank == [task |-> None, field |-> None, value |-> None, seen |-> None,
          id |-> None, old |-> None, oldSeen |-> None, base |-> 0]

Goto(c, l) == step' = [step EXCEPT ![c] = l]

TasksInit ==
  /\ doc = [t \in Task |-> IF t # FirstTask THEN None
                           ELSE [f \in Field |-> IF f = "owner" THEN None ELSE First]]
  /\ claims = [i \in Id |-> IF i = 1 THEN NewClaim(FirstTask, "status", First, None)
                            ELSE None]
  /\ index = Files /\ head = 0 /\ half = None /\ before = Files
  /\ step = [c \in Caller |-> "idle"]
  /\ plan = [c \in Caller |-> Blank]
-----------------------------------------------------------------------------
(* What a call reads before it submits its proposal.                        *)

(* It brings the index up to date.  The field "new" asks for a new task     *)
(* with an owner or without one; only the owner can be cleared.             *)
Ask(c, t, f, v) ==
  /\ step[c] = "idle"
  /\ v = None => f \in {"owner", "new"}
  /\ index' = Files
  /\ plan' = [plan EXCEPT ![c] = [Blank EXCEPT !.task = t, !.field = f, !.value = v]]
  /\ Goto(c, "read")
  /\ UNCHANGED <<doc, claims, head, half, before>>

(* A new task must be unknown to the index; the task of a change must be    *)
(* known to it, be there, and have another value.                           *)
Permitted(p) ==
  IF p.field = "new" THEN index.doc[p.task] = None
  ELSE /\ index.doc[p.task] # None /\ doc[p.task] # None
       /\ doc[p.task][p.field] # p.value

ReadTask(c) ==
  /\ step[c] = "read"
  /\ \/ /\ Permitted(plan[c])
        /\ plan' = [plan EXCEPT
              ![c].seen = IF plan[c].field = "new" THEN None ELSE doc[plan[c].task]]
        /\ Goto(c, IF plan[c].field = "next" THEN "head" ELSE "claims")
     \/ ~Permitted(plan[c]) /\ Goto(c, "refused") /\ UNCHANGED plan
  /\ UNCHANGED <<doc, claims, index, head, half, before>>

(* A new task has a claim about its status, and one about its owner.        *)
Added(p) ==
  IF p.field = "next" THEN <<>>
  ELSE IF p.field # "new" THEN <<NewClaim(p.task, p.field, p.value, p.old)>>
  ELSE <<NewClaim(p.task, "status", First, None)>>
       \o IF p.value = None THEN <<>> ELSE <<NewClaim(p.task, "owner", p.value, None)>>

(* The next free numbers come from the files, the current claim from the    *)
(* index, and the claim itself from its file.                               *)
FindClaims(c) ==
  /\ step[c] = "claims"
  /\ LET p == plan[c]
         last == Max({0} \cup {i \in Id : claims[i] # None})
         current == Current(index.claims, p.task, p.field)
         enough == last + Len(Added(p)) <= MaxClaims
         readable == Cardinality(current) <= 1 /\ \A i \in current : claims[i] # None
         old == IF current = {} THEN None ELSE Max(current)
     IN \/ /\ enough /\ readable
           /\ plan' = [plan EXCEPT
                 ![c] = [p EXCEPT !.id = last + 1, !.old = old,
                                  !.oldSeen = IF old = None THEN None ELSE claims[old]]]
           /\ Goto(c, "head")
        \/ ~(enough /\ readable) /\ Goto(c, "refused") /\ UNCHANGED plan
  /\ UNCHANGED <<doc, claims, index, head, half, before>>

Propose(c) ==
  /\ step[c] = "head"
  /\ plan' = [plan EXCEPT ![c].base = head]
  /\ Goto(c, "apply")
  /\ UNCHANGED <<doc, claims, index, head, half, before>>
-----------------------------------------------------------------------------
(* The transaction. *)

TaskAfter(p) ==
  IF p.field = "new"
  THEN [f \in Field |-> IF f = "owner" THEN p.value ELSE First]
  ELSE [p.seen EXCEPT ![p.field] = p.value]

ClaimsAfter(p) ==
  [i \in Id |-> IF i = p.old THEN [p.oldSeen EXCEPT !.by = p.id]
                ELSE IF p.id # None /\ i - p.id + 1 \in DOMAIN Added(p)
                THEN Added(p)[i - p.id + 1]
                ELSE claims[i]]

(* Nothing was committed since the head was read, what is replaced has the  *)
(* hash that was read, and what is created is absent.                       *)
AcceptableAtBase(p) == half = None /\ head = p.base

Acceptable(p) ==
  /\ half = None /\ head = p.base
  /\ doc[p.task] = p.seen
  /\ p.old # None => claims[p.old] = p.oldSeen
  /\ \A n \in DOMAIN Added(p) : claims[p.id + n - 1] = None

Replace(c) ==
  /\ step[c] = "apply"
  /\ \/ /\ Acceptable(plan[c])
        /\ before' = Files /\ index' = Files
        /\ doc' = [doc EXCEPT ![plan[c].task] = TaskAfter(plan[c])]
        /\ claims' = ClaimsAfter(plan[c])
        /\ half' = c
        /\ Goto(c, "replaced")
     \/ /\ Goto(c, "refused")      \* or it failed before the intent
        /\ UNCHANGED <<doc, claims, index, half, before>>
  /\ UNCHANGED <<head, plan>>

(* The validator refuses claims that hold at the same time.                 *)
Overlap == \E t \in Task, f \in Claimed : Cardinality(Current(claims, t, f)) > 1

CommitUnvalidated(c) ==
  /\ step[c] = "replaced"
  /\ head' = head + 1
  /\ Goto(c, "refresh")
  /\ UNCHANGED <<doc, claims, index, half, before, plan>>

Commit(c) ==
  /\ step[c] = "replaced" /\ ~Overlap
  /\ head' = head + 1
  /\ Goto(c, "refresh")
  /\ UNCHANGED <<doc, claims, index, half, before, plan>>

(* By the call itself, when validation fails, or by a recovery after it     *)
(* died.  The event of a rollback is a revision too.                        *)
RollBack(c) ==
  /\ step[c] = "replaced"
  /\ doc' = before.doc /\ claims' = before.claims
  /\ head' = head + 1 /\ half' = None
  /\ Goto(c, "refused")
  /\ UNCHANGED <<index, before, plan>>

(* The refresh of the index may fail, or the process may die before it.     *)
Refresh(c) ==
  /\ step[c] = "refresh"
  /\ index' \in {index, Files}
  /\ half' = None
  /\ Goto(c, "done")
  /\ UNCHANGED <<doc, claims, head, before, plan>>

TasksNext ==
  \E c \in Caller :
     \/ \E t \in Task, f \in Field \cup {"new"}, v \in Value \cup {None} : Ask(c, t, f, v)
     \/ ReadTask(c) \/ FindClaims(c) \/ Propose(c)
     \/ Replace(c) \/ Commit(c) \/ RollBack(c) \/ Refresh(c)

TasksSpec == TasksInit /\ [][TasksNext]_tasksVars
-----------------------------------------------------------------------------
Document == [Field -> Value \cup {None, First}]
Claim == [task : Task, field : Claimed, object : Value \cup {None, First},
          supersedes : Id \cup {None}, by : Id \cup {None}]

TasksTypeOK ==
  /\ doc \in [Task -> Document \cup {None}]
  /\ \A i \in Id : claims[i] \in Claim \cup {None}
  /\ head \in Nat /\ half \in Caller \cup {None}
  /\ step \in [Caller -> {"idle", "read", "claims", "head", "apply", "replaced",
                          "refresh", "done", "refused"}]

(* The claims tell what the tasks say and how it came about: a status or    *)
(* an owner that was ever given has one current claim, about the value it   *)
(* has now, and superseded and superseding claims name each other           *)
(* (tasks/service.py, _update_claimed_field).  A call finds the current     *)
(* claim in an index that may be older than the task it has read.           *)
Settled == \A c \in Caller : step[c] # "replaced"

ClaimsTellTask ==
  Settled =>
    /\ \A t \in Task, f \in Claimed :
          LET current == Current(claims, t, f) IN
          /\ Cardinality(current) <= 1
          /\ \A i \in current : doc[t] # None /\ claims[i].object = doc[t][f]
          /\ doc[t] # None /\ doc[t][f] # None => current # {}
    /\ \A i, j \in Id : claims[i] # None =>
          /\ claims[i].by = j => claims[j] # None /\ claims[j].supersedes = i
          /\ claims[i].supersedes = j => claims[j].by = i

(* A call changes the one field it was asked to change: what another call   *)
(* committed after this one had read the task is not overwritten            *)
(* (tasks/service.py, _update_claimed_field, _update_unclaimed_fields).     *)
EditsOneField ==
  [][\A c \in Caller : step[c] = "replaced" /\ step'[c] = "refresh" =>
       \A t \in Task, f \in Field :
          before.doc[t] # None /\ doc[t][f] # before.doc[t][f] =>
            t = plan[c].task /\ f = plan[c].field]_tasksVars
=============================================================================
