------------------------------ MODULE Registry ------------------------------
(***************************************************************************)
(* The per-user registry of contexts (adapters/filesystem/registry.py):    *)
(* one JSON file that maps context ids to roots and names the active one,  *)
(* written whole by several command-line processes and serialized by an    *)
(* operating-system lock on a sentinel file, which a process that dies     *)
(* gives back.  Loading, deciding and saving are separate steps, so any    *)
(* other process may run between them.                                     *)
(***************************************************************************)
EXTENDS Integers

CONSTANTS User,        \* processes that change the registry
          Id, ContextRoot,  \* context ids and context roots
          ContextIdOf,      \* ContextIdOf[r]: the id in the context.yaml of root r
          None,
          MaxUserDeaths

VARIABLES registry,    \* the file: [active, roots], roots[i] = None if absent
          owner,       \* the process that holds the mutation guard, or None
          call,        \* call[u]: what process u is doing
          intended,    \* history: the effect of every save, one id at a time
          deaths

registryVars == <<registry, owner, call, intended, deaths>>

(* Operations.  A caller passes the root and its own id: register refuses a *)
(* root whose context.yaml names another id before it touches the registry. *)
Operation == {"register", "register_if_changed", "unregister", "set_active"}

Request(op, id, root, replace, activate, stage) ==
  [op |-> op, id |-> id, root |-> root, replace |-> replace,
   activate |-> activate, stage |-> stage, read |-> None]

Idle == Request("none", None, None, FALSE, FALSE, "idle")

RegistryInit ==
  /\ registry = [active |-> None, roots |-> [i \in Id |-> None]]
  /\ owner = None
  /\ call = [u \in User |-> Idle]
  /\ intended = registry
  /\ deaths = 0

Advance(u, stage) == call' = [call EXCEPT ![u].stage = stage]
Return(u) == call' = [call EXCEPT ![u] = Idle]

(* A caller picks an operation.  Only register_if_changed looks at the     *)
(* registry before it takes the guard.                                     *)
Start(u, c) ==
  /\ call[u].stage = "idle"
  /\ call' = [call EXCEPT ![u] = c]
  /\ UNCHANGED <<registry, owner, intended, deaths>>

AskFor(u) ==
  \/ \E r \in ContextRoot, x \in BOOLEAN, a \in BOOLEAN :
       Start(u, Request("register", ContextIdOf[r], r, x, a, "acquire"))
  \/ \E r \in ContextRoot, x \in BOOLEAN :
       Start(u, Request("register_if_changed", ContextIdOf[r], r, x, FALSE, "peek"))
  \/ \E i \in Id :
       \/ Start(u, Request("unregister", i, None, FALSE, FALSE, "acquire"))
       \/ Start(u, Request("set_active", i, None, FALSE, FALSE, "acquire"))
  \/ Start(u, Request("set_active", None, None, FALSE, FALSE, "acquire"))

(* register_if_changed, without the guard: already there, nothing to do.   *)
Peek(u) ==
  /\ call[u].stage = "peek"
  /\ IF registry.roots[call[u].id] = call[u].root
     THEN Return(u)
     ELSE call' = [call EXCEPT ![u].read = registry, ![u].stage = "acquire"]
  /\ UNCHANGED <<registry, owner, intended, deaths>>

(* Fault: the guard is not exclusive.                                     *)
AcquireAnyway(u) ==
  /\ call[u].stage = "acquire"
  /\ owner' = u
  /\ Advance(u, "load")
  /\ UNCHANGED <<registry, intended, deaths>>

Acquire(u) ==
  /\ call[u].stage = "acquire"
  /\ owner = None
  /\ owner' = u
  /\ Advance(u, "load")
  /\ UNCHANGED <<registry, intended, deaths>>

(* The guard is busy and the wait is over: at once for register_if_changed,*)
(* after a timeout for the others.                                         *)
GiveUp(u) ==
  /\ call[u].stage = "acquire"
  /\ owner \notin {None, u}
  /\ Return(u)
  /\ UNCHANGED <<registry, owner, intended, deaths>>

(* Fault: the snapshot read before the guard is used under it.            *)
LoadWhatWasSeen(u) ==
  /\ call[u].stage = "load"
  /\ call' = [call EXCEPT ![u].read = IF @ = None THEN registry ELSE @,
                          ![u].stage = "decide"]
  /\ UNCHANGED <<registry, owner, intended, deaths>>

Load(u) ==
  /\ call[u].stage = "load"
  /\ call' = [call EXCEPT ![u].read = registry, ![u].stage = "decide"]
  /\ UNCHANGED <<registry, owner, intended, deaths>>

Released(u) == owner' = IF owner = u THEN None ELSE owner

(* The errors raised under the guard.                                      *)
Refuses(c) ==
  \/ /\ c.op \in {"register", "register_if_changed"}
     /\ c.read.roots[c.id] \notin {None, c.root}
     /\ ~c.replace
  \/ /\ c.op = "set_active"
     /\ c.id # None
     /\ c.read.roots[c.id] = None

AppliedKeepingActive(c, r) ==
  IF c.op = "set_active" THEN [r EXCEPT !.active = c.id]
  ELSE IF c.op = "unregister" THEN [r EXCEPT !.roots[c.id] = None]
       ELSE [active |-> IF c.activate THEN c.id ELSE r.active,
             roots |-> [r.roots EXCEPT ![c.id] = c.root]]

(* One operation applied to a registry.                                    *)
Applied(c, r) ==
  IF c.op = "set_active" THEN [r EXCEPT !.active = c.id]
  ELSE IF c.op = "unregister"
       THEN [active |-> IF r.active = c.id THEN None ELSE r.active,
             roots |-> [r.roots EXCEPT ![c.id] = None]]
       ELSE [active |-> IF c.activate THEN c.id ELSE r.active,
             roots |-> [r.roots EXCEPT ![c.id] = c.root]]

(* Refused, or nothing to change: the guard is released, nothing is saved. *)
Decline(u) ==
  LET c == call[u] IN
    /\ c.stage = "decide"
    /\ Refuses(c) \/ Applied(c, c.read) = c.read
    /\ Return(u)
    /\ Released(u)
    /\ UNCHANGED <<registry, intended, deaths>>

(* The whole file is replaced by what was read, with the one change.       *)
Save(u) ==
  LET c == call[u] IN
    /\ c.stage = "decide"
    /\ ~Refuses(c)
    /\ Applied(c, c.read) # c.read
    /\ registry' = Applied(c, c.read)
    /\ intended' = Applied(c, intended)
    /\ Return(u)
    /\ Released(u)
    /\ UNCHANGED deaths

(* The process dies; its lock on the sentinel is released by the system.   *)
Killed(u) ==
  /\ call[u].stage # "idle"
  /\ deaths < MaxUserDeaths
  /\ deaths' = deaths + 1
  /\ Return(u)
  /\ Released(u)
  /\ UNCHANGED <<registry, intended>>

RegistryStep(u) ==
  Peek(u) \/ Acquire(u) \/ GiveUp(u) \/ Load(u) \/ Decline(u) \/ Save(u)

RegistryNext == \E u \in User : AskFor(u) \/ RegistryStep(u) \/ Killed(u)

RegistrySpec == RegistryInit /\ [][RegistryNext]_registryVars

-----------------------------------------------------------------------------
Registered == [active : Id \cup {None}, roots : [Id -> ContextRoot \cup {None}]]

(* Types; and no order of legal calls produces a registry that its loader  *)
(* rejects since the active id is not registered.                          *)
RegistryTypeOK ==
  /\ registry \in Registered
  /\ registry.active # None => registry.roots[registry.active] # None
  /\ intended \in Registered
  /\ owner \in User \cup {None}
  /\ deaths \in 0..MaxUserDeaths

(* No update is lost: although every save replaces the whole file by what  *)
(* its process read, the file is what all saves, one after the other and   *)
(* each on its own id, make of the empty registry.                         *)
NoUpdateLost == registry = intended

(* An id that is bound to a root is never bound to another one by a caller *)
(* that did not ask to replace it, whatever it saw before the guard.       *)
NoSilentRebind ==
  [][\A i \in Id :
       registry.roots[i] # None /\ registry'.roots[i] \notin {None, registry.roots[i]}
         => \E u \in User : call[u].replace /\ call[u].id = i /\ call[u].stage = "decide"]_registryVars
(* What is registered is kept. *)
RegistrationsKept == []NoUpdateLost /\ NoSilentRebind
=============================================================================
