---------------------------- MODULE StoresProofs ----------------------------
(***************************************************************************)
(* Theorems about the context registry, the secret store and the usage     *)
(* log, for any processes, threads, contexts and secrets, files of any     *)
(* size and any number of failures and deaths, and about the three of them *)
(* side by side.                                                           *)
(***************************************************************************)
EXTENDS Stores, TLAPS

-----------------------------------------------------------------------------
(* The context registry.                                                   *)

(* What the constants stand for: None is no process, id or root, and every  *)
(* root names an id.                                                       *)
RegistryConstants ==
  /\ None \notin User \cup Id \cup ContextRoot
  /\ ContextIdOf \in [ContextRoot -> Id]
  /\ MaxUserDeaths \in Nat
-----------------------------------------------------------------------------
(* A registry that its loader accepts. *)
Loadable(r) == r \in Registered /\ (r.active # None => r.roots[r.active] # None)

Stage == {"idle", "peek", "acquire", "load", "decide"}

(* A call that is under way names what its operation takes. *)
Proper(c) ==
  /\ c \in [op : Operation \cup {"none"}, id : Id \cup {None}, root : ContextRoot \cup {None},
            replace : BOOLEAN, activate : BOOLEAN, stage : Stage,
            read : Registered \cup {None}]
  /\ c.stage # "idle" => c.op # "none"
  /\ c.op \in {"register", "register_if_changed"} => c.id \in Id /\ c.root \in ContextRoot
  /\ c.op = "unregister" => c.id \in Id

(* Who is past the guard owns it, and what was read under it is current.    *)
UnderGuard(u) ==
  /\ call[u].stage \in {"load", "decide"} => owner = u
  /\ call[u].stage = "decide" => call[u].read = registry

Guarded ==
  /\ Loadable(registry)
  /\ NoUpdateLost
  /\ owner \in User \cup {None}
  /\ deaths \in 0..MaxUserDeaths
  /\ DOMAIN call = User
  /\ \A u \in User : Proper(call[u]) /\ UnderGuard(u)

LEMMA InitGuarded == ASSUME RegistryConstants PROVE RegistryInit => Guarded
<1> SUFFICES ASSUME RegistryInit PROVE Guarded
  OBVIOUS
<1>1. Loadable(registry) /\ NoUpdateLost /\ owner \in User \cup {None}
      /\ deaths \in 0..MaxUserDeaths /\ DOMAIN call = User
  BY DEF RegistryInit, Loadable, Registered, NoUpdateLost, RegistryConstants
<1>2. ASSUME NEW u \in User PROVE Proper(call[u]) /\ UnderGuard(u)
  BY DEF RegistryInit, Idle, Request, Proper, UnderGuard, Operation, Stage
<1> QED BY <1>1, <1>2 DEF Guarded

(* What a decided operation makes of a registry the loader accepts is such  *)
(* a registry again.                                                       *)
LEMMA AppliedLoadable ==
  ASSUME RegistryConstants, NEW c, Proper(c), c.op # "none", ~Refuses(c),
         c.read \in Registered, Loadable(c.read)
  PROVE  Loadable(Applied(c, c.read))
<1> DEFINE r == c.read
<1>0. /\ r.active \in Id \cup {None} /\ r.roots \in [Id -> ContextRoot \cup {None}]
      /\ r = [active |-> r.active, roots |-> r.roots]
      /\ c.id \in Id \cup {None} /\ c.op \in Operation
  BY DEF Registered, Proper
<1>1. CASE c.op = "set_active"
  <2>1. Applied(c, r) = [active |-> c.id, roots |-> r.roots]
    BY <1>0, <1>1 DEF Applied
  <2>2. c.id # None => r.roots[c.id] # None
    BY <1>1 DEF Refuses
  <2> QED BY <1>0, <2>1, <2>2 DEF Loadable, Registered
<1>2. CASE c.op = "unregister"
  <2>1. Applied(c, r) = [active |-> IF r.active = c.id THEN None ELSE r.active,
                         roots |-> [r.roots EXCEPT ![c.id] = None]]
    BY <1>2 DEF Applied
  <2> DEFINE active == IF r.active = c.id THEN None ELSE r.active
             roots  == [r.roots EXCEPT ![c.id] = None]
  <2>2. roots \in [Id -> ContextRoot \cup {None}] /\ active \in Id \cup {None}
    BY <1>0
  <2>3. active # None => roots[active] # None
    BY <1>0 DEF Loadable
  <2>4. Applied(c, r) = [active |-> active, roots |-> roots]
    BY <2>1
  <2> HIDE DEF active, roots
  <2> QED BY <2>2, <2>3, <2>4 DEF Loadable, Registered
<1>3. CASE c.op \in {"register", "register_if_changed"}
  <2>1. Applied(c, r) = [active |-> IF c.activate THEN c.id ELSE r.active,
                         roots |-> [r.roots EXCEPT ![c.id] = c.root]]
    BY <1>3 DEF Applied
  <2>2. c.id \in Id /\ c.root \in ContextRoot /\ c.root # None
    BY <1>3 DEF Proper, RegistryConstants
  <2> QED BY <1>0, <2>1, <2>2 DEF Loadable, Registered
<1> QED BY <1>0, <1>1, <1>2, <1>3 DEF Operation

(* A step that leaves the file and the guard alone.                        *)
LEMMA OwnCall ==
  ASSUME Guarded, NEW u \in User, NEW c, call' = [call EXCEPT ![u] = c], Proper(c),
         c.stage \in {"load", "decide"} => owner' = u,
         c.stage = "decide" => c.read = registry',
         \A v \in User \ {u} : owner = v => owner' = v,
         owner' \in User \cup {None}, deaths' \in 0..MaxUserDeaths,
         UNCHANGED <<registry, intended>>
  PROVE  Guarded'
<1>1. ASSUME NEW v \in User PROVE Proper(call'[v]) /\ UnderGuard(v)'
  BY <1>1 DEF Guarded, UnderGuard
<1> QED BY <1>1 DEF Guarded, Loadable, NoUpdateLost

LEMMA NextGuarded ==
  ASSUME RegistryConstants, Guarded, [RegistryNext]_registryVars
  PROVE  Guarded'
<1>0. /\ owner \in User \cup {None} /\ deaths \in 0..MaxUserDeaths /\ DOMAIN call = User
      /\ \A u \in User : Proper(call[u]) /\ UnderGuard(u)
      /\ registry \in Registered /\ None \notin User /\ MaxUserDeaths \in Nat
  BY DEF Guarded, Loadable, RegistryConstants
<1>i. Proper(Idle) /\ Idle.stage = "idle"
  BY DEF Proper, Idle, Request, Operation, Stage
<1>1. ASSUME NEW u \in User, AskFor(u) PROVE Guarded'
  <2>1. ASSUME NEW c, Start(u, c), Proper(c), c.stage \in {"peek", "acquire"}
        PROVE  Guarded'
    BY <1>0, <2>1, OwnCall DEF Start
  <2> USE DEF Request, Proper, Operation, Stage
  <2>2. ASSUME NEW r \in ContextRoot, NEW x \in BOOLEAN, NEW a \in BOOLEAN,
               Start(u, Request("register", ContextIdOf[r], r, x, a, "acquire"))
        PROVE  Guarded'
    BY <2>1, <2>2 DEF RegistryConstants
  <2>3. ASSUME NEW r \in ContextRoot, NEW x \in BOOLEAN,
               Start(u, Request("register_if_changed", ContextIdOf[r], r, x, FALSE, "peek"))
        PROVE  Guarded'
    BY <2>1, <2>3 DEF RegistryConstants
  <2>4. ASSUME NEW i \in Id, Start(u, Request("unregister", i, None, FALSE, FALSE, "acquire"))
        PROVE  Guarded'
    BY <2>1, <2>4
  <2>5. ASSUME NEW i \in Id \cup {None},
               Start(u, Request("set_active", i, None, FALSE, FALSE, "acquire"))
        PROVE  Guarded'
    BY <2>1, <2>5
  <2> QED BY <1>1, <2>2, <2>3, <2>4, <2>5 DEF AskFor
<1>2. ASSUME NEW u \in User, Peek(u) PROVE Guarded'
  <2>1. CASE call' = [call EXCEPT ![u] = Idle]
    BY <1>0, <1>2, <1>i, <2>1, OwnCall DEF Peek
  <2>2. CASE call' = [call EXCEPT ![u].read = registry, ![u].stage = "acquire"]
    <3> DEFINE c == [call[u] EXCEPT !.read = registry, !.stage = "acquire"]
    <3>1. Proper(c) /\ c.stage = "acquire" /\ call' = [call EXCEPT ![u] = c]
      BY <1>0, <1>2, <2>2 DEF Proper, Stage, Peek
    <3> QED BY <1>0, <1>2, <3>1, OwnCall DEF Peek
  <2> QED BY <1>2, <2>1, <2>2 DEF Peek, Return
<1>3. ASSUME NEW u \in User, Acquire(u) PROVE Guarded'
  <2> DEFINE c == [call[u] EXCEPT !.stage = "load"]
  <2>1. Proper(c) /\ c.stage = "load" /\ call' = [call EXCEPT ![u] = c]
    BY <1>0, <1>3 DEF Acquire, Advance, Proper, Stage
  <2> QED BY <1>0, <1>3, <2>1, OwnCall DEF Acquire
<1>4. ASSUME NEW u \in User, GiveUp(u) PROVE Guarded'
  BY <1>0, <1>4, <1>i, OwnCall DEF GiveUp, Return
<1>5. ASSUME NEW u \in User, Load(u) PROVE Guarded'
  <2> DEFINE c == [call[u] EXCEPT !.read = registry, !.stage = "decide"]
  <2>1. /\ Proper(c) /\ c.stage = "decide" /\ c.read = registry
        /\ call' = [call EXCEPT ![u] = c] /\ owner = u
    BY <1>0, <1>5 DEF Load, Proper, Stage, UnderGuard
  <2> QED BY <1>0, <1>5, <2>1, OwnCall DEF Load
<1>6. ASSUME NEW u \in User, Decline(u) PROVE Guarded'
  BY <1>0, <1>6, <1>i, OwnCall DEF Decline, Return, Released
<1>7. ASSUME NEW u \in User, Save(u) PROVE Guarded'
  <2> DEFINE c == call[u]
  <2>1. /\ c.stage = "decide" /\ owner = u /\ c.read = registry /\ Proper(c)
        /\ ~Refuses(c) /\ c.op # "none"
    BY <1>0, <1>7 DEF Save, UnderGuard, Proper
  <2>2. /\ registry' = Applied(c, c.read) /\ Loadable(registry')
    BY <1>7, <2>1, AppliedLoadable DEF Save, Guarded, Loadable
  <2>3. intended' = registry'
    BY <1>7, <2>1 DEF Save, Guarded, NoUpdateLost
  <2>4. owner' = None /\ call' = [call EXCEPT ![u] = Idle] /\ UNCHANGED deaths
    BY <1>7, <2>1 DEF Save, Return, Released
  <2>5. ASSUME NEW v \in User PROVE Proper(call'[v]) /\ UnderGuard(v)'
    BY <1>0, <1>i, <2>1, <2>4, <2>5 DEF UnderGuard
  <2> QED BY <1>0, <2>2, <2>3, <2>4, <2>5 DEF Guarded, NoUpdateLost
<1>8. ASSUME NEW u \in User, Killed(u) PROVE Guarded'
  <2>1. deaths' \in 0..MaxUserDeaths
    BY <1>0, <1>8 DEF Killed
  <2> QED BY <1>0, <1>8, <1>i, <2>1, OwnCall DEF Killed, Return, Released
<1>9. CASE UNCHANGED registryVars
  BY <1>9 DEF registryVars, Guarded, Loadable, NoUpdateLost, UnderGuard
<1> QED BY <1>1, <1>2, <1>3, <1>4, <1>5, <1>6, <1>7, <1>8, <1>9 DEF RegistryNext, RegistryStep

LEMMA GuardedHolds == ASSUME RegistryConstants PROVE RegistrySpec => []Guarded
<1>1. RegistryInit => Guarded
  BY InitGuarded
<1>2. Guarded /\ [RegistryNext]_registryVars => Guarded'
  BY NextGuarded
<1> QED BY <1>1, <1>2, PTL DEF RegistrySpec
-----------------------------------------------------------------------------
(* Every registry the program ever writes is one that its loader accepts:   *)
(* no order of calls and deaths leaves an active context that is not        *)
(* registered.                                                             *)
THEOREM RegistryTyped == ASSUME RegistryConstants PROVE RegistrySpec => []RegistryTypeOK
<1>1. Guarded => RegistryTypeOK
  BY DEF Guarded, Loadable, NoUpdateLost, RegistryTypeOK
<1> QED BY <1>1, GuardedHolds, PTL

(* Although every save replaces the whole file, none undoes another one.    *)
THEOREM NoUpdateIsLost == ASSUME RegistryConstants PROVE RegistrySpec => []NoUpdateLost
<1>1. Guarded => NoUpdateLost
  BY DEF Guarded
<1> QED BY <1>1, GuardedHolds, PTL

(* An id changes its root only for a caller who asked to replace it.        *)
THEOREM NoSilentRebinds == ASSUME RegistryConstants PROVE RegistrySpec => NoSilentRebind
<1> DEFINE Kept ==
      \A i \in Id :
        registry.roots[i] # None /\ registry'.roots[i] \notin {None, registry.roots[i]}
          => \E u \in User : call[u].replace /\ call[u].id = i /\ call[u].stage = "decide"
<1>1. ASSUME Guarded, [RegistryNext]_registryVars PROVE [Kept]_registryVars
  <2>1. ASSUME registry' = registry PROVE Kept
    BY <2>1
  <2>2. ASSUME NEW u \in User, Save(u) PROVE Kept
    <3> DEFINE c == call[u]
    <3>1. /\ c.read = registry /\ ~Refuses(c) /\ registry' = Applied(c, registry)
          /\ c.stage = "decide" /\ Proper(c) /\ c.op # "none" /\ registry \in Registered
      BY <1>1, <2>2 DEF Guarded, UnderGuard, Save, Proper, Loadable
    <3>2. CASE c.op \in {"set_active", "unregister"}
      BY <3>1, <3>2 DEF Applied, Registered, Proper
    <3>3. CASE c.op \in {"register", "register_if_changed"}
      <4>1. registry'.roots = [registry.roots EXCEPT ![c.id] = c.root]
        BY <3>1, <3>3 DEF Applied
      <4>2. registry.roots[c.id] \in {None, c.root} \/ c.replace
        BY <3>1, <3>3 DEF Refuses
      <4> QED BY <3>1, <4>1, <4>2 DEF Registered
    <3> QED BY <3>1, <3>2, <3>3 DEF Proper, Operation
  <2> QED BY <1>1, <2>1, <2>2 DEF registryVars, RegistryNext, RegistryStep, AskFor, Start, Peek,
             Acquire, GiveUp, Load, Decline, Killed
<1> HIDE DEF Kept
<1>2. Guarded /\ [RegistryNext]_registryVars => [Kept]_registryVars
  BY <1>1
<1>3. RegistrySpec => [][Kept]_registryVars
  BY <1>2, GuardedHolds, PTL DEF RegistrySpec
<1> QED BY <1>3 DEF Kept, NoSilentRebind

(* Both together, for any processes, contexts and roots.                   *)
THEOREM RegistrationsAreKept == ASSUME RegistryConstants PROVE RegistrySpec => RegistrationsKept
BY NoUpdateIsLost, NoSilentRebinds DEF RegistrationsKept

-----------------------------------------------------------------------------
(* The secret store.                                                       *)

(* What the constants stand for: NoOne is neither a process nor a secret.    *)
SecretConstants == NoOne \notin Keeper \cup Secret /\ MaxLosses \in Nat
-----------------------------------------------------------------------------
Underway(k) == errand[k].stage # "idle"

(* A process that rests has no name in mind; one that does not has a name   *)
(* and something to do with it.                                            *)
Occupied(k) ==
  /\ ~Underway(k) => errand[k].name = NoOne
  /\ Underway(k) => errand[k].name \in Secret /\ errand[k].op \in {"store", "delete"}

(* Who is past the guard of the index holds it, and what was read under it  *)
(* is what the index says.                                                 *)
Latched(k) ==
  /\ errand[k].stage \in {"load", "save"} => latch = k
  /\ errand[k].stage = "save" => errand[k].read = names

(* An operation that counts as alone on its name is; what it made of the    *)
(* value before it turned to the index is then still so.                   *)
Undisturbed(k) ==
  Underway(k) /\ errand[k].alone =>
    /\ Busy(errand[k].name) = {k}
    /\ errand[k].stage \in {"guard", "load", "save"} =>
         (errand[k].name \in vault <=> errand[k].op = "store")

Told ==
  /\ SecretTypeOK
  /\ \A k \in Keeper : Occupied(k) /\ Latched(k) /\ Undisturbed(k)
  /\ IndexTellsWhatIsStored

LEMMA InitTold == ASSUME SecretConstants PROVE SecretInit => Told
<1> SUFFICES ASSUME SecretInit PROVE Told
  OBVIOUS
<1>1. SecretTypeOK
  BY DEF SecretInit, SecretTypeOK, Resting, Errand, SecretConstants
<1>2. ASSUME NEW k \in Keeper PROVE Occupied(k) /\ Latched(k) /\ Undisturbed(k)
  BY DEF SecretInit, Occupied, Latched, Undisturbed, Underway, Resting
<1>3. IndexTellsWhatIsStored
  BY DEF SecretInit, IndexTellsWhatIsStored
<1> QED BY <1>1, <1>2, <1>3 DEF Told

(* The operation of k goes on, on the same name: the others stand as they   *)
(* stood, as long as the value of no other name changes.                   *)
LEMMA GoesOn ==
  ASSUME SecretConstants, Told, SecretTypeOK', NEW k \in Keeper, Underway(k),
         NEW e \in Errand, errand' = [errand EXCEPT ![k] = e],
         e.stage # "idle", e.name = errand[k].name, e.op = errand[k].op,
         e.alone = errand[k].alone,
         e.stage \in {"load", "save"} => latch' = k,
         e.stage = "save" => e.read = names,
         e.stage \in {"guard", "load", "save"} /\ e.alone =>
           (e.name \in vault' <=> e.op = "store"),
         \A n \in Secret \ {e.name} : n \in vault' <=> n \in vault,
         latch # NoOne => latch' = latch,
         UNCHANGED <<names, torn>>
  PROVE  Told'
<1>0. /\ DOMAIN errand = Keeper /\ latch \in Keeper \cup {NoOne} /\ NoOne \notin Keeper
      /\ errand[k].name \in Secret /\ errand[k].op \in {"store", "delete"}
      /\ errand'[k] = e /\ \A j \in Keeper \ {k} : errand'[j] = errand[j]
  BY DEF Told, SecretTypeOK, Occupied, SecretConstants
<1>1. \A n : Busy(n)' = Busy(n)
  BY <1>0 DEF Busy
<1>2. ASSUME NEW j \in Keeper PROVE (Occupied(j) /\ Latched(j) /\ Undisturbed(j))'
  <2>1. CASE j = k
    <3>1. Occupied(j)' /\ Latched(j)'
      BY <1>0, <2>1 DEF Occupied, Latched, Underway
    <3>2. Undisturbed(j)'
      BY <1>0, <1>1, <2>1 DEF Undisturbed, Underway, Told
    <3> QED BY <3>1, <3>2
  <2>2. CASE j # k
    <3>1. errand'[j] = errand[j] /\ Occupied(j) /\ Latched(j) /\ Undisturbed(j)
      BY <1>0, <2>2 DEF Told
    <3>2. Occupied(j)' /\ Latched(j)'
      BY <1>0, <3>1 DEF Occupied, Latched, Underway
    <3>3. ASSUME Underway(j), errand[j].alone PROVE errand[j].name # e.name
      BY <1>0, <2>2, <3>1, <3>3 DEF Undisturbed, Busy
    <3>4. Underway(j) => errand[j].name \in Secret
      BY <3>1 DEF Occupied
    <3>5. Undisturbed(j)'
      BY <1>1, <3>1, <3>3, <3>4 DEF Undisturbed, Underway
    <3> QED BY <3>2, <3>5
  <2> QED BY <2>1, <2>2
<1>3. IndexTellsWhatIsStored'
  <2> SUFFICES ASSUME NEW n \in Secret, n \notin torn, Busy(n) = {}
               PROVE  n \in names <=> n \in vault'
    BY <1>1 DEF IndexTellsWhatIsStored
  <2>1. n # e.name
    BY <1>0 DEF Busy
  <2> QED BY <2>1 DEF Told, IndexTellsWhatIsStored
<1> QED BY <1>2, <1>3 DEF Told

(* The operation of k is over: either it is noted of its name, or the name  *)
(* is listed exactly if it has a value.                                    *)
LEMMA Ends ==
  ASSUME SecretConstants, Told, SecretTypeOK', NEW k \in Keeper, Underway(k),
         errand' = [errand EXCEPT ![k] = Resting],
         latch' = IF latch = k THEN NoOne ELSE latch,
         UNCHANGED vault,
         errand[k].name \in torn' \/ (errand[k].name \in names' <=> errand[k].name \in vault),
         \A n \in Secret \ {errand[k].name} :
           (n \in names' <=> n \in names) /\ (n \in torn' <=> n \in torn),
         names' = names \/ latch = k
  PROVE  Told'
<1>0. /\ DOMAIN errand = Keeper /\ NoOne \notin Keeper \cup Secret
      /\ errand[k].name \in Secret
      /\ errand'[k] = Resting /\ \A j \in Keeper \ {k} : errand'[j] = errand[j]
      /\ Resting.stage = "idle" /\ Resting.name = NoOne
  BY DEF Told, SecretTypeOK, Occupied, SecretConstants, Resting
<1>1. ASSUME NEW n \in Secret PROVE Busy(n)' = Busy(n) \ {k}
  BY <1>0, <1>1 DEF Busy
<1>2. ASSUME NEW j \in Keeper PROVE (Occupied(j) /\ Latched(j) /\ Undisturbed(j))'
  <2>1. CASE j = k
    BY <1>0, <2>1 DEF Occupied, Latched, Undisturbed, Underway
  <2>2. CASE j # k
    <3>1. errand'[j] = errand[j] /\ Occupied(j) /\ Latched(j) /\ Undisturbed(j)
      BY <1>0, <2>2 DEF Told
    <3>2. Occupied(j)' /\ Latched(j)'
      BY <1>0, <2>2, <3>1 DEF Occupied, Latched, Underway
    <3>3. Underway(j) => errand[j].name \in Secret
      BY <3>1 DEF Occupied
    <3>4. Underway(j) => Busy(errand[j].name)' = Busy(errand[j].name) \ {k}
      BY <1>1, <3>1, <3>3
    <3>5. Underway(j) /\ errand[j].alone => Busy(errand[j].name) \ {k} = {j}
      BY <2>2, <3>1 DEF Undisturbed
    <3>6. Undisturbed(j)'
      BY <3>1, <3>4, <3>5 DEF Undisturbed, Underway, Busy
    <3> QED BY <3>2, <3>6
  <2> QED BY <2>1, <2>2
<1>3. IndexTellsWhatIsStored'
  <2> SUFFICES ASSUME NEW n \in Secret, n \notin torn', Busy(n)' = {}
               PROVE  n \in names' <=> n \in vault
    BY DEF IndexTellsWhatIsStored
  <2>1. CASE n = errand[k].name
    BY <2>1
  <2>2. CASE n # errand[k].name
    <3>1. Busy(n) = {}
      BY <1>1, <2>2 DEF Busy
    <3> QED BY <2>2, <3>1 DEF Told, IndexTellsWhatIsStored
  <2> QED BY <2>1, <2>2
<1> QED BY <1>2, <1>3 DEF Told

LEMMA BeginTold ==
  ASSUME SecretConstants, Told, NEW k \in Keeper, NEW op \in {"store", "delete"}, NEW n \in Secret,
         Begin(k, op, n)
  PROVE  Told'
<1> DEFINE new == [op |-> op, name |-> n, stage |-> "vault", read |-> {},
                   alone |-> Busy(n) = {}]
           spoil(j) == [errand[j] EXCEPT !.alone = @ /\ j \notin Busy(n)]
<1>0. /\ errand \in [Keeper -> Errand] /\ errand[k].stage = "idle"
      /\ UNCHANGED <<vault, names, latch, torn, losses>>
      /\ NoOne \notin Keeper \cup Secret
  BY DEF Told, SecretTypeOK, Begin, SecretConstants
<1>1. /\ errand' = [j \in Keeper |-> IF j = k THEN new ELSE spoil(j)]
      /\ errand[k].name = NoOne
  BY <1>0 DEF Begin, Told, Occupied, Underway
<1>2. new \in Errand
  BY DEF Errand
<1>3. ASSUME NEW j \in Keeper
      PROVE  /\ spoil(j) \in Errand
             /\ spoil(j).op = errand[j].op /\ spoil(j).name = errand[j].name
             /\ spoil(j).stage = errand[j].stage /\ spoil(j).read = errand[j].read
             /\ spoil(j).alone <=> errand[j].alone /\ j \notin Busy(n)
  BY <1>0 DEF Errand
<1>4. errand' \in [Keeper -> Errand] /\ errand'[k] = new
      /\ \A j \in Keeper \ {k} : errand'[j] = spoil(j)
  BY <1>1, <1>2, <1>3
<1> HIDE DEF spoil
<1>5. SecretTypeOK'
  BY <1>0, <1>4 DEF SecretTypeOK, Told
<1>6. \A m \in Secret : Busy(m)' = Busy(m) \cup (IF m = n THEN {k} ELSE {})
  <2>1. \A j \in Keeper \ {k} : errand'[j].name = errand[j].name
    BY <1>3, <1>4
  <2>2. errand'[k].name = n /\ errand[k].name \notin Secret
    BY <1>0, <1>1, <1>4
  <2> QED BY <2>1, <2>2 DEF Busy
<1>7. ASSUME NEW j \in Keeper PROVE (Occupied(j) /\ Latched(j) /\ Undisturbed(j))'
  <2>1. CASE j = k
    <3>1. Occupied(j)' /\ Latched(j)'
      BY <1>4, <2>1 DEF Occupied, Latched, Underway
    <3>2. errand'[k].name = n /\ errand'[k].stage = "vault"
      BY <1>4
    <3>3. errand'[k].alone => Busy(n) = {}
      <4>1. new.alone = (Busy(n) = {})
        OBVIOUS
      <4> QED BY <1>4, <4>1
    <3>4. errand'[k].alone => Busy(errand[k].name)' = {k}
      BY <1>6, <3>2, <3>3
    <3>5. Undisturbed(j)'
      BY <2>1, <3>2, <3>4 DEF Undisturbed
    <3> QED BY <3>1, <3>5
  <2>2. CASE j # k /\ Underway(j)
    <3>1. /\ errand'[j] = spoil(j) /\ Occupied(j) /\ Latched(j) /\ Undisturbed(j)
          /\ errand[j].name \in Secret
      BY <1>4, <2>2 DEF Told, Occupied
    <3>2. Occupied(j)' /\ Latched(j)'
      BY <1>0, <1>3, <2>2, <3>1 DEF Occupied, Latched, Underway
    <3>3. errand'[j].alone => errand[j].alone /\ errand[j].name # n
      BY <1>3, <3>1 DEF Busy
    <3>4. Undisturbed(j)'
      BY <1>0, <1>3, <1>6, <2>2, <3>1, <3>3 DEF Undisturbed, Underway
    <3> QED BY <3>2, <3>4
  <2>3. CASE j # k /\ ~Underway(j)
    <3>1. errand'[j].name = NoOne /\ errand'[j].stage = "idle"
      BY <1>3, <1>4, <2>3 DEF Told, Occupied, Underway
    <3> QED BY <3>1 DEF Occupied, Latched, Undisturbed, Underway
  <2> QED BY <2>1, <2>2, <2>3
<1>8. IndexTellsWhatIsStored'
  BY <1>0, <1>6 DEF Told, IndexTellsWhatIsStored
<1> QED BY <1>5, <1>7, <1>8 DEF Told

LEMMA StepTold ==
  ASSUME SecretConstants, Told, NEW k \in Keeper,
         \/ WritePassword(k) \/ ReadPassword(k) \/ RemovePassword(k) \/ RemoveGone(k)
         \/ TakeLatch(k) \/ LoadNames(k) \/ SaveNames(k) \/ FailOrDie(k)
  PROVE  Told'
<1> DEFINE e == errand[k]
<1>0. /\ SecretTypeOK /\ errand \in [Keeper -> Errand] /\ e \in Errand
      /\ latch \in Keeper \cup {NoOne} /\ names \subseteq Secret /\ vault \subseteq Secret
      /\ torn \subseteq Secret
      /\ Occupied(k) /\ Latched(k) /\ Undisturbed(k) /\ Resting \in Errand
      /\ losses \in 0..MaxLosses /\ MaxLosses \in Nat
  BY DEF Told, SecretTypeOK, SecretConstants, Resting, Errand
<1>1. Underway(k) /\ e.name \in Secret /\ e.op \in {"store", "delete"}
  <2>1. Underway(k)
    BY DEF WritePassword, ReadPassword, RemovePassword, RemoveGone, TakeLatch, LoadNames,
           SaveNames, FailOrDie, At, Underway
  <2> QED BY <1>0, <2>1 DEF Occupied
<1>2. CASE WritePassword(k)
  <2> DEFINE f == [e EXCEPT !.stage = "guard"]
  <2>1. /\ f \in Errand /\ errand' = [errand EXCEPT ![k] = f] /\ f.stage = "guard"
        /\ vault' = vault \cup {e.name} /\ UNCHANGED <<names, latch, torn, losses>>
        /\ e.op = "store"
    BY <1>0, <1>2 DEF WritePassword, Proceed, At, Errand
  <2>2. SecretTypeOK'
    BY <1>0, <1>1, <2>1 DEF SecretTypeOK
  <2> QED BY <1>0, <1>1, <2>1, <2>2, GoesOn DEF Errand
<1>3. CASE ReadPassword(k)
  <2> DEFINE f == [e EXCEPT !.stage = IF e.name \in vault THEN "remove" ELSE "guard"]
  <2>1. /\ f \in Errand /\ errand' = [errand EXCEPT ![k] = f]
        /\ f.stage = IF e.name \in vault THEN "remove" ELSE "guard"
        /\ UNCHANGED <<vault, names, latch, torn, losses>> /\ e.op = "delete"
    BY <1>0, <1>3 DEF ReadPassword, Proceed, At, Errand
  <2>2. SecretTypeOK'
    BY <1>0, <2>1 DEF SecretTypeOK
  <2> QED BY <1>0, <1>1, <2>1, <2>2, GoesOn DEF Errand
<1>4. CASE RemovePassword(k)
  <2> DEFINE f == [e EXCEPT !.stage = "guard"]
  <2>1. /\ f \in Errand /\ errand' = [errand EXCEPT ![k] = f] /\ f.stage = "guard"
        /\ vault' = vault \ {e.name} /\ UNCHANGED <<names, latch, torn, losses>>
        /\ e.op = "delete"
    BY <1>0, <1>4 DEF RemovePassword, Proceed, At, Errand
  <2>2. SecretTypeOK'
    BY <1>0, <2>1 DEF SecretTypeOK
  <2> QED BY <1>0, <1>1, <2>1, <2>2, GoesOn DEF Errand
<1>5. CASE TakeLatch(k)
  <2> DEFINE f == [e EXCEPT !.stage = "load"]
  <2>1. /\ f \in Errand /\ errand' = [errand EXCEPT ![k] = f] /\ f.stage = "load"
        /\ latch = NoOne /\ latch' = k /\ UNCHANGED <<vault, names, torn, losses>>
        /\ e.stage = "guard"
    BY <1>0, <1>5 DEF TakeLatch, Proceed, Errand
  <2>2. SecretTypeOK'
    BY <1>0, <2>1 DEF SecretTypeOK
  <2> QED BY <1>0, <1>1, <2>1, <2>2, GoesOn DEF Errand, Undisturbed
<1>6. CASE LoadNames(k)
  <2> DEFINE f == [e EXCEPT !.stage = "save", !.read = names]
  <2>1. /\ f \in Errand /\ errand' = [errand EXCEPT ![k] = f] /\ f.stage = "save"
        /\ f.read = names /\ UNCHANGED <<vault, names, latch, torn, losses>>
        /\ e.stage = "load"
    BY <1>0, <1>6 DEF LoadNames, Errand
  <2>2. SecretTypeOK'
    BY <1>0, <2>1 DEF SecretTypeOK
  <2> QED BY <1>0, <1>1, <2>1, <2>2, GoesOn DEF Errand, Undisturbed, Latched
<1>7. CASE SaveNames(k)
  <2>1. /\ latch = k /\ e.read = names /\ e.stage = "save"
        /\ errand' = [errand EXCEPT ![k] = Resting] /\ UNCHANGED <<vault, losses>>
        /\ latch' = IF latch = k THEN NoOne ELSE latch
    BY <1>0, <1>7 DEF SaveNames, Latched
  <2>2. names' = IF e.op = "store" THEN names \cup {e.name} ELSE names \ {e.name}
    BY <1>7, <2>1 DEF SaveNames
  <2>3. torn' = IF e.alone THEN torn \ {e.name} ELSE torn \cup {e.name}
    BY <1>7 DEF SaveNames
  <2>4. SecretTypeOK'
    BY <1>0, <1>1, <2>1, <2>2, <2>3 DEF SecretTypeOK
  <2>5. e.name \in torn' \/ (e.name \in names' <=> e.name \in vault)
    BY <1>0, <1>1, <2>1, <2>2, <2>3 DEF Undisturbed
  <2> QED BY <1>1, <2>1, <2>2, <2>3, <2>4, <2>5, Ends
<1>8. CASE RemoveGone(k) \/ FailOrDie(k)
  <2>1. BrokenOff(k) /\ losses' \in 0..MaxLosses
    BY <1>0, <1>8 DEF RemoveGone, FailOrDie
  <2>2. SecretTypeOK'
    BY <1>0, <1>1, <2>1 DEF SecretTypeOK, BrokenOff
  <2> QED BY <1>1, <2>1, <2>2, Ends DEF BrokenOff
<1> QED BY <1>2, <1>3, <1>4, <1>5, <1>6, <1>7, <1>8

LEMMA NextTold == ASSUME SecretConstants, Told, [SecretNext]_secretVars PROVE Told'
<1>1. CASE UNCHANGED secretVars
  BY <1>1 DEF secretVars, Told, SecretTypeOK, Occupied, Latched, Undisturbed, Underway, Busy,
              IndexTellsWhatIsStored
<1> QED BY <1>1, BeginTold, StepTold DEF SecretNext

LEMMA ToldHolds == ASSUME SecretConstants PROVE SecretSpec => []Told
<1>1. SecretInit => Told
  BY InitTold
<1>2. Told /\ [SecretNext]_secretVars => Told'
  BY NextTold
<1> QED BY <1>1, <1>2, PTL DEF SecretSpec
-----------------------------------------------------------------------------
(* Type correctness of the secret store.                                   *)
THEOREM SecretsTyped == ASSUME SecretConstants PROVE SecretSpec => []SecretTypeOK
<1>1. Told => SecretTypeOK
  BY DEF Told
<1> QED BY <1>1, ToldHolds, PTL

(* Whatever processes store and delete at the same time, fail and die: a    *)
(* name whose last operation ended well and was alone on it is listed       *)
(* exactly if it has a value.                                              *)
THEOREM IndexTellsTruth == ASSUME SecretConstants PROVE SecretSpec => []IndexTellsWhatIsStored
<1>1. Told => IndexTellsWhatIsStored
  BY DEF Told
<1> QED BY <1>1, ToldHolds, PTL

-----------------------------------------------------------------------------
(* The usage log.                                                          *)

(* What the constants stand for: a log keeps a rotated file at least, and   *)
(* Void is neither a thread nor an inode.                                   *)
UsageConstants ==
  /\ Keep \in Nat \ {0} /\ MaxBytes \in Nat
  /\ Void \notin Recorder /\ Void \notin Nat
-----------------------------------------------------------------------------
(* Who is in the middle of an event holds the lock of its process, and     *)
(* nobody else is as long as no two processes were.                        *)
Active(r) == rec[r].at # "idle"

Locked ==
  /\ \A r \in Recorder : Active(r) => mutex[ProcessOf[r]] = r
  /\ \A p \in Process : mutex[p] # Void => Active(mutex[p]) /\ ProcessOf[mutex[p]] = p
  /\ \A r \in Recorder : rec[r].at = "write" => rec[r].file # Void
  /\ ~mixed => \A r, s \in Recorder : Active(r) /\ Active(s) => r = s

(* The events grow from one inode to the next and within each, and are all  *)
(* those that were written.                                                *)
Numbered ==
  /\ \A f \in DOMAIN inode : \A k \in DOMAIN inode[f] : inode[f][k] \in 1..history
  /\ \A f \in DOMAIN inode : \A k, l \in DOMAIN inode[f] :
       k < l => inode[f][k] < inode[f][l]
  /\ \A f, g \in DOMAIN inode : \A k \in DOMAIN inode[f], l \in DOMAIN inode[g] :
       f < g => inode[f][k] < inode[g][l]
  /\ \A e \in 1..history : \E f \in DOMAIN inode : \E k \in DOMAIN inode[f] : inode[f][k] = e

Bears(f) == \E i \in 0..Keep : name[i] = f

(* The current file is the newest inode; what has a name is newer than what *)
(* has lost it, and full unless it is the current file.                     *)
Named ==
  /\ name[0] # Void => name[0] = Len(inode)
  /\ \A i \in 0..Keep : \A g \in DOMAIN inode :
       name[i] # Void /\ name[i] < g /\ inode[g] # <<>> => Bears(g)
  /\ \A i \in 1..Keep : name[i] # Void => Len(inode[name[i]]) >= MaxBytes

(* A rotation fills the name it has just freed. *)
Placed(r) ==
  /\ rec[r].at \in {"oldest", "unlink", "look", "move"} => name[0] # Void /\ Full
  /\ rec[r].at = "unlink" => name[Keep] # Void
  /\ rec[r].at \in {"look", "move"} => name[rec[r].i + 1] = Void
  /\ rec[r].at = "move" => name[rec[r].i] # Void
  /\ rec[r].at = "write" => name[0] # Void /\ rec[r].file = name[0]

(* The name that may be free while r rotates. *)
Hole(r) ==
  CASE rec[r].at \in {"look", "move"} -> {rec[r].i + 1}
    [] rec[r].at = "open" -> {0}
    [] OTHER -> {}

Free(i) == name[i] = Void /\ \A r \in Recorder : i \notin Hole(r)

(* Unless a process died, names are taken one after the other, and nothing  *)
(* has lost its name before all of them were.                               *)
Whole ==
  /\ \A i, j \in 0..Keep : i < j /\ Free(i) => name[j] = Void
  /\ \/ \A g \in DOMAIN inode : inode[g] # <<>> => Bears(g)
     \/ \A i \in 0..Keep : ~Free(i)
  /\ name[0] # Void /\ (\A r \in Recorder : rec[r].at # "write") => inode[name[0]] # <<>>

Rotated ==
  /\ UsageTypeOK
  /\ Locked
  /\ NewestFirst
  /\ ~mixed => Numbered /\ Named /\ \A r \in Recorder : Placed(r)
  /\ ~mixed /\ kills = 0 => Whole
-----------------------------------------------------------------------------
LEMMA InitRotated == ASSUME UsageConstants PROVE UsageInit => Rotated
<1> SUFFICES ASSUME UsageInit PROVE Rotated
  OBVIOUS
<1>0. \A r \in Recorder : rec[r] = Aside
  BY DEF UsageInit
<1>1. UsageTypeOK
  <2>1. inode \in Seq(Seq(Nat)) /\ Len(inode) = 0
    BY DEF UsageInit
  <2>2. Aside \in [at : Place, i : 0..(Keep - 1), file : 1..Len(inode) \cup {Void}]
    BY DEF Aside, Place, UsageConstants
  <2> QED BY <2>1, <2>2 DEF UsageInit, UsageTypeOK
<1>2. Locked
  BY <1>0 DEF Locked, Active, UsageInit, Aside
<1>3. NewestFirst
  BY DEF NewestFirst, UsageInit
<1>4. Numbered
  BY DEF Numbered, UsageInit
<1>5. Named
  BY DEF Named, UsageInit, UsageConstants
<1>6. \A r \in Recorder : Placed(r)
  BY <1>0 DEF Placed, Aside
<1>7. Whole
  BY <1>0 DEF Whole, Free, Hole, UsageInit, UsageConstants
<1> QED BY <1>1, <1>2, <1>3, <1>4, <1>5, <1>6, <1>7 DEF Rotated

(* The types of a thread's record after it goes somewhere. *)
LEMMA UsageTypes ==
  ASSUME UsageConstants, UsageTypeOK, Locked, [UsageNext]_usageVars
  PROVE  UsageTypeOK'
<1> DEFINE Spot == [at : Place, i : 0..(Keep - 1), file : 1..Len(inode) \cup {Void}]
<1>0. /\ inode \in Seq(Seq(Nat)) /\ name \in [0..Keep -> 1..Len(inode) \cup {Void}]
      /\ mutex \in [Process -> Recorder \cup {Void}] /\ rec \in [Recorder -> Spot]
      /\ history \in Nat /\ mixed \in BOOLEAN /\ kills \in Nat /\ Len(inode) \in Nat
      /\ Keep \in Nat \ {0} /\ MaxBytes \in Nat
  BY DEF UsageTypeOK, UsageConstants
<1>a. /\ Aside \in Spot /\ NextShift(Keep - 1) \in Spot
      /\ \A i \in 0..(Keep - 1) : i # 0 => NextShift(i - 1) \in Spot
  BY <1>0 DEF Aside, NextShift, Place
<1>b. ASSUME NEW r \in Recorder, NEW at \in Place PROVE [rec[r] EXCEPT !.at = at] \in Spot
  BY <1>0
<1>c. ASSUME NEW r \in Recorder, NEW spot \in Spot, rec' = [rec EXCEPT ![r] = spot],
             UNCHANGED <<inode, history, mixed, kills>>,
             name' \in [0..Keep -> 1..Len(inode) \cup {Void}],
             mutex' \in [Process -> Recorder \cup {Void}]
      PROVE  UsageTypeOK'
  BY <1>0, <1>c DEF UsageTypeOK
<1> HIDE DEF Spot
<1>1. ASSUME NEW r \in Recorder, Record(r) PROVE UsageTypeOK'
  <2>1. /\ rec' = [rec EXCEPT ![r] = [rec[r] EXCEPT !.at = "size"]]
        /\ mutex' = [mutex EXCEPT ![ProcessOf[r]] = r]
        /\ mixed' = (mixed \/ Inside # {}) /\ UNCHANGED <<name, inode, history, kills>>
    BY <1>1 DEF Record, To
  <2>2. rec' \in [Recorder -> Spot]
    BY <1>0, <1>b, <2>1 DEF Place
  <2>3. mixed' \in BOOLEAN
    BY <2>1
  <2>4. mutex' \in [Process -> Recorder \cup {Void}]
    BY <1>0, <2>1
  <2> QED BY <1>0, <2>1, <2>2, <2>3, <2>4 DEF UsageTypeOK, Spot
<1>2. ASSUME NEW r \in Recorder, CheckSize(r) PROVE UsageTypeOK'
  <2>1. PICK at \in Place : rec' = [rec EXCEPT ![r] = [rec[r] EXCEPT !.at = at]]
    BY <1>2 DEF CheckSize, To, Place
  <2> QED BY <1>0, <1>2, <1>b, <1>c, <2>1 DEF CheckSize
<1>3. ASSUME NEW r \in Recorder, LookOldest(r) PROVE UsageTypeOK'
  <2>1. CASE name[Keep] # Void
    BY <1>0, <1>3, <1>b, <1>c, <2>1 DEF LookOldest, Place
  <2>2. CASE name[Keep] = Void
    BY <1>0, <1>3, <1>a, <1>c, <2>2 DEF LookOldest
  <2> QED BY <2>1, <2>2
<1>4. ASSUME NEW r \in Recorder, UnlinkOldest(r) PROVE UsageTypeOK'
  <2>1. name' \in [0..Keep -> 1..Len(inode) \cup {Void}]
    BY <1>0, <1>4 DEF UnlinkOldest
  <2> QED BY <1>0, <1>4, <1>a, <1>c, <2>1 DEF UnlinkOldest
<1>5. ASSUME NEW r \in Recorder, Look(r) PROVE UsageTypeOK'
  <2>0. rec[r].i \in 0..(Keep - 1)
    BY <1>0 DEF Spot
  <2>1. CASE rec[r].i > 0 /\ name[rec[r].i] = Void
    <3>1. rec' = [rec EXCEPT ![r] = NextShift(rec[r].i - 1)]
      BY <1>5, <2>1 DEF Look
    <3>2. NextShift(rec[r].i - 1) \in Spot
      BY <1>a, <2>0, <2>1
    <3> QED BY <1>0, <1>5, <1>c, <3>1, <3>2 DEF Look
  <2>2. CASE ~(rec[r].i > 0 /\ name[rec[r].i] = Void)
    BY <1>0, <1>5, <1>b, <1>c, <2>2 DEF Look, Place
  <2> QED BY <2>1, <2>2
<1>6. ASSUME NEW r \in Recorder, Shift(r) PROVE UsageTypeOK'
  <2>0. rec[r].i \in 0..(Keep - 1)
    BY <1>0 DEF Spot
  <2>1. name' \in [0..Keep -> 1..Len(inode) \cup {Void}]
    <3>1. name' = [name EXCEPT ![rec[r].i + 1] = name[rec[r].i], ![rec[r].i] = Void]
      BY <1>6 DEF Shift
    <3>2. rec[r].i \in 0..Keep /\ rec[r].i + 1 \in 0..Keep
      BY <1>0, <2>0
    <3> QED BY <1>0, <3>1, <3>2
  <2>2. CASE rec[r].i = 0
    BY <1>0, <1>6, <1>b, <1>c, <2>1, <2>2 DEF Shift, Place
  <2>3. CASE rec[r].i # 0
    <3>1. rec' = [rec EXCEPT ![r] = NextShift(rec[r].i - 1)]
      BY <1>6, <2>3 DEF Shift
    <3>2. NextShift(rec[r].i - 1) \in Spot
      BY <1>a, <2>0, <2>3
    <3> QED BY <1>0, <1>6, <1>c, <2>1, <3>1, <3>2 DEF Shift
  <2> QED BY <2>2, <2>3
<1>7. ASSUME NEW r \in Recorder, Gone(r) PROVE UsageTypeOK'
  <2>1. mutex' \in [Process -> Recorder \cup {Void}]
    BY <1>0, <1>7 DEF Gone, StepOut
  <2> QED BY <1>0, <1>7, <1>a, <1>c, <2>1 DEF Gone, StepOut
<1>8. ASSUME NEW r \in Recorder, OpenFile(r) PROVE UsageTypeOK'
  <2> DEFINE spot == [rec[r] EXCEPT !.at = "write", !.file = name'[0]]
  <2>1. rec' = [rec EXCEPT ![r] = spot] /\ UNCHANGED <<mutex, history, mixed, kills>>
    BY <1>8 DEF OpenFile
  <2>2. CASE name[0] # Void
    <3>1. name' = name /\ inode' = inode
      BY <1>8, <2>2 DEF OpenFile
    <3>2. spot \in Spot
      <4>1. name'[0] \in 1..Len(inode) \cup {Void} /\ "write" \in Place
        BY <1>0, <3>1 DEF Place
      <4>2. rec[r] \in Spot
        BY <1>0
      <4> QED BY <4>1, <4>2 DEF Spot
    <3> QED BY <1>0, <1>c, <2>1, <3>1, <3>2
  <2>3. CASE name[0] = Void
    <3>1. inode' = Append(inode, <<>>) /\ name' = [name EXCEPT ![0] = Len(inode) + 1]
      BY <1>8, <2>3 DEF OpenFile
    <3>2. inode' \in Seq(Seq(Nat)) /\ Len(inode') = Len(inode) + 1
      BY <1>0, <3>1
    <3>3. name' \in [0..Keep -> 1..Len(inode') \cup {Void}] /\ name'[0] = Len(inode')
      BY <1>0, <3>1, <3>2
    <3>4. \A s \in Recorder : rec'[s] \in [at : Place, i : 0..(Keep - 1),
                                         file : 1..Len(inode') \cup {Void}]
      <4>1. ASSUME NEW s \in Recorder \ {r}
            PROVE  rec'[s] \in [at : Place, i : 0..(Keep - 1), file : 1..Len(inode') \cup {Void}]
        BY <1>0, <2>1, <3>2 DEF Spot
      <4>2. spot \in [at : Place, i : 0..(Keep - 1), file : 1..Len(inode') \cup {Void}]
        <5>1. rec[r] \in Spot /\ "write" \in Place
          BY <1>0 DEF Place
        <5>2. name'[0] \in 1..Len(inode') \cup {Void}
          BY <1>0, <3>2, <3>3
        <5> QED BY <5>1, <5>2 DEF Spot
      <4> HIDE DEF spot
      <4> QED BY <1>0, <2>1, <4>1, <4>2
    <3>5. DOMAIN rec' = Recorder /\ rec' = [s \in Recorder |-> rec'[s]]
      BY <1>0, <2>1
    <3> QED BY <1>0, <2>1, <3>2, <3>3, <3>4, <3>5 DEF UsageTypeOK
  <2> QED BY <2>2, <2>3
<1>9. ASSUME NEW r \in Recorder, Write(r) PROVE UsageTypeOK'
  <2>1. /\ history' = history + 1 /\ UNCHANGED <<name, mixed, kills>>
        /\ inode' = [inode EXCEPT ![rec[r].file] = Append(@, history')]
        /\ rec' = [rec EXCEPT ![r] = Aside] /\ mutex' = [mutex EXCEPT ![ProcessOf[r]] = Void]
    BY <1>9 DEF Write, StepOut
  <2>2. rec[r].file \in 1..Len(inode)
    BY <1>0, <1>9 DEF Write, Locked, Spot
  <2>3. Append(inode[rec[r].file], history') \in Seq(Nat)
    BY <1>0, <2>1, <2>2
  <2>4. inode' \in Seq(Seq(Nat)) /\ Len(inode') = Len(inode)
    BY <1>0, <2>1, <2>2, <2>3
  <2>5. mutex' \in [Process -> Recorder \cup {Void}] /\ rec' \in [Recorder -> Spot]
    BY <1>0, <1>a, <2>1
  <2> QED BY <1>0, <2>1, <2>4, <2>5 DEF UsageTypeOK, Spot
<1>10. ASSUME NEW p \in Process, Kill(p) PROVE UsageTypeOK'
  <2>1. mutex[p] \in Recorder
    BY <1>0, <1>10 DEF Kill
  <2>2. mutex' \in [Process -> Recorder \cup {Void}] /\ rec' \in [Recorder -> Spot]
    BY <1>0, <1>10, <1>a, <2>1 DEF Kill, StepOut
  <2> QED BY <1>0, <1>10, <2>2 DEF Kill, UsageTypeOK, Spot
<1>11. CASE UNCHANGED usageVars
  BY <1>11 DEF usageVars, UsageTypeOK
<1> QED BY <1>1, <1>2, <1>3, <1>4, <1>5, <1>6, <1>7, <1>8, <1>9, <1>10, <1>11 DEF UsageNext

(* What r does between taking the lock of its process and giving it back.   *)
Within(r) ==
  \/ CheckSize(r) \/ LookOldest(r) \/ UnlinkOldest(r) \/ Look(r) \/ Shift(r) \/ OpenFile(r)

LEMMA WithinStep ==
  ASSUME UsageTypeOK, NEW r \in Recorder, Within(r)
  PROVE  /\ Active(r) /\ rec'[r].at # "idle"
         /\ \A s \in Recorder \ {r} : rec'[s] = rec[s]
         /\ UNCHANGED <<mutex, history, mixed, kills>>
<1>0. DOMAIN rec = Recorder /\ \A at : [rec[r] EXCEPT !.at = at].at = at
  BY DEF UsageTypeOK
<1>1. CASE CheckSize(r)
  BY <1>0, <1>1 DEF CheckSize, To, Active
<1>2. CASE LookOldest(r)
  BY <1>0, <1>2 DEF LookOldest, NextShift, Active
<1>3. CASE UnlinkOldest(r)
  BY <1>0, <1>3 DEF UnlinkOldest, NextShift, Active
<1>4. CASE Look(r)
  BY <1>0, <1>4 DEF Look, NextShift, Active
<1>5. CASE Shift(r)
  BY <1>0, <1>5 DEF Shift, NextShift, Active
<1>6. CASE OpenFile(r)
  <2>1. rec'[r].at = "write" /\ rec[r].at = "open"
    BY <1>0, <1>6 DEF OpenFile, UsageTypeOK
  <2> QED BY <1>0, <1>6, <2>1 DEF OpenFile, Active
<1> QED BY <1>1, <1>2, <1>3, <1>4, <1>5, <1>6 DEF Within

LEMMA LockedStays ==
  ASSUME UsageConstants, UsageTypeOK, UsageTypeOK', Locked, [UsageNext]_usageVars
  PROVE  Locked'
<1>0. /\ DOMAIN rec = Recorder /\ DOMAIN mutex = Process /\ DOMAIN rec' = Recorder
      /\ mutex \in [Process -> Recorder \cup {Void}] /\ Void \notin Recorder /\ mixed \in BOOLEAN
      /\ \A s \in Recorder : ProcessOf[s] \in Process
  BY DEF UsageTypeOK, UsageConstants, Process
<1>1. ASSUME NEW r \in Recorder, Within(r) PROVE Locked'
  <2>0. /\ Active(r) /\ rec'[r].at # "idle" /\ \A s \in Recorder \ {r} : rec'[s] = rec[s]
        /\ mutex' = mutex /\ mixed' = mixed
    BY <1>1, WithinStep
  <2>1. rec'[r].at = "write" => rec'[r].file # Void
    <3>1. ASSUME OpenFile(r) PROVE rec'[r].file # Void
      <4>1. rec'[r].file = name'[0]
        BY <1>0, <3>1 DEF OpenFile, UsageTypeOK
      <4>2. name'[0] # Void
        <5>1. 0 \in DOMAIN name /\ Len(inode) + 1 \in Nat
          BY DEF UsageTypeOK, UsageConstants
        <5>2. \/ name[0] = Void /\ name' = [name EXCEPT ![0] = Len(inode) + 1]
              \/ name[0] # Void /\ name' = name
          BY <3>1 DEF OpenFile
        <5>3. name'[0] = Len(inode) + 1 \/ (name[0] # Void /\ name'[0] = name[0])
          BY <5>1, <5>2
        <5> QED
          BY <5>1, <5>3 DEF UsageConstants
      <4> QED BY <4>1, <4>2
    <3>2. ASSUME CheckSize(r) PROVE rec'[r].at # "write"
      <4>1. rec'[r].at \in {"open", "oldest"}
        BY <3>2 DEF CheckSize, To, UsageTypeOK
      <4> QED BY <4>1
    <3>3. ASSUME LookOldest(r) PROVE rec'[r].at # "write"
      BY <1>0, <3>3 DEF LookOldest, NextShift, UsageTypeOK
    <3>4. ASSUME UnlinkOldest(r) PROVE rec'[r].at # "write"
      BY <1>0, <3>4 DEF UnlinkOldest, NextShift
    <3>5. ASSUME Look(r) PROVE rec'[r].at # "write"
      BY <1>0, <3>5 DEF Look, NextShift, UsageTypeOK
    <3>6. ASSUME Shift(r) PROVE rec'[r].at # "write"
      BY <1>0, <3>6 DEF Shift, NextShift, UsageTypeOK
    <3> QED BY <1>1, <3>1, <3>2, <3>3, <3>4, <3>5, <3>6 DEF Within
  <2>2. \A s \in Recorder : Active(s)' <=> Active(s)
    BY <2>0 DEF Active
  <2>3. \A s \in Recorder : rec'[s].at = "write" => rec'[s].file # Void
    BY <2>0, <2>1 DEF Locked
  <2>4. \A p \in Process : mutex[p] # Void => mutex[p] \in Recorder
    BY <1>0
  <2> QED BY <2>0, <2>2, <2>3, <2>4 DEF Locked
<1>2. ASSUME NEW r \in Recorder, Active(r), StepOut(r), UNCHANGED mixed PROVE Locked'
  <2>1. /\ rec'[r].at = "idle" /\ \A s \in Recorder \ {r} : rec'[s] = rec[s]
        /\ \A p \in Process : mutex'[p] = IF p = ProcessOf[r] THEN Void ELSE mutex[p]
    BY <1>0, <1>2 DEF StepOut, Aside
  <2>2. mutex[ProcessOf[r]] = r
    BY <1>2 DEF Locked
  <2> QED BY <1>0, <1>2, <2>1, <2>2 DEF Locked, Active
<1>3. ASSUME NEW r \in Recorder, Record(r) PROVE Locked'
  <2>1. /\ rec'[r].at = "size" /\ ~Active(r) /\ \A s \in Recorder \ {r} : rec'[s] = rec[s]
        /\ \A p \in Process : mutex'[p] = IF p = ProcessOf[r] THEN r ELSE mutex[p]
        /\ mutex[ProcessOf[r]] = Void
    BY <1>0, <1>3 DEF Record, To, Active, UsageTypeOK
  <2>2. ASSUME ~mixed' PROVE \A s \in Recorder : ~Active(s)
    <3>1. mixed' = (mixed \/ Inside # {})
      BY <1>3 DEF Record
    <3>2. Inside = {}
      BY <2>2, <3>1
    <3> QED BY <1>0, <3>2 DEF Inside, Locked
  <2>3. ~mixed' => \A s, t \in Recorder : Active(s)' /\ Active(t)' => s = t
    BY <2>1, <2>2 DEF Active
  <2> QED BY <1>0, <2>1, <2>3 DEF Locked, Active
<1>4. ASSUME NEW r \in Recorder, Gone(r) \/ Write(r) PROVE Locked'
  BY <1>2, <1>4 DEF Gone, Write, Active
<1>5. ASSUME NEW p \in Process, Kill(p) PROVE Locked'
  <2>1. mutex[p] \in Recorder /\ Active(mutex[p])
    BY <1>0, <1>5 DEF Kill, Locked
  <2> QED BY <1>2, <1>5, <2>1 DEF Kill
<1>6. CASE UNCHANGED usageVars
  BY <1>6 DEF usageVars, Locked, Active
<1> QED BY <1>1, <1>3, <1>4, <1>5, <1>6 DEF UsageNext, Within

LEMMA NewestStays ==
  ASSUME UsageConstants, UsageTypeOK, NewestFirst, [UsageNext]_usageVars
  PROVE  NewestFirst'
<1>0. /\ name \in [0..Keep -> 1..Len(inode) \cup {Void}] /\ Len(inode) \in Nat
      /\ Keep \in Nat \ {0} /\ Void \notin Nat
      /\ \A r \in Recorder : rec[r].i \in 0..(Keep - 1)
  BY DEF UsageTypeOK, UsageConstants
<1>1. CASE UNCHANGED name
  BY <1>1 DEF NewestFirst
<1>2. ASSUME NEW r \in Recorder, UnlinkOldest(r) PROVE NewestFirst'
  BY <1>0, <1>2 DEF UnlinkOldest, NewestFirst
<1>3. ASSUME NEW r \in Recorder, Shift(r) PROVE NewestFirst'
  <2> DEFINE i == rec[r].i
  <2>1. \A j \in 0..Keep : name'[j] = IF j = i THEN Void ELSE IF j = i + 1 THEN name[i] ELSE name[j]
    BY <1>0, <1>3 DEF Shift
  <2>2. i \in 0..(Keep - 1) /\ name[i] # Void
    BY <1>0, <1>3 DEF Shift
  <2> HIDE DEF i
  <2> SUFFICES ASSUME NEW a \in 0..Keep, NEW b \in 0..Keep, name'[a] # Void, name'[b] # Void, a < b
               PROVE  name'[a] > name'[b]
    BY DEF NewestFirst
  <2>3. a # i /\ b # i
    BY <2>1
  <2>4. CASE a = i + 1
    BY <1>0, <2>1, <2>2, <2>3, <2>4 DEF NewestFirst
  <2>5. CASE b = i + 1
    BY <1>0, <2>1, <2>2, <2>3, <2>5 DEF NewestFirst
  <2>6. CASE a # i + 1 /\ b # i + 1
    BY <1>0, <2>1, <2>2, <2>3, <2>6 DEF NewestFirst
  <2> QED BY <2>4, <2>5, <2>6
<1>4. ASSUME NEW r \in Recorder, OpenFile(r) PROVE NewestFirst'
  <2>1. CASE name[0] = Void
    <3>1. \A j \in 0..Keep : name'[j] = IF j = 0 THEN Len(inode) + 1 ELSE name[j]
      BY <1>0, <1>4, <2>1 DEF OpenFile
    <3> QED BY <1>0, <3>1 DEF NewestFirst
  <2> QED BY <1>1, <1>4, <2>1 DEF OpenFile
<1>5. ASSUME NEW r \in Recorder, Record(r) \/ CheckSize(r) \/ LookOldest(r) \/ Look(r) \/ Gone(r)
                                 \/ Write(r)
      PROVE  UNCHANGED name
  BY <1>5 DEF Record, CheckSize, LookOldest, Look, Gone, Write
<1>6. ASSUME NEW p \in Process, Kill(p) PROVE UNCHANGED name
  BY <1>6 DEF Kill
<1> QED BY <1>1, <1>2, <1>3, <1>4, <1>5, <1>6 DEF UsageNext, usageVars

(* Who acts is the only one that records, before and after.                 *)
LEMMA OnlyOne ==
  ASSUME Locked, ~mixed, NEW r \in Recorder, Active(r)
  PROVE  \A s \in Recorder \ {r} : rec[s].at = "idle"
BY DEF Locked, Active

LEMMA Unmixed ==
  ASSUME [UsageNext]_usageVars, UsageTypeOK, mixed' = FALSE
  PROVE  mixed = FALSE
<1>1. ASSUME NEW r \in Recorder, Record(r) PROVE mixed = FALSE
  BY <1>1 DEF Record, UsageTypeOK
<1>2. ASSUME NEW r \in Recorder, Within(r) PROVE mixed = FALSE
  BY <1>2, WithinStep
<1>3. ASSUME NEW r \in Recorder, Gone(r) \/ Write(r) PROVE mixed = FALSE
  BY <1>3 DEF Gone, Write
<1>4. ASSUME NEW p \in Process, Kill(p) PROVE mixed = FALSE
  BY <1>4 DEF Kill
<1> QED BY <1>1, <1>2, <1>3, <1>4 DEF UsageNext, Within, usageVars

(* What an action of a thread does to the names and the inodes, and where  *)
(* it leaves the thread.                                                   *)
LEMMA Steps ==
  ASSUME UsageConstants, UsageTypeOK, NEW r \in Recorder
  PROVE  /\ Record(r) => rec'[r].at = "size" /\ UNCHANGED <<name, inode, history>>
         /\ CheckSize(r) => /\ rec'[r].at = (IF ~Full THEN "open" ELSE "oldest")
                            /\ UNCHANGED <<name, inode>>
         /\ LookOldest(r) => /\ UNCHANGED <<name, inode>>
                             /\ \/ name[Keep] # Void /\ rec'[r].at = "unlink"
                                \/ name[Keep] = Void /\ rec'[r] = NextShift(Keep - 1)
         /\ UnlinkOldest(r) => /\ UNCHANGED inode /\ rec'[r] = NextShift(Keep - 1)
                               /\ \A j \in 0..Keep : name'[j] = IF j = Keep THEN Void ELSE name[j]
         /\ Look(r) => /\ UNCHANGED <<name, inode>>
                       /\ \/ /\ rec[r].i > 0 /\ name[rec[r].i] = Void
                             /\ rec'[r] = NextShift(rec[r].i - 1)
                          \/ /\ ~(rec[r].i > 0 /\ name[rec[r].i] = Void)
                             /\ rec'[r].at = "move" /\ rec'[r].i = rec[r].i
         /\ Shift(r) => /\ UNCHANGED inode
                        /\ \A j \in 0..Keep :
                             name'[j] = IF j = rec[r].i THEN Void
                                        ELSE IF j = rec[r].i + 1 THEN name[rec[r].i] ELSE name[j]
                        /\ \/ rec[r].i = 0 /\ rec'[r].at = "open"
                           \/ rec[r].i # 0 /\ rec'[r] = NextShift(rec[r].i - 1)
<1>0. /\ name \in [0..Keep -> 1..Len(inode) \cup {Void}]
      /\ DOMAIN rec = Recorder /\ \A at : [rec[r] EXCEPT !.at = at].at = at
      /\ \A at : [rec[r] EXCEPT !.at = at].i = rec[r].i
      /\ rec[r].i \in 0..(Keep - 1) /\ Keep \in Nat \ {0}
  BY DEF UsageTypeOK, UsageConstants
<1>1. Record(r) => rec'[r].at = "size" /\ UNCHANGED <<name, inode, history>>
  BY <1>0 DEF Record, To
<1>2. CheckSize(r) => /\ rec'[r].at = (IF ~Full THEN "open" ELSE "oldest")
                      /\ UNCHANGED <<name, inode>>
  BY <1>0 DEF CheckSize, To
<1>3. LookOldest(r) => /\ UNCHANGED <<name, inode>>
                       /\ \/ name[Keep] # Void /\ rec'[r].at = "unlink"
                          \/ name[Keep] = Void /\ rec'[r] = NextShift(Keep - 1)
  BY <1>0 DEF LookOldest
<1>4. UnlinkOldest(r) => /\ UNCHANGED inode /\ rec'[r] = NextShift(Keep - 1)
                         /\ \A j \in 0..Keep : name'[j] = IF j = Keep THEN Void ELSE name[j]
  BY <1>0 DEF UnlinkOldest
<1>5. Look(r) => /\ UNCHANGED <<name, inode>>
                 /\ \/ /\ rec[r].i > 0 /\ name[rec[r].i] = Void
                       /\ rec'[r] = NextShift(rec[r].i - 1)
                    \/ /\ ~(rec[r].i > 0 /\ name[rec[r].i] = Void)
                       /\ rec'[r].at = "move" /\ rec'[r].i = rec[r].i
  BY <1>0 DEF Look
<1>6. Shift(r) => /\ UNCHANGED inode
                  /\ \A j \in 0..Keep :
                       name'[j] = IF j = rec[r].i THEN Void
                                  ELSE IF j = rec[r].i + 1 THEN name[rec[r].i] ELSE name[j]
                  /\ \/ rec[r].i = 0 /\ rec'[r].at = "open"
                     \/ rec[r].i # 0 /\ rec'[r] = NextShift(rec[r].i - 1)
  BY <1>0 DEF Shift
<1> QED BY <1>1, <1>2, <1>3, <1>4, <1>5, <1>6

(* open and write.                                                         *)
LEMMA Opens ==
  ASSUME UsageConstants, UsageTypeOK, NEW r \in Recorder, OpenFile(r)
  PROVE  /\ rec[r].at = "open" /\ rec'[r].at = "write" /\ rec'[r].file = name'[0]
         /\ name'[0] # Void /\ history' = history
         /\ \A j \in 1..Keep : name'[j] = name[j]
         /\ \/ name[0] # Void /\ UNCHANGED <<name, inode>>
            \/ /\ name[0] = Void /\ name'[0] = Len(inode) + 1 /\ Len(inode') = Len(inode) + 1
               /\ inode'[Len(inode) + 1] = <<>>
               /\ \A f \in DOMAIN inode : inode'[f] = inode[f]
<1>0. /\ name \in [0..Keep -> 1..Len(inode) \cup {Void}] /\ DOMAIN rec = Recorder
      /\ inode \in Seq(Seq(Nat)) /\ Void \notin Nat /\ Keep \in Nat \ {0}
  BY DEF UsageTypeOK, UsageConstants
<1>1. /\ rec[r].at = "open" /\ rec'[r].at = "write" /\ rec'[r].file = name'[0]
      /\ history' = history
  BY <1>0 DEF OpenFile, UsageTypeOK
<1>2. CASE name[0] # Void
  BY <1>1, <1>2 DEF OpenFile
<1>3. CASE name[0] = Void
  <2>1. inode' = Append(inode, <<>>) /\ name' = [name EXCEPT ![0] = Len(inode) + 1]
    BY <1>3 DEF OpenFile
  <2>2. /\ Len(inode') = Len(inode) + 1 /\ inode'[Len(inode) + 1] = <<>>
        /\ \A f \in DOMAIN inode : inode'[f] = inode[f]
    BY <1>0, <2>1
  <2>3. name'[0] = Len(inode) + 1 /\ \A j \in 1..Keep : name'[j] = name[j]
    BY <1>0, <2>1
  <2> QED BY <1>0, <1>1, <1>3, <2>2, <2>3
<1> QED BY <1>2, <1>3

LEMMA Writes ==
  ASSUME UsageConstants, UsageTypeOK, Named, NEW r \in Recorder, Placed(r), Write(r)
  PROVE  /\ rec[r].at = "write" /\ rec'[r].at = "idle" /\ UNCHANGED name
         /\ history' = history + 1 /\ name[0] = Len(inode)
         /\ Len(inode) \in DOMAIN inode /\ Len(inode') = Len(inode)
         /\ \A f \in DOMAIN inode : f # Len(inode) => inode'[f] = inode[f]
         /\ inode'[Len(inode)] = Append(inode[Len(inode)], history + 1)
<1>0. /\ name \in [0..Keep -> 1..Len(inode) \cup {Void}] /\ DOMAIN rec = Recorder
      /\ inode \in Seq(Seq(Nat)) /\ Keep \in Nat \ {0}
  BY DEF UsageTypeOK, UsageConstants
<1>1. /\ rec[r].at = "write" /\ rec'[r].at = "idle" /\ UNCHANGED name /\ history' = history + 1
      /\ inode' = [inode EXCEPT ![rec[r].file] = Append(@, history + 1)]
  BY <1>0 DEF Write, StepOut, Aside
<1>2. name[0] # Void /\ rec[r].file = Len(inode) /\ name[0] = Len(inode)
  BY <1>1 DEF Placed, Named
<1>3. Len(inode) \in DOMAIN inode
  BY <1>0, <1>2
<1> QED BY <1>0, <1>1, <1>2, <1>3

(* Numbers are given out in the order of the inodes: only the newest grows. *)
LEMMA NumberedStays ==
  ASSUME UsageConstants, UsageTypeOK, Named, Numbered,
         \A s \in Recorder : Placed(s), [UsageNext]_usageVars
  PROVE  Numbered'
<1>0. /\ inode \in Seq(Seq(Nat)) /\ history \in Nat /\ Len(inode) \in Nat
      /\ \A f \in DOMAIN inode : inode[f] \in Seq(Nat)
      /\ DOMAIN inode = 1..Len(inode)
  BY DEF UsageTypeOK
<1>1. CASE UNCHANGED <<inode, history>>
  BY <1>1 DEF Numbered
<1>2. ASSUME NEW r \in Recorder, OpenFile(r) PROVE Numbered'
  <2>1. CASE name[0] # Void
    BY <1>1, <1>2, <2>1, Opens
  <2>2. CASE name[0] = Void
    <3>1. /\ Len(inode') = Len(inode) + 1 /\ inode'[Len(inode) + 1] = <<>> /\ history' = history
          /\ \A f \in DOMAIN inode : inode'[f] = inode[f]
      BY <1>2, <2>2, Opens
    <3>2. DOMAIN inode' = 1..(Len(inode) + 1)
      BY <1>0, <1>2, <2>2, <3>1 DEF OpenFile
    <3>3. \A f \in DOMAIN inode' : \A k \in DOMAIN inode'[f] :
            f \in DOMAIN inode /\ inode'[f] = inode[f]
      BY <1>0, <3>1, <3>2
    <3>4. \A f \in DOMAIN inode : f \in DOMAIN inode' /\ inode'[f] = inode[f]
      BY <1>0, <3>1, <3>2
    <3>5. \A e \in 1..history : \E f \in DOMAIN inode' : \E k \in DOMAIN inode'[f] :
            inode'[f][k] = e
      <4> SUFFICES ASSUME NEW e \in 1..history
                   PROVE  \E f \in DOMAIN inode' : \E k \in DOMAIN inode'[f] : inode'[f][k] = e
        OBVIOUS
      <4>1. PICK f \in DOMAIN inode : \E k \in DOMAIN inode[f] : inode[f][k] = e
        BY DEF Numbered
      <4> QED BY <3>4, <4>1
    <3> QED BY <3>1, <3>3, <3>5 DEF Numbered
  <2> QED BY <2>1, <2>2
<1>3. ASSUME NEW r \in Recorder, Write(r) PROVE Numbered'
  <2> DEFINE n == Len(inode)
             K == Len(inode[n])
  <2>1. /\ history' = history + 1 /\ n \in DOMAIN inode /\ DOMAIN inode' = DOMAIN inode
        /\ \A f \in DOMAIN inode : f # n => inode'[f] = inode[f]
        /\ inode'[n] = Append(inode[n], history + 1)
    BY <1>0, <1>3, Writes DEF Write
  <2>2. /\ K \in Nat /\ DOMAIN inode[n] = 1..K /\ DOMAIN inode'[n] = 1..(K + 1)
        /\ \A k \in 1..K : inode'[n][k] = inode[n][k]
        /\ inode'[n][K + 1] = history + 1
    BY <1>0, <2>1
  <2>3. \A f \in DOMAIN inode : f # n => f < n
    BY <1>0, <2>1
  <2> HIDE DEF n, K
  <2>4. ASSUME NEW f \in DOMAIN inode, NEW k \in DOMAIN inode'[f]
        PROVE  \/ f = n /\ k = K + 1 /\ inode'[f][k] = history + 1
               \/ /\ k \in DOMAIN inode[f] /\ inode'[f][k] = inode[f][k]
                  /\ inode[f][k] \in 1..history
                  /\ f = n => k \in 1..K
    <3>1. CASE f = n
      <4>1. k \in 1..(K + 1)
        BY <2>2, <3>1
      <4>2. CASE k = K + 1
        BY <2>2, <3>1, <4>2
      <4>3. CASE k \in 1..K
        BY <2>1, <2>2, <3>1, <4>3 DEF Numbered
      <4> QED BY <2>2, <4>1, <4>2, <4>3
    <3>2. CASE f # n
      BY <2>1, <3>2 DEF Numbered
    <3> QED BY <3>1, <3>2
  <2>a. history \in Nat /\ history' = history + 1 /\ DOMAIN inode' = DOMAIN inode /\ K \in Nat
    BY <1>0, <2>1, <2>2
  <2>5. ASSUME NEW f \in DOMAIN inode', NEW k \in DOMAIN inode'[f]
        PROVE  inode'[f][k] \in 1..history'
    BY <2>a, <2>4
  <2>6. ASSUME NEW f \in DOMAIN inode', NEW k \in DOMAIN inode'[f], NEW l \in DOMAIN inode'[f],
               k < l
        PROVE  inode'[f][k] < inode'[f][l]
    <3>1. CASE f = n /\ k = K + 1
      BY <2>a, <2>2, <2>6, <3>1
    <3>2. CASE f = n /\ l = K + 1
      BY <2>a, <2>4, <2>6, <3>2
    <3>3. CASE k \in DOMAIN inode[f] /\ l \in DOMAIN inode[f]
               /\ inode'[f][k] = inode[f][k] /\ inode'[f][l] = inode[f][l]
      BY <2>a, <2>6, <3>3 DEF Numbered
    <3> QED BY <2>a, <2>4, <3>1, <3>2, <3>3
  <2>7. ASSUME NEW f \in DOMAIN inode', NEW g \in DOMAIN inode', NEW k \in DOMAIN inode'[f],
               NEW l \in DOMAIN inode'[g], f < g
        PROVE  inode'[f][k] < inode'[g][l]
    <3>1. f # n /\ inode'[f][k] = inode[f][k] /\ k \in DOMAIN inode[f] /\ inode[f][k] \in 1..history
      <4>1. f < n
        <5>1. f \in DOMAIN inode /\ g \in DOMAIN inode
          BY <2>1
        <5>2. f \in Nat /\ g \in Nat /\ n \in Nat
          BY <1>0, <2>1, <5>1
        <5>3. g = n \/ g < n
          BY <2>3, <5>1
        <5> QED BY <2>7, <5>2, <5>3
      <4>2. f # n
        BY <1>0, <2>1, <4>1
      <4> QED BY <2>a, <2>4, <4>2
    <3>2. CASE g = n /\ l = K + 1
      BY <1>0, <2>2, <3>1, <3>2
    <3>3. CASE l \in DOMAIN inode[g] /\ inode'[g][l] = inode[g][l]
      BY <2>1, <2>7, <3>1, <3>3 DEF Numbered
    <3> QED BY <2>1, <2>4, <3>2, <3>3
  <2>8. ASSUME NEW e \in 1..history'
        PROVE  \E f \in DOMAIN inode' : \E k \in DOMAIN inode'[f] : inode'[f][k] = e
    <3>1. CASE e = history + 1
      BY <2>1, <2>2, <3>1, K + 1 \in 1..(K + 1)
    <3>2. CASE e \in 1..history
      <4>1. PICK f \in DOMAIN inode : \E k \in DOMAIN inode[f] : inode[f][k] = e
        BY <3>2 DEF Numbered
      <4>2. PICK k \in DOMAIN inode[f] : inode[f][k] = e
        BY <4>1
      <4>3. k \in DOMAIN inode'[f] /\ inode'[f][k] = e
        <5>1. CASE f = n
          BY <2>2, <4>2, <5>1
        <5>2. CASE f # n
          BY <2>1, <4>2, <5>2
        <5> QED BY <5>1, <5>2
      <4> QED BY <2>1, <4>3
    <3>3. e = history + 1 \/ e \in 1..history
      BY <2>a
    <3> QED BY <3>1, <3>2, <3>3
  <2> QED BY <2>5, <2>6, <2>7, <2>8 DEF Numbered
<1>4. ASSUME NEW r \in Recorder, Record(r) \/ CheckSize(r) \/ LookOldest(r) \/ UnlinkOldest(r)
                                 \/ Look(r) \/ Shift(r) \/ Gone(r)
      PROVE  UNCHANGED <<inode, history>>
  BY <1>4 DEF Record, CheckSize, LookOldest, UnlinkOldest, Look, Shift, Gone
<1>5. ASSUME NEW p \in Process, Kill(p) PROVE UNCHANGED <<inode, history>>
  BY <1>5 DEF Kill
<1> QED BY <1>1, <1>2, <1>3, <1>4, <1>5 DEF UsageNext, usageVars

(* A rotation moves names to the older side and never past a file.          *)
LEMMA NamedStays ==
  ASSUME UsageConstants, UsageTypeOK, NewestFirst, Named,
         \A s \in Recorder : Placed(s), [UsageNext]_usageVars
  PROVE  Named'
<1>0. /\ name \in [0..Keep -> 1..Len(inode) \cup {Void}] /\ inode \in Seq(Seq(Nat))
      /\ Len(inode) \in Nat /\ DOMAIN inode = 1..Len(inode)
      /\ \A f \in DOMAIN inode : Len(inode[f]) \in Nat
      /\ Keep \in Nat \ {0} /\ Void \notin Nat /\ MaxBytes \in Nat
      /\ \A r \in Recorder : rec[r].i \in 0..(Keep - 1)
  BY DEF UsageTypeOK, UsageConstants
<1>n. /\ \A i \in 0..Keep : name[i] # Void => name[i] \in Nat
      /\ \A g \in DOMAIN inode : g \in Nat
  <2>1. name \in [0..Keep -> 1..Len(inode) \cup {Void}] /\ DOMAIN inode = 1..Len(inode)
    BY <1>0
  <2> QED BY <2>1
<1>1. CASE UNCHANGED <<name, inode>>
  BY <1>1 DEF Named, Bears
<1>2. ASSUME NEW r \in Recorder, UnlinkOldest(r) PROVE Named'
  <2>1. /\ inode' = inode
        /\ \A j \in 0..Keep : name'[j] = IF j = Keep THEN Void ELSE name[j]
    BY <1>2, Steps
  <2>2. ASSUME NEW i \in 0..Keep, NEW g \in DOMAIN inode,
               name'[i] # Void, name'[i] < g, inode[g] # <<>>
        PROVE  \E j \in 0..Keep : name'[j] = g
    <3>1. i < Keep /\ name[i] = name'[i]
      BY <1>0, <2>1, <2>2
    <3>2. PICK j \in 0..Keep : name[j] = g
      BY <2>2, <3>1 DEF Named, Bears
    <3>3. j # Keep
      <4>1. name[Keep] # Void /\ name[i] # Void /\ Keep \in 0..Keep
        BY <1>0, <1>2, <2>2, <3>1 DEF UnlinkOldest
      <4>2. name[i] > name[Keep]
        BY <3>1, <4>1 DEF NewestFirst
      <4>3. name[i] \in Nat /\ name[Keep] \in Nat /\ g \in Nat
        BY <1>n, <4>1, <2>2
      <4> QED BY <2>2, <3>1, <3>2, <4>2, <4>3
    <3> QED BY <2>1, <3>2, <3>3
  <2>3. name'[0] = name[0] /\ \A j \in 1..Keep : name'[j] # Void => name'[j] = name[j]
    BY <1>0, <2>1
  <2>4. \A j \in 1..Keep : name'[j] # Void => Len(inode[name'[j]]) >= MaxBytes
    BY <2>3 DEF Named
  <2> QED BY <2>1, <2>2, <2>3, <2>4 DEF Named, Bears
<1>3. ASSUME NEW r \in Recorder, Shift(r) PROVE Named'
  <2> DEFINE i == rec[r].i
  <2>1. /\ inode' = inode /\ i \in 0..(Keep - 1)
        /\ \A j \in 0..Keep : name'[j] = IF j = i THEN Void ELSE IF j = i + 1 THEN name[i] ELSE name[j]
    BY <1>0, <1>3, Steps
  <2>2. name[i + 1] = Void /\ name[i] # Void /\ name[0] # Void /\ Full
    BY <1>3 DEF Placed, Shift
  <2> HIDE DEF i
  <2>3. \A f \in DOMAIN inode : (\E j \in 0..Keep : name[j] = f) => \E j \in 0..Keep : name'[j] = f
    <3>1. i \in 0..Keep /\ i + 1 \in 0..Keep /\ i + 1 # i
      BY <1>0, <2>1
    <3>2. ASSUME NEW f \in DOMAIN inode, NEW j \in 0..Keep, name[j] = f
          PROVE  \E k \in 0..Keep : name'[k] = f
      <4>1. CASE j = i
        BY <2>1, <3>1, <3>2, <4>1
      <4>2. CASE j # i
        <5>1. j # i + 1
          BY <1>0, <2>2, <3>2
        <5> QED BY <2>1, <3>2, <4>2, <5>1
      <4> QED BY <4>1, <4>2
    <3> QED BY <3>2
  <2>4. \A j \in 0..Keep : name'[j] # Void => \E k \in 0..Keep : name[k] = name'[j]
    BY <1>0, <2>1
  <2>5. ASSUME NEW j \in 0..Keep, NEW g \in DOMAIN inode,
               name'[j] # Void, name'[j] < g, inode[g] # <<>>
        PROVE  \E k \in 0..Keep : name'[k] = g
    BY <2>3, <2>4, <2>5 DEF Named, Bears
  <2>6. name'[0] # Void => name'[0] = Len(inode)
    BY <1>0, <2>1, <2>2 DEF Named
  <2>7. \A j \in 1..Keep : name'[j] # Void => Len(inode[name'[j]]) >= MaxBytes
    <3>1. Len(inode[name[0]]) >= MaxBytes
      BY <1>0, <2>2 DEF Full, Size
    <3>2. ASSUME NEW j \in 1..Keep, name'[j] # Void PROVE Len(inode[name'[j]]) >= MaxBytes
      <4>1. CASE j = i + 1 /\ i = 0
        BY <2>1, <3>1, <4>1
      <4>2. CASE j = i + 1 /\ i # 0
        BY <1>0, <2>1, <2>2, <4>2 DEF Named
      <4>3. CASE j # i + 1
        BY <1>0, <2>1, <3>2, <4>3 DEF Named
      <4> QED BY <4>1, <4>2, <4>3
    <3> QED BY <3>2
  <2> QED BY <2>1, <2>5, <2>6, <2>7 DEF Named, Bears
<1>4. ASSUME NEW r \in Recorder, OpenFile(r) PROVE Named'
  <2>1. CASE name[0] # Void
    BY <1>1, <1>4, <2>1, Opens
  <2>2. CASE name[0] = Void
    <3>1. /\ name'[0] = Len(inode) + 1 /\ Len(inode') = Len(inode) + 1
          /\ inode'[Len(inode) + 1] = <<>>
          /\ \A f \in DOMAIN inode : inode'[f] = inode[f]
          /\ \A j \in 1..Keep : name'[j] = name[j]
      BY <1>4, <2>2, Opens
    <3>2. DOMAIN inode' = 1..(Len(inode) + 1)
      BY <1>0, <1>4, <2>2 DEF OpenFile
    <3>3. ASSUME NEW i \in 0..Keep, NEW g \in DOMAIN inode',
                 name'[i] # Void, name'[i] < g, inode'[g] # <<>>
          PROVE  \E j \in 0..Keep : name'[j] = g
      <4>1. g \in DOMAIN inode /\ inode[g] # <<>> /\ i \in 1..Keep
        BY <1>0, <3>1, <3>2, <3>3
      <4>2. PICK j \in 0..Keep : name[j] = g
        BY <3>1, <3>3, <4>1 DEF Named, Bears
      <4>3. j \in 1..Keep
        BY <1>0, <2>2, <4>1, <4>2
      <4> QED BY <3>1, <4>2, <4>3
    <3>4. \A i \in 1..Keep : name'[i] # Void => Len(inode'[name'[i]]) >= MaxBytes
      BY <1>0, <3>1 DEF Named
    <3> QED BY <1>0, <3>1, <3>3, <3>4 DEF Named, Bears
  <2> QED BY <2>1, <2>2
<1>5. ASSUME NEW r \in Recorder, Write(r) PROVE Named'
  <2> DEFINE n == Len(inode)
  <2>1. /\ name' = name /\ name[0] = n /\ n \in DOMAIN inode /\ Len(inode') = n
        /\ \A f \in DOMAIN inode : f # n => inode'[f] = inode[f]
        /\ inode'[n] = Append(inode[n], history + 1)
    BY <1>5, Writes
  <2>2. DOMAIN inode' = DOMAIN inode
    BY <1>0, <1>5 DEF Write
  <2>3. Len(inode'[n]) = Len(inode[n]) + 1
    BY <1>0, <2>1 DEF UsageTypeOK
  <2> HIDE DEF n
  <2>4. \A i \in 0..Keep : name[i] # Void => name[i] \in DOMAIN inode
    BY <1>0
  <2>5. \A f \in DOMAIN inode : Len(inode'[f]) >= Len(inode[f]) /\ Len(inode'[f]) \in Nat
    <3> SUFFICES ASSUME NEW f \in DOMAIN inode
                 PROVE  Len(inode'[f]) >= Len(inode[f]) /\ Len(inode'[f]) \in Nat
      OBVIOUS
    <3>1. Len(inode[f]) \in Nat
      BY <1>0
    <3> QED BY <2>1, <2>3, <3>1
  <2>6. \A i \in 1..Keep : name[i] # Void => Len(inode'[name[i]]) >= MaxBytes
    BY <1>0, <2>4, <2>5 DEF Named
  <2>7. \A i \in 0..Keep : \A g \in DOMAIN inode :
          name[i] # Void /\ name[i] < g /\ inode'[g] # <<>> => \E j \in 0..Keep : name[j] = g
    <3> SUFFICES ASSUME NEW i \in 0..Keep, NEW g \in DOMAIN inode,
                        name[i] # Void, name[i] < g, inode'[g] # <<>>
                 PROVE  \E j \in 0..Keep : name[j] = g
      OBVIOUS
    <3>1. CASE g = n
      BY <1>0, <2>1, <3>1
    <3>2. CASE g # n
      BY <2>1, <3>2 DEF Named, Bears
    <3> QED BY <3>1, <3>2
  <2> QED BY <2>1, <2>2, <2>6, <2>7 DEF Named, Bears
<1>6. ASSUME NEW r \in Recorder, Record(r) \/ CheckSize(r) \/ LookOldest(r) \/ Look(r) \/ Gone(r)
      PROVE  UNCHANGED <<name, inode>>
  BY <1>6 DEF Record, CheckSize, LookOldest, Look, Gone
<1>7. ASSUME NEW p \in Process, Kill(p) PROVE UNCHANGED <<name, inode>>
  BY <1>7 DEF Kill
<1> QED BY <1>1, <1>2, <1>3, <1>4, <1>5, <1>6, <1>7 DEF UsageNext, usageVars

(* The one that records knows what it found in the step before.             *)
LEMMA PlacedStays ==
  ASSUME UsageConstants, UsageTypeOK, Locked, Locked', mixed = FALSE, mixed' = FALSE,
         \A s \in Recorder : Placed(s), [UsageNext]_usageVars
  PROVE  \A s \in Recorder : Placed(s)'
<1>0. /\ name \in [0..Keep -> 1..Len(inode) \cup {Void}] /\ DOMAIN rec = Recorder
      /\ Keep \in Nat \ {0}
      /\ \A r \in Recorder : rec[r].i \in 0..(Keep - 1)
  BY DEF UsageTypeOK, UsageConstants
<1>1. ASSUME NEW r \in Recorder, rec'[r].at # "idle", Placed(r)'
      PROVE  \A s \in Recorder : Placed(s)'
  <2>1. \A s \in Recorder : s = r \/ rec'[s].at = "idle"
    BY <1>1 DEF Locked, Active
  <2>2. ASSUME NEW s \in Recorder, rec'[s].at = "idle" PROVE Placed(s)'
    BY <2>2 DEF Placed
  <2> QED BY <1>1, <2>1, <2>2
<1>2. ASSUME NEW r \in Recorder, Record(r) PROVE \A s \in Recorder : Placed(s)'
  <2>1. rec'[r].at = "size"
    BY <1>2, Steps
  <2>2. Placed(r)'
    BY <2>1 DEF Placed
  <2> QED BY <1>1, <2>1, <2>2
<1>3. ASSUME NEW r \in Recorder, CheckSize(r) PROVE \A s \in Recorder : Placed(s)'
  <2>1. rec'[r].at = (IF ~Full THEN "open" ELSE "oldest") /\ UNCHANGED <<name, inode>>
    BY <1>3, Steps
  <2>2. Full => name[0] # Void
    BY <1>0 DEF Full, Size
  <2>3. Full' <=> Full
    BY <2>1 DEF Full, Size
  <2>4. Placed(r)'
    BY <2>1, <2>2, <2>3 DEF Placed
  <2> QED BY <1>1, <2>1, <2>4
<1>4. ASSUME NEW r \in Recorder, LookOldest(r) PROVE \A s \in Recorder : Placed(s)'
  <2>1. /\ UNCHANGED <<name, inode>>
        /\ \/ name[Keep] # Void /\ rec'[r].at = "unlink"
           \/ name[Keep] = Void /\ rec'[r] = NextShift(Keep - 1)
    BY <1>4, Steps
  <2>2. name[0] # Void /\ Full
    BY <1>4 DEF Placed, LookOldest
  <2>3. Full' <=> Full
    BY <2>1 DEF Full, Size
  <2>4. CASE name[Keep] # Void /\ rec'[r].at = "unlink"
    <3>1. Placed(r)'
      BY <2>1, <2>2, <2>3, <2>4 DEF Placed
    <3> QED BY <1>1, <2>4, <3>1
  <2>5. CASE name[Keep] = Void /\ rec'[r] = NextShift(Keep - 1)
    <3>1. rec'[r].at = "look" /\ rec'[r].i + 1 = Keep
      BY <1>0, <2>5 DEF NextShift
    <3>2. Placed(r)'
      BY <2>1, <2>2, <2>3, <2>5, <3>1 DEF Placed
    <3> QED BY <1>1, <3>1, <3>2
  <2> QED BY <2>1, <2>4, <2>5
<1>5. ASSUME NEW r \in Recorder, UnlinkOldest(r) PROVE \A s \in Recorder : Placed(s)'
  <2>1. /\ UNCHANGED inode /\ rec'[r] = NextShift(Keep - 1)
        /\ \A j \in 0..Keep : name'[j] = IF j = Keep THEN Void ELSE name[j]
    BY <1>5, Steps
  <2>2. name[0] # Void /\ Full
    BY <1>5 DEF Placed, UnlinkOldest
  <2>3. name'[0] = name[0] /\ name'[Keep] = Void
    BY <1>0, <2>1
  <2>4. Full' <=> Full
    BY <2>1, <2>3 DEF Full, Size
  <2>5. rec'[r].at = "look" /\ rec'[r].i + 1 = Keep
    BY <1>0, <2>1 DEF NextShift
  <2>6. Placed(r)'
    BY <2>2, <2>3, <2>4, <2>5 DEF Placed
  <2> QED BY <1>1, <2>5, <2>6
<1>6. ASSUME NEW r \in Recorder, Look(r) PROVE \A s \in Recorder : Placed(s)'
  <2>1. /\ UNCHANGED <<name, inode>>
        /\ \/ /\ rec[r].i > 0 /\ name[rec[r].i] = Void
              /\ rec'[r] = NextShift(rec[r].i - 1)
           \/ /\ ~(rec[r].i > 0 /\ name[rec[r].i] = Void)
              /\ rec'[r].at = "move" /\ rec'[r].i = rec[r].i
    BY <1>6, Steps
  <2>2. name[0] # Void /\ Full /\ name[rec[r].i + 1] = Void
    BY <1>6 DEF Placed, Look
  <2>3. Full' <=> Full
    BY <2>1 DEF Full, Size
  <2>4. CASE rec[r].i > 0 /\ name[rec[r].i] = Void /\ rec'[r] = NextShift(rec[r].i - 1)
    <3>1. rec'[r].at = "look" /\ rec'[r].i + 1 = rec[r].i
      BY <1>0, <2>4 DEF NextShift
    <3>2. Placed(r)'
      BY <2>1, <2>2, <2>3, <2>4, <3>1 DEF Placed
    <3> QED BY <1>1, <3>1, <3>2
  <2>5. CASE ~(rec[r].i > 0 /\ name[rec[r].i] = Void) /\ rec'[r].at = "move" /\ rec'[r].i = rec[r].i
    <3>1. name[rec[r].i] # Void
      BY <1>0, <2>2, <2>5
    <3>2. Placed(r)'
      BY <2>1, <2>2, <2>3, <2>5, <3>1 DEF Placed
    <3> QED BY <1>1, <2>5, <3>2
  <2> QED BY <2>1, <2>4, <2>5
<1>7. ASSUME NEW r \in Recorder, Shift(r) PROVE \A s \in Recorder : Placed(s)'
  <2>1. /\ UNCHANGED inode
        /\ \A j \in 0..Keep :
             name'[j] = IF j = rec[r].i THEN Void
                        ELSE IF j = rec[r].i + 1 THEN name[rec[r].i] ELSE name[j]
        /\ \/ rec[r].i = 0 /\ rec'[r].at = "open"
           \/ rec[r].i # 0 /\ rec'[r] = NextShift(rec[r].i - 1)
    BY <1>7, Steps
  <2>2. name[0] # Void /\ Full
    BY <1>7 DEF Placed, Shift
  <2>3. CASE rec'[r].at = "open"
    <3>1. Placed(r)'
      BY <2>3 DEF Placed
    <3> QED BY <1>1, <2>3, <3>1
  <2>4. CASE rec[r].i # 0 /\ rec'[r] = NextShift(rec[r].i - 1)
    <3>1. rec'[r].at = "look" /\ rec'[r].i + 1 = rec[r].i
      BY <1>0, <2>4 DEF NextShift
    <3>2. name'[0] = name[0] /\ name'[rec[r].i] = Void
      BY <1>0, <2>1, <2>4
    <3>3. Full' <=> Full
      BY <2>1, <3>2 DEF Full, Size
    <3>4. Placed(r)'
      BY <2>2, <3>1, <3>2, <3>3 DEF Placed
    <3> QED BY <1>1, <3>1, <3>4
  <2> QED BY <2>1, <2>3, <2>4
<1>8. ASSUME NEW r \in Recorder, OpenFile(r) PROVE \A s \in Recorder : Placed(s)'
  <2>1. rec'[r].at = "write" /\ rec'[r].file = name'[0] /\ name'[0] # Void
    BY <1>8, Opens
  <2>2. Placed(r)'
    BY <2>1 DEF Placed
  <2> QED BY <1>1, <2>1, <2>2
<1>9. ASSUME NEW r \in Recorder, Active(r), StepOut(r) PROVE \A s \in Recorder : Placed(s)'
  <2>1. \A s \in Recorder : rec'[s].at = "idle"
    BY <1>0, <1>9, OnlyOne DEF StepOut, Aside
  <2> QED BY <2>1 DEF Placed
<1>10. ASSUME NEW r \in Recorder, Gone(r) \/ Write(r) PROVE \A s \in Recorder : Placed(s)'
  BY <1>9, <1>10 DEF Gone, Write, Active
<1>11. ASSUME NEW p \in Process, Kill(p) PROVE \A s \in Recorder : Placed(s)'
  <2>1. mutex[p] \in Recorder /\ Active(mutex[p])
    BY <1>11 DEF Kill, Locked, UsageTypeOK
  <2> QED BY <1>9, <1>11, <2>1 DEF Kill
<1>12. CASE UNCHANGED usageVars
  BY <1>12 DEF usageVars, Placed, Full, Size
<1> QED BY <1>2, <1>3, <1>4, <1>5, <1>6, <1>7, <1>8, <1>10, <1>11, <1>12 DEF UsageNext

LEMMA FreeBut ==
  ASSUME NEW r \in Recorder, \A s \in Recorder \ {r} : rec[s].at = "idle"
  PROVE  \A i : Free(i) <=> name[i] = Void /\ i \notin Hole(r)
<1>1. \A s \in Recorder \ {r} : Hole(s) = {}
  BY DEF Hole
<1> QED BY <1>1 DEF Free

(* Where the hole of a thread is.                                          *)
LEMMA Holes ==
  \A r \in Recorder :
    /\ rec[r].at \in {"look", "move"} => Hole(r) = {rec[r].i + 1}
    /\ rec[r].at = "open" => Hole(r) = {0}
    /\ rec[r].at \notin {"look", "move", "open"} => Hole(r) = {}
BY DEF Hole

(* Unless somebody dies the hole that a rotation moves down is filled by   *)
(* the file that is opened, and the names above it stay taken.             *)
LEMMA WholeStays ==
  ASSUME UsageConstants, UsageTypeOK, UsageTypeOK', Locked, Locked', NewestFirst, Named, Whole,
         mixed = FALSE, mixed' = FALSE, kills' = 0,
         \A s \in Recorder : Placed(s), [UsageNext]_usageVars
  PROVE  Whole'
<1>0. /\ name \in [0..Keep -> 1..Len(inode) \cup {Void}] /\ DOMAIN rec = Recorder
      /\ Keep \in Nat \ {0} /\ DOMAIN inode = 1..Len(inode) /\ Len(inode) \in Nat
      /\ \A r \in Recorder : rec[r].i \in 0..(Keep - 1)
  BY DEF UsageTypeOK, UsageConstants
<1>a. \A r \in Recorder :
        /\ rec'[r].at \in {"look", "move"} => Hole(r)' = {rec'[r].i + 1}
        /\ rec'[r].at = "open" => Hole(r)' = {0}
        /\ rec'[r].at \notin {"look", "move", "open"} => Hole(r)' = {}
  BY DEF Hole
<1>b. ASSUME NEW r \in Recorder, \A s \in Recorder \ {r} : rec'[s].at = "idle"
      PROVE  \A i : Free(i)' <=> name'[i] = Void /\ i \notin Hole(r)'
  <2>1. \A s \in Recorder \ {r} : Hole(s)' = {}
    BY <1>b DEF Hole
  <2> QED BY <2>1 DEF Free
<1>c. ASSUME NEW r \in Recorder, Within(r)
      PROVE  /\ \A s \in Recorder \ {r} : rec[s].at = "idle" /\ rec'[s].at = "idle"
             /\ \A i : Free(i) <=> name[i] = Void /\ i \notin Hole(r)
             /\ \A i : Free(i)' <=> name'[i] = Void /\ i \notin Hole(r)'
  <2>1. \A s \in Recorder \ {r} : rec[s].at = "idle" /\ rec'[s].at = "idle"
    BY <1>c, WithinStep, OnlyOne
  <2>2. \A i : Free(i) <=> name[i] = Void /\ i \notin Hole(r)
    BY <2>1, FreeBut
  <2> QED BY <1>b, <2>1, <2>2
<1>d. ASSUME NEW r \in Recorder, UNCHANGED <<name, inode>>,
             \A s \in Recorder \ {r} : rec[s].at = "idle",
             \A i \in 0..Keep : Free(i)' => Free(i), rec[r].at # "write"
      PROVE  Whole'
  <2>1. \A s \in Recorder : rec[s].at # "write"
    BY <1>d
  <2>2. \A i, j \in 0..Keep : i < j /\ Free(i)' => name'[j] = Void
    BY <1>d DEF Whole
  <2>3. \/ \A g \in DOMAIN inode' : inode'[g] # <<>> => Bears(g)'
        \/ \A i \in 0..Keep : ~Free(i)'
    <3>1. \A g : Bears(g)' <=> Bears(g)
      BY <1>d DEF Bears
    <3> QED BY <1>d, <3>1 DEF Whole
  <2>4. name'[0] # Void => inode'[name'[0]] # <<>>
    BY <1>d, <2>1 DEF Whole
  <2> QED BY <2>2, <2>3, <2>4 DEF Whole
<1>1. ASSUME NEW r \in Recorder, Record(r) PROVE Whole'
  <2>1. rec'[r].at = "size" /\ rec[r].at = "idle" /\ UNCHANGED <<name, inode>>
        /\ \A s \in Recorder \ {r} : rec'[s] = rec[s]
    BY <1>0, <1>1, Steps DEF Record, To
  <2>2. \A s \in Recorder \ {r} : rec'[s].at = "idle" /\ rec[s].at = "idle"
    BY <2>1 DEF Locked, Active
  <2>3. Hole(r) = {} /\ Hole(r)' = {}
    BY <1>a, <2>1, Holes
  <2>4. \A i : Free(i)' => Free(i)
    BY <1>b, <2>1, <2>2, <2>3, FreeBut
  <2> QED BY <1>d, <2>1, <2>2, <2>4
<1>2. ASSUME NEW r \in Recorder, CheckSize(r) PROVE Whole'
  <2>1. rec[r].at = "size" /\ rec'[r].at \in {"open", "oldest"} /\ UNCHANGED <<name, inode>>
    BY <1>2, Steps DEF CheckSize
  <2>2. Hole(r) = {}
    BY <2>1, Holes
  <2>3. \A i : Free(i)' => Free(i)
    BY <1>2, <1>c, <2>1, <2>2 DEF Within
  <2> QED BY <1>2, <1>c, <1>d, <2>1, <2>3 DEF Within
<1>3. ASSUME NEW r \in Recorder, LookOldest(r) PROVE Whole'
  <2>1. rec[r].at = "oldest" /\ UNCHANGED <<name, inode>>
    BY <1>3, Steps DEF LookOldest
  <2>2. Hole(r) = {}
    BY <2>1, Holes
  <2>3. \A i : Free(i)' => Free(i)
    BY <1>3, <1>c, <2>1, <2>2 DEF Within
  <2> QED BY <1>3, <1>c, <1>d, <2>1, <2>3 DEF Within
<1>4. ASSUME NEW r \in Recorder, UnlinkOldest(r) PROVE Whole'
  <2>1. /\ UNCHANGED inode /\ rec'[r] = NextShift(Keep - 1) /\ rec[r].at = "unlink"
        /\ name[Keep] # Void /\ \A j \in 0..Keep : name'[j] = IF j = Keep THEN Void ELSE name[j]
    BY <1>4, Steps DEF UnlinkOldest
  <2>2. Hole(r) = {} /\ Hole(r)' = {Keep}
    <3>1. rec'[r].at = "look" /\ rec'[r].i + 1 = Keep
      BY <1>0, <2>1 DEF NextShift
    <3> QED BY <1>a, <2>1, <3>1, Holes
  <2>3. \A i \in 0..Keep : Free(i)' => Free(i) /\ i < Keep
    BY <1>0, <1>4, <1>c, <2>1, <2>2 DEF Within
  <2>4. \A i \in 0..Keep : ~Free(i)'
    BY <1>0, <2>1, <2>3 DEF Whole
  <2>5. name'[0] = name[0] /\ \A s \in Recorder : rec[s].at # "write"
    BY <1>0, <1>4, <1>c, <2>1 DEF Within
  <2> QED BY <2>1, <2>4, <2>5 DEF Whole
<1>5. ASSUME NEW r \in Recorder, Look(r) PROVE Whole'
  <2> DEFINE i == rec[r].i
  <2>1. /\ UNCHANGED <<name, inode>> /\ rec[r].at = "look" /\ i \in 0..(Keep - 1)
        /\ \/ i > 0 /\ name[i] = Void /\ rec'[r] = NextShift(i - 1)
           \/ rec'[r].at = "move" /\ rec'[r].i = i
    BY <1>0, <1>5, Steps DEF Look
  <2>2. Hole(r) = {i + 1} /\ name[i + 1] = Void
    BY <2>1, Holes DEF Placed
  <2>3. CASE rec'[r].at = "move" /\ rec'[r].i = i
    <3>1. Hole(r)' = {i + 1}
      BY <1>a, <2>3
    <3>2. \A j \in 0..Keep : Free(j)' => Free(j)
      BY <1>5, <1>c, <2>1, <2>2, <3>1 DEF Within
    <3> QED BY <1>5, <1>c, <1>d, <2>1, <3>2 DEF Within
  <2>4. CASE i > 0 /\ name[i] = Void /\ rec'[r] = NextShift(i - 1)
    <3>1. Hole(r)' = {i}
      <4>1. rec'[r].at = "look" /\ rec'[r].i + 1 = i
        BY <2>1, <2>4 DEF NextShift
      <4> QED BY <1>a, <4>1
    <3> HIDE DEF i
    <3>2. Free(i) /\ i \in 0..Keep
      BY <1>0, <1>5, <1>c, <2>1, <2>2, <2>4 DEF Within
    <3>3. \A a \in 0..Keep : Free(a)' => a = i + 1 \/ Free(a)
      BY <1>5, <1>c, <2>1, <2>2, <3>1 DEF Within
    <3>4. \A a, b \in 0..Keep : a < b /\ Free(a)' => name'[b] = Void
      <4> SUFFICES ASSUME NEW a \in 0..Keep, NEW b \in 0..Keep, a < b, Free(a)'
                   PROVE  name[b] = Void
        BY <2>1
      <4>1. CASE a = i + 1
        BY <2>1, <3>2, <4>1 DEF Whole
      <4>2. CASE Free(a)
        BY <4>2 DEF Whole
      <4> QED BY <3>3, <4>1, <4>2
    <3>5. \A g \in DOMAIN inode' : inode'[g] # <<>> => Bears(g)'
      BY <2>1, <3>2 DEF Whole, Bears
    <3>6. name'[0] # Void => inode'[name'[0]] # <<>>
      <4>1. \A s \in Recorder : rec[s].at # "write"
        BY <1>5, <1>c, <2>1 DEF Within
      <4> QED BY <2>1, <4>1 DEF Whole
    <3> QED BY <3>4, <3>5, <3>6 DEF Whole
  <2> QED BY <2>1, <2>3, <2>4
<1>6. ASSUME NEW r \in Recorder, Shift(r) PROVE Whole'
  <2> DEFINE i == rec[r].i
  <2>1. /\ UNCHANGED inode /\ rec[r].at = "move" /\ i \in 0..(Keep - 1) /\ name[i] # Void
        /\ \A j \in 0..Keep : name'[j] = IF j = i THEN Void ELSE IF j = i + 1 THEN name[i] ELSE name[j]
        /\ \/ i = 0 /\ rec'[r].at = "open"
           \/ i # 0 /\ rec'[r] = NextShift(i - 1)
    BY <1>0, <1>6, Steps DEF Shift
  <2>2. Hole(r) = {i + 1} /\ name[i + 1] = Void
    BY <2>1, Holes DEF Placed
  <2>3. Hole(r)' = {i}
    <3>1. CASE i = 0 /\ rec'[r].at = "open"
      BY <1>a, <3>1
    <3>2. CASE i # 0 /\ rec'[r] = NextShift(i - 1)
      <4>1. rec'[r].at = "look" /\ rec'[r].i + 1 = i
        BY <2>1, <3>2 DEF NextShift
      <4> QED BY <1>a, <4>1
    <3> QED BY <2>1, <3>1, <3>2
  <2>w. \A s \in Recorder : rec[s].at # "write"
    BY <1>6, <1>c, <2>1 DEF Within
  <2>v. /\ \A j : Free(j) <=> name[j] = Void /\ j \notin Hole(r)
        /\ \A j : Free(j)' <=> name'[j] = Void /\ j \notin Hole(r)'
    BY <1>6, <1>c DEF Within
  <2> HIDE DEF i
  <2>4. \A a \in 0..Keep : Free(a)' => Free(a) /\ a # i /\ a # i + 1
    BY <2>1, <2>2, <2>3, <2>v
  <2>5. \A a, b \in 0..Keep : a < b /\ Free(a)' => name'[b] = Void
    <3> SUFFICES ASSUME NEW a \in 0..Keep, NEW b \in 0..Keep, a < b, Free(a)'
                 PROVE  name'[b] = Void
      OBVIOUS
    <3>1. Free(a) /\ a # i /\ a # i + 1
      BY <2>4
    <3>2. b # i + 1
      <4>1. ASSUME b = i + 1 PROVE FALSE
        <5>1. a < i /\ i \in 0..Keep
          BY <1>0, <2>1, <3>1, <4>1
        <5> QED BY <2>1, <3>1, <5>1 DEF Whole
      <4> QED BY <4>1
    <3> QED BY <2>1, <3>1, <3>2 DEF Whole
  <2>6. ASSUME NEW g \in DOMAIN inode, Bears(g) PROVE Bears(g)'
    <3>1. PICK j \in 0..Keep : name[j] = g
      BY <2>6 DEF Bears
    <3>2. j # i + 1
      BY <1>0, <2>2, <3>1 DEF UsageConstants
    <3>3. i + 1 \in 0..Keep /\ i + 1 # i
      BY <1>0, <2>1
    <3>4. CASE j = i
      BY <2>1, <3>1, <3>3, <3>4 DEF Bears
    <3>5. CASE j # i
      BY <2>1, <3>1, <3>2, <3>5 DEF Bears
    <3> QED BY <3>4, <3>5
  <2>7. \/ \A g \in DOMAIN inode' : inode'[g] # <<>> => Bears(g)'
        \/ \A a \in 0..Keep : ~Free(a)'
    BY <2>1, <2>4, <2>6 DEF Whole
  <2>8. name'[0] # Void => inode'[name'[0]] # <<>>
    BY <1>0, <2>1, <2>w DEF Whole
  <2> QED BY <2>5, <2>7, <2>8 DEF Whole
<1>7. ASSUME NEW r \in Recorder, OpenFile(r) PROVE Whole'
  <2>1. /\ rec[r].at = "open" /\ rec'[r].at = "write" /\ name'[0] # Void
        /\ \A j \in 1..Keep : name'[j] = name[j]
    BY <1>7, Opens
  <2>2. Hole(r) = {0} /\ Hole(r)' = {}
    BY <1>a, <2>1, Holes
  <2>3. \A i \in 0..Keep : Free(i)' => Free(i) /\ i \in 1..Keep
    BY <1>0, <1>7, <1>c, <2>1, <2>2 DEF Within
  <2>4. \A i, j \in 0..Keep : i < j /\ Free(i)' => name'[j] = Void
    BY <1>0, <2>1, <2>3 DEF Whole
  <2>5. \A g \in DOMAIN inode' : inode'[g] # <<>> => g \in DOMAIN inode /\ inode'[g] = inode[g]
    <3>1. CASE name[0] # Void
      BY <1>7, <3>1, Opens
    <3>2. CASE name[0] = Void
      <4>1. /\ Len(inode') = Len(inode) + 1 /\ inode'[Len(inode) + 1] = <<>>
            /\ \A f \in DOMAIN inode : inode'[f] = inode[f]
        BY <1>7, <3>2, Opens
      <4>2. DOMAIN inode' = 1..(Len(inode) + 1)
        BY <4>1 DEF UsageTypeOK
      <4> QED BY <1>0, <4>1, <4>2
    <3> QED BY <3>1, <3>2
  <2>6. ASSUME NEW g \in DOMAIN inode, Bears(g) PROVE Bears(g)'
    <3>1. PICK j \in 0..Keep : name[j] = g
      BY <2>6 DEF Bears
    <3>2. CASE j = 0
      <4>1. name[0] # Void
        BY <1>0, <3>1, <3>2 DEF UsageConstants
      <4>2. name' = name
        BY <1>7, <4>1, Opens
      <4> QED BY <3>1, <4>2 DEF Bears
    <3>3. CASE j \in 1..Keep
      BY <2>1, <3>1, <3>3 DEF Bears
    <3> QED BY <3>2, <3>3
  <2>7. \/ \A g \in DOMAIN inode' : inode'[g] # <<>> => Bears(g)'
        \/ \A i \in 0..Keep : ~Free(i)'
    BY <2>3, <2>5, <2>6 DEF Whole
  <2> QED BY <2>1, <2>4, <2>7 DEF Whole
<1>8. ASSUME NEW r \in Recorder, Write(r) PROVE Whole'
  <2> DEFINE n == Len(inode)
  <2>1. /\ rec[r].at = "write" /\ rec'[r].at = "idle" /\ UNCHANGED name
        /\ name[0] = n /\ n \in DOMAIN inode /\ Len(inode') = n
        /\ \A f \in DOMAIN inode : f # n => inode'[f] = inode[f]
        /\ inode'[n] = Append(inode[n], history + 1)
    BY <1>8, Writes
  <2>2. DOMAIN inode' = DOMAIN inode /\ inode[n] \in Seq(Nat)
    BY <2>1 DEF UsageTypeOK
  <2>3. \A s \in Recorder \ {r} : rec[s].at = "idle" /\ rec'[s].at = "idle"
    BY <1>0, <1>8, <2>1, OnlyOne DEF Write, StepOut, Active
  <2>4. Hole(r) = {} /\ Hole(r)' = {}
    BY <1>a, <2>1, Holes
  <2>5. \A i : Free(i)' => Free(i)
    BY <1>b, <2>1, <2>3, <2>4, FreeBut
  <2>6. \A g : Bears(g)' <=> Bears(g)
    BY <2>1 DEF Bears
  <2>7. Bears(n)
    BY <1>0, <2>1 DEF Bears
  <2>8. inode'[n] # <<>>
    BY <2>1, <2>2
  <2> HIDE DEF n
  <2>9. \/ \A g \in DOMAIN inode' : inode'[g] # <<>> => Bears(g)'
        \/ \A i \in 0..Keep : ~Free(i)'
    BY <2>1, <2>2, <2>5, <2>6, <2>7 DEF Whole
  <2>10. \A i, j \in 0..Keep : i < j /\ Free(i)' => name'[j] = Void
    BY <2>1, <2>5 DEF Whole
  <2> QED BY <2>1, <2>8, <2>9, <2>10 DEF Whole
<1>9. ASSUME NEW r \in Recorder, Gone(r) PROVE FALSE
  BY <1>9 DEF Gone, Placed
<1>10. ASSUME NEW p \in Process, Kill(p) PROVE FALSE
  BY <1>10 DEF Kill, UsageTypeOK
<1>11. CASE UNCHANGED usageVars
  <2>1. \A i : Free(i)' <=> Free(i)
    BY <1>11 DEF usageVars, Free, Hole
  <2> QED BY <1>11, <2>1 DEF usageVars, Whole, Bears
<1> QED BY <1>1, <1>2, <1>3, <1>4, <1>5, <1>6, <1>7, <1>8, <1>9, <1>10, <1>11 DEF UsageNext

LEMMA NextRotated ==
  ASSUME UsageConstants, Rotated, [UsageNext]_usageVars
  PROVE  Rotated'
<1>1. UsageTypeOK /\ Locked /\ NewestFirst
  BY DEF Rotated
<1>2. UsageTypeOK'
  BY <1>1, UsageTypes
<1>3. Locked'
  BY <1>1, <1>2, LockedStays
<1>4. NewestFirst'
  BY <1>1, NewestStays
<1>5. ASSUME mixed' = FALSE
      PROVE  mixed = FALSE /\ Numbered' /\ Named' /\ \A r \in Recorder : Placed(r)'
  <2>1. mixed = FALSE
    BY <1>1, <1>5, Unmixed
  <2>2. Numbered /\ Named /\ \A r \in Recorder : Placed(r)
    BY <2>1 DEF Rotated
  <2>3. Numbered'
    BY <1>1, <2>2, NumberedStays
  <2>4. Named'
    BY <1>1, <2>2, NamedStays
  <2>5. \A r \in Recorder : Placed(r)'
    BY <1>1, <1>3, <1>5, <2>1, <2>2, PlacedStays
  <2> QED BY <2>1, <2>3, <2>4, <2>5
<1>6. ASSUME mixed' = FALSE, kills' = 0 PROVE Whole'
  <2>1. mixed = FALSE /\ kills = 0
    <3>1. kills' = kills \/ kills' = kills + 1
      <4>1. ASSUME NEW r \in Recorder, Within(r) PROVE kills' = kills
        BY <1>1, <4>1, WithinStep
      <4>2. ASSUME NEW r \in Recorder, Record(r) \/ Gone(r) \/ Write(r) PROVE kills' = kills
        BY <4>2 DEF Record, Gone, Write
      <4>3. ASSUME NEW p \in Process, Kill(p) PROVE kills' = kills + 1
        BY <4>3 DEF Kill
      <4> QED BY <4>1, <4>2, <4>3 DEF UsageNext, Within, usageVars
    <3>2. mixed = FALSE
      BY <1>1, <1>6, Unmixed
    <3>3. kills \in Nat
      BY <1>1 DEF UsageTypeOK
    <3> QED BY <1>6, <3>1, <3>2, <3>3
  <2>2. Whole /\ Named /\ \A r \in Recorder : Placed(r)
    BY <2>1 DEF Rotated
  <2> QED BY <1>1, <1>2, <1>3, <1>6, <2>1, <2>2, WholeStays
<1>7. mixed' \in BOOLEAN
  BY <1>2 DEF UsageTypeOK
<1> QED BY <1>2, <1>3, <1>4, <1>5, <1>6, <1>7 DEF Rotated

(* The usage log: the invariant the theorems below rest on holds always.   *)
THEOREM RotatedAlways == ASSUME UsageConstants PROVE UsageSpec => []Rotated
<1>1. UsageInit => Rotated
  BY InitRotated
<1>2. Rotated /\ [UsageNext]_usageVars => Rotated'
  BY NextRotated
<1> QED BY <1>1, <1>2, PTL DEF UsageSpec

(* The newest events, each followed by the next one.                        *)
LEMMA InOrderHolds ==
  ASSUME UsageConstants, Rotated PROVE InOrder
<1> SUFFICES ASSUME ~mixed
             PROVE  /\ \A e \in Retained : e = history \/ e + 1 \in Retained
                    /\ \A i \in 0..Keep : \A k, l \in DOMAIN Contents(i) :
                         k < l => Contents(i)[k] < Contents(i)[l]
                    /\ \A i, j \in 0..Keep : i < j => \A e \in Held(i), f \in Held(j) : f < e
  BY DEF InOrder
<1>0. /\ name \in [0..Keep -> 1..Len(inode) \cup {Void}] /\ DOMAIN inode = 1..Len(inode)
      /\ Len(inode) \in Nat /\ history \in Nat
      /\ Numbered /\ Named /\ NewestFirst
  BY DEF Rotated, UsageTypeOK
<1>1. ASSUME NEW i \in 0..Keep, NEW e \in Held(i)
      PROVE  /\ name[i] # Void /\ name[i] \in DOMAIN inode
             /\ \E k \in DOMAIN inode[name[i]] : e = inode[name[i]][k]
  BY <1>0, <1>1 DEF Held, Contents
<1>2. ASSUME NEW i \in 0..Keep, name[i] # Void, NEW k \in DOMAIN inode[name[i]]
      PROVE  inode[name[i]][k] \in Held(i)
  BY <1>2 DEF Held, Contents
<1>3. ASSUME NEW e \in Retained, e # history PROVE e + 1 \in Retained
  <2>1. PICK i \in 0..Keep : e \in Held(i)
    BY <1>3 DEF Retained
  <2>2. PICK k \in DOMAIN inode[name[i]] : e = inode[name[i]][k]
    BY <1>1, <2>1
  <2>3. name[i] # Void /\ name[i] \in DOMAIN inode
    BY <1>1, <2>1
  <2>4. e \in 1..history /\ e + 1 \in 1..history
    BY <1>0, <1>3, <2>2, <2>3 DEF Numbered
  <2>5. PICK g \in DOMAIN inode : \E l \in DOMAIN inode[g] : inode[g][l] = e + 1
    BY <1>0, <2>4 DEF Numbered
  <2>6. PICK l \in DOMAIN inode[g] : inode[g][l] = e + 1
    BY <2>5
  <2>7. ~(g < name[i])
    <3>1. ASSUME g < name[i] PROVE FALSE
      <4>1. inode[g][l] < inode[name[i]][k]
        BY <1>0, <2>2, <2>3, <2>6, <3>1 DEF Numbered
      <4> QED BY <2>2, <2>4, <2>6, <4>1
    <3> QED BY <3>1
  <2>8. CASE g = name[i]
    <3>1. e + 1 \in Held(i)
      BY <1>2, <2>3, <2>6, <2>8
    <3> QED BY <3>1 DEF Retained
  <2>9. CASE name[i] < g
    <3>1. inode[g] # <<>>
      BY <2>6
    <3>2. PICK j \in 0..Keep : name[j] = g
      BY <1>0, <2>3, <2>9, <3>1 DEF Named, Bears
    <3>3. g # Void
      BY <1>0 DEF UsageConstants
    <3>4. e + 1 \in Held(j)
      BY <1>2, <2>6, <3>2, <3>3
    <3> QED BY <3>4 DEF Retained
  <2>10. name[i] \in Nat /\ g \in Nat
    BY <1>0, <2>3
  <2> QED BY <2>7, <2>8, <2>9, <2>10
<1>4. ASSUME NEW i \in 0..Keep, NEW k \in DOMAIN Contents(i), NEW l \in DOMAIN Contents(i), k < l
      PROVE  Contents(i)[k] < Contents(i)[l]
  <2>1. CASE name[i] = Void
    BY <1>4, <2>1 DEF Contents
  <2>2. CASE name[i] # Void
    BY <1>0, <1>4, <2>2 DEF Contents, Numbered
  <2> QED BY <2>1, <2>2
<1>5. ASSUME NEW i \in 0..Keep, NEW j \in 0..Keep, i < j, NEW e \in Held(i), NEW f \in Held(j)
      PROVE  f < e
  <2>1. PICK k \in DOMAIN inode[name[i]] : e = inode[name[i]][k]
    BY <1>1
  <2>2. PICK l \in DOMAIN inode[name[j]] : f = inode[name[j]][l]
    BY <1>1
  <2>3. name[i] # Void /\ name[j] # Void /\ name[i] \in DOMAIN inode /\ name[j] \in DOMAIN inode
    BY <1>1
  <2>4. name[i] > name[j]
    BY <1>0, <1>5, <2>3 DEF NewestFirst
  <2> QED BY <1>0, <2>1, <2>2, <2>3, <2>4 DEF Numbered
<1> QED BY <1>3, <1>4, <1>5

(* Whoever is between two events has lost none, or only what did not fit.   *)
LEMMA OldestDroppedHolds ==
  ASSUME UsageConstants, Rotated PROVE OldestDropped
<1> SUFFICES ASSUME ~mixed, kills = 0, Inside = {}
             PROVE  \/ Retained = 1..history
                    \/ Contents(0) # <<>> /\ \A i \in 1..Keep : Len(Contents(i)) >= MaxBytes
  BY DEF OldestDropped
<1>0. /\ name \in [0..Keep -> 1..Len(inode) \cup {Void}] /\ DOMAIN inode = 1..Len(inode)
      /\ Numbered /\ Named /\ Whole /\ Locked /\ Keep \in Nat \ {0} /\ Void \notin Recorder
  BY DEF Rotated, UsageTypeOK, UsageConstants
<1>1. \A r \in Recorder : rec[r].at = "idle"
  BY <1>0 DEF Locked, Active, Inside, Process
<1>2. \A i : Free(i) <=> name[i] = Void
  BY <1>1 DEF Free, Hole
<1>3. CASE \A g \in DOMAIN inode : inode[g] # <<>> => Bears(g)
  <2>1. ASSUME NEW e \in 1..history PROVE e \in Retained
    <3>1. PICK f \in DOMAIN inode : \E k \in DOMAIN inode[f] : inode[f][k] = e
      BY <1>0 DEF Numbered
    <3>2. PICK i \in 0..Keep : name[i] = f
      BY <1>3, <3>1 DEF Bears
    <3>3. f # Void
      BY <1>0 DEF UsageConstants
    <3>4. e \in Held(i)
      BY <3>1, <3>2, <3>3 DEF Held, Contents
    <3> QED BY <3>4 DEF Retained
  <2>2. ASSUME NEW e \in Retained PROVE e \in 1..history
    <3>1. PICK i \in 0..Keep : e \in Held(i)
      BY <2>2 DEF Retained
    <3>2. name[i] # Void /\ \E k \in DOMAIN inode[name[i]] : e = inode[name[i]][k]
      BY <3>1 DEF Held, Contents
    <3> QED BY <1>0, <3>2 DEF Numbered
  <2> QED BY <2>1, <2>2
<1>4. CASE \A i \in 0..Keep : ~Free(i)
  <2>1. \A i \in 0..Keep : name[i] # Void /\ Contents(i) = inode[name[i]]
    BY <1>2, <1>4 DEF Contents
  <2>2. Contents(0) # <<>>
    BY <1>0, <1>1, <2>1 DEF Whole
  <2>3. \A i \in 1..Keep : Len(Contents(i)) >= MaxBytes
    BY <2>1, <1>0 DEF Named
  <2> QED BY <2>2, <2>3
<1> QED BY <1>0, <1>3, <1>4 DEF Whole

(* The usage log: what the files hold are the most recent events in order, a
   rotation by itself drops only what no longer fits, and no two names ever
   mean one file, whatever recorder dies where (record, _rotate).          *)
THEOREM RecentEventsAreKept == ASSUME UsageConstants PROVE UsageSpec => []RecentEventsKept
<1>1. Rotated => RecentEventsKept
  BY InOrderHolds, OldestDroppedHolds DEF RecentEventsKept, Rotated
<1> QED BY <1>1, RotatedAlways, PTL

(* The usage log: every variable of it keeps its type (record).            *)
THEOREM UsageTyped == ASSUME UsageConstants PROVE UsageSpec => []UsageTypeOK
<1>1. Rotated => UsageTypeOK
  BY DEF Rotated
<1> QED BY <1>1, RotatedAlways, PTL
-----------------------------------------------------------------------------
(* Registry, secrets and usage log, each behind its own lock: whatever they *)
(* do at once, every variable of each of them keeps its type.              *)
THEOREM StoresTyped ==
  ASSUME RegistryConstants, SecretConstants, UsageConstants
  PROVE  StoresSpec => []StoresTypeOK
<1>1. StoresSpec => []RegistryTypeOK
  BY RegistryTyped DEF StoresSpec
<1>2. StoresSpec => []SecretTypeOK
  BY SecretsTyped DEF StoresSpec
<1>3. StoresSpec => []UsageTypeOK
  BY UsageTyped DEF StoresSpec
<1> QED BY <1>1, <1>2, <1>3, PTL DEF StoresTypeOK
=============================================================================
