------------------------------ MODULE MCGuards ------------------------------
(***************************************************************************)
(* Small instances of what processes guard against each other: the         *)
(* mutation guard itself, with attempts on two hosts; the context registry,*)
(* the secrets and the usage log, each behind a lock of its own; and the   *)
(* context lock behind a guard that has let two processes in.              *)
(* Each behavior is one of `part'; the others rest in their initial        *)
(* states, so that one run checks each of them by itself.                  *)
(***************************************************************************)
EXTENDS MutationGuard, Stores, TLC

CONSTANT Nobody

MCTrio == 1..3
MCTwoHosts == [n \in Nonce |-> IF n = 3 THEN "there" ELSE "here"]

(* One context seen at two places, and the name of another one. *)
MCUser == {"u", "v"}
MCId == {"i", "j"}
MCRoot == {"r1", "r2"}
MCIdOf == [r \in MCRoot |-> "i"]

(* Two processes and two secrets. *)
MCKeeper == {"k1", "k2"}
MCSecret == {"m", "n"}

(* Two threads of one process and one of another; files of two events. *)
MCRecorder == {"a", "b", "c"}
MCProcessOf == [r \in MCRecorder |-> IF r = "c" THEN "q" ELSE "p"]

(* Two leases on one host. *)
Lease == {"a", "b"}
OneHost == [n \in Lease |-> "here"]
MaxBeats == 1
MaxBreaches == 1

VARIABLES
  part,
  lock, old, file, beats, evidence, inside, at, saw, late, creations,
  failed, exited, breaches

lockVars == <<lock, old, file, beats, evidence, inside, at, saw, late, creations,
              failed, exited, breaches>>

MCVars == <<part, vars, registryVars, secretVars, usageVars, lockVars>>

L == INSTANCE ContextLock WITH
  Host <- OneHost, MaxTries <- 3, MaxFailures <- 0, MaxExits <- 1,
  pc <- at, tries <- creations, failures <- failed, exits <- exited

Unguarded == Init /\ RegistryInit /\ SecretInit /\ UsageInit /\ L!Init

MCInit == part \in {"guard", "registry", "secrets", "usage", "breach"} /\ Unguarded

GuardPart ==
  /\ part = "guard"
  /\ Next
  /\ UNCHANGED <<part, registryVars, secretVars, usageVars, lockVars>>

RegistryPart ==
  /\ part = "registry"
  /\ RegistryNext
  /\ UNCHANGED <<part, vars, secretVars, usageVars, lockVars>>

SecretsPart ==
  /\ part = "secrets"
  /\ SecretNext
  /\ UNCHANGED <<part, vars, registryVars, usageVars, lockVars>>

UsagePart ==
  /\ part = "usage"
  /\ UsageNext
  /\ UNCHANGED <<part, vars, registryVars, secretVars, lockVars>>

BreachPart ==
  /\ part = "breach"
  /\ L!Next
  /\ UNCHANGED <<part, vars, registryVars, secretVars, usageVars>>

MCNext == GuardPart \/ RegistryPart \/ SecretsPart \/ UsagePart \/ BreachPart

MCSpec == MCInit /\ [][MCNext]_MCVars

(* Context lock: even two processes in the guard never archive a lease that *)
(* is fresh.                                                                *)
NoFreshEvidence == part = "breach" => L!NoFreshEvidence
=============================================================================
