--------------------------- MODULE MCContextLock ---------------------------
(***************************************************************************)
(* A small instance of the context lock, leases on two hosts, and one of   *)
(* the mutation guard whose promise it relies on: attempts of one host     *)
(* that meet leftovers, aged ones included.  Each behavior is of `part';   *)
(* the other rests in its initial state.                                   *)
(***************************************************************************)
EXTENDS ContextLock

CONSTANTS a, b, c

MCTrio == {a, b, c}
MCTwoHosts == [n \in Lease |-> IF n = c THEN "there" ELSE "here"]

Attempt == 1..2
HostOf == [n \in Attempt |-> "here"]

VARIABLES
  part, claim, number, cancelled, at, todo, doomed, best, seen, scans, failed, exited

guardVars ==
  <<claim, number, cancelled, at, todo, doomed, best, seen, scans, failed, exited>>

Guard == INSTANCE MutationGuard WITH
  Nonce <- Attempt, Host <- HostOf, Aging <- TRUE, MaxAttempts <- 2,
  MaxFailures <- 1, MaxExits <- 1,
  pc <- at, tries <- scans, failures <- failed, exits <- exited

MCInit == part \in {"lock", "guard"} /\ Init /\ Guard!Init

LockPart  == part = "lock" /\ Next /\ UNCHANGED <<part, guardVars>>
GuardPart == part = "guard" /\ Guard!Next /\ UNCHANGED <<part, vars>>

MCNext == LockPart \/ GuardPart

(* Nothing that fairness drives is enabled in a component at rest. *)
MCSpec ==
  /\ MCInit /\ [][MCNext]_<<part, vars, guardVars>>
  /\ \A n \in Lease : WF_vars(Step(n))
  /\ \A n \in Attempt : WF_guardVars(Guard!Step(n))

(* Attempts to enter the guard end, and wait for nobody who is dead. *)
AttemptsEnd         == Guard!AcquireEnds
LeftoversDoNotBlock == Guard!LeftoversDoNotBlock
=============================================================================
