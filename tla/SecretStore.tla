---------------------------- MODULE SecretStore -----------------------------
(***************************************************************************)
(* The secret store (secrets/service.py, _index.py): values live in the    *)
(* credential store of the operating system and only their names in an     *)
(* index file of the program.  The two cannot be written together: store   *)
(* writes the value and then the name, delete removes the value and then   *)
(* the name, each step alone, from several processes; only the read and    *)
(* write of the index file are serialized, by a lock on a sentinel.        *)
(***************************************************************************)
EXTENDS Integers

CONSTANTS Keeper,      \* processes
          Secret,      \* names of secrets
          NoOne, MaxLosses

VARIABLES vault,       \* the names that have a value in the credential store
          names,       \* the names in the index file
          latch,       \* the process that holds the index guard, or NoOne
          errand,      \* errand[k]: what process k is doing
          torn,        \* history: names whose last operation failed or was not alone
          losses       \* failures and deaths so far

secretVars == <<vault, names, latch, errand, torn, losses>>

Resting == [op |-> "none", name |-> NoOne, stage |-> "idle", read |-> {}, alone |-> TRUE]

SecretInit ==
  /\ vault = {} /\ names = {} /\ latch = NoOne
  /\ errand = [k \in Keeper |-> Resting]
  /\ torn = {} /\ losses = 0

Busy(n) == {k \in Keeper : errand[k].name = n}

At(k, op, stage) == errand[k].op = op /\ errand[k].stage = stage
Proceed(k, stage) == errand' = [errand EXCEPT ![k].stage = stage]

(* NoOne keeps two processes from working on one name at a time; it is   *)
(* noted of both of them.                                                  *)
Begin(k, op, n) ==
  /\ errand[k].stage = "idle"
  /\ errand' = [j \in Keeper |->
       IF j = k THEN [op |-> op, name |-> n, stage |-> "vault", read |-> {},
                      alone |-> Busy(n) = {}]
       ELSE [errand[j] EXCEPT !.alone = @ /\ j \notin Busy(n)]]
  /\ UNCHANGED <<vault, names, latch, torn, losses>>

(* store writes the value first.                                           *)
WritePassword(k) ==
  /\ At(k, "store", "vault")
  /\ vault' = vault \cup {errand[k].name}
  /\ Proceed(k, "guard")
  /\ UNCHANGED <<names, latch, torn, losses>>

(* Fault: deleting a secret that has no value returns at once.            *)
ReadAndReturn(k) ==
  /\ At(k, "delete", "vault")
  /\ IF errand[k].name \in vault
     THEN Proceed(k, "remove") /\ UNCHANGED torn
     ELSE /\ errand' = [errand EXCEPT ![k] = Resting]
          /\ torn' = IF errand[k].alone THEN torn \ {errand[k].name} ELSE torn
  /\ UNCHANGED <<vault, names, latch, losses>>

(* delete looks first: without a value only the name is left to remove.    *)
ReadPassword(k) ==
  /\ At(k, "delete", "vault")
  /\ Proceed(k, IF errand[k].name \in vault THEN "remove" ELSE "guard")
  /\ UNCHANGED <<vault, names, latch, torn, losses>>

RemovePassword(k) ==
  /\ At(k, "delete", "remove")
  /\ errand[k].name \in vault
  /\ vault' = vault \ {errand[k].name}
  /\ Proceed(k, "guard")
  /\ UNCHANGED <<names, latch, torn, losses>>

(* The operation ends early; its name stays as the last step left it.      *)
BrokenOff(k) ==
  /\ errand' = [errand EXCEPT ![k] = Resting]
  /\ torn' = torn \cup {errand[k].name}
  /\ latch' = IF latch = k THEN NoOne ELSE latch
  /\ UNCHANGED <<vault, names>>

(* Another process removed the value in between: the backend raises.       *)
RemoveGone(k) ==
  /\ At(k, "delete", "remove")
  /\ errand[k].name \notin vault
  /\ BrokenOff(k)
  /\ UNCHANGED losses

(* The backend or the index fails, the wait for the guard times out, or    *)
(* the process dies.                                                       *)
FailOrDie(k) ==
  /\ errand[k].stage # "idle"
  /\ losses < MaxLosses
  /\ losses' = losses + 1
  /\ BrokenOff(k)

TakeLatch(k) ==
  /\ errand[k].stage = "guard"
  /\ latch = NoOne
  /\ latch' = k
  /\ Proceed(k, "load")
  /\ UNCHANGED <<vault, names, torn, losses>>

LoadNames(k) ==
  /\ errand[k].stage = "load"
  /\ errand' = [errand EXCEPT ![k].stage = "save", ![k].read = names]
  /\ UNCHANGED <<vault, names, latch, torn, losses>>

(* The index is replaced as a whole by what was read and the one change.   *)
SaveNames(k) ==
  LET e == errand[k] IN
    /\ e.stage = "save"
    /\ names' = IF e.op = "store" THEN e.read \cup {e.name} ELSE e.read \ {e.name}
    /\ latch' = IF latch = k THEN NoOne ELSE latch
    /\ torn' = IF e.alone THEN torn \ {e.name} ELSE torn \cup {e.name}
    /\ errand' = [errand EXCEPT ![k] = Resting]
    /\ UNCHANGED <<vault, losses>>

SecretNext ==
  \E k \in Keeper :
     \/ \E n \in Secret, op \in {"store", "delete"} : Begin(k, op, n)
     \/ WritePassword(k) \/ ReadPassword(k) \/ RemovePassword(k) \/ RemoveGone(k)
     \/ TakeLatch(k) \/ LoadNames(k) \/ SaveNames(k)
     \/ FailOrDie(k)

SecretSpec == SecretInit /\ [][SecretNext]_secretVars

-----------------------------------------------------------------------------
Errand == [op : {"none", "store", "delete"}, name : Secret \cup {NoOne},
           stage : {"idle", "vault", "remove", "guard", "load", "save"},
           read : SUBSET Secret, alone : BOOLEAN]

SecretTypeOK ==
  /\ vault \subseteq Secret /\ names \subseteq Secret
  /\ latch \in Keeper \cup {NoOne}
  /\ errand \in [Keeper -> Errand]
  /\ torn \subseteq Secret
  /\ losses \in 0..MaxLosses

(* The index tells what is stored: a name whose last operation ended well  *)
(* and was alone on that name is listed exactly if it has a value, however *)
(* many operations on other names ran at the same time, and whatever state *)
(* an earlier crash or overlap left behind: repeating the interrupted      *)
(* operation repairs it.                                                   *)
IndexTellsWhatIsStored ==
  \A n \in Secret : n \notin torn /\ Busy(n) = {} => (n \in names <=> n \in vault)

=============================================================================
