------------------------------- MODULE Stores -------------------------------
(***************************************************************************)
(* The three files the program keeps per user and not per context, side by *)
(* side: the registry of contexts, the index of secrets and the usage log. *)
(* Each has a lock of its own, and no operation touches two of them.       *)
(***************************************************************************)
EXTENDS Registry, SecretStore, UsageLog

StoresSpec == RegistrySpec /\ SecretSpec /\ UsageSpec

(* Types.                                                                  *)
StoresTypeOK == RegistryTypeOK /\ SecretTypeOK /\ UsageTypeOK
=============================================================================
