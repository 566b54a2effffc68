---------------------------- MODULE MCIngestion -----------------------------
(* One batch that meets one suspicious file. *)
EXTENDS Ingestion

MCStem == [p \in Path |-> p]
=============================================================================
