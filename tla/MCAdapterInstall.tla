-------------------------- MODULE MCAdapterInstall --------------------------
(* One installer of two releases that own a file each and share another. *)
EXTENDS AdapterInstall

MCOwns == [v \in Release |-> IF v = "v1" THEN {1, 3} ELSE {2, 3}]
=============================================================================
