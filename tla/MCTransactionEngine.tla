------------------------ MODULE MCTransactionEngine ------------------------
(***************************************************************************)
(* Small instances of the transaction engine.  The first proposal updates  *)
(* one file and moves another; the second writes the move's destination,   *)
(* where it may create, update or change nothing, and deletes a file.      *)
(***************************************************************************)
EXTENDS TransactionEngine, TLC

CONSTANTS s1, s2, t1, t2, a, b, c, v1, v2

MCSession == {s1, s2}
MCTxn == {t1, t2}
MCPath == {a, b, c}
MCContent == {v1, v2}

MCSeed == (a :> v1) @@ (b :> v1) @@ (c :> Absent)

MCOps ==
  (t1 :> <<[kind |-> "replace", target |-> a, content |-> v2],
           [kind |-> "move", target |-> b, destination |-> c]>>)
  @@
  (t2 :> <<[kind |-> "replace", target |-> c, content |-> v1],
           [kind |-> "delete", target |-> a]>>)
=============================================================================
