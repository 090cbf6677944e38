------------------------------ MODULE MCStores ------------------------------
(* Small instances of Stores: two documents of one name for the journal; for  *)
(* the checkpoints three document keys, of which two agree in their first 60  *)
(* characters and share a file.                                               *)
EXTENDS Stores

FirstSixty == [k \in DocKeys |-> IF k = "kk" THEN "k" ELSE k]
=============================================================================
