------------------------------ MODULE MCOutbox ------------------------------
(***************************************************************************)
(* One message of the outbox: rows meet only in the batches of the worker, *)
(* and those are sets of any size.                                         *)
(***************************************************************************)
EXTENDS Outbox
============================================================================
