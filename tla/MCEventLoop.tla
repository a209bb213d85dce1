---------------------------- MODULE MCEventLoop ----------------------------
(***************************************************************************)
(* Three descriptors of which two fit into the table, batches of two       *)
(* events, and one connection more than descriptors, so that a descriptor  *)
(* is used again while events of its last holder are in the batch.         *)
(***************************************************************************)
EXTENDS EventLoop

=============================================================================
