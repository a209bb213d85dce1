---------------------------- MODULE MCLinkedList ----------------------------
(***************************************************************************)
(* Two lists, as the ready and the wait queue of the LDAP client, and      *)
(* enough items for every position an item can have in a ring.             *)
(***************************************************************************)
EXTENDS LinkedList

=============================================================================
