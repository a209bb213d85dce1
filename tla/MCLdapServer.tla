---------------------------- MODULE MCLdapServer ----------------------------
(***************************************************************************)
(* Two slots, so that a slot below the last one becomes free, and fewer    *)
(* slots than sessions, so that slots are reused.                          *)
(***************************************************************************)
EXTENDS LdapServer

=============================================================================
