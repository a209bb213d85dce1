---------------------------- MODULE MCLdapClient ----------------------------
(* Instances of LdapClient for TLC. *)
EXTENDS LdapClient
=============================================================================
