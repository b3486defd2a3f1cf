---------------------------- MODULE MCOidcSessions ----------------------------
(* Instances of OidcSessions for TLC. *)
EXTENDS OidcSessions, TLC

=============================================================================
