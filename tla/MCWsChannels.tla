---------------------------- MODULE MCWsChannels ----------------------------
(* Instances of WsChannels for TLC. *)
EXTENDS WsChannels, TLC

Symmetry == Permutations(Browser) \cup Permutations(Local) \cup Permutations(Conn)

=============================================================================
