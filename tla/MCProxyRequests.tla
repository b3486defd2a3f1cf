--------------------------- MODULE MCProxyRequests ---------------------------
(* Instances of ProxyRequests for TLC. *)
EXTENDS ProxyRequests, TLC

Symmetry == Permutations(Request) \cup Permutations(Conn)

=============================================================================
