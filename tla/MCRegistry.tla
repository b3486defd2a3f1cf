----------------------------- MODULE MCRegistry -----------------------------
(* Instances of Registry for TLC. *)
EXTENDS Registry, TLC

\* Sockets, tokens and instances are interchangeable in the safety runs.
Symmetry ==
  Permutations(InstanceId) \cup Permutations(Token) \cup Permutations(Socket)
  \cup Permutations(Name)

=============================================================================
