---------------------------- MODULE MCBrowserPages ----------------------------
(* Instances of BrowserPages for TLC. *)
EXTENDS BrowserPages

\* Source lists as OpenCode, a stricter and a laxer application would send them.
Sources == {{"none"}, {"self", "nonce"}, {"self", "unsafe-inline"}, {"hash", "unsafe-inline"}}
MCDirective == [name: Name, sources: Sources]
MCPolicies == UNION {[1 .. n -> MCDirective] : n \in 0 .. 3}

=============================================================================
