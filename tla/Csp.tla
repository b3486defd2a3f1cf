---------------------------------- MODULE Csp ----------------------------------
(***************************************************************************)
(* The Content-Security-Policy of a proxied page, and how the gateway       *)
(* patches it so that the one inline script it injects may run              *)
(* (src/server/proxy/csp.ts), beside what a browser makes of a policy.      *)
(*                                                                         *)
(* A policy is the sequence of its directives.  A source expression is      *)
(* known by its kind; "portal" is the hash of the injected script.          *)
(* 'strict-dynamic', which says something only beside a hash or a nonce, is *)
(* left out.                                                                *)
(***************************************************************************)
EXTENDS Naturals, Sequences

Name == {"script-src-elem", "script-src", "style-src", "default-src"}
Portal == "portal"
\* Sources that make a browser disregard 'unsafe-inline'.
Exact == {Portal, "hash", "nonce"}
Source == Exact \cup {"none", "self", "unsafe-inline"}
Directive == [name: Name, sources: SUBSET Source]

-----------------------------------------------------------------------------
\* csp.ts.  Directive names are compared in lower case, a token that is there
\* already is not added again.
ScriptDirective(d) == d.name \in {"script-src", "script-src-elem"}
AddToken(d) == [d EXCEPT !.sources = @ \cup {Portal}]
HasScriptDirective(p) == \E k \in DOMAIN p : ScriptDirective(p[k])

\* The first default-src.
Fallback(p, k) == /\ p[k].name = "default-src"
                  /\ \A j \in 1 .. k - 1 : p[j].name # "default-src"

\* Mutant: only the more specific directive.
PatchElemOnly(p) ==
  [k \in DOMAIN p |-> IF p[k].name = "script-src-elem" THEN AddToken(p[k]) ELSE p[k]]
\* Every script directive, or if there is none the first default-src.
PatchCspPolicyString(p) ==
  [k \in DOMAIN p |->
     IF ScriptDirective(p[k]) \/ (~HasScriptDirective(p) /\ Fallback(p, k))
       THEN AddToken(p[k]) ELSE p[k]]

-----------------------------------------------------------------------------
\* The browser (CSP level 3): of several directives of one name the first counts,
\* and a missing one is stood in for by the next on its list.
Has(p, n) == \E k \in DOMAIN p : p[k].name = n
FirstOf(p, n) == CHOOSE k \in DOMAIN p : /\ p[k].name = n
                                         /\ \A j \in 1 .. k - 1 : p[j].name # n
ScriptRule(p) ==
  IF Has(p, "script-src-elem") THEN "script-src-elem"
  ELSE IF Has(p, "script-src") THEN "script-src" ELSE "default-src"
StyleRule(p) == IF Has(p, "style-src") THEN "style-src" ELSE "default-src"

\* Code that is a file of the page's origin ("self"), carries a hash or a nonce the
\* policy may list, or is inline and carries neither.
Code == {"inline", "self", "hash", "nonce", Portal}
Lax(sources) == "unsafe-inline" \in sources /\ sources \cap Exact = {}
Permits(sources, by) == by \in sources \/ (by # "self" /\ Lax(sources))
Allows(p, n, by) == Has(p, n) => Permits(p[FirstOf(p, n)].sources, by)
RunsScript(p, by) == Allows(p, ScriptRule(p), by)
TakesStyle(p, by) == Allows(p, StyleRule(p), by)

\* The directive of this name relied on 'unsafe-inline' alone and was patched: it
\* has lost its force, as any hash makes a browser disregard it.
Spoilt(p, patched, n) ==
  Has(p, n) /\ LET k == FirstOf(p, n) IN Lax(p[k].sources) /\ patched[k] # p[k]

-----------------------------------------------------------------------------
\* Whatever policy a page comes with, the patched one lets the injected script run
\* (ADR 0005: "ensuring inline scripts execute").
PortalAllowed(p, patched) == RunsScript(patched, Portal)

\* And nothing else than before: no other script, and no style
\* (ADR 0005: "does not lower OpenCode's security policy").
NoneAdmitted(p, patched) ==
  \A by \in Code \ {Portal} : /\ RunsScript(patched, by) => RunsScript(p, by)
                              /\ TakesStyle(patched, by) => TakesStyle(p, by)

\* OpenCode's own scripts and styles keep working, unless its policy is one of
\* those that say 'unsafe-inline' and name nothing by hash or nonce.
NoneLost(p, patched) ==
  \A by \in Code :
    /\ RunsScript(p, by) /\ ~Spoilt(p, patched, ScriptRule(p)) => RunsScript(patched, by)
    /\ TakesStyle(p, by) /\ ~Spoilt(p, patched, StyleRule(p)) => TakesStyle(patched, by)

=============================================================================
