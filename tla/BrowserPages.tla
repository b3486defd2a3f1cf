------------------------------ MODULE BrowserPages ------------------------------
(***************************************************************************)
(* A browser window on the portal: the dashboard (DashboardPage), and the   *)
(* pages of an instance with the script the gateway puts into them          *)
(* (NavPage).  One page is open at a time; loading another forgets          *)
(* everything the first one kept.  The injected script runs only if the     *)
(* policy the page came with, as the gateway patched it, allows it (Csp).   *)
(***************************************************************************)
EXTENDS DashboardPage, NavPage, Csp

CONSTANT
  Policies  \* the policies OpenCode may send (external)

ASSUME PolicyAssumption == Policies \subseteq Seq(Directive)

VARIABLES
  page,     \* "dashboard" or "instance"; "loading" an instance's, "leaving" for
            \* the dashboard or to log out
  policy,   \* the policy OpenCode sent with the instance's page being loaded
  patched   \* the policy the browser got

NoList == [i \in Id |-> "absent"]

pageVars == <<page, policy, patched>>
vars == <<dashVars, navVars, pageVars>>

Init == DashInit /\ NavInit /\ page = "dashboard" /\ policy = <<>> /\ patched = <<>>

-----------------------------------------------------------------------------
To(p) == page' = p /\ policy' = <<>> /\ patched' = <<>>

Dashboard == page = "dashboard" /\ DashNext /\ UNCHANGED <<navVars, pageVars>>

\* A row of the dashboard's table is clicked.
OpenInstance ==
  /\ page = "dashboard" /\ \E i \in Id : Listed(i)
  /\ Blank(NoList)
  /\ To("loading")
  /\ UNCHANGED navVars

\* patchCspHeader and injectPortalNav on the way of an instance's page.
Serve ==
  /\ page = "loading"
  /\ page' = "instance"
  /\ policy' \in Policies
  /\ patched' = PatchCspPolicyString(policy')
  /\ UNCHANGED <<dashVars, navVars>>

\* The injected script is reached; the policy has done its part.
RunScript ==
  /\ page = "instance" /\ RunsScript(patched, Portal)
  /\ Start
  /\ policy' = <<>> /\ patched' = <<>>
  /\ UNCHANGED <<dashVars, page>>

InstancePage == page = "instance" /\ NavRuns /\ UNCHANGED <<dashVars, pageVars>>

\* The menu's items: dashboard, logout; refresh and a row of the submenu load a page.
ClickItem ==
  /\ page = "instance" /\ menu = "shown"
  /\ To("loading") \/ To("leaving")
  /\ NavLeave
  /\ UNCHANGED dashVars

\* The dashboard is served, after the login page if need be; also when an instance's
\* page is not available.
ServeDashboard ==
  /\ page \in {"loading", "leaving"}
  /\ Reload
  /\ To("dashboard")
  /\ UNCHANGED navVars

Next ==
  \/ Dashboard \/ OpenInstance \/ Serve \/ RunScript \/ InstancePage
  \/ ClickItem \/ ServeDashboard

Spec == Init /\ [][Next]_vars

\* Observers are called, and animation frames come while the page is in view.
Fairness ==
  /\ WF_vars(Observe /\ UNCHANGED <<dashVars, pageVars>>)
  /\ WF_vars(Frame /\ UNCHANGED <<dashVars, pageVars>>)
  /\ WF_vars(Relabel /\ UNCHANGED <<dashVars, pageVars>>)

FairSpec == Spec /\ Fairness

-----------------------------------------------------------------------------
\* Every variable has its type.
TypeOK ==
  /\ DashTypeOK /\ NavTypeOK
  /\ page \in {"dashboard", "loading", "instance", "leaving"}
  /\ policy \in Seq(Directive) /\ patched \in Seq(Directive)

\* Whatever policy OpenCode sends, what the gateway makes of it lets the injected
\* script run (ADR 0005: "ensuring inline scripts execute"); it lets in no other script
\* and no style (the patch "does not lower OpenCode's security policy"), and keeps none
\* out that the policy let in, unless that relied on 'unsafe-inline' alone.
PolicyKept == /\ PortalAllowed(policy, patched)
              /\ NoneAdmitted(policy, patched) /\ NoneLost(policy, patched)

=============================================================================
