-------------------------- MODULE BrowserPagesProofs --------------------------
(***************************************************************************)
(* The pages in a browser, proved for any number of instances, title bars,  *)
(* languages and requests under way, and for every policy.                  *)
(***************************************************************************)
EXTENDS BrowserPages, WellFoundedInduction, SequenceTheorems, TLAPS

-----------------------------------------------------------------------------
(***************************************************************************)
(* The patched policy, for every policy whatever.                           *)
(***************************************************************************)
Policy == Seq(Directive)

\* The first directive of a name exists: a set of positions has a least one.
LEMMA LeastExists ==
  ASSUME NEW S \in SUBSET Nat, S # {}
  PROVE  \E k \in S : \A j \in S : k <= j
<1> DEFINE R == {ss \in Nat \X Nat : ss[1] < ss[2]}
<1>1. IsWellFoundedOn(R, Nat)
  BY NatLessThanWellFounded DEF OpToRel
<1>2. PICK k \in S : \A j \in S : <<j, k>> \notin R
  <2> HIDE DEF R
  <2> QED BY <1>1, WFMin
<1>3. ASSUME NEW j \in S PROVE k <= j
  <2>1. <<j, k>> \in Nat \X Nat /\ <<j, k>> \notin R
    BY <1>2
  <2>2. ~ (j < k)
    BY <2>1, Zenon
  <2> QED BY <2>2
<1> QED BY <1>3

LEMMA FirstExists ==
  ASSUME NEW p \in Policy, NEW n, Has(p, n)
  PROVE  /\ FirstOf(p, n) \in DOMAIN p
         /\ p[FirstOf(p, n)].name = n
         /\ \A j \in 1 .. FirstOf(p, n) - 1 : p[j].name # n
<1> DEFINE S == {k \in DOMAIN p : p[k].name = n}
<1>1. S \in SUBSET Nat /\ S # {} /\ DOMAIN p = 1 .. Len(p) /\ Len(p) \in Nat
  BY DEF Has, Policy
<1>2. PICK k \in S : \A j \in S : k <= j
  <2> HIDE DEF S
  <2> QED BY <1>1, LeastExists
<1>3. \A j \in 1 .. k - 1 : p[j].name # n
  BY <1>1, <1>2
<1>4. \E m \in DOMAIN p : p[m].name = n /\ \A j \in 1 .. m - 1 : p[j].name # n
  BY <1>2, <1>3
<1> QED BY <1>4 DEF FirstOf

-----------------------------------------------------------------------------
(***************************************************************************)
(* The patch renames no directive, so every look-up finds the directive it  *)
(* found before.                                                            *)
(***************************************************************************)
LEMMA PatchShape ==
  ASSUME NEW p \in Policy
  PROVE  LET q == PatchCspPolicyString(p) IN
           /\ q \in Policy /\ DOMAIN q = DOMAIN p
           /\ \A k \in DOMAIN p :
                /\ q[k].name = p[k].name
                /\ q[k] = p[k] \/ q[k].sources = p[k].sources \cup {Portal}
                /\ (ScriptDirective(p[k]) \/ (~HasScriptDirective(p) /\ Fallback(p, k)))
                     => q[k].sources = p[k].sources \cup {Portal}
<1> DEFINE q == PatchCspPolicyString(p)
<1>1. DOMAIN q = DOMAIN p /\ DOMAIN p = 1 .. Len(p) /\ Len(p) \in Nat
  BY DEF PatchCspPolicyString, Policy
<1>2. ASSUME NEW k \in DOMAIN p
      PROVE  p[k] \in Directive /\ q[k] \in {p[k], AddToken(p[k])}
             /\ (ScriptDirective(p[k]) \/ (~HasScriptDirective(p) /\ Fallback(p, k))
                   => q[k] = AddToken(p[k]))
  BY <1>1, <1>2 DEF PatchCspPolicyString, Policy
<1>3. ASSUME NEW d \in Directive
      PROVE  /\ AddToken(d) \in Directive
             /\ AddToken(d).name = d.name
             /\ AddToken(d).sources = d.sources \cup {Portal}
  BY DEF AddToken, Directive, Source, Exact
<1>4. q \in Policy
  <2>1. q = [k \in 1 .. Len(p) |-> q[k]]
    BY <1>1 DEF PatchCspPolicyString
  <2>2. \A k \in 1 .. Len(p) : q[k] \in Directive
    BY <1>1, <1>2, <1>3
  <2> HIDE DEF q
  <2> QED BY <1>1, <2>1, <2>2 DEF Policy
<1> HIDE DEF q
<1>5. \A k \in DOMAIN p :
        /\ q[k].name = p[k].name
        /\ q[k] = p[k] \/ q[k].sources = p[k].sources \cup {Portal}
        /\ (ScriptDirective(p[k]) \/ (~HasScriptDirective(p) /\ Fallback(p, k)))
             => q[k].sources = p[k].sources \cup {Portal}
  BY <1>2, <1>3
<1> QED BY <1>1, <1>4, <1>5 DEF q

LEMMA SameLookup ==
  ASSUME NEW p \in Policy, NEW n
  PROVE  LET q == PatchCspPolicyString(p) IN
           /\ Has(q, n) <=> Has(p, n)
           /\ Has(p, n) => FirstOf(q, n) = FirstOf(p, n)
<1> DEFINE q == PatchCspPolicyString(p)
<1>1. q \in Policy /\ DOMAIN q = DOMAIN p /\ \A k \in DOMAIN p : q[k].name = p[k].name
  BY PatchShape
<1> HIDE DEF q
<1>2. Has(q, n) <=> Has(p, n)
  BY <1>1 DEF Has
<1>3. ASSUME Has(p, n) PROVE FirstOf(q, n) = FirstOf(p, n)
  <2>1. /\ FirstOf(q, n) \in DOMAIN p /\ FirstOf(p, n) \in DOMAIN p
        /\ p[FirstOf(p, n)].name = n /\ p[FirstOf(q, n)].name = n
        /\ \A j \in 1 .. FirstOf(p, n) - 1 : p[j].name # n
        /\ \A j \in 1 .. FirstOf(q, n) - 1 : q[j].name # n
    BY <1>1, <1>2, <1>3, FirstExists
  <2>2. DOMAIN p = 1 .. Len(p) /\ Len(p) \in Nat
    BY DEF Policy
  <2>3. \A j \in 1 .. FirstOf(q, n) - 1 : p[j].name # n
    BY <1>1, <2>1, <2>2
  <2> QED BY <2>1, <2>2, <2>3
<1> QED BY <1>2, <1>3 DEF q

LEMMA SameRules ==
  ASSUME NEW p \in Policy
  PROVE  /\ ScriptRule(PatchCspPolicyString(p)) = ScriptRule(p)
         /\ StyleRule(PatchCspPolicyString(p)) = StyleRule(p)
BY SameLookup DEF ScriptRule, StyleRule

\* Of the directive a name leads to: its sources before and after.
LEMMA SourcesKept ==
  ASSUME NEW p \in Policy, NEW n, Has(p, n)
  PROVE  LET q == PatchCspPolicyString(p)
             k == FirstOf(p, n)
         IN /\ Has(q, n) /\ FirstOf(q, n) = k
            /\ \/ q[k] = p[k]
               \/ q[k] # p[k] /\ q[k].sources = p[k].sources \cup {Portal}
BY SameLookup, FirstExists, PatchShape

-----------------------------------------------------------------------------
\* Whatever policy a page comes with, its patched policy lets the injected script run
\* (patchCspPolicyString).
THEOREM PortalRuns ==
  ASSUME NEW p \in Policy
  PROVE  PortalAllowed(p, PatchCspPolicyString(p))
<1> DEFINE q == PatchCspPolicyString(p)
           n == ScriptRule(p)
           k == FirstOf(p, n)
<1>1. ASSUME Has(p, n) PROVE Portal \in q[k].sources
  <2>1. /\ k \in DOMAIN p /\ p[k].name = n
        /\ \A j \in 1 .. k - 1 : p[j].name # n
    BY <1>1, FirstExists
  <2>2. CASE n = "default-src"
    <3>1. ~HasScriptDirective(p)
      BY <2>2 DEF HasScriptDirective, ScriptDirective, ScriptRule, Has
    <3> QED BY <2>1, <2>2, <3>1, PatchShape DEF Fallback
  <2>3. CASE n # "default-src"
    <3>1. ScriptDirective(p[k])
      BY <2>1, <2>3 DEF ScriptDirective, ScriptRule
    <3> QED BY <2>1, <3>1, PatchShape
  <2> QED BY <2>2, <2>3
<1>2. ScriptRule(q) = n /\ (Has(q, n) => Has(p, n) /\ FirstOf(q, n) = k)
  BY SameRules, SameLookup
<1> HIDE DEF q, n, k
<1>3. Allows(q, n, Portal)
  BY <1>1, <1>2 DEF Allows, Permits
<1> QED BY <1>2, <1>3 DEF PortalAllowed, RunsScript, q

\* It lets in no other script and no style that the policy kept out: a hash makes a
\* browser disregard 'unsafe-inline', it never adds to it.
THEOREM PatchAdmitsNone ==
  ASSUME NEW p \in Policy
  PROVE  NoneAdmitted(p, PatchCspPolicyString(p))
<1> DEFINE q == PatchCspPolicyString(p)
<1>1. ASSUME NEW n, NEW by \in Code \ {Portal}, Allows(q, n, by)
      PROVE  Allows(p, n, by)
  <2> SUFFICES ASSUME Has(p, n) PROVE Permits(p[FirstOf(p, n)].sources, by)
    BY DEF Allows
  <2> DEFINE k == FirstOf(p, n)
  <2>1. /\ Has(q, n) /\ FirstOf(q, n) = k
        /\ q[k] = p[k] \/ q[k].sources = p[k].sources \cup {Portal}
    BY SourcesKept
  <2>2. Permits(q[k].sources, by)
    BY <1>1, <2>1 DEF Allows
  <2>3. CASE q[k].sources = p[k].sources \cup {Portal}
    <3>1. ~Lax(q[k].sources)
      BY <2>3 DEF Lax, Exact
    <3> QED BY <2>2, <2>3, <3>1 DEF Permits
  <2> QED BY <2>1, <2>2, <2>3
<1>2. ScriptRule(q) = ScriptRule(p) /\ StyleRule(q) = StyleRule(p)
  BY SameRules
<1> HIDE DEF q
<1>3. NoneAdmitted(p, q)
  BY <1>1, <1>2 DEF NoneAdmitted, RunsScript, TakesStyle
<1> QED BY <1>3 DEF q

\* It keeps none out that the policy let in, unless that relied on 'unsafe-inline' alone.
THEOREM PatchLosesNone ==
  ASSUME NEW p \in Policy
  PROVE  NoneLost(p, PatchCspPolicyString(p))
<1> DEFINE q == PatchCspPolicyString(p)
<1>1. ASSUME NEW n, NEW by \in Code, Allows(p, n, by), ~Spoilt(p, q, n)
      PROVE  Allows(q, n, by)
  <2> SUFFICES ASSUME Has(p, n)
               PROVE  Has(q, n) => Permits(q[FirstOf(q, n)].sources, by)
    BY SameLookup DEF Allows
  <2> DEFINE k == FirstOf(p, n)
  <2>1. /\ Has(q, n) /\ FirstOf(q, n) = k
        /\ q[k] = p[k] \/ (q[k] # p[k] /\ q[k].sources = p[k].sources \cup {Portal})
    BY SourcesKept
  <2>2. Permits(p[k].sources, by)
    BY <1>1 DEF Allows
  <2>3. q[k] # p[k] => ~Lax(p[k].sources)
    BY <1>1 DEF Spoilt
  <2> QED BY <2>1, <2>2, <2>3 DEF Permits
<1>2. ScriptRule(q) = ScriptRule(p) /\ StyleRule(q) = StyleRule(p)
  BY SameRules
<1> HIDE DEF q
<1>3. NoneLost(p, q)
  BY <1>1, <1>2 DEF NoneLost, RunsScript, TakesStyle
<1> QED BY <1>3 DEF q

USE FlightAssumption, RenderAssumption, BarAssumption, LangAssumption

-----------------------------------------------------------------------------
(***************************************************************************)
(* The dashboard.                                                           *)
(***************************************************************************)
\* A stored password can be kept or removed only of an instance.
Editing == form.edit = None => form.shows = "input"
DashInv == DashTypeOK /\ NothingHidden /\ Editing

LEMMA BlankTyped ==
  /\ BlankForm \in Form
  /\ BlankDelete \in [target: Id \cup {None}, busy: BOOLEAN]
  /\ BlankDeploy \in [title: Id \cup {None}, shows: Id \cup {None}]
BY DEF BlankForm, Form, BlankDelete, BlankDeploy

LEMMA BlankInv == ASSUME NEW l \in Instances, Blank(l) PROVE DashInv'
<1>1. NothingHidden' /\ Editing'
  BY DEF Blank, BlankForm, NothingHidden, Editing
<1>2. DashTypeOK'
  BY BlankTyped DEF Blank, DashTypeOK
<1> QED BY <1>1, <1>2 DEF DashInv

\* What displays the password's part of the form anew.
LEMMA ResetTyped ==
  ASSUME NEW f \in Form, NEW stored
  PROVE  LET g == ResetOpenPassUi(f, stored) IN
           /\ g \in Form /\ ~g.clear /\ g.pass = {} /\ g.edit = f.edit
           /\ g.shows = IF stored THEN "status" ELSE "input"
BY DEF ResetOpenPassUi, Form

\* A step of the form alone.
LEMMA FormStep ==
  ASSUME DashInv, form' \in Form, visible' \subseteq Dialogs,
         form'.clear => form'.shows = "note",
         form'.pass # {} => form'.shows = "input" /\ form'.pass = {form'.edit},
         form'.edit = None => form'.shows = "input",
         UNCHANGED <<list, del, deploy, flight>>
  PROVE  DashInv'
BY DEF DashInv, DashTypeOK, NothingHidden, Editing

\* A step that leaves the form alone.
LEMMA OtherStep ==
  ASSUME DashInv, UNCHANGED form, list' \in Instances, visible' \subseteq Dialogs,
         del' \in [target: Id \cup {None}, busy: BOOLEAN],
         deploy' \in [title: Id \cup {None}, shows: Id \cup {None}],
         flight' \subseteq Call
  PROVE  DashInv'
BY DEF DashInv, DashTypeOK, NothingHidden, Editing

LEMMA ResetInv ==
  ASSUME DashInv, NEW d \in Dialogs, Reset(d), visible' \subseteq Dialogs, UNCHANGED <<list, flight>>
  PROVE  DashInv'
<1>1. CASE d = "form"
  <2>1. form' = [form EXCEPT !.readOnly = FALSE, !.clear = FALSE] /\ UNCHANGED <<del, deploy>>
    BY <1>1 DEF Reset
  <2>2. form' \in Form /\ ~form'.clear /\ form'.shows = form.shows /\ form'.pass = form.pass
        /\ form'.edit = form.edit
    BY <2>1 DEF DashInv, DashTypeOK, Form
  <2> QED BY <2>1, <2>2, FormStep DEF DashInv, NothingHidden, Editing
<1>2. CASE d # "form"
  <2>1. UNCHANGED <<form, deploy>> /\ del' \in [target: Id \cup {None}, busy: BOOLEAN]
    BY <1>2 DEF Reset, DashInv, DashTypeOK
  <2> QED BY <2>1, OtherStep DEF DashInv, DashTypeOK
<1> QED BY <1>1, <1>2

LEMMA DashStep == ASSUME DashInv, DashNext PROVE DashInv'
<1> USE DEF DashInv, DashTypeOK, Dialogs, Editing
<1>1. CASE ShowAdd
  <2>1. [form EXCEPT !.edit = None] \in Form
    BY DEF Form
  <2> QED BY <1>1, <2>1, ResetTyped, FormStep DEF ShowAdd, Open
<1>2. ASSUME NEW i \in Id, ShowEdit(i) PROVE DashInv'
  <2>1. LET f == [form EXCEPT !.edit = i, !.readOnly = TRUE] IN f \in Form /\ f.edit # None
    BY NoneAssumption DEF Form
  <2> QED BY <1>2, <2>1, ResetTyped, FormStep DEF ShowEdit, Open
<1>3. ASSUME NEW i \in Id, Submit(i) PROVE DashInv'
  <2>1. [op |-> "save", id |-> i, password |-> PasswordSent] \in Call
    BY DEF Call, Save, PasswordSent
  <2> QED BY <1>3, <2>1, OtherStep DEF Submit, Fetch
<1>4. ASSUME NEW i \in Id, ShowDelete(i) PROVE DashInv'
  BY <1>4, OtherStep DEF ShowDelete, Open
<1>5. ASSUME NEW i \in Id, ShowDeploy(i) PROVE DashInv'
  <2>1. [op |-> "deploy", id |-> i] \in Call
    BY DEF Call
  <2> QED BY <1>5, <2>1, OtherStep DEF ShowDeploy, Open, Fetch
<1>6. CASE TypePass
  <2>1. form' = [form EXCEPT !.pass = {form.edit}] /\ form.shows = "input"
    BY <1>6 DEF TypePass, ChangeForm
  <2>2. /\ form' \in Form /\ form'.shows = "input" /\ form'.pass = {form'.edit}
        /\ form'.clear = form.clear
    BY <2>1 DEF Form
  <2> QED BY <1>6, <2>1, <2>2, FormStep DEF TypePass, ChangeForm, NothingHidden
<1>7. CASE ShowOpenPassModify
  <2>1. form' = [form EXCEPT !.clear = FALSE, !.shows = "input"] /\ form.shows = "status"
    BY <1>7 DEF ShowOpenPassModify, ChangeForm
  <2>2. form' \in Form /\ ~form'.clear /\ form'.pass = form.pass /\ form'.shows = "input"
    BY <2>1 DEF Form
  <2> QED BY <1>7, <2>1, <2>2, FormStep DEF ShowOpenPassModify, ChangeForm, NothingHidden
<1>8. CASE MarkOpenPassClear
  <2>1. form' = [form EXCEPT !.clear = TRUE, !.shows = "note", !.pass = {}]
         /\ form.shows = "status"
    BY <1>8 DEF MarkOpenPassClear, ChangeForm
  <2>2. form' \in Form /\ form'.shows = "note" /\ form'.pass = {} /\ form'.edit # None
    BY <2>1 DEF Form
  <2> QED BY <1>8, <2>2, FormStep DEF MarkOpenPassClear, ChangeForm
<1>9. CASE CancelOpenPassClear
  BY <1>9, ResetTyped, FormStep DEF CancelOpenPassClear, ChangeForm
<1>10. CASE DoDelete
  <2>1. [op |-> "delete", id |-> del.target] \in Call
    BY <1>10 DEF DoDelete, Call
  <2> QED BY <1>10, <2>1, OtherStep DEF DoDelete, Fetch
<1>11. ASSUME NEW d \in Dialogs, Close(d) \/ DragOut(d) PROVE DashInv'
  BY <1>11, ResetInv DEF Close, DragOut
<1>12. CASE Escape
  BY <1>12, OtherStep DEF Escape
<1>13. ASSUME NEW call \in flight, Failed(call) PROVE DashInv'
  BY <1>13, OtherStep DEF Failed, Enable
<1>14. ASSUME NEW call \in flight, DeployAnswered(call) PROVE DashInv'
  <2>1. call.id \in Id
    BY DEF Call, Save
  <2> QED BY <1>14, <2>1, OtherStep DEF DeployAnswered
<1>15. CASE Pushed
  BY <1>15, OtherStep DEF Pushed
<1>16. CASE Reload
  BY <1>16, BlankInv DEF Reload
<1> QED BY <1>1, <1>2, <1>3, <1>4, <1>5, <1>6, <1>7, <1>8, <1>9, <1>10, <1>11, <1>12, <1>13,
        <1>14, <1>15, <1>16 DEF DashNext, Done

\* The form lies in one way only: its note announces a removal that is not pending.
LEMMA Liar ==
  ASSUME DashInv
  PROVE  SaysWhatItDoes <=> ("form" \in visible /\ form.shows = "note" => form.clear)
BY DEF DashInv, DashTypeOK, Form, NothingHidden, Editing, SaysWhatItDoes, Displayed, PasswordSent

LEMMA LiarNext ==
  ASSUME DashInv'
  PROVE  SaysWhatItDoes' <=> ("form" \in visible' /\ form'.shows = "note" => form'.clear)
BY DEF DashInv, DashTypeOK, Form, NothingHidden, Editing, SaysWhatItDoes, Displayed, PasswordSent

\* Only a drag out of the form makes it one.
LEMMA SaysStep ==
  ASSUME DashInv, DashInv', DashNext, SaysWhatItDoes, ~DragOut("form")
  PROVE  SaysWhatItDoes'
<1> SUFFICES ASSUME "form" \in visible', form'.shows = "note" PROVE form'.clear
  BY LiarNext
<1>0. "form" \in visible /\ form.shows = "note" => form.clear
  BY Liar
<1>1. ASSUME UNCHANGED form, visible' \cap {"form"} \subseteq visible PROVE form'.clear
  BY <1>0, <1>1
<1> USE DEF DashInv, DashTypeOK
<1>2. CASE ShowAdd
  <2>1. [form EXCEPT !.edit = None] \in Form
    BY DEF Form
  <2> QED BY <1>2, <2>1, ResetTyped DEF ShowAdd
<1>3. ASSUME NEW i \in Id, ShowEdit(i) PROVE form'.clear
  <2>1. [form EXCEPT !.edit = i, !.readOnly = TRUE] \in Form
    BY DEF Form
  <2> QED BY <1>3, <2>1, ResetTyped DEF ShowEdit
<1>4. ASSUME NEW i \in Id, Submit(i) PROVE form'.clear
  BY <1>1, <1>4 DEF Submit
<1>5. ASSUME NEW i \in Id, ShowDelete(i) \/ ShowDeploy(i) PROVE form'.clear
  BY <1>1, <1>5 DEF ShowDelete, ShowDeploy, Open
<1>6. CASE TypePass \/ ShowOpenPassModify \/ MarkOpenPassClear
  BY <1>6 DEF TypePass, ShowOpenPassModify, MarkOpenPassClear, ChangeForm, Form
<1>7. CASE CancelOpenPassClear
  BY <1>7, ResetTyped DEF CancelOpenPassClear, ChangeForm
<1>8. CASE DoDelete \/ Escape \/ Pushed
  BY <1>1, <1>8 DEF DoDelete, Escape, Pushed
<1>9. ASSUME NEW d \in Dialogs, Close(d) \/ DragOut(d) PROVE form'.clear
  <2>1. CASE d = "form"
    BY <1>9, <2>1 DEF Close
  <2>2. CASE d # "form"
    BY <1>1, <1>9, <2>2 DEF Close, DragOut, Reset
  <2> QED BY <2>1, <2>2
<1>10. ASSUME NEW call \in flight, Failed(call) \/ DeployAnswered(call) PROVE form'.clear
  BY <1>1, <1>10 DEF Failed, DeployAnswered
<1>11. CASE Reload
  BY <1>11 DEF Reload, Blank
<1> QED BY <1>2, <1>3, <1>4, <1>5, <1>6, <1>7, <1>8, <1>9, <1>10, <1>11 DEF DashNext, Done

-----------------------------------------------------------------------------
(***************************************************************************)
(* The injected script.  Where it mounts: of the bars that are there the    *)
(* first, or the last of those visible.                                     *)
(***************************************************************************)
LEMMA LeastIn ==
  ASSUME NEW S \in SUBSET Bar, S # {}
  PROVE  Least(S) \in S
<1>1. \E b \in S : \A c \in S : b <= c
  BY LeastExists DEF Bar
<1> QED BY <1>1 DEF Least

LEMMA GreatestIn ==
  ASSUME NEW S \in SUBSET Bar, S # {}
  PROVE  Greatest(S) \in S
<1> DEFINE T0 == {Bars - b : b \in S}
<1>1. T0 \in SUBSET Nat /\ T0 # {}
  <2>1. ASSUME NEW b \in S PROVE Bars - b \in Nat
    <3>1. b \in 1 .. Bars
      BY DEF Bar
    <3> QED BY <3>1
  <2> QED BY <2>1
<1>2. PICK m \in T0 : \A j \in T0 : m <= j
  <2> HIDE DEF T0
  <2> QED BY <1>1, LeastExists
<1>3. PICK b \in S : m = Bars - b
  BY <1>2
<1>4. \A c \in S : c <= b
  <2> SUFFICES ASSUME NEW c \in S PROVE c <= b
    OBVIOUS
  <2>1. Bars - b <= Bars - c
    BY <1>2, <1>3
  <2> QED BY <2>1 DEF Bar
<1> QED BY <1>3, <1>4 DEF Greatest

LEMMA MountPointTyped ==
  ASSUME NavTypeOK PROVE FindMountPoint \in Bar \cup {NoBar}
<1>1. Present \in SUBSET Bar /\ Visible \in SUBSET Bar
  BY DEF Present, Visible
<1> QED BY <1>1, LeastIn, GreatestIn DEF FindMountPoint

LEMMA SomeLangTyped == SomeLang \in Lang
BY DEF SomeLang

\* Types, by groups of variables.
PageTyped ==
  running \in BOOLEAN /\ v2 \in BOOLEAN /\ bars \in [Bar -> {"absent", "shown", "hidden"}]
MountTyped ==
  nav \in Bar \cup {NoBar} /\ first \in BOOLEAN /\ changed \in BOOLEAN /\ scheduled \in BOOLEAN
MenuTyped ==
  /\ menu \in {"none", "hidden", "shown"} /\ open \in BOOLEAN
  /\ sub \in {"none", "hidden", "shown"} /\ hiding \in BOOLEAN
  /\ pointer \in {"away", "switch", "sub", "item"}
LangTyped == lang \in Lang /\ relang \in BOOLEAN /\ T \in Lang /\ labels \in Lang
RendersTyped == renders \in 0 .. MaxRenders

LEMMA NavTypeGroups ==
  NavTypeOK <=> PageTyped /\ MountTyped /\ MenuTyped /\ LangTyped /\ RendersTyped
BY DEF NavTypeOK, PageTyped, MountTyped, MenuTyped, LangTyped, RendersTyped

NavInv == NavTypeOK /\ MenuCoherent

LEMMA LeaveInv == ASSUME NavLeave PROVE NavInv'
<1>1. NavTypeOK'
  <2>1. PageTyped' /\ MountTyped'
    BY DEF NavLeave, PageTyped, MountTyped
  <2>2. MenuTyped' /\ RendersTyped'
    <3>1. open' \in BOOLEAN /\ hiding' \in BOOLEAN
      BY DEF NavLeave
    <3>2. RendersTyped'
      BY DEF NavLeave, RendersTyped
    <3> QED BY <3>1, <3>2 DEF NavLeave, MenuTyped
  <2>3. LangTyped'
    BY SomeLangTyped DEF NavLeave, LangTyped
  <2> QED BY <2>1, <2>2, <2>3 DEF NavTypeOK, PageTyped, MountTyped, MenuTyped, LangTyped, RendersTyped
<1>2. MenuCoherent'
  BY DEF NavLeave, MenuCoherent
<1> QED BY <1>1, <1>2 DEF NavInv

\* A step of the document, or of the button, that leaves the menu alone.
LEMMA MenuUntouched ==
  ASSUME NavInv, UNCHANGED menuVars, PageTyped', MountTyped', LangTyped', RendersTyped'
  PROVE  NavInv'
<1>1. MenuTyped' /\ MenuCoherent'
  BY NavTypeGroups DEF NavInv, menuVars, MenuTyped, MenuCoherent
<1>2. NavTypeOK'
  BY <1>1, NavTypeGroups DEF NavTypeOK, PageTyped, MountTyped, MenuTyped, LangTyped, RendersTyped
<1> QED BY <1>1, <1>2 DEF NavInv

\* A step of the menu.
LEMMA MenuStep ==
  ASSUME NavInv, MenuTyped', MenuCoherent',
         UNCHANGED <<running, v2, bars, mountVars, langVars, renders>>
  PROVE  NavInv'
BY DEF NavInv, NavTypeOK, MenuTyped, mountVars, langVars

\* Of a submenu and its timer.
Sub == [sub: {"none", "hidden", "shown"}, hiding: BOOLEAN]
LEMMA SubTyped ==
  ASSUME NEW m \in Sub
  PROVE  /\ CancelHideSub(m) \in Sub /\ CancelHideSub(m).sub = m.sub /\ ~CancelHideSub(m).hiding
         /\ ScheduleCloseSub(m) \in Sub /\ ScheduleCloseSub(m).sub = m.sub
         /\ CloseSub(m) \in Sub /\ CloseSub(m).sub # "shown"
         /\ ShowSub(m) \in Sub /\ ~ShowSub(m).hiding
BY DEF Sub, CancelHideSub, ScheduleCloseSub, CloseSub, ShowSub

LEMMA NavStep == ASSUME NavInv, Start \/ NavRuns PROVE NavInv'
<1> USE DEF NavInv, NavTypeOK
<1> USE NavTypeGroups
<1>1. CASE Start
  BY <1>1, MenuUntouched DEF Start, PageTyped, MountTyped, LangTyped, RendersTyped
<1>2. ASSUME NEW b \in Bar, Render(b) PROVE NavInv'
  <2>1. PageTyped'
    BY <1>2 DEF Render, PageTyped
  <2>2. MountTyped'
    BY <1>2 DEF Render, MountTyped
  <2>3. LangTyped' /\ RendersTyped' /\ UNCHANGED menuVars
    BY <1>2 DEF Render, LangTyped, langVars, RendersTyped, Change
  <2> QED BY <2>1, <2>2, <2>3, MenuUntouched
<1>3. ASSUME NEW b \in Bar, Restyle(b) PROVE NavInv'
  <2>1. PageTyped'
    BY <1>3 DEF Restyle, PageTyped
  <2>2. MountTyped' /\ LangTyped' /\ RendersTyped' /\ UNCHANGED menuVars
    BY <1>3 DEF Restyle, MountTyped, mountVars, LangTyped, langVars, RendersTyped, Change
  <2> QED BY <2>1, <2>2, MenuUntouched
<1>4. CASE Prepend
  <2>1. PageTyped' /\ MountTyped'
    BY <1>4 DEF Prepend, PageTyped, MountTyped
  <2>2. LangTyped' /\ RendersTyped' /\ UNCHANGED menuVars
    BY <1>4 DEF Prepend, LangTyped, langVars, RendersTyped, Change
  <2> QED BY <2>1, <2>2, MenuUntouched
<1>5. CASE Observe
  <2>1. PageTyped' /\ MountTyped'
    BY <1>5 DEF Observe, ScheduleTryMount, PageTyped, MountTyped
  <2>2. LangTyped' /\ RendersTyped' /\ UNCHANGED menuVars
    BY <1>5 DEF Observe, LangTyped, langVars, RendersTyped
  <2> QED BY <2>1, <2>2, MenuUntouched
<1>6. CASE Frame
  <2>1. UNCHANGED <<running, v2, bars, open, hiding, pointer, lang, relang, T, renders>>
        /\ scheduled' = FALSE
    BY <1>6 DEF Frame
  <2>2. CASE UNCHANGED <<nav, first, changed, menu, sub, labels>>
    <3>1. PageTyped' /\ MountTyped' /\ LangTyped' /\ RendersTyped' /\ UNCHANGED menuVars
      BY <2>1, <2>2 DEF PageTyped, MountTyped, LangTyped, RendersTyped, menuVars
    <3> QED BY <3>1, MenuUntouched
  <2>3. CASE /\ nav' = FindMountPoint /\ first' = TRUE /\ changed' = TRUE
             /\ UNCHANGED <<menu, sub, labels>> \/ (menu = "none" /\ BuildDropdown /\ BuildSubmenu)
    <3>1. MountTyped'
      BY <2>1, <2>3, MountPointTyped DEF MountTyped
    <3>2. PageTyped' /\ LangTyped' /\ RendersTyped'
      BY <2>1, <2>3 DEF PageTyped, LangTyped, RendersTyped, BuildDropdown
    <3>3. MenuTyped' /\ MenuCoherent'
      BY <2>1, <2>3 DEF MenuTyped, MenuCoherent, BuildDropdown, BuildSubmenu
    <3> QED BY <3>1, <3>2, <3>3
            DEF PageTyped, MountTyped, MenuTyped, LangTyped, RendersTyped
  <2> QED BY <1>6, <2>2, <2>3 DEF Frame, TryMount, CreateNav
<1>7. CASE ToggleDropdown \/ ClickElsewhere
  <2>1. CASE CloseAll /\ PointerStays
    <3>1. Now \in Sub
      BY DEF Now, Sub
    <3>2. /\ menu' \in {"none", "hidden"} /\ open' = FALSE
          /\ sub' \in {"none", "hidden"} /\ hiding' \in BOOLEAN
      BY <2>1, <3>1, SubTyped DEF CloseAll, Becomes, Sub
    <3>3. pointer' \in {"away", "switch", "item"} \cup {pointer} /\ pointer' # "sub"
      BY <2>1, <3>2 DEF PointerStays
    <3>4. MenuTyped' /\ MenuCoherent'
      BY <3>2, <3>3 DEF MenuTyped, MenuCoherent
    <3> QED BY <1>7, <3>4, MenuStep DEF ToggleDropdown, ClickElsewhere
  <2>2. CASE ~open /\ OpenDropdown /\ PointerStays
    <3>1. MenuTyped' /\ MenuCoherent'
      BY <2>2 DEF OpenDropdown, PointerStays, MenuTyped, MenuCoherent
    <3> QED BY <1>7, <2>2, <3>1, MenuStep DEF ToggleDropdown, ClickElsewhere
  <2> QED BY <1>7, <2>1, <2>2 DEF ToggleDropdown, ClickElsewhere
<1>8. CASE ClickSwitch
  <2>1. Now \in Sub
    BY DEF Now, Sub
  <2>2. /\ menu = "shown" /\ UNCHANGED <<menu, open>>
        /\ sub' \in {"none", "hidden", "shown"} /\ hiding' \in BOOLEAN
        /\ sub' = "shown" => ~hiding'
    <3>1. CASE sub = "shown"
      BY <1>8, <2>1, <3>1, SubTyped DEF ClickSwitch, Becomes, Sub
    <3>2. CASE sub # "shown"
      BY <1>8, <2>1, <3>2, SubTyped DEF ClickSwitch, Becomes, Sub
    <3> QED BY <3>1, <3>2
  <2>3. PointerStays
    BY <1>8 DEF ClickSwitch
  <2>4. MenuTyped' /\ MenuCoherent'
    BY <2>2, <2>3 DEF PointerStays, MenuTyped, MenuCoherent
  <2> QED BY <1>8, <2>4, MenuStep DEF ClickSwitch
<1>9. ASSUME NEW to \in {"switch", "sub", "item", "away"}, PointerMoves(to) PROVE NavInv'
  <2>1. Now \in Sub /\ Now.sub = sub
    BY DEF Now, Sub
  <2>2. Leaving(Now) \in Sub /\ Leaving(Now).sub = sub
    BY <2>1, SubTyped DEF Leaving
  <2>3. LET m == Entering(Leaving(Now), to) IN
          /\ m \in Sub
          /\ m.sub = "shown" => sub = "shown" \/ to = "switch"
          /\ to = "sub" => m.sub = sub /\ ~m.hiding
    <3>1. CASE to = "switch"
      BY <2>2, <3>1, SubTyped DEF Entering
    <3>2. CASE to = "sub"
      BY <2>2, <3>2, SubTyped DEF Entering
    <3>3. CASE to = "item"
      BY <2>2, <3>3, SubTyped DEF Entering
    <3>4. CASE to = "away"
      BY <2>2, <3>4 DEF Entering
    <3> QED BY <3>1, <3>2, <3>3, <3>4
  <2>4. /\ sub' \in {"none", "hidden", "shown"} /\ hiding' \in BOOLEAN
        /\ sub' = "shown" => sub = "shown" \/ to = "switch"
        /\ to = "sub" => sub' = sub /\ ~hiding'
    BY <1>9, <2>3 DEF PointerMoves, Becomes, Sub
  <2>5. MenuTyped' /\ MenuCoherent'
    BY <1>9, <2>4 DEF PointerMoves, MenuTyped, MenuCoherent
  <2> QED BY <1>9, <2>5, MenuStep DEF PointerMoves
<1>10. CASE HideSubFires
  <2>1. Now \in Sub
    BY DEF Now, Sub
  <2>2. sub' \in {"none", "hidden"} /\ hiding' \in BOOLEAN /\ UNCHANGED <<menu, open>> /\ PointerStays
    BY <1>10, <2>1, SubTyped DEF HideSubFires, Becomes, Sub
  <2>3. MenuTyped' /\ MenuCoherent'
    BY <2>2 DEF PointerStays, MenuTyped, MenuCoherent
  <2> QED BY <1>10, <2>3, MenuStep DEF HideSubFires
<1>11. ASSUME NEW l \in Lang, SetLang(l) PROVE NavInv'
  <2>1. PageTyped' /\ MountTyped' /\ UNCHANGED menuVars
    BY <1>11 DEF SetLang, PageTyped, MountTyped, mountVars
  <2>2. LangTyped' /\ RendersTyped'
    BY <1>11 DEF SetLang, LangTyped, RendersTyped, Change
  <2> QED BY <2>1, <2>2, MenuUntouched
<1>12. CASE Relabel
  <2>1. PageTyped' /\ MountTyped' /\ UNCHANGED menuVars
    BY <1>12 DEF Relabel, PageTyped, MountTyped, mountVars
  <2>2. LangTyped' /\ RendersTyped'
    BY <1>12 DEF Relabel, RefreshLabels, LangTyped, RendersTyped
  <2> QED BY <2>1, <2>2, MenuUntouched
<1> QED BY <1>1, <1>2, <1>3, <1>4, <1>5, <1>6, <1>7, <1>8, <1>9, <1>10, <1>11, <1>12 DEF NavRuns

-----------------------------------------------------------------------------
(***************************************************************************)
(* The window.                                                              *)
(***************************************************************************)
PageInv ==
  /\ page \in {"dashboard", "loading", "instance", "leaving"}
  /\ policy \in Policy /\ patched = PatchCspPolicyString(policy)

LEMMA EmptyPolicy == <<>> \in Policy /\ PatchCspPolicyString(<<>>) = <<>>
<1> DEFINE q == PatchCspPolicyString(<<>>)
<1>1. <<>> \in Policy
  BY EmptySeq DEF Policy
<1>2. q \in Seq(Directive) /\ DOMAIN q = DOMAIN <<>>
  BY <1>1, PatchShape DEF Policy
<1> HIDE DEF q
<1>3. Len(q) = 0
  BY <1>2
<1> QED BY <1>1, <1>2, <1>3, EmptySeq DEF q

LEMMA ToInv ==
  ASSUME NEW p \in {"dashboard", "loading", "instance", "leaving"}, To(p) PROVE PageInv'
BY EmptyPolicy DEF To, PageInv

Inv == DashInv /\ NavInv /\ PageInv

LEMMA InvStep == ASSUME Inv, [Next]_vars PROVE Inv'
<1>1. UNCHANGED dashVars => DashInv'
  BY DEF Inv, DashInv, dashVars, DashTypeOK, NothingHidden, Editing
<1>2. UNCHANGED navVars => NavInv'
  BY DEF Inv, NavInv, navVars, mountVars, menuVars, langVars, NavTypeOK, MenuCoherent
<1>3. UNCHANGED pageVars => PageInv'
  BY DEF Inv, PageInv, pageVars
<1>4. CASE Dashboard
  BY <1>2, <1>3, <1>4, DashStep DEF Dashboard, Inv
<1>5. CASE OpenInstance
  <2>1. NoList \in Instances
    BY DEF NoList, Instances
  <2> QED BY <1>2, <1>5, <2>1, BlankInv, ToInv DEF OpenInstance, Inv
<1>6. CASE Serve
  BY <1>1, <1>2, <1>6, PolicyAssumption DEF Serve, Inv, PageInv, Policy
<1>7. CASE RunScript
  <2>1. page \in {"dashboard", "loading", "instance", "leaving"}
        /\ page' = page /\ policy' = <<>> /\ patched' = <<>>
    BY <1>7 DEF RunScript, Inv, PageInv
  <2>2. PageInv'
    BY <2>1, EmptyPolicy DEF PageInv
  <2> QED BY <1>1, <1>7, <2>2, NavStep DEF RunScript, Inv
<1>8. CASE InstancePage
  BY <1>1, <1>3, <1>8, NavStep DEF InstancePage, Inv
<1>9. CASE ClickItem
  BY <1>1, <1>9, ToInv, LeaveInv DEF ClickItem, Inv
<1>10. CASE ServeDashboard
  BY <1>2, <1>10, BlankInv, ToInv DEF ServeDashboard, Reload, Inv
<1>11. CASE UNCHANGED vars
  BY <1>1, <1>2, <1>3, <1>11 DEF vars, Inv
<1> QED BY <1>4, <1>5, <1>6, <1>7, <1>8, <1>9, <1>10, <1>11 DEF Next

LEMMA InvHolds == Spec => []Inv
<1>1. Init => Inv
  <2> SUFFICES ASSUME Init PROVE Inv
    OBVIOUS
  <2>1. DashInv
    BY BlankTyped DEF Init, DashInit, DashInv, DashTypeOK, NothingHidden, Editing, BlankForm
  <2>2. NavInv
    <3>1. PageTyped /\ MountTyped
      BY DEF Init, NavInit, PageTyped, MountTyped
    <3>2. MenuTyped /\ RendersTyped /\ MenuCoherent
      <4>1. open \in BOOLEAN /\ hiding \in BOOLEAN /\ MenuCoherent
        BY DEF Init, NavInit, MenuCoherent
      <4>2. RendersTyped
        BY DEF Init, NavInit, RendersTyped
      <4> QED BY <4>1, <4>2 DEF Init, NavInit, MenuTyped
    <3>3. LangTyped
      BY SomeLangTyped DEF Init, NavInit, LangTyped
    <3> QED BY <3>1, <3>2, <3>3, NavTypeGroups DEF NavInv
  <2>3. PageInv
    BY EmptyPolicy DEF Init, PageInv
  <2> QED BY <2>1, <2>2, <2>3 DEF Inv
<1> QED BY <1>1, InvStep, PTL DEF Spec

\* Every variable has its type.
THEOREM TypeCorrect == Spec => []TypeOK
<1>1. Inv => TypeOK
  BY PatchShape DEF Inv, DashInv, NavInv, PageInv, TypeOK, Policy
<1> QED BY <1>1, InvHolds, PTL

\* A save does nothing to a stored password that the form does not display for that
\* instance, and it does what is displayed until a drag out of the form drops a removal
\* and leaves its note (resetOpenPassUi, closeForm, handleFormSubmit).
THEOREM PasswordsSafe == Spec => OnlyShownIsSent
<1>1. Inv' => NothingHidden'
  BY DEF Inv, DashInv
<1>2. Inv /\ Inv' /\ [Next]_vars
        => [NothingHidden' /\ (SaysWhatItDoes /\ ~SaysWhatItDoes' => DragOut("form"))]_dashVars
  <2> SUFFICES ASSUME Inv, Inv', [Next]_vars, SaysWhatItDoes, ~DragOut("form"),
                      ~UNCHANGED dashVars
               PROVE  SaysWhatItDoes'
    BY <1>1
  <2>1. CASE Dashboard
    BY <2>1, SaysStep DEF Dashboard, Inv
  <2>2. CASE OpenInstance \/ ServeDashboard
    BY <2>2 DEF OpenInstance, ServeDashboard, Reload, Blank, SaysWhatItDoes
  <2>3. CASE Serve \/ RunScript \/ InstancePage \/ ClickItem \/ UNCHANGED vars
    BY <2>3 DEF Serve, RunScript, InstancePage, ClickItem, vars
  <2> QED BY <2>1, <2>2, <2>3 DEF Next
<1> QED BY <1>2, InvHolds, PTL DEF Spec, OnlyShownIsSent

\* The menu, its submenu and the timer that closes it agree, whatever is rendered and
\* wherever the pointer goes (closeAll, showSub, scheduleCloseSub).
THEOREM MenuSafe == Spec => []MenuCoherent
<1>1. Inv => MenuCoherent
  BY DEF Inv, NavInv
<1> QED BY <1>1, InvHolds, PTL

\* A page that gets the script gets it with a policy that allows it, and that is else no
\* laxer than OpenCode's (patchCspHeader, patchCspInHtml).
THEOREM PoliciesKept == Spec => []PolicyKept
<1>1. Inv => PolicyKept
  BY PortalRuns, PatchAdmitsNone, PatchLosesNone DEF Inv, PageInv, PolicyKept
<1> QED BY <1>1, InvHolds, PTL

=============================================================================
