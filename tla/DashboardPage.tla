----------------------------- MODULE DashboardPage -----------------------------
(***************************************************************************)
(* The dashboard in a browser: its dialogs to create, edit, delete and      *)
(* deploy an instance, their requests to the API, and the pushes of the     *)
(* instance list (src/server/webui/dashboard-page.ts).                      *)
(*                                                                         *)
(* Of an instance only what the dialogs tell apart is here: whether it      *)
(* exists and whether an OpenCode password is stored for it.  Others change *)
(* the instances too, so that any list may be served or pushed.  A person   *)
(* may do anything the page lets them at any time; with the keyboard also   *)
(* what an open dialog covers.  Filters, sorting, texts and the dialogs     *)
(* without state (details, setup guide) are left out.                       *)
(***************************************************************************)
EXTENDS Naturals, FiniteSets

CONSTANTS
  Id,         \* instance ids
  MaxFlight,  \* bound on requests under way
  None

ASSUME NoneAssumption == None \notin Id
ASSUME FlightAssumption == MaxFlight \in Nat

VARIABLES
  list,     \* allInstances, as last rendered or pushed: "absent", "plain", or "secret"
            \* if a password is stored
  visible,  \* the dialogs with class "visible"
  form,     \* the add/edit dialog: aeEditId, aeId.readOnly, which of the password's
            \* three parts is displayed, whose password is in aeOpenPass, and
            \* passClearPending
  del,      \* the delete dialog: deleteTargetId, and whether its button is disabled
  deploy,   \* the deploy dialog: the id in its title, whose instructions it shows
            \* (None: it is loading, or shows an error)
  flight    \* requests whose answer is awaited

dashVars == <<list, visible, form, del, deploy, flight>>

Instances == [Id -> {"absent", "plain", "secret"}]
Dialogs == {"form", "delete", "deploy"}
Form == [edit: Id \cup {None}, readOnly: BOOLEAN, shows: {"status", "input", "note"},
         pass: SUBSET (Id \cup {None}), clear: BOOLEAN]
Save == [op: {"save"}, id: Id, password: {"keep", "set", "remove"}]
Call == Save \cup [op: {"delete", "deploy"}, id: Id]

BlankForm == [edit |-> None, readOnly |-> FALSE, shows |-> "input", pass |-> {}, clear |-> FALSE]
BlankDelete == [target |-> None, busy |-> FALSE]
BlankDeploy == [title |-> None, shows |-> None]

\* The page as it is served: a list is in it, no dialog is open.
Blank(l) ==
  /\ list' = l
  /\ visible' = {} /\ form' = BlankForm /\ del' = BlankDelete /\ deploy' = BlankDeploy
  /\ flight' = {}
Reload == \E l \in Instances : Blank(l)

DashInit ==
  /\ list \in Instances
  /\ visible = {} /\ form = BlankForm /\ del = BlankDelete /\ deploy = BlankDeploy
  /\ flight = {}

Open(d) == visible' = visible \cup {d}
Listed(i) == list[i] # "absent"
Fetch(call) == /\ Cardinality(flight) < MaxFlight
               /\ flight' = flight \cup {call}

-----------------------------------------------------------------------------
\* resetOpenPassUi.  Mutant: a removal that was asked for before stays pending.
ResetKeepingClear(f, stored) ==
  [f EXCEPT !.pass = {}, !.shows = IF stored THEN "status" ELSE "input"]
ResetOpenPassUi(f, stored) ==
  [f EXCEPT !.clear = FALSE, !.pass = {}, !.shows = IF stored THEN "status" ELSE "input"]

\* aeId.readOnly is left as it is.
ShowAdd ==
  /\ form' = ResetOpenPassUi([form EXCEPT !.edit = None], FALSE)
  /\ Open("form")
  /\ UNCHANGED <<list, del, deploy, flight>>

ShowEdit(i) ==
  /\ Listed(i)
  /\ form' = ResetOpenPassUi([form EXCEPT !.edit = i, !.readOnly = TRUE], list[i] = "secret")
  /\ Open("form")
  /\ UNCHANGED <<list, del, deploy, flight>>

ChangeForm(f) == "form" \in visible /\ form' = f
                 /\ UNCHANGED <<list, visible, del, deploy, flight>>

\* The password is typed.
TypePass == form.shows = "input" /\ ChangeForm([form EXCEPT !.pass = {form.edit}])
ShowOpenPassModify ==
  form.shows = "status" /\ ChangeForm([form EXCEPT !.clear = FALSE, !.shows = "input"])
MarkOpenPassClear ==
  form.shows = "status" /\ ChangeForm([form EXCEPT !.clear = TRUE, !.shows = "note", !.pass = {}])
CancelOpenPassClear ==
  /\ form.shows = "note"
  /\ ChangeForm(ResetOpenPassUi(form, form.edit # None /\ list[form.edit] = "secret"))

\* handleFormSubmit, up to its await.  A new password is sent if one was typed, on an
\* update also that the stored one is to be removed.
PasswordSent ==
  IF form.edit # None /\ form.clear THEN "remove" ELSE IF form.pass # {} THEN "set" ELSE "keep"
Submit(i) ==
  /\ "form" \in visible
  /\ form.edit \in {None, i}
  /\ Fetch([op |-> "save", id |-> i, password |-> PasswordSent])
  /\ UNCHANGED <<list, visible, form, del, deploy>>

ShowDelete(i) ==
  /\ Listed(i)
  /\ del' = [target |-> i, busy |-> FALSE]
  /\ Open("delete")
  /\ UNCHANGED <<list, form, deploy, flight>>

\* doDelete, up to its await; without a target the click does nothing.
DoDelete ==
  /\ "delete" \in visible /\ ~del.busy /\ del.target # None
  /\ del' = [del EXCEPT !.busy = TRUE]
  /\ Fetch([op |-> "delete", id |-> del.target])
  /\ UNCHANGED <<list, visible, form, deploy>>

\* showDeploy, up to its await: title and "loading".
ShowDeploy(i) ==
  /\ Listed(i)
  /\ deploy' = [title |-> i, shows |-> None]
  /\ Open("deploy")
  /\ Fetch([op |-> "deploy", id |-> i])
  /\ UNCHANGED <<list, form, del>>

-----------------------------------------------------------------------------
\* What closeForm, closeDelete and closeDeploy do whether or not the dialog goes.
Reset(d) ==
  /\ form' = IF d = "form" THEN [form EXCEPT !.readOnly = FALSE, !.clear = FALSE] ELSE form
  /\ del' = IF d = "delete" THEN [del EXCEPT !.target = None] ELSE del
  /\ UNCHANGED deploy

\* A dialog is closed by its button or by a click beside it (closeModal).
Close(d) ==
  /\ d \in visible
  /\ visible' = visible \ {d}
  /\ Reset(d)
  /\ UNCHANGED <<list, flight>>

\* A click beside the dialog whose mouse button went down inside it, or that ends a
\* selection of text: closeModal returns early, its caller goes on.
DragOut(d) ==
  /\ d \in visible
  /\ Reset(d)
  /\ UNCHANGED <<list, visible, flight>>

\* Escape hides the dialogs and resets nothing.
Escape ==
  /\ visible # {}
  /\ visible' = {}
  /\ UNCHANGED <<list, form, del, deploy, flight>>

-----------------------------------------------------------------------------
\* A save or a deletion has been done: the dialog closes and the page is loaded anew,
\* whatever else was open.
Done(call) ==
  /\ call \in flight /\ call.op \in {"save", "delete"}
  /\ Reload

Enable(call) == del' = IF call.op = "delete" THEN [del EXCEPT !.busy = FALSE] ELSE del

\* Or it has failed, or its answer got lost: an error is displayed.
Failed(call) ==
  /\ call \in flight
  /\ flight' = flight \ {call}
  /\ Enable(call)
  /\ deploy' = IF call.op = "deploy" THEN [deploy EXCEPT !.shows = None] ELSE deploy
  /\ UNCHANGED <<list, visible, form>>

\* The answer to showDeploy fills the dialog, whatever its title is by now.
DeployAnswered(call) ==
  /\ call \in flight /\ call.op = "deploy"
  /\ flight' = flight \ {call}
  /\ deploy' = [deploy EXCEPT !.shows = call.id]
  /\ UNCHANGED <<list, visible, form, del>>

\* es.onmessage: the pushed list replaces allInstances; dialogs stay as they are.
Pushed == list' \in Instances /\ UNCHANGED <<visible, form, del, deploy, flight>>

DashNext ==
  \/ ShowAdd
  \/ \E i \in Id : ShowEdit(i) \/ Submit(i) \/ ShowDelete(i) \/ ShowDeploy(i)
  \/ TypePass \/ ShowOpenPassModify \/ MarkOpenPassClear \/ CancelOpenPassClear
  \/ DoDelete
  \/ \E d \in Dialogs : Close(d) \/ DragOut(d)
  \/ Escape
  \/ \E call \in flight : Done(call) \/ Failed(call) \/ DeployAnswered(call)
  \/ Pushed
  \/ Reload

-----------------------------------------------------------------------------
\* Every variable has its type.
DashTypeOK ==
  /\ list \in Instances
  /\ visible \subseteq Dialogs
  /\ form \in Form
  /\ del \in [target: Id \cup {None}, busy: BOOLEAN]
  /\ deploy \in [title: Id \cup {None}, shows: Id \cup {None}]
  /\ flight \subseteq Call

\* Nothing is pending that the form does not display, or that belongs to a dialog about
\* another instance.
NothingHidden ==
  /\ form.clear => form.shows = "note"
  /\ form.pass # {} => form.shows = "input" /\ form.pass = {form.edit}

\* What the open form tells its reader a save will do is what a save sends.
Displayed ==
  IF form.shows = "note" THEN "remove" ELSE IF form.shows = "input" /\ form.pass # {} THEN "set" ELSE "keep"
SaysWhatItDoes == "form" \in visible => PasswordSent = Displayed

\* A save does nothing to a stored password that the form does not display, and to that
\* of the displayed instance only: neither a password typed nor a removal asked for in
\* one dialog survives Escape into the next (passClearPending, aeOpenPass).  And it does
\* what is displayed, but for one flaw of closeForm: a drag out of the form drops the
\* removal and leaves the note "Password will be removed on save" (en.ts:90).
OnlyShownIsSent ==
  [][NothingHidden' /\ (SaysWhatItDoes /\ ~SaysWhatItDoes' => DragOut("form"))]_dashVars

=============================================================================
