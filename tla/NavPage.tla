-------------------------------- MODULE NavPage --------------------------------
(***************************************************************************)
(* The script the gateway injects into OpenCode's pages, in a browser: it   *)
(* mounts the "OC Portal" button into the title bar, again whenever the     *)
(* application has re-rendered it, and runs a menu with a submenu           *)
(* (src/server/proxy/nav-script.ts).                                        *)
(*                                                                         *)
(* The document (external) is its title bars, in document order, and the    *)
(* language of its root element; what it is like before the script runs     *)
(* does not matter.  Positions, styles and the items' own effects are left  *)
(* out.                                                                     *)
(***************************************************************************)
EXTENDS Naturals

CONSTANTS
  Bars,        \* title bars a page may have at once, numbered in document order
  Lang,        \* languages
  MaxRenders,  \* bound on changes of the document
  NoBar

ASSUME BarAssumption == Bars \in Nat /\ NoBar \notin 1 .. Bars
ASSUME LangAssumption == Lang # {}
ASSUME RenderAssumption == MaxRenders \in Nat

Bar == 1 .. Bars

VARIABLES
  running,   \* the script has been started
  v2,        \* isV2(): the page has the new layout
  bars,      \* every #opencode-titlebar-right: "absent", "shown", or "hidden" (width 0)
  nav,       \* the bar #_ocp_nav is in
  first,     \* it is the bar's first element
  changed,   \* mutation records await the first observer
  scheduled, \* scheduled: an animation frame has been requested
  menu,      \* #_ocp_dropdown: "none" if not built, else "hidden" or "shown"
  open,      \* dropdownOpen
  sub,       \* #_ocp_submenu, likewise
  hiding,    \* hideSubTimer is armed
  pointer,   \* where the mouse is: on the switch item, the submenu, another item, or away
  lang,      \* the document's language
  relang,    \* a change of it awaits the second observer
  T,         \* the language of the texts in use
  labels,    \* the language of the menu's labels
  renders    \* changes so far (bounds the model only)

mountVars == <<nav, first, changed, scheduled>>
menuVars == <<menu, open, sub, hiding, pointer>>
langVars == <<lang, relang, T, labels>>
navVars == <<running, v2, bars, mountVars, menuVars, langVars, renders>>

\* A document whose script has not run.
SomeLang == CHOOSE l \in Lang : TRUE
NavInit ==
  /\ running = FALSE /\ v2 = FALSE /\ bars = [b \in Bar |-> "absent"]
  /\ nav = NoBar /\ first = FALSE /\ changed = FALSE /\ scheduled = FALSE
  /\ menu = "none" /\ open = FALSE /\ sub = "none" /\ hiding = FALSE /\ pointer = "away"
  /\ lang = SomeLang /\ relang = FALSE /\ T = SomeLang /\ labels = SomeLang
  /\ renders = 0

\* The document is left, or loaded anew: nothing of the script survives.
NavLeave ==
  /\ running' = FALSE /\ v2' = FALSE /\ bars' = [b \in Bar |-> "absent"]
  /\ nav' = NoBar /\ first' = FALSE /\ changed' = FALSE /\ scheduled' = FALSE
  /\ menu' = "none" /\ open' = FALSE /\ sub' = "none" /\ hiding' = FALSE /\ pointer' = "away"
  /\ lang' = SomeLang /\ relang' = FALSE /\ T' = SomeLang /\ labels' = SomeLang
  /\ renders' = 0

Change == running /\ renders < MaxRenders /\ renders' = renders + 1
Present == {b \in Bar : bars[b] # "absent"}

-----------------------------------------------------------------------------
\* The script is reached: loadT, scheduleTryMount, and both observers.
Start ==
  /\ ~running
  /\ running' = TRUE
  /\ v2' \in BOOLEAN /\ bars' \in [Bar -> {"absent", "shown"}] /\ lang' \in Lang
  /\ T' = lang' /\ labels' = lang'
  /\ scheduled' = TRUE
  /\ UNCHANGED <<nav, first, changed, menuVars, relang, renders>>

\* The application renders: a bar, with what was in it, goes or comes.
Render(b) ==
  /\ Change
  /\ \E s \in {"absent", "shown", "hidden"} : bars' = [bars EXCEPT ![b] = s]
  /\ (bars'[b] = "absent") <=> (bars[b] # "absent")
  /\ nav' = IF nav = b THEN NoBar ELSE nav
  /\ changed' = TRUE
  /\ UNCHANGED <<running, v2, first, scheduled, menuVars, langVars>>

\* It inserts an element of its own before the button.
Prepend ==
  /\ Change /\ nav # NoBar /\ first
  /\ first' = FALSE
  /\ changed' = TRUE
  /\ UNCHANGED <<running, v2, bars, nav, scheduled, menuVars, langVars>>

\* A bar is shown or hidden by style alone, which no observer sees.
Restyle(b) ==
  /\ Change /\ bars[b] # "absent"
  /\ bars' = [bars EXCEPT ![b] = IF @ = "shown" THEN "hidden" ELSE "shown"]
  /\ UNCHANGED <<running, v2, mountVars, menuVars, langVars>>

\* The first observer: scheduleTryMount.  Mutant: a frame is not asked for twice.
ScheduleOnce == scheduled' = (scheduled \/ (nav = NoBar /\ menu = "none"))
ScheduleTryMount == scheduled' = TRUE
Observe ==
  /\ running /\ changed
  /\ changed' = FALSE
  /\ ScheduleTryMount
  /\ UNCHANGED <<running, v2, bars, nav, first, menuVars, langVars, renders>>

Least(S) == CHOOSE b \in S : \A c \in S : b <= c
Greatest(S) == CHOOSE b \in S : \A c \in S : c <= b
Visible == {b \in Bar : bars[b] = "shown"}
\* findMountPoint: on a new page the first bar, else the last one that is visible.
FindMountPoint ==
  IF Present = {} THEN NoBar
  ELSE IF v2 \/ Visible = {} THEN Least(Present) ELSE Greatest(Visible)

\* createNav: the button is new, the menu is found again if it has been built.
BuildDropdown == menu' = "hidden" /\ labels' = T
BuildSubmenu == sub' = "hidden"
CreateNav ==
  IF menu = "none" THEN BuildDropdown /\ BuildSubmenu ELSE UNCHANGED <<menu, sub, labels>>

\* tryMount, in the animation frame; moving the button is a mutation, too.
TryMount ==
  LET host == FindMountPoint IN
    IF host = NoBar \/ (nav = host /\ first)
      THEN UNCHANGED <<nav, first, changed, menu, sub, labels>>
      ELSE /\ nav' = host /\ first' = TRUE /\ changed' = TRUE
           /\ IF nav = NoBar THEN CreateNav ELSE UNCHANGED <<menu, sub, labels>>
Frame ==
  /\ scheduled
  /\ scheduled' = FALSE
  /\ TryMount
  /\ UNCHANGED <<running, v2, bars, open, hiding, pointer, lang, relang, T, renders>>

-----------------------------------------------------------------------------
\* Operators on [sub, hiding]: cancelHideSub, closeSub, scheduleCloseSub, showSub.
\* Mutant: the timer goes on while the submenu is entered.
KeepHiding(m) == m
CancelHideSub(m) == [m EXCEPT !.hiding = FALSE]
CloseSub(m) == [CancelHideSub(m) EXCEPT !.sub = IF @ = "none" THEN "none" ELSE "hidden"]
ScheduleCloseSub(m) == [m EXCEPT !.hiding = TRUE]
ShowSub(m) == [CancelHideSub(m) EXCEPT !.sub = IF @ = "none" THEN "none" ELSE "shown"]
Now == [sub |-> sub, hiding |-> hiding]
Becomes(m) == sub' = m.sub /\ hiding' = m.hiding

CloseAll ==
  /\ Becomes(CloseSub(Now))
  /\ menu' = IF menu = "none" THEN "none" ELSE "hidden"
  /\ open' = FALSE
OpenDropdown == menu # "none" /\ menu' = "shown" /\ open' = TRUE /\ UNCHANGED <<sub, hiding>>

\* What the pointer was on may have been hidden beneath it.
PointerStays ==
  pointer' = IF (pointer = "sub" /\ sub' # "shown")
                \/ (pointer \in {"switch", "item"} /\ menu' # "shown") THEN "away" ELSE pointer

\* The button is clicked.
ToggleDropdown ==
  /\ nav # NoBar
  /\ IF open THEN CloseAll ELSE OpenDropdown
  /\ PointerStays
  /\ UNCHANGED <<running, v2, bars, mountVars, langVars, renders>>

\* A click anywhere else in the document.
ClickElsewhere ==
  /\ running
  /\ CloseAll
  /\ PointerStays
  /\ UNCHANGED <<running, v2, bars, mountVars, langVars, renders>>

\* The switch item is clicked, with the mouse or the keyboard.
ClickSwitch ==
  /\ menu = "shown"
  /\ Becomes(IF sub = "shown" THEN CloseSub(Now) ELSE ShowSub(Now))
  /\ UNCHANGED menu
  /\ PointerStays
  /\ UNCHANGED <<running, v2, bars, mountVars, open, langVars, renders>>

\* The mouse moves: it leaves one element, then enters another.
Leaving(m) == IF pointer \in {"switch", "sub"} THEN ScheduleCloseSub(m) ELSE m
Entering(m, to) ==
  CASE to = "switch" -> ShowSub(m)
    [] to = "sub" -> CancelHideSub(m)
    [] to = "item" -> CloseSub(m)
    [] OTHER -> m
PointerMoves(to) ==
  /\ to # pointer
  /\ to \in {"switch", "item"} => menu = "shown"
  /\ to = "sub" => sub = "shown"
  /\ pointer' = to
  /\ Becomes(Entering(Leaving(Now), to))
  /\ UNCHANGED <<running, v2, bars, mountVars, menu, open, langVars, renders>>

\* 80 ms after the pointer left.
HideSubFires ==
  /\ hiding
  /\ Becomes(CloseSub(Now))
  /\ UNCHANGED menu
  /\ PointerStays
  /\ UNCHANGED <<running, v2, bars, mountVars, open, langVars, renders>>

-----------------------------------------------------------------------------
\* The application changes the language.
SetLang(l) ==
  /\ Change /\ l # lang
  /\ lang' = l
  /\ relang' = TRUE
  /\ UNCHANGED <<running, v2, bars, mountVars, menuVars, T, labels>>

\* The second observer: refreshLabels.  Mutant: the texts are loaded only if there is
\* a menu to label.
RelabelOnly ==
  IF menu = "none" THEN UNCHANGED <<T, labels>> ELSE (T' = lang /\ labels' = lang)
RefreshLabels ==
  T' = lang /\ labels' = IF menu = "none" THEN labels ELSE lang
Relabel ==
  /\ relang
  /\ relang' = FALSE
  /\ RefreshLabels
  /\ UNCHANGED <<running, v2, bars, mountVars, menuVars, lang, renders>>

\* A step of a page whose script has been started.
NavRuns ==
  \/ \E b \in Bar : Render(b) \/ Restyle(b)
  \/ Prepend \/ Observe \/ Frame
  \/ ToggleDropdown \/ ClickElsewhere \/ ClickSwitch
  \/ \E to \in {"switch", "sub", "item", "away"} : PointerMoves(to)
  \/ HideSubFires
  \/ \E l \in Lang : SetLang(l)
  \/ Relabel

-----------------------------------------------------------------------------
\* Every variable has its type.
NavTypeOK ==
  /\ running \in BOOLEAN /\ v2 \in BOOLEAN
  /\ bars \in [Bar -> {"absent", "shown", "hidden"}]
  /\ nav \in Bar \cup {NoBar} /\ first \in BOOLEAN
  /\ changed \in BOOLEAN /\ scheduled \in BOOLEAN
  /\ menu \in {"none", "hidden", "shown"} /\ open \in BOOLEAN
  /\ sub \in {"none", "hidden", "shown"} /\ hiding \in BOOLEAN
  /\ pointer \in {"away", "switch", "sub", "item"}
  /\ lang \in Lang /\ relang \in BOOLEAN /\ T \in Lang /\ labels \in Lang
  /\ renders \in 0 .. MaxRenders

\* The menu's three records of being open agree however often the button is built
\* anew under it, no submenu is left over without its menu, and the 80 ms timer
\* never runs against a submenu the pointer is on.
MenuCoherent ==
  /\ open <=> (menu = "shown")
  /\ sub = "shown" => menu = "shown"
  /\ pointer = "sub" => sub = "shown" /\ ~hiding

\* "Injected controls must auto-restore" (ADR 0005): while the page has a title bar
\* the button gets back into one, in front, whatever the application renders.
ControlsRestored ==
  (running /\ Present # {}) ~> ((nav # NoBar /\ first) \/ Present = {} \/ ~running)

\* The menu ends up in the document's language, also if that changes before the menu
\* is built or while it is built.
LabelsFollow == (running /\ menu # "none" /\ labels # lang) ~> (labels = lang \/ ~running)

=============================================================================
