------------------------------ MODULE Interface ------------------------------
(***************************************************************************)
(* The interactive side of the application (src/src/app.rs): the frame     *)
(* that is drawn, the keys and the mouse, the overlays, focus, zoom and    *)
(* the sizes of emulators and processes, under a terminal that is resized  *)
(* at any time.  One turn of main_loop is Reap*, Render or Skip, then what *)
(* the pumps start, then at most one event.  Output, tasks and reconnection *)
(* policy are in AgentApp; when a frame is due is in FrameTick.            *)
(*                                                                         *)
(* The cursors of the overlays are one variable: each is reset when its    *)
(* overlay opens and is not used after it closes.                          *)
(***************************************************************************)
EXTENDS Screen, FiniteSets, SequencesExt

CONSTANTS Terminals,      \* the sizes the terminal may have
          SidebarWidth,   \* layout.sidebar_width of the configuration
          AtStart,        \* panes on the command line; orchestrate has none
          Options,        \* entries of the spawn picker, the last one "Custom command"
          BranchWidth,    \* of the branch a pane shows in the sidebar, 0 if none
          MaxItems,       \* issues and pull requests of a repository, at most
          GiveUpAfter,    \* frames that panic in a row before the loop gives up
          MaxChanges      \* bound on what the user and the world change

ASSUME InterfaceAssumption ==
  /\ Terminals \subseteq [w : Nat \ {0}, h : Nat \ {0}]
  /\ {SidebarWidth, AtStart, BranchWidth, MaxItems, MaxChanges} \subseteq Nat
  /\ {Options, GiveUpAfter} \subseteq Nat \ {0}

VARIABLES term,           \* the terminal's size
          resized,        \* an Event::Resize is waiting to be read
          known,          \* cols, rows: the size last reported
          measured,       \* the size the frame being drawn was laid out for
          panes,          \* with the size of its process, or NoSize without one
          focus,          \* index of the focused pane, from 0
          mode,
          show_help,
          zoomed,
          view,           \* sidebar_width, sidebar_hidden, show_status_bar
          cursor,         \* jump_selected, spawn_selected, sidebar_nav, tasks_selected, settings_cursor
          text,           \* jump_query, custom_cmd, tasks_repo_input
          items,          \* how many tasks_items, or FetchFailed
          pane_rects,     \* where the last frame put the panes
          drag_origin,    \* the pane the button went down in, or NoDrag
          streak,         \* render_panic_streak
          phase,
          changes,        \* how many of MaxChanges were used
          hand,           \* bound: this user takes the overlays or the mouse, not both
          shifted         \* history: a pane was closed during a drag

screen == <<term, resized, known, measured>>
overlay == <<mode, show_help, cursor, text, items>>
mouse == <<pane_rects, drag_origin>>
vars == <<screen, panes, focus, overlay, zoomed, view, mouse, streak, phase, changes, hand, shifted>>

NoSize == Size(0, 0)
NoDrag == -1
FetchFailed == -1
Texts == {"", "agent", "task", "none"}
NameWidth == [agent |-> 5, task |-> 4]
Keys == {"Esc", "Enter", "Backspace", "Up", "Down", "Left", "Right", "Tab", "BackTab", "Other"}
NavItems == <<"Activity", "TasksRepo", "Settings">>
SettingsRows == 4
MAX_TOASTS == 3

Ended == {"quit", "auto_exit", "gave_up"}
Spend == changes < MaxChanges /\ changes' = changes + 1

-----------------------------------------------------------------------------
(* Panes *)

Exists(i) == i \in 0..(Len(panes) - 1)

\* A new pane: its emulator and its process have the size of the whole terminal
\* until a frame gives the pane its place.
NewPane(name, started) ==
  [name |-> name, emu |-> known, pty |-> IF started THEN known ELSE NoSize,
   pinned |-> FALSE, selected |-> FALSE, reborn |-> FALSE]

CanSpawn == Len(panes) < MaxPanesFor(known, view)

\* spawn_one, and the focus goes to the new pane.
SpawnFocused ==
  /\ Spend
  /\ \E started \in BOOLEAN : panes' = Append(panes, NewPane("agent", started))
  /\ focus' = Len(panes)

-----------------------------------------------------------------------------
(* One frame *)

Zooming == zoomed /\ Exists(focus)
Rects == IF Zooming THEN <<PaneArea(term, view)>> ELSE SplitPanes(PaneArea(term, view), Len(panes))
Drawn == IF Zooming THEN {focus + 1} ELSE 1..Len(panes)
PlaceOf(i) == IF Zooming THEN PaneArea(term, view) ELSE Rects[i]

Matching == {i \in 0..(Len(panes) - 1) : text \in {"", panes[i + 1].name}}

\* The entry of the jump palette under the cursor, if there is one.
Picked == {i \in Matching : Cardinality({j \in Matching : j < i}) = cursor}

OpenBoxes ==
  (IF show_help THEN {HelpBox(measured)} ELSE {})
  \cup CASE mode = "Activity" -> {ActivityBox(measured)}
         [] mode = "Dashboard" -> {DashboardBox(measured)}
         [] mode = "Jump" -> {JumpBox(measured, Cardinality(Matching))}
         [] mode = "Spawn" -> {SpawnBox(measured, Options)}
         [] mode = "Sidebar" -> {NavBox(measured, Len(NavItems))}
         [] mode = "SpawnCustom" -> {CustomBox(measured)}
         [] mode = "TasksRepo" -> {TasksRepoBox(measured)}
         [] mode = "TasksList" -> {TasksListBox(measured, items, items = FetchFailed)}
         [] mode = "Settings" -> {SettingsBox(measured, SettingsRows)}
         [] OTHER -> {}

\* What the sidebar shows: the rows of each entry listed, and the other lines.
\* Summaries take what they get.
Pinned == [i \in 1..Len(panes) |-> panes[i].pinned]
EntriesListed ==
  LET at == Entries(Pinned, focus + 1, view.width, Monus(measured.h, 2)) IN
  [i \in DOMAIN at |-> EntryRow(at[i], [name |-> NameWidth[panes[i].name], branch |-> BranchWidth, summary |-> measured.w])]
SidebarLines(entries) ==
  SidebarTitles(Pinned, view.width, Monus(measured.h, 2))
    \cup TallyRow(Pinned, view.width, Monus(measured.h, 2))
    \cup UNION {{entries[i][piece] : piece \in DOMAIN entries[i]} : i \in DOMAIN entries}

\* A slip: only a resized terminal gives the panes new sizes.
FittedOnResize(i) ==
  LET size == Inner(PlaceOf(i)) IN
  IF known = term /\ panes[i].emu # known THEN panes[i]
  ELSE [panes[i] EXCEPT !.emu = size, !.pty = IF @ = NoSize THEN NoSize ELSE size, !.reborn = FALSE]

\* resize_viewport and session.resize, both only when the emulator's size is not right.
Fitted(i) ==
  LET size == Inner(PlaceOf(i)) IN
  IF panes[i].emu = size THEN panes[i]
  ELSE [panes[i] EXCEPT !.emu = size, !.pty = IF @ = NoSize THEN NoSize ELSE size, !.reborn = FALSE]

\* The size is read, and the panes laid out and fitted for it ...
Render ==
  /\ phase = "frame"
  /\ pane_rects' = Rects
  /\ panes' = [i \in 1..Len(panes) |-> IF i \in Drawn THEN Fitted(i) ELSE panes[i]]
  /\ measured' = term
  /\ phase' = "draw"
  /\ UNCHANGED <<term, resized, known, focus, overlay, zoomed, view, drag_origin, streak, changes, hand, shifted>>

\* ... and drawn into a buffer that Terminal::draw makes as large as the terminal
\* is by now.  A cell outside of it panics and the frame is lost; lines of the
\* sidebar are cut at its right edge.
Draw ==
  /\ phase = "draw"
  /\ LET below(r) == [r EXCEPT !.y = @ + 1, !.w = Least(@, Monus(term.w, r.x))]
         sidebar == IF ShowsSidebar(measured, view) THEN {below(r) : r \in SidebarLines(EntriesListed)} ELSE {}
     IN \E toasts \in 0..MAX_TOASTS :
          IF \A r \in ToSet(pane_rects) \cup OpenBoxes \cup sidebar \cup ToastRows(measured, view, toasts) : Inside(r, term)
          THEN streak' = 0 /\ phase' = "handle" /\ measured' = NoSize
          ELSE /\ streak' = streak + 1
               /\ IF streak' >= GiveUpAfter THEN phase' = "gave_up" /\ UNCHANGED measured
                  ELSE phase' = "handle" /\ measured' = NoSize
  /\ UNCHANGED <<term, resized, known, panes, focus, overlay, zoomed, view, mouse, changes, hand, shifted>>

Skip ==
  /\ phase = "frame"
  /\ phase' = "handle"
  /\ UNCHANGED <<screen, panes, focus, overlay, zoomed, view, mouse, streak, changes, hand, shifted>>

\* reap_exited, at the start of a turn.
Reap(i) ==
  /\ phase = "frame"
  /\ panes[i].pty # NoSize
  /\ Spend
  /\ panes' = [panes EXCEPT ![i].pty = NoSize]
  /\ UNCHANGED <<screen, focus, overlay, zoomed, view, mouse, streak, phase, hand, shifted>>

\* pump_orchestration: there is no can_spawn_pane here, and the focus stays.
SpawnTask ==
  /\ phase = "handle"
  /\ Spend
  /\ \E started \in BOOLEAN : panes' = Append(panes, NewPane("task", started))
  /\ UNCHANGED <<screen, focus, overlay, zoomed, view, mouse, streak, phase, hand, shifted>>

\* pump_reconnect, respawn: the new process has the size of the whole terminal,
\* the emulator keeps its own.
Respawn(i) ==
  /\ phase = "handle"
  /\ panes[i].pty = NoSize
  /\ Spend
  /\ panes' = [panes EXCEPT ![i].pty = known, ![i].reborn = TRUE]
  /\ UNCHANGED <<screen, focus, overlay, zoomed, view, mouse, streak, phase, hand, shifted>>

-----------------------------------------------------------------------------
(* Keys *)

\* The help page takes any key.
ForHelp(k) == show_help

Open(m) ==
  /\ mode' = m /\ cursor' = 0 /\ text' = "" /\ items' = 0
  /\ UNCHANGED show_help
Close == Open("Normal")

MoveCursor(k, n) ==
  /\ cursor' = CASE k = "Up" -> Monus(cursor, 1)
                 [] k = "Down" /\ cursor + 1 < n -> cursor + 1
                 [] OTHER -> cursor
  /\ UNCHANGED <<mode, show_help, text, items>>

Type(s) == text' = s /\ UNCHANGED <<mode, show_help, cursor, items>>
SamePanes == UNCHANGED <<panes, focus, changes>>
SameKeys == UNCHANGED <<screen, zoomed, view, mouse, shifted>>

DismissHelp(k) ==
  /\ ForHelp(k)
  /\ show_help' = FALSE
  /\ SamePanes /\ SameKeys /\ UNCHANGED <<mode, cursor, text, items>>

\* Ctrl+Alt+P, from any mode.
Gateway == ~ForHelp("Gateway") /\ Open("Pane") /\ SamePanes /\ SameKeys

\* forward_key_to_agent: what the agent gets is in DaemonLink and PtyPipeline.
NormalKey(k) == mode = "Normal" /\ SamePanes /\ SameKeys /\ UNCHANGED overlay

\* Activity and Dashboard close on any key.
ReadOnlyKey(k) == mode \in {"Activity", "Dashboard"} /\ Close /\ SamePanes /\ SameKeys

\* focus_directional, focus_next, focus_prev.
NextFocus(k) ==
  LET n == Len(panes)
      cols == GridCols(n)
  IN  IF n = 0 THEN focus
      ELSE CASE k = "Right" /\ focus + 1 < Least((focus \div cols + 1) * cols, n) -> focus + 1
             [] k = "Left" /\ focus % cols > 0 -> focus - 1
             [] k = "Down" /\ focus + cols < n -> focus + cols
             [] k = "Up" /\ focus >= cols -> focus - cols
             [] k = "Tab" -> IF focus >= n THEN 0 ELSE (focus + 1) % n
             [] k = "BackTab" -> IF focus = 0 THEN n - 1 ELSE focus - 1
             [] OTHER -> focus

MoveFocus(k) ==
  /\ mode = "Pane"
  /\ k \in {"Left", "Right", "Up", "Down", "Tab", "BackTab"}
  /\ focus' = NextFocus(k)
  /\ SameKeys /\ UNCHANGED <<panes, changes, overlay>>

LeavePaneMode(k) == mode = "Pane" /\ k = "Esc" /\ Close /\ SamePanes /\ SameKeys

\* '/', 'a', 'd', 'n' and 's'.
OpenOverlay ==
  /\ mode = "Pane"
  /\ hand = "keys"
  /\ \E m \in {"Jump", "Activity", "Dashboard", "Spawn", "Sidebar"} : Open(m)
  /\ SamePanes /\ SameKeys

ShowHelp ==
  /\ mode = "Pane"
  /\ hand = "keys"
  /\ show_help' = TRUE
  /\ SamePanes /\ SameKeys /\ UNCHANGED <<mode, cursor, text, items>>

ToggleZoom ==
  /\ mode = "Pane"
  /\ Spend
  /\ zoomed' = ~zoomed
  /\ UNCHANGED <<screen, panes, focus, overlay, view, mouse, shifted>>

ToggleSidebar ==
  /\ mode = "Pane"
  /\ Spend
  /\ view' = [view EXCEPT !.hidden = ~@]
  /\ UNCHANGED <<screen, panes, focus, overlay, zoomed, mouse, shifted>>

TogglePin ==
  /\ mode = "Pane"
  /\ Exists(focus)
  /\ Spend
  /\ panes' = [panes EXCEPT ![focus + 1].pinned = ~@]
  /\ SameKeys /\ UNCHANGED <<focus, overlay>>

\* A slip: the focus keeps its index.
FocusKept(n) == focus

\* Where the focus is when a pane was removed and n are left.
FocusAfterClose(n) == IF focus >= n THEN Monus(n, 1) ELSE focus

ClosePane ==
  /\ mode = "Pane"
  /\ Exists(focus)
  /\ Spend
  /\ panes' = RemoveAt(panes, focus + 1)
  /\ focus' = FocusAfterClose(Len(panes'))
  /\ IF panes' = <<>> THEN mode' = "Normal" /\ zoomed' = FALSE ELSE UNCHANGED <<mode, zoomed>>
  /\ shifted' = (shifted \/ drag_origin # NoDrag)
  /\ UNCHANGED <<screen, show_help, cursor, text, items, view, mouse>>

\* handle_jump_key
JumpKey(k) ==
  /\ mode = "Jump"
  /\ SameKeys /\ UNCHANGED <<panes, changes>>
  /\ \/ k = "Esc" /\ Close /\ UNCHANGED focus
     \/ /\ k = "Enter"
        /\ focus' \in IF Picked = {} THEN {focus} ELSE Picked
        /\ Close
     \/ k \in {"Up", "Down"} /\ MoveCursor(k, Cardinality(Matching)) /\ UNCHANGED focus
     \/ /\ text' \in (IF k = "Backspace" THEN {""} ELSE IF k = "Other" /\ text = "" THEN Texts \ {""} ELSE {})
        /\ cursor' = 0
        /\ UNCHANGED <<mode, show_help, items, focus>>

\* handle_spawn_key
SpawnKey(k) ==
  /\ mode = "Spawn"
  /\ SameKeys
  /\ \/ k = "Esc" /\ Close /\ SamePanes
     \/ k \in {"Up", "Down"} /\ MoveCursor(k, Options) /\ SamePanes
     \/ k = "Enter" /\ cursor = Options - 1 /\ Open("SpawnCustom") /\ SamePanes
     \/ k = "Enter" /\ cursor < Options - 1 /\ Close /\ (IF CanSpawn THEN SpawnFocused ELSE SamePanes)

SpawnCustomKey(k) ==
  /\ mode = "SpawnCustom"
  /\ SameKeys
  /\ \/ k = "Esc" /\ Close /\ SamePanes
     \/ k = "Backspace" /\ Type("") /\ SamePanes
     \/ k = "Other" /\ Type("agent") /\ SamePanes
     \/ k = "Enter" /\ Close /\ (IF text # "" /\ CanSpawn THEN SpawnFocused ELSE SamePanes)

SidebarKey(k) ==
  /\ mode = "Sidebar"
  /\ SamePanes /\ SameKeys
  /\ \/ k = "Esc" /\ Close
     \/ k \in {"Up", "Down"} /\ MoveCursor(k, Len(NavItems))
     \/ k = "Enter" /\ Open(NavItems[cursor + 1])

\* handle_tasks_repo_key, fetch_tasks: "agent" stands for a well-formed owner/name.
TasksRepoKey(k) ==
  /\ mode = "TasksRepo"
  /\ SamePanes /\ SameKeys
  /\ \/ k = "Esc" /\ Close
     \/ k = "Backspace" /\ Type("")
     \/ k = "Other" /\ (Type("agent") \/ Type("none"))
     \/ k = "Enter" /\ text # "agent" /\ UNCHANGED overlay
     \/ /\ k = "Enter" /\ text = "agent"
        /\ items' \in 0..MaxItems \cup {FetchFailed}
        /\ mode' = "TasksList" /\ cursor' = 0
        /\ UNCHANGED <<show_help, text>>

\* handle_tasks_list_key
TasksListKey(k) ==
  /\ mode = "TasksList"
  /\ SameKeys
  /\ \/ k = "Esc" /\ Close /\ SamePanes
     \/ k \in {"Up", "Down"} /\ MoveCursor(k, items) /\ SamePanes
     \/ k = "Enter" /\ cursor < items /\ CanSpawn /\ SpawnFocused /\ Close
     \/ k = "Enter" /\ (cursor >= items \/ ~CanSpawn) /\ SamePanes /\ UNCHANGED overlay

\* toggle_setting: the sidebar and the status bar; the default agent and the
\* theme change no state here.
ToggleSetting(row) ==
  IF row > 1 THEN UNCHANGED <<view, changes>>
  ELSE /\ Spend
       /\ view' = IF row = 1 THEN [view EXCEPT !.status_bar = ~@]
                  ELSE [view EXCEPT !.width = IF @ > 0 THEN 0 ELSE DEFAULT_SIDEBAR_WIDTH]

\* handle_settings_key
SettingsKey(k) ==
  /\ mode = "Settings"
  /\ UNCHANGED <<screen, panes, focus, zoomed, mouse, shifted>>
  /\ \/ k = "Esc" /\ Close /\ UNCHANGED <<view, changes>>
     \/ k \in {"Up", "Down"} /\ MoveCursor(k, SettingsRows) /\ UNCHANGED <<view, changes>>
     \/ k = "Enter" /\ ToggleSetting(cursor) /\ UNCHANGED overlay

KeyInMode(k) ==
  /\ ~ForHelp(k)
  /\ \/ NormalKey(k) \/ ReadOnlyKey(k)
     \/ MoveFocus(k) \/ LeavePaneMode(k)
     \/ k = "Other" /\ (OpenOverlay \/ ShowHelp \/ ToggleZoom \/ ToggleSidebar \/ TogglePin \/ ClosePane)
     \/ JumpKey(k) \/ SpawnKey(k) \/ SpawnCustomKey(k) \/ SidebarKey(k)
     \/ TasksRepoKey(k) \/ TasksListKey(k) \/ SettingsKey(k)

-----------------------------------------------------------------------------
(* Mouse: it acts through an overlay as it does without one. *)

Points == {[x |-> r.x + r.w \div 2, y |-> r.y + r.h \div 2] : r \in ToSet(pane_rects)} \cup {[x |-> 0, y |-> 0]}

\* pane_at: the first rect of the last frame that holds the point.
PaneAt(p) == SelectInSeq(pane_rects, LAMBDA r : Covers(r, p)) - 1

\* map_to_inner gives a cell: not above or left of the pane, and room inside its border.
HasCell(i, p) ==
  /\ i + 1 \in DOMAIN pane_rects
  /\ LET r == pane_rects[i + 1] IN p.x >= r.x /\ p.y >= r.y /\ r.w > 2 /\ r.h > 2

\* A slip: the selections of the other panes stay.
DeselectNone(idx) == panes

DeselectOthers(idx) == [i \in 1..Len(panes) |-> [panes[i] EXCEPT !.selected = @ /\ i = idx + 1]]

MouseDown(p) ==
  /\ PaneAt(p) # -1
  /\ panes' = DeselectOthers(PaneAt(p))
  /\ focus' = PaneAt(p)
  /\ drag_origin' = IF HasCell(PaneAt(p), p) THEN PaneAt(p) ELSE NoDrag
  /\ UNCHANGED <<screen, overlay, zoomed, view, pane_rects, changes, shifted>>

MouseDrag(p) ==
  /\ drag_origin # NoDrag
  /\ HasCell(drag_origin, p)
  /\ Exists(drag_origin)
  /\ panes' = [panes EXCEPT ![drag_origin + 1].selected = TRUE]
  /\ UNCHANGED <<screen, focus, overlay, zoomed, view, mouse, changes, shifted>>

\* What is copied and deselected is the focused pane's.
MouseUp ==
  /\ panes' = IF Exists(focus) THEN [panes EXCEPT ![focus + 1].selected = FALSE] ELSE panes
  /\ drag_origin' = NoDrag
  /\ UNCHANGED <<screen, focus, overlay, zoomed, view, pane_rects, changes, shifted>>

-----------------------------------------------------------------------------
(* Events *)

ResizeEvent ==
  /\ resized
  /\ resized' = FALSE
  /\ known' = Size(Most(term.w, MIN_COLS), Most(term.h, MIN_ROWS))
  /\ UNCHANGED <<term, measured, panes, focus, overlay, zoomed, view, mouse, changes, shifted>>

NoEvent == ~resized /\ SamePanes /\ SameKeys /\ UNCHANGED overlay

\* should_auto_exit, less what AgentApp knows of tasks and reconnections.
Calm ==
  /\ \A i \in 1..Len(panes) : panes[i].pty = NoSize
  /\ mode = "Normal"
  /\ ~zoomed

Event ==
  /\ phase = "handle"
  /\ \/ NoEvent \/ ResizeEvent \/ Gateway
     \/ \E k \in Keys : DismissHelp(k) \/ KeyInMode(k)
     \/ hand = "mouse" /\ (MouseUp \/ \E p \in Points : MouseDown(p) \/ MouseDrag(p))
  /\ phase' \in {"frame"} \cup (IF Calm' THEN {"auto_exit"} ELSE {})
  /\ UNCHANGED <<streak, hand>>

Quit ==
  /\ phase = "handle"
  /\ ~ForHelp("Quit")
  /\ phase' = "quit"
  /\ UNCHANGED <<screen, panes, focus, overlay, zoomed, view, mouse, streak, changes, hand, shifted>>

ResizeTerminal ==
  /\ phase \notin Ended
  /\ Spend
  /\ term' \in Terminals \ {term}
  /\ resized' = TRUE
  /\ UNCHANGED <<known, measured, panes, focus, overlay, zoomed, view, mouse, streak, phase, hand, shifted>>

-----------------------------------------------------------------------------
Init ==
  /\ term \in Terminals
  /\ known = Size(Most(term.w, MIN_COLS), Most(term.h, MIN_ROWS))
  /\ resized = FALSE /\ measured = NoSize
  /\ \E n \in {0, AtStart} : panes = [i \in 1..n |-> NewPane("agent", TRUE)]
  /\ focus = 0
  /\ mode = "Normal" /\ show_help = FALSE /\ zoomed = FALSE
  /\ cursor = 0 /\ text = "" /\ items = 0
  /\ view = [width |-> SidebarWidth, hidden |-> FALSE, status_bar |-> TRUE]
  /\ pane_rects = <<>> /\ drag_origin = NoDrag
  /\ hand \in {"keys", "mouse"}
  /\ streak = 0 /\ phase = "frame" /\ changes = 0 /\ shifted = FALSE

Next ==
  \/ Render \/ Draw \/ Skip \/ SpawnTask \/ Event \/ Quit \/ ResizeTerminal
  \/ \E i \in 1..Len(panes) : Reap(i) \/ Respawn(i)

InterfaceSpec == Init /\ [][Next]_vars

-----------------------------------------------------------------------------
(* Properties *)

\* The loop gives up on its frames only when the terminal cannot hold the
\* overlays, or shrinks while each of them is drawn: from 42 by 11 on, no
\* sequence of keys and resizes between frames draws outside.
GivesUpOnlyWhenTiny == phase = "gave_up" => measured # term \/ term.w < 42 \/ term.h < 11

\* After a frame, the emulator and the process of each pane on it agree on the
\* size inside its border (a process started again by a reconnection is the
\* exception).
SizesAgree ==
  [][Render => \A i \in Drawn :
       /\ panes'[i].emu = Inner(PlaceOf(i))
       /\ panes'[i].pty \in {NoSize, panes'[i].emu} \/ panes'[i].reborn]_vars

\* Keys, closed panes and clicks leave the focus on a pane that exists; only a
\* click on a frame from before a pane was closed may not.
FocusStaysOnAPane ==
  [][(panes' # <<>> /\ focus' >= Len(panes')) =>
        focus >= Len(panes) \/ Len(pane_rects) > Len(panes)]_vars

\* At most one pane has a selection, whatever moves the focus between the
\* button's press and its release; unless a pane was closed during a drag.
OneSelection ==
  shifted \/ Cardinality({i \in 1..Len(panes) : panes[i].selected}) <= 1

\* What is selected is on the screen: the cursor's row in its overlay (the jump
\* palette leaves out its last row), and the focused agent's mark in the sidebar,
\* where no line and no piece of a line is drawn over another.
CursorIsDrawn ==
  CASE mode = "Spawn" -> cursor \in ScrolledRows(SpawnBox(term, Options), cursor, SpawnVisible(term))
    [] mode = "TasksList" -> items > 0 =>
         cursor \in ScrolledRows(TasksListBox(term, items, FALSE), cursor, TasksVisible(term))
    [] mode = "Sidebar" -> cursor \in PlainRows(NavBox(term, Len(NavItems)))
    [] mode = "Settings" -> cursor \in PlainRows(SettingsBox(term, SettingsRows))
    [] OTHER -> TRUE

FocusedIsListed(entries) ==
  LET room == RoomForUnpinned(Monus(measured.h, 2), Pinned, EntryLines(view.width)) IN
  (view.width > 2 /\ Exists(focus) /\ ~Pinned[focus + 1] /\ room >= EntryLines(view.width))
    => focus + 1 \in DOMAIN entries /\ entries[focus + 1].marker.w = 1

Apart(r, q) == r.y # q.y \/ r.x + r.w <= q.x \/ q.x + q.w <= r.x

SidebarIsLegible(entries) ==
  LET lines == {r \in SidebarLines(entries) : r.w > 0} IN
  /\ \A r, q \in lines : r # q => Apart(r, q)
  /\ \A r \in lines : r.x + r.w < view.width /\ r.y + r.h <= Monus(measured.h, 2)

SelectionIsDrawn ==
  /\ term.h >= 11 => CursorIsDrawn
  /\ (phase = "draw" /\ ShowsSidebar(measured, view)) =>
       LET entries == EntriesListed IN FocusedIsListed(entries) /\ SidebarIsLegible(entries)

=============================================================================
