------------------------------- MODULE Screen --------------------------------
(***************************************************************************)
(* The geometry of one frame, from App::render (src/src/app.rs),           *)
(* src/src/layout.rs and src/src/sidebar.rs: where the sidebar, the panes  *)
(* and the overlays go on a terminal of a given size, and which rows of    *)
(* their lists are drawn.  Functions of their arguments: the state is in   *)
(* module Interface.  Text, colours and borders are left out.              *)
(***************************************************************************)
EXTENDS Integers, Sequences, FiniteSets

Monus(a, b) == IF a > b THEN a - b ELSE 0      \* u16::saturating_sub
Least(a, b) == IF a < b THEN a ELSE b
Most(a, b) == IF a > b THEN a ELSE b
Clamp(x, low, high) == Most(low, Least(x, high))

Rect(x, y, w, h) == [x |-> x, y |-> y, w |-> w, h |-> h]
Size(w, h) == [w |-> w, h |-> h]

\* No cell of r is outside of the buffer.
Inside(r, size) == r.w = 0 \/ r.h = 0 \/ (r.x + r.w <= size.w /\ r.y + r.h <= size.h)
Covers(r, p) == p.x >= r.x /\ p.x < r.x + r.w /\ p.y >= r.y /\ p.y < r.y + r.h

-----------------------------------------------------------------------------
(* Sidebar, status bar and grid of panes.  `view` is what the user and the *)
(* configuration decide: sidebar_width, sidebar_hidden, show_status_bar.   *)

DEFAULT_SIDEBAR_WIDTH == 26
MIN_COLS == 2
MIN_ROWS == 2
MIN_PANE_COLS == 24
MIN_PANE_ROWS == 5

ShowsSidebar(size, view) ==
  view.width > 0 /\ ~view.hidden /\ size.w > view.width + 22

PaneArea(size, view) ==
  LET left == IF ShowsSidebar(size, view) THEN view.width + 1 ELSE 0
      foot == IF size.h >= 3 /\ view.status_bar THEN 1 ELSE 0
  IN  Rect(left, 0, size.w - left, size.h - foot)

\* Layout::split over n equal Min(1) constraints: the boundaries, rounded.
Cut(extent, n, i) == (2 * i * extent + n) \div (2 * n)

GridCols(n) == CHOOSE c \in 1..n : c * c >= n /\ (c - 1) * (c - 1) < n

SplitPanes(area, n) ==
  [k \in 1..n |->
     LET cols == GridCols(n)
         rows == (n + cols - 1) \div cols
         row == (k - 1) \div cols
         col == (k - 1) % cols
         inRow == Least(n - row * cols, cols)
         x == Cut(area.w, inRow, col)
         y == Cut(area.h, rows, row)
     IN  Rect(area.x + x, area.y + y, Cut(area.w, inRow, col + 1) - x, Cut(area.h, rows, row + 1) - y)]

\* What is left of a pane inside its border, as the emulator is sized.
Inner(r) == Size(Most(Monus(r.w, 2), MIN_COLS), Most(Monus(r.h, 2), MIN_ROWS))

\* max_panes, from the size last reported to the application.
MaxPanesFor(size, view) ==
  LET left == IF view.width > 0 /\ ~view.hidden THEN view.width + 1 ELSE 0
      foot == IF view.status_bar THEN 1 ELSE 0
      across == Monus(size.w, left) \div (MIN_PANE_COLS + 2)
      down == Monus(size.h, foot) \div (MIN_PANE_ROWS + 2)
  IN  Most(across * down, 1)

-----------------------------------------------------------------------------
(* Overlays *)

FullScreen(size) == Rect(2, 1, Most(Monus(size.w, 4), 40), Most(Monus(size.h, 2), 10))

Centred(size, w, h) == Rect(Monus(size.w, w) \div 2, Monus(size.h, h) \div 2, w, h)

Box(size, least, most, rows) ==
  Centred(size, Most(Least(size.w, most), least), Most(Least(rows + 3, Monus(size.h, 4)), 5))

\* How many entries the spawn picker and the task list want to show.
SpawnVisible(size) == Clamp(size.h \div 12, 2, 6)
TasksVisible(size) == Clamp(size.h \div 12, 2, 8)

HelpBox(size) == FullScreen(size)
ActivityBox(size) == FullScreen(size)
DashboardBox(size) == FullScreen(size)
JumpBox(size, n) == Box(size, 40, 64, n)

\* A slip: the box is made for all the entries and not cut to the terminal.
SpawnBoxUncut(size, n) == Centred(size, Most(Least(size.w, 48), 30), Most(n + 3, 12))

SpawnBox(size, n) == Box(size, 30, 48, Least(n, SpawnVisible(size)))

NavBox(size, n) == Box(size, 24, 36, n)
CustomBox(size) == Centred(size, Most(Least(size.w, 60), 40), 5)
TasksRepoBox(size) == Centred(size, Most(Least(size.w, 60), 40), 5)
TasksListBox(size, n, failed) == Box(size, 40, 72, Least(IF failed THEN 3 ELSE n, TasksVisible(size)))
SettingsBox(size, n) == Box(size, 32, 44, n)

\* The list entries drawn in a box, numbered from 0: Paragraph clips below, the
\* picker and the task list scroll.
PlainRows(box) == 0..(box.h - 3)
ScrolledRows(box, cursor, visible) ==
  LET scroll == Monus(cursor, visible - 1) IN scroll..(scroll + box.h - 3)
\* Below the query and an empty line.
JumpRows(box) == {i \in 0..box.h : i + 3 <= box.h - 2}

-----------------------------------------------------------------------------
(* Sidebar: the status line, the pinned agents, the others, the tally.        *)
(* `height` is that inside the border, `lines` what an entry takes, y counts  *)
(* from the first row inside.  `pinned` says which entries are.               *)

TWO_LINE_MIN_WIDTH == 36
SUMMARY_MIN_HEIGHT == 8

EntryLines(width) == IF Monus(width, 2) >= TWO_LINE_MIN_WIDTH THEN 2 ELSE 1

\* Rows for entries and headers: the last one may be the tally's.
HasTally(height, n) == n > 0 /\ height >= SUMMARY_MIN_HEIGHT
EntryBottom(height, n) == IF HasTally(height, n) THEN height - 1 ELSE height

Pins(pinned) == Cardinality({i \in DOMAIN pinned : pinned[i]})
FirstPin(pinned) == IF Pins(pinned) > 0 THEN 2 ELSE 1

\* The IN PROGRESS header, below the status line and the pinned section, and
\* the rows left for unpinned entries below it.
Header(height, pinned, lines) ==
  FirstPin(pinned) + Least(Pins(pinned) * lines, Monus(EntryBottom(height, Len(pinned)), FirstPin(pinned)))
RoomForUnpinned(height, pinned, lines) == Monus(EntryBottom(height, Len(pinned)), Header(height, pinned, lines) + 1)

\* A slip: always the newest.
WindowStartTail(f, count, fits) == Monus(count, fits)

\* The first unpinned entry listed: the focused one, f (-1: none), is kept in the middle.
WindowStart(f, count, fits) ==
  IF f >= 0 /\ fits > 0 THEN Least(Monus(f, fits \div 2), Monus(count, fits)) ELSE Monus(count, fits)

\* How many entries of its own section come before an entry.
Rank(i, pinned) == Cardinality({j \in 1..(i - 1) : pinned[j] = pinned[i]})

\* Where an entry would start: the pinned ones in order, the others in the window.
EntryTop(i, pinned, focus, height, lines) ==
  LET room == RoomForUnpinned(height, pinned, lines)
      f == IF focus \in DOMAIN pinned /\ ~pinned[focus] THEN Rank(focus, pinned) ELSE -1
      start == WindowStart(f, Len(pinned) - Pins(pinned), room \div lines)
  IN  IF pinned[i] THEN FirstPin(pinned) + Rank(i, pinned) * lines
      ELSE Header(height, pinned, lines) + 1 + (Rank(i, pinned) - start) * lines

\* The entries drawn, each with its rows: at least one, at most `lines`.
Entries(pinned, focus, width, height) ==
  LET lines == EntryLines(width)
      bottom == EntryBottom(height, Len(pinned))
      first(i) == IF pinned[i] THEN FirstPin(pinned) ELSE Header(height, pinned, lines) + 1
      top(i) == EntryTop(i, pinned, focus, height, lines)
      drawn == {i \in DOMAIN pinned : top(i) >= first(i) /\ top(i) < bottom}
  IN  [i \in drawn |-> Rect(1, top(i), Monus(width, 2), Least(lines, bottom - top(i)))]

\* The other lines: connection and the two headers; the tally below.
SidebarTitles(pinned, width, height) ==
  LET rows == {0, Header(height, pinned, EntryLines(width))} \cup (IF Pins(pinned) > 0 THEN {1} ELSE {})
  IN  {Rect(1, y, Monus(width, 2), 1) : y \in {r \in rows : r < EntryBottom(height, Len(pinned))}}

TallyRow(pinned, width, height) ==
  IF HasTally(height, Len(pinned)) THEN {Rect(1, height - 1, Monus(width, 2), 1)} ELSE {}

\* An entry on one row: the branch on the right if it leaves two cells, and what
\* is left of marker, dot, space, name, space and summary before it.
OneLineEntry(row, e) ==
  LET right == row.x + row.w
      beside == e.branch > 0 /\ e.branch + 2 <= row.w
      end == IF beside THEN right - e.branch - 1 ELSE right
      Piece(x, n) == Rect(x, row.y, Least(n, Monus(end, x)), 1)
      name == Piece(row.x + 3, e.name)
      after == name.x + name.w + 1
  IN  [marker |-> Piece(row.x, 1), dot |-> Piece(row.x + 1, 1), name |-> name,
       branch |-> Rect(right - e.branch, row.y, IF beside THEN e.branch ELSE 0, 1),
       summary |-> Piece(after, IF after < end THEN e.summary ELSE 0)]

\* On two: the summary has a row of its own.
TwoLineEntry(row, e) ==
  [OneLineEntry(row, e) EXCEPT !.summary = Rect(row.x + 7, row.y + 1, Least(e.summary, Monus(row.w, 7)), 1)]

EntryRow(row, e) == IF row.h >= 2 THEN TwoLineEntry(row, e) ELSE OneLineEntry(row, e)

\* The toasts, at most three, above the status bar.
ToastRows(size, view, n) ==
  LET area == PaneArea(size, view)
      rows == Least(n, 3)
      top == Monus(size.h - 1, rows)
  IN  IF size.h >= 3 /\ view.status_bar
      THEN {Rect(area.x, top + i, area.w, 1) : i \in 0..(rows - 1)} ELSE {}

=============================================================================
