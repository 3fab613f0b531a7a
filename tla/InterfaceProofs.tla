-------------------------- MODULE InterfaceProofs --------------------------
(***************************************************************************)
(* For any terminals, any width of the sidebar and any number of panes:    *)
(* what a frame draws stays inside a terminal of 42 by 11, selections are  *)
(* drawn and at most one pane has one, emulator and process have the size  *)
(* inside the border, and the focus is on a pane.                          *)
(*                                                                         *)
(* The first half is the geometry of Screen, without state: the grid, the  *)
(* boxes, and the lines of the sidebar, which are placed section by        *)
(* section, entry by entry and piece by piece.  The second half takes the  *)
(* steps of Interface, the keys first.                                     *)
(***************************************************************************)
EXTENDS Interface, FiniteSetTheorems, SequenceTheorems, TLAPS

\* A set of numbers has a least one: the strict inclusion of segments 0..t is well founded.
LEMMA LeastOfNaturals ==
  ASSUME NEW T, T \subseteq Nat, T # {}
  PROVE  \E x \in T : \A y \in T : x <= y
<1> DEFINE segments == {0..t : t \in T}
<1>1. segments \subseteq FiniteSubsetsOf(Nat) /\ segments # {}
  <2>1. ASSUME NEW t \in T PROVE 0..t \in FiniteSubsetsOf(Nat)
    <3>1. t \in Int /\ 0..t \subseteq Nat
      OBVIOUS
    <3>2. QED
      BY <3>1, FS_Interval DEF FiniteSubsetsOf
  <2>2. QED
    BY <2>1
<1>2. PICK s \in segments : \A r \in segments : ~(<<r, s>> \in StrictSubsetOrdering(Nat))
  BY <1>1, FS_StrictSubsetOrderingWellFounded, WFMin
<1>3. PICK x \in T : s = 0..x
  OBVIOUS
<1>4. ASSUME NEW y \in T, y < x PROVE FALSE
  <2>1. 0..y \in segments /\ 0..y \subseteq 0..x /\ 0..y # 0..x
    BY <1>4
  <2>2. <<0..y, s>> \in StrictSubsetOrdering(Nat)
    BY <1>3, <2>1 DEF StrictSubsetOrdering
  <2>3. QED
    BY <1>2, <2>1, <2>2
<1>5. QED
  BY <1>4

\* The grid has between one column and one per pane, and room for all panes.
LEMMA GridColsExist ==
  ASSUME NEW n \in Nat \ {0}
  PROVE  /\ GridCols(n) \in 1..n
         /\ GridCols(n) * GridCols(n) >= n
<1> DEFINE T == {c \in Nat : c * c >= n}
<1>1. n \in T
  <2>1. n * n >= n
    OBVIOUS
  <2>2. QED
    BY <2>1
<1>2. PICK c \in T : \A d \in T : c <= d
  BY <1>1, LeastOfNaturals
<1>3. c \in 1..n
  BY <1>1, <1>2
<1>4. (c - 1) * (c - 1) < n
  BY <1>2, <1>3
<1>5. \E b \in 1..n : b * b >= n /\ (b - 1) * (b - 1) < n
  BY <1>2, <1>3, <1>4
<1>6. QED
  BY <1>5 DEF GridCols

-----------------------------------------------------------------------------
(* What is laid out inside the terminal *)

\* Sizes, rectangles and settings of any extent.
Sizes == [w : Nat, h : Nat]
Rectangle == [x : Int, y : Int, w : Int, h : Int]
Views == [width : Nat, hidden : BOOLEAN, status_bar : BOOLEAN]

\* A quotient stays below what its dividend bounds.
LEMMA DivAtMost ==
  ASSUME NEW a \in Nat, NEW b \in Nat \ {0}, NEW e \in Nat, a < b * (e + 1)
  PROVE  a \div b \in 0..e
<1> DEFINE q == a \div b
<1>1. q \in Nat /\ b * q <= a
  OBVIOUS
<1>2. ASSUME q >= e + 1 PROVE FALSE
  <2> HIDE DEF q
  <2>1. b * q >= b * (e + 1)
    BY <1>1, <1>2
  <2>2. QED
    BY <1>1, <2>1
<1>3. QED
  BY <1>1, <1>2

\* No boundary is beyond the extent that is cut.
LEMMA CutInRange ==
  ASSUME NEW extent \in Nat, NEW n \in Nat \ {0}, NEW i \in 0..n
  PROVE  Cut(extent, n, i) \in 0..extent
<1>1. i * extent \in Nat /\ i * extent <= n * extent
  OBVIOUS
<1>2. 2 * i * extent + n \in Nat /\ 2 * n \in Nat \ {0}
  BY <1>1
<1>3. 2 * i * extent + n < (2 * n) * (extent + 1)
  <2>1. (2 * n) * (extent + 1) = 2 * (n * extent) + 2 * n /\ 2 * i * extent = 2 * (i * extent)
    OBVIOUS
  <2>2. n * extent \in Nat
    OBVIOUS
  <2>3. QED
    BY <1>1, <2>1, <2>2
<1>4. QED
  BY <1>2, <1>3, DivAtMost DEF Cut

\* split_panes puts no pane outside the area it is given.
LEMMA SplitStaysInside ==
  ASSUME NEW area \in Rectangle, area.w \in Nat, area.h \in Nat, NEW n \in Nat, NEW k \in 1..n
  PROVE  LET r == SplitPanes(area, n)[k]
         IN  /\ r \in Rectangle
             /\ area.x <= r.x /\ r.x + r.w <= area.x + area.w
             /\ area.y <= r.y /\ r.y + r.h <= area.y + area.h
<1> DEFINE cols == GridCols(n)
           rows == (n + cols - 1) \div cols
           row == (k - 1) \div cols
           col == (k - 1) % cols
           inRow == Least(n - row * cols, cols)
           r == SplitPanes(area, n)[k]
<1>1. cols \in 1..n
  BY GridColsExist
<1>2. /\ row \in Nat /\ col \in 0..(cols - 1) /\ k - 1 = cols * row + col
  <2> HIDE DEF cols
  <2>1. QED
    BY <1>1
<1>3. row + 1 \in 1..rows /\ rows \in Nat
  <2> HIDE DEF cols
  <2>1. n + cols - 1 \in Nat /\ cols * (row + 1) <= n + cols - 1
    <3> HIDE DEF row, col
    <3>1. cols * (row + 1) = cols * row + cols
      BY <1>1, <1>2
    <3>2. QED
      BY <1>1, <1>2, <3>1
  <2>2. rows \in Nat /\ n + cols - 1 < cols * (rows + 1)
    BY <1>1, <2>1
  <2>3. ASSUME row + 1 > rows PROVE FALSE
    <3> HIDE DEF row, rows
    <3>1. cols * (rows + 1) <= cols * (row + 1)
      BY <1>1, <1>2, <2>2, <2>3
    <3>2. cols * (rows + 1) \in Int /\ cols * (row + 1) \in Int
      BY <1>1, <1>2, <2>2
    <3>3. QED
      BY <1>1, <2>1, <2>2, <3>1, <3>2
  <2>4. QED
    BY <1>2, <2>2, <2>3
<1>4. inRow \in Nat \ {0} /\ col \in 0..inRow /\ col + 1 \in 0..inRow
  <2> HIDE DEF cols, row, col
  <2>1. row * cols = cols * row /\ row * cols \in Nat
    BY <1>1, <1>2
  <2>2. QED
    BY <1>1, <1>2, <2>1 DEF Least
<1>5. r = [x |-> area.x + Cut(area.w, inRow, col), y |-> area.y + Cut(area.h, rows, row),
           w |-> Cut(area.w, inRow, col + 1) - Cut(area.w, inRow, col),
           h |-> Cut(area.h, rows, row + 1) - Cut(area.h, rows, row)]
  BY DEF SplitPanes, Rect
<1> HIDE DEF cols, rows, row, col, inRow, r
<1>6. /\ Cut(area.w, inRow, col) \in 0..area.w /\ Cut(area.w, inRow, col + 1) \in 0..area.w
      /\ Cut(area.h, rows, row) \in 0..area.h /\ Cut(area.h, rows, row + 1) \in 0..area.h
  <2>1. rows \in Nat \ {0} /\ row \in 0..rows /\ row + 1 \in 0..rows
    BY <1>2, <1>3
  <2>2. QED
    BY <1>4, <2>1, CutInRange
<1>7. QED
  <2>1. area.x \in Int /\ area.y \in Int
    BY DEF Rectangle
  <2>2. QED
    BY <1>5, <1>6, <2>1 DEF r, Rectangle

\* The area of the panes is inside the terminal, right of the sidebar.
LEMMA PaneAreaFits ==
  ASSUME NEW size \in Sizes, NEW view_ \in Views
  PROVE  LET a == PaneArea(size, view_)
         IN  /\ a \in Rectangle /\ a.w \in Nat /\ a.h \in Nat /\ a.x \in Nat /\ a.y = 0
             /\ a.x + a.w = size.w /\ a.h <= size.h
  BY DEF PaneArea, ShowsSidebar, Rect, Sizes, Views, Rectangle

\* Large enough for every overlay.
Large(size) == size.w >= 42 /\ size.h >= 11

\* A centred box is inside any terminal that is large enough.
LEMMA BoxFits ==
  ASSUME NEW size \in Sizes, Large(size), NEW least \in 0..42, NEW most \in Nat, NEW rows \in Int
  PROVE  LET b == Box(size, least, most, rows)
         IN  /\ b = [x |-> b.x, y |-> b.y, w |-> b.w, h |-> b.h]
             /\ b.x \in Nat /\ b.y \in Nat /\ b.w \in Nat /\ b.h \in Nat
             /\ b.x + b.w <= size.w /\ b.y + b.h <= size.h
             /\ b.h = Most(Least(rows + 3, Monus(size.h, 4)), 5)
<1> DEFINE w == Most(Least(size.w, most), least)
           h == Most(Least(rows + 3, Monus(size.h, 4)), 5)
<1>1. size.w \in Nat /\ size.h \in Nat
  BY DEF Sizes
<1>2. w \in 0..size.w /\ h \in 0..size.h
  BY <1>1 DEF Large, Most, Least, Monus
<1>3. Box(size, least, most, rows) =
        [x |-> Monus(size.w, w) \div 2, y |-> Monus(size.h, h) \div 2, w |-> w, h |-> h]
  BY DEF Box, Centred, Rect
<1> HIDE DEF w, h
<1>4. /\ Monus(size.w, w) \div 2 \in Nat /\ Monus(size.w, w) \div 2 + w <= size.w
      /\ Monus(size.h, h) \div 2 \in Nat /\ Monus(size.h, h) \div 2 + h <= size.h
  <2>1. \A a, b \in Nat : b <= a => Monus(a, b) = a - b /\ (a - b) \div 2 \in Nat /\ (a - b) \div 2 + b <= a
    BY DEF Monus
  <2>2. w \in Nat /\ w <= size.w /\ h \in Nat /\ h <= size.h
    BY <1>1, <1>2
  <2>3. QED
    BY <1>1, <2>1, <2>2
<1>5. QED
  BY <1>2, <1>3, <1>4 DEF h

\* So is every overlay that may be open.
LEMMA OverlaysFit ==
  ASSUME measured \in Sizes, Large(measured), items \in Int, Cardinality(Matching) \in Nat
  PROVE  \A r \in OpenBoxes : Inside(r, measured)
<1>0. measured.w \in Nat /\ measured.h \in Nat
  BY DEF Sizes
<1>1. Inside(FullScreen(measured), measured)
  BY <1>0 DEF FullScreen, Inside, Rect, Large, Most, Monus
<1>2. \A least \in 0..42, most \in Nat, rows \in Int : Inside(Box(measured, least, most, rows), measured)
  BY BoxFits DEF Inside
<1>3. Inside(Centred(measured, Most(Least(measured.w, 60), 40), 5), measured)
  BY <1>0 DEF Centred, Inside, Rect, Large, Most, Least, Monus
<1>4. Options \in Nat /\ Len(NavItems) = 3
  BY InterfaceAssumption DEF NavItems
<1>5. /\ Least(Options, SpawnVisible(measured)) \in Int
      /\ \A n \in Int : Least(n, TasksVisible(measured)) \in Int
  BY <1>0, <1>4 DEF SpawnVisible, TasksVisible, Clamp, Least, Most
<1>6. /\ Inside(JumpBox(measured, Cardinality(Matching)), measured)
      /\ Inside(SpawnBox(measured, Options), measured)
      /\ Inside(NavBox(measured, Len(NavItems)), measured)
      /\ Inside(SettingsBox(measured, SettingsRows), measured)
  <2>1. \A least \in {24, 30, 32, 40}, most \in {36, 44, 48, 64}, rows \in Int :
          Inside(Box(measured, least, most, rows), measured)
    BY <1>2
  <2>2. Cardinality(Matching) \in Int /\ Len(NavItems) \in Int /\ SettingsRows \in Int
    BY <1>4 DEF SettingsRows
  <2>3. /\ Inside(Box(measured, 40, 64, Cardinality(Matching)), measured)
        /\ Inside(Box(measured, 30, 48, Least(Options, SpawnVisible(measured))), measured)
        /\ Inside(Box(measured, 24, 36, Len(NavItems)), measured)
        /\ Inside(Box(measured, 32, 44, SettingsRows), measured)
    BY ONLY <1>5, <2>1, <2>2
  <2>4. QED
    BY ONLY <2>3 DEF JumpBox, SpawnBox, NavBox, SettingsBox
<1>7. Inside(TasksListBox(measured, items, items = FetchFailed), measured)
  <2> DEFINE n == IF items = FetchFailed THEN 3 ELSE items
  <2>1. n \in Int
    OBVIOUS
  <2> HIDE DEF n
  <2>2. Least(n, TasksVisible(measured)) \in Int
    BY <1>5, <2>1
  <2>3. Inside(Box(measured, 40, 72, Least(n, TasksVisible(measured))), measured)
    BY <1>2, <2>2
  <2>4. QED
    BY <2>3 DEF TasksListBox, n
<1>8. QED
  BY <1>1, <1>3, <1>6, <1>7
     DEF OpenBoxes, HelpBox, ActivityBox, DashboardBox, CustomBox, TasksRepoBox

\* Toasts are inside a terminal of any size.
LEMMA ToastsFit ==
  ASSUME NEW size \in Sizes, NEW view_ \in Views, NEW n \in Nat
  PROVE  \A r \in ToastRows(size, view_, n) : Inside(r, size)
<1> SUFFICES ASSUME NEW r \in ToastRows(size, view_, n) PROVE Inside(r, size)
  OBVIOUS
<1> DEFINE area == PaneArea(size, view_)
           rows == Least(n, 3)
           top == Monus(size.h - 1, rows)
<1>1. size.h >= 3 /\ \E i \in 0..(rows - 1) : r = Rect(area.x, top + i, area.w, 1)
  BY DEF ToastRows
<1>2. PICK i \in 0..(rows - 1) : r = Rect(area.x, top + i, area.w, 1)
  BY <1>1
<1>3. area.x \in Nat /\ area.w \in Nat /\ area.x + area.w = size.w
  BY PaneAreaFits
<1>4. size.h \in Nat /\ rows \in 0..3
  BY DEF Sizes, Least
<1> HIDE DEF area, rows
<1>5. top + i + 1 <= size.h
  BY <1>1, <1>4 DEF Monus
<1>6. QED
  BY <1>2, <1>3, <1>5 DEF Inside, Rect

-----------------------------------------------------------------------------
(* The lines of the sidebar *)

\* A set of places is finite and has no more elements than there are places.
LEMMA SubsetOfPlaces ==
  ASSUME NEW n \in Nat, NEW S, S \subseteq 1..n
  PROVE  IsFiniteSet(S) /\ Cardinality(S) \in 0..n
<1>1. IsFiniteSet(1..n) /\ Cardinality(1..n) = n
  BY FS_Interval
<1>2. IsFiniteSet(S) /\ Cardinality(S) <= n
  BY <1>1, FS_Subset
<1>3. QED
  BY <1>2, FS_CardinalityType

\* A proper part has fewer elements.
LEMMA FewerInPart ==
  ASSUME NEW n \in Nat, NEW S, NEW T, T \subseteq 1..n, S \subseteq T, NEW x \in T, x \notin S
  PROVE  Cardinality(S) < Cardinality(T)
<1>1. IsFiniteSet(T) /\ S \in SUBSET T
  BY SubsetOfPlaces
<1>2. Cardinality(S) <= Cardinality(T) /\ (Cardinality(S) = Cardinality(T) => T = S)
  BY <1>1, FS_Subset
<1>3. Cardinality(S) \in Nat /\ Cardinality(T) \in Nat
  BY <1>1, <1>2, FS_CardinalityType, FS_Subset
<1>4. QED
  BY <1>2, <1>3

\* Pinned and unpinned panes together are all panes.
LEMMA PinsCounted ==
  ASSUME NEW n \in Nat, NEW pinned \in [1..n -> BOOLEAN]
  PROVE  /\ Pins(pinned) \in 0..n
         /\ Cardinality({i \in 1..n : ~pinned[i]}) = n - Pins(pinned)
<1> DEFINE P == {i \in 1..n : pinned[i]}
           U == {i \in 1..n : ~pinned[i]}
<1>1. Pins(pinned) = Cardinality(P)
  BY DEF Pins
<1>2. IsFiniteSet(P) /\ IsFiniteSet(U) /\ Cardinality(P) \in 0..n /\ Cardinality(U) \in 0..n
  <2>1. P \subseteq 1..n /\ U \subseteq 1..n
    OBVIOUS
  <2>2. QED
    BY <2>1, SubsetOfPlaces
<1>3. Cardinality(P \cup U) = Cardinality(P) + Cardinality(U) - Cardinality(P \cap U)
  BY <1>2, FS_Union
<1>4. P \cup U = 1..n /\ P \cap U = {}
  OBVIOUS
<1>5. Cardinality(1..n) = n /\ Cardinality({}) = 0
  BY FS_Interval, FS_EmptySet
<1> HIDE DEF P
<1>6. Cardinality(U) = n - Pins(pinned)
  <2>1. Cardinality(P \cup U) = n /\ Cardinality(P \cap U) = 0
    BY <1>4, <1>5
  <2> HIDE DEF U
  <2>2. QED
    BY <1>1, <1>2, <1>3, <2>1
<1>7. QED
  BY <1>1, <1>2, <1>6

\* Ranks count up within a section and stay below its size.
LEMMA RankInSection ==
  ASSUME NEW n \in Nat, NEW pinned \in [1..n -> BOOLEAN], NEW i \in 1..n
  PROVE  /\ Rank(i, pinned) \in Nat
         /\ Rank(i, pinned) < (IF pinned[i] THEN Pins(pinned) ELSE n - Pins(pinned))
         /\ \A j \in 1..n : i < j /\ pinned[i] = pinned[j] => Rank(i, pinned) < Rank(j, pinned)
<1> DEFINE R(k) == {j \in 1..(k - 1) : pinned[j] = pinned[k]}
           S == {j \in 1..n : pinned[j] = pinned[i]}
<1>1. \A k \in 1..n : Rank(k, pinned) = Cardinality(R(k)) /\ R(k) \subseteq 1..n
  BY DEF Rank
<1>2. R(i) \subseteq S /\ i \in S /\ i \notin R(i) /\ S \subseteq 1..n
  OBVIOUS
<1>3. Cardinality(R(i)) < Cardinality(S) /\ Cardinality(R(i)) \in Nat
  <2>1. R(i) \subseteq 1..n
    BY <1>1
  <2> HIDE DEF R, S
  <2>2. Cardinality(R(i)) < Cardinality(S)
    BY <1>2, FewerInPart
  <2>3. Cardinality(R(i)) \in 0..n
    BY <2>1, SubsetOfPlaces
  <2>4. QED
    BY <2>2, <2>3
<1>4. Cardinality(S) = IF pinned[i] THEN Pins(pinned) ELSE n - Pins(pinned)
  <2>1. CASE pinned[i]
    <3>1. S = {j \in DOMAIN pinned : pinned[j]}
      BY <2>1
    <3>2. QED
      BY <2>1, <3>1 DEF Pins
  <2>2. CASE ~pinned[i]
    <3>1. S = {j \in 1..n : ~pinned[j]}
      BY <2>2
    <3>2. QED
      BY <2>2, <3>1, PinsCounted
  <2>3. QED
    BY <2>1, <2>2
<1>5. ASSUME NEW j \in 1..n, i < j, pinned[i] = pinned[j] PROVE Cardinality(R(i)) < Cardinality(R(j))
  <2>1. R(i) \subseteq R(j) /\ i \in R(j) /\ i \notin R(i) /\ R(j) \subseteq 1..n
    BY <1>5
  <2> HIDE DEF R
  <2>2. QED
    BY <2>1, FewerInPart
<1> HIDE DEF R, S
<1>6. QED
  BY <1>1, <1>3, <1>4, <1>5

\* The rows of the sections: the pinned agents above the header of the others.
SectionsOf(n, pinned, width, height) ==
  LET lines == EntryLines(width)
      bottom == EntryBottom(height, n)
      header == Header(height, pinned, lines)
      first == FirstPin(pinned)
      p == Pins(pinned)
  IN  /\ Len(pinned) = n /\ p \in 0..n
      /\ lines \in {1, 2} /\ bottom \in 0..height
      /\ HasTally(height, n) => bottom = height - 1 /\ height >= 8
      /\ first \in {1, 2} /\ (p > 0 => first = 2)
      /\ header = first + Least(p * lines, Monus(bottom, first))
      /\ RoomForUnpinned(height, pinned, lines) = Monus(bottom, header + 1)

\* The titles, the entries and the tally each have rows of their own.
LEMMA SectionRows ==
  ASSUME NEW n \in Nat, NEW pinned \in [1..n -> BOOLEAN], NEW width \in Nat, NEW height \in Nat
  PROVE  SectionsOf(n, pinned, width, height)
<1> DEFINE lines == EntryLines(width)
           bottom == EntryBottom(height, n)
           header == Header(height, pinned, lines)
           p == Pins(pinned)
           first == FirstPin(pinned)
<1>1. Len(pinned) = n
  OBVIOUS
<1>2. lines \in {1, 2}
  BY DEF EntryLines
<1>3. bottom \in 0..height /\ (HasTally(height, n) => bottom = height - 1 /\ height >= 8)
  BY DEF EntryBottom, HasTally, SUMMARY_MIN_HEIGHT
<1>4. p \in 0..n
  BY PinsCounted
<1>5. first \in {1, 2} /\ (p > 0 => first = 2)
  BY DEF FirstPin
<1>6. header = first + Least(p * lines, Monus(bottom, first))
  BY <1>1 DEF Header
<1>7. RoomForUnpinned(height, pinned, lines) = Monus(bottom, header + 1)
  BY <1>1 DEF RoomForUnpinned
<1> HIDE DEF lines, bottom, header, p, first
<1>8. QED
  BY <1>1, <1>2, <1>3, <1>4, <1>5, <1>6, <1>7 DEF SectionsOf, lines, bottom, header, p, first

\* Where the window of unpinned entries starts.
LEMMA WindowHolds ==
  ASSUME NEW f \in Int, NEW count \in Nat, NEW fits \in Nat
  PROVE  /\ WindowStart(f, count, fits) \in Int
         /\ f \in 0..(count - 1) /\ fits > 0 => f - WindowStart(f, count, fits) \in 0..(fits - 1)
<1> DEFINE half == fits \div 2
<1>1. half \in Nat /\ 2 * half <= fits
  OBVIOUS
<1> HIDE DEF half
<1>2. WindowStart(f, count, fits) =
        IF f >= 0 /\ fits > 0 THEN Least(Monus(f, half), Monus(count, fits)) ELSE Monus(count, fits)
  BY DEF WindowStart, half
<1>3. QED
  BY <1>1, <1>2 DEF Least, Monus

\* Where an entry starts: below those before it, and the focused one in the window.
LEMMA EntryTops ==
  ASSUME NEW n \in Nat, NEW pinned \in [1..n -> BOOLEAN], NEW width \in Nat, NEW height \in Nat,
         NEW foc \in Int, NEW i \in 1..n
  PROVE  LET lines == EntryLines(width)
             header == Header(height, pinned, lines)
             top(k) == EntryTop(k, pinned, foc, height, lines)
         IN  /\ top(i) \in Int
             /\ pinned[i] => top(i) = FirstPin(pinned) + Rank(i, pinned) * lines
             /\ \A j \in 1..n : i < j /\ pinned[i] = pinned[j] => top(i) + lines <= top(j)
             /\ LET room == RoomForUnpinned(height, pinned, lines)
                IN  i = foc /\ ~pinned[i] /\ room >= lines =>
                      /\ header + 1 <= top(i)
                      /\ top(i) + lines <= header + 1 + room
<1> DEFINE lines == EntryLines(width)
           bottom == EntryBottom(height, n)
           header == Header(height, pinned, lines)
           first == FirstPin(pinned)
           p == Pins(pinned)
           room == RoomForUnpinned(height, pinned, lines)
           f == IF foc \in DOMAIN pinned /\ ~pinned[foc] THEN Rank(foc, pinned) ELSE -1
           start == WindowStart(f, Len(pinned) - Pins(pinned), room \div lines)
           top(k) == EntryTop(k, pinned, foc, height, lines)
<1>1. /\ Len(pinned) = n /\ p \in 0..n /\ lines \in {1, 2} /\ bottom \in 0..height
      /\ first \in {1, 2}
      /\ header = first + Least(p * lines, Monus(bottom, first))
      /\ room = Monus(bottom, header + 1)
  BY SectionRows DEF SectionsOf
<1>2. header \in Nat /\ room \in Nat
  <2> HIDE DEF lines, bottom, header, first, p, room
  <2>0. bottom \in Nat /\ p \in Nat /\ first \in Nat
    BY <1>1
  <2>1. header \in Nat
    <3>1. p * lines \in Nat
      BY <1>1, <2>0
    <3>2. QED
      BY <1>1, <2>0, <3>1 DEF Least, Monus
  <2>2. QED
    BY <1>1, <2>1 DEF Monus
<1>3. \A k \in 1..n : /\ Rank(k, pinned) \in Nat
                      /\ ~pinned[k] => Rank(k, pinned) < n - p
  BY RankInSection
<1>4. f \in Int /\ (foc \in 1..n /\ ~pinned[foc] => f = Rank(foc, pinned) /\ f \in 0..(n - p - 1))
  <2>1. CASE foc \in 1..n /\ ~pinned[foc]
    <3>1. f = Rank(foc, pinned)
      BY <2>1
    <3>2. Rank(foc, pinned) \in Nat /\ Rank(foc, pinned) < n - p
      BY <1>3, <2>1
    <3> HIDE DEF f, p
    <3>3. QED
      BY <1>1, <3>1, <3>2
  <2>2. CASE ~(foc \in 1..n /\ ~pinned[foc])
    <3>1. f = -1
      BY <2>2
    <3>2. QED
      BY <2>2, <3>1
  <2>3. QED
    BY <2>1, <2>2
<1>5. \A k \in 1..n : top(k) = IF pinned[k] THEN first + Rank(k, pinned) * lines
                               ELSE header + 1 + (Rank(k, pinned) - start) * lines
  BY DEF EntryTop
<1>6. room \div lines \in Nat /\ n - p \in Nat /\ (room \div lines) * lines <= room
      /\ (room >= lines => room \div lines > 0)
  <2> HIDE DEF lines, room, p
  <2>1. CASE lines = 1
    BY <1>1, <1>2, <2>1
  <2>2. CASE lines = 2
    BY <1>1, <1>2, <2>2
  <2>3. QED
    BY <1>1, <2>1, <2>2
<1>7. /\ start \in Int
      /\ f \in 0..(n - p - 1) /\ room \div lines > 0 => f - start \in 0..(room \div lines - 1)
  <2> DEFINE fits == room \div lines
  <2>1. start = WindowStart(f, n - p, fits)
    BY <1>1
  <2>2. f \in Int /\ n - p \in Nat /\ fits \in Nat
    BY <1>4, <1>6
  <2> HIDE DEF f, start, fits, p
  <2>3. /\ start \in Int
        /\ f \in 0..(n - p - 1) /\ fits > 0 => f - start \in 0..(fits - 1)
    BY <2>1, <2>2, WindowHolds
  <2>4. QED
    BY <2>3 DEF fits
<1> HIDE DEF lines, header, first, p, room, f, start, top
<1>8. \A k \in 1..n : \E base \in Int :
        /\ base = IF pinned[k] THEN first ELSE header + 1 - start * lines
        /\ top(k) = base + Rank(k, pinned) * lines
        /\ top(k) \in Int
  <2> TAKE k \in 1..n
  <2>1. Rank(k, pinned) \in Int /\ lines \in Int
    BY <1>1, <1>3
  <2>2. Rank(k, pinned) * lines \in Int /\ start * lines \in Int
    BY <1>7, <2>1
  <2>3. (Rank(k, pinned) - start) * lines = Rank(k, pinned) * lines - start * lines
    BY <1>1, <1>7, <2>1
  <2>4. QED
    <3>1. CASE pinned[k]
      BY <1>1, <1>5, <2>2, <3>1
    <3>2. CASE ~pinned[k]
      <4>1. top(k) = header + 1 - start * lines + Rank(k, pinned) * lines
        BY <1>2, <1>5, <2>2, <2>3, <3>2
      <4>2. header + 1 - start * lines \in Int
        BY <1>2, <2>2
      <4>3. QED
        BY <2>2, <3>2, <4>1, <4>2
    <3>3. QED
      BY <3>1, <3>2
<1>9. ASSUME NEW j \in 1..n, i < j, pinned[i] = pinned[j] PROVE top(i) + lines <= top(j)
  <2>1. Rank(i, pinned) < Rank(j, pinned) /\ Rank(i, pinned) \in Nat /\ Rank(j, pinned) \in Nat
    BY <1>9, RankInSection
  <2>2. PICK base \in Int : /\ top(i) = base + Rank(i, pinned) * lines
                            /\ top(j) = base + Rank(j, pinned) * lines
    BY <1>8, <1>9
  <2>3. CASE lines = 1
    BY <2>1, <2>2, <2>3
  <2>4. CASE lines = 2
    BY <2>1, <2>2, <2>4
  <2>5. QED
    BY <1>1, <2>3, <2>4
<1>10. ASSUME i = foc, ~pinned[i], room >= lines
       PROVE  header + 1 <= top(i) /\ top(i) + lines <= header + 1 + room
  <2> DEFINE fits == room \div lines
             d == f - start
  <2>1. f = Rank(i, pinned) /\ d \in 0..(fits - 1) /\ fits \in Nat /\ fits * lines <= room
    BY <1>4, <1>6, <1>7, <1>10
  <2>2. top(i) = header + 1 + d * lines
    BY <1>5, <1>10, <2>1
  <2> HIDE DEF fits, d
  <2>3. CASE lines = 1
    BY <1>2, <2>1, <2>2, <2>3
  <2>4. CASE lines = 2
    BY <1>2, <2>1, <2>2, <2>4
  <2>5. QED
    BY <1>1, <2>3, <2>4
<1>11. pinned[i] => top(i) = first + Rank(i, pinned) * lines
  BY <1>5
<1>12. QED
  BY <1>8, <1>9, <1>10, <1>11 DEF lines, header, first, room, top

\* The parts of an entry of the sidebar.
PieceNames == {"marker", "dot", "name", "branch", "summary"}

\* A piece of an entry on its row, from x on and before `end`.
Bit(x, y, n, end) == [x |-> x, y |-> y, w |-> Least(n, Monus(end, x)), h |-> 1]

\* The pieces of d are on row y and w cells wide at most, one beside the other.
OnOneRow(d, y, w) ==
  /\ d = [piece \in PieceNames |-> d[piece]]
  /\ \A a \in PieceNames : /\ d[a] \in Rectangle /\ d[a].y = y /\ d[a].h = 1 /\ d[a].w \in Nat
                           /\ d[a].w > 0 => d[a].x >= 1 /\ d[a].x + d[a].w <= 1 + w
  /\ \A a, b \in PieceNames : a # b /\ d[a].w > 0 /\ d[b].w > 0 => Apart(d[a], d[b])
  /\ w > 0 => d.marker.w = 1

\* The pieces of an entry of one line are side by side, within its width.
LEMMA OneLinePieces ==
  ASSUME NEW y \in Nat, NEW w \in Nat, NEW h \in Nat, NEW e, e.branch \in Nat, e.name \in Nat, e.summary \in Nat
  PROVE  OnOneRow(OneLineEntry(Rect(1, y, w, h), e), y, w)
<1> DEFINE row == Rect(1, y, w, h)
           right == row.x + row.w
           beside == e.branch > 0 /\ e.branch + 2 <= row.w
           end == IF beside THEN right - e.branch - 1 ELSE right
           name == Bit(4, y, e.name, end)
           after == name.x + name.w + 1
           branch == Rect(right - e.branch, y, IF beside THEN e.branch ELSE 0, 1)
           summary == Bit(after, y, IF after < end THEN e.summary ELSE 0, end)
           marker == Bit(1, y, 1, end)
           dot == Bit(2, y, 1, end)
           d == OneLineEntry(row, e)
<1>1. d = [marker |-> marker, dot |-> dot, name |-> name, branch |-> branch, summary |-> summary]
  BY DEF OneLineEntry, Rect, Bit
<1>2. right = 1 + w /\ right \in Nat
  BY DEF Rect
<1>3. row.w = w
  BY DEF Rect
<1>4. /\ end \in Int /\ end <= right
      /\ w > 0 => end >= 2
      /\ beside => end + 1 = right - e.branch /\ end >= 2
  <2> HIDE DEF right
  <2>1. QED
    BY <1>2, <1>3
<1>5. /\ branch \in Rectangle /\ branch.y = y /\ branch.h = 1 /\ branch.w \in Nat
      /\ branch.w > 0 => branch.x = end + 1 /\ branch.x + branch.w = right /\ branch.x >= 1
  <2> HIDE DEF right, end
  <2>1. QED
    BY <1>2, <1>4 DEF Rect, Rectangle
<1> HIDE DEF right, end, branch, row
<1>6. /\ marker \in Rectangle /\ marker.x = 1 /\ marker.y = y /\ marker.h = 1 /\ marker.w \in 0..1
      /\ marker.w > 0 => marker.x + marker.w <= end
      /\ w > 0 => marker.w = 1
  BY <1>4 DEF Bit, Rectangle, Least, Monus
<1>7. /\ dot \in Rectangle /\ dot.x = 2 /\ dot.y = y /\ dot.h = 1 /\ dot.w \in 0..1
      /\ dot.w > 0 => dot.x + dot.w <= end
  BY <1>4 DEF Bit, Rectangle, Least, Monus
<1>8. /\ name \in Rectangle /\ name.x = 4 /\ name.y = y /\ name.h = 1 /\ name.w \in Nat
      /\ name.w > 0 => name.x + name.w <= end
  BY <1>4 DEF Bit, Rectangle, Least, Monus
<1>9. after \in Nat /\ after = name.x + name.w + 1 /\ after >= 5
  <2> HIDE DEF name
  <2>1. QED
    BY <1>8
<1> HIDE DEF name, after
<1>10. /\ summary \in Rectangle /\ summary.x = after /\ summary.y = y /\ summary.h = 1 /\ summary.w \in Nat
       /\ summary.w > 0 => summary.x + summary.w <= end
  BY <1>4, <1>9 DEF Bit, Rectangle, Least, Monus
<1> HIDE DEF marker, dot, summary, d
<1>11. /\ d = [piece \in PieceNames |-> d[piece]]
       /\ d["marker"] = marker /\ d["dot"] = dot /\ d["name"] = name /\ d["branch"] = branch /\ d["summary"] = summary
       /\ d.marker = marker
  BY <1>1 DEF PieceNames
<1>12. ASSUME NEW a \in PieceNames
       PROVE  /\ d[a] \in Rectangle /\ d[a].y = y /\ d[a].h = 1 /\ d[a].w \in Nat
              /\ d[a].w > 0 => d[a].x >= 1 /\ d[a].x + d[a].w <= 1 + w
  <2>1. CASE a = "marker" BY <1>2, <1>4, <1>6, <1>11, <2>1 DEF Rectangle
  <2>2. CASE a = "dot" BY <1>2, <1>4, <1>7, <1>11, <2>2 DEF Rectangle
  <2>3. CASE a = "name" BY <1>2, <1>4, <1>8, <1>11, <2>3 DEF Rectangle
  <2>4. CASE a = "branch" BY <1>2, <1>5, <1>11, <2>4 DEF Rectangle
  <2>5. CASE a = "summary" BY <1>2, <1>4, <1>9, <1>10, <1>11, <2>5 DEF Rectangle
  <2>6. QED BY <2>1, <2>2, <2>3, <2>4, <2>5 DEF PieceNames
<1>13. ASSUME NEW a \in PieceNames, NEW b \in PieceNames, a # b, d[a].w > 0, d[b].w > 0
       PROVE  d[a].x + d[a].w <= d[b].x \/ d[b].x + d[b].w <= d[a].x
  <2>1. /\ marker.w > 0 => marker.x = 1 /\ marker.x + marker.w = 2 /\ 2 <= end
        /\ dot.w > 0 => dot.x = 2 /\ dot.x + dot.w = 3 /\ 3 <= end
        /\ name.w > 0 => name.x = 4 /\ name.x + name.w = after - 1 /\ after - 1 <= end
        /\ summary.w > 0 => summary.x = after /\ summary.x + summary.w <= end /\ after <= end
        /\ branch.w > 0 => branch.x = end + 1
    BY <1>4, <1>5, <1>6, <1>7, <1>8, <1>9, <1>10
  <2>2. /\ end \in Int /\ after \in Int /\ after >= 5
        /\ name.x + name.w \in Int /\ summary.x + summary.w \in Int /\ branch.x + branch.w \in Int
    BY <1>4, <1>5, <1>8, <1>9, <1>10 DEF Rectangle
  <2>3. CASE a = "marker"
    BY ONLY <1>11, <1>13, <2>1, <2>2, <2>3 DEF PieceNames
  <2>4. CASE a = "dot"
    BY ONLY <1>11, <1>13, <2>1, <2>2, <2>4 DEF PieceNames
  <2>5. CASE a = "name"
    BY ONLY <1>11, <1>13, <2>1, <2>2, <2>5 DEF PieceNames
  <2>6. CASE a = "branch"
    BY ONLY <1>11, <1>13, <2>1, <2>2, <2>6 DEF PieceNames
  <2>7. CASE a = "summary"
    BY ONLY <1>11, <1>13, <2>1, <2>2, <2>7 DEF PieceNames
  <2>8. QED
    BY <2>3, <2>4, <2>5, <2>6, <2>7 DEF PieceNames
<1>14. QED
  BY <1>6, <1>11, <1>12, <1>13 DEF OnOneRow, Apart, d, row

\* The pieces of d are on h rows from y on.
OnRows(d, y, w, h) ==
  /\ d = [piece \in PieceNames |-> d[piece]]
  /\ \A a \in PieceNames : /\ d[a] \in Rectangle /\ y <= d[a].y /\ d[a].y < y + h /\ d[a].h = 1 /\ d[a].w \in Nat
                           /\ d[a].w > 0 => d[a].x >= 1 /\ d[a].x + d[a].w <= 1 + w
  /\ \A a, b \in PieceNames : a # b /\ d[a].w > 0 /\ d[b].w > 0 => Apart(d[a], d[b])
  /\ w > 0 => d.marker.w = 1

\* So are those of an entry of two lines, each on its row.
LEMMA EntryPieces ==
  ASSUME NEW y \in Nat, NEW w \in Nat, NEW h \in {1, 2}, NEW e, e.branch \in Nat, e.name \in Nat, e.summary \in Nat
  PROVE  OnRows(EntryRow(Rect(1, y, w, h), e), y, w, h)
<1> DEFINE row == Rect(1, y, w, h)
           d == EntryRow(row, e)
           c == OneLineEntry(row, e)
           s == Rect(row.x + 7, row.y + 1, Least(e.summary, Monus(row.w, 7)), 1)
<1>0. h \in Nat
  OBVIOUS
<1> HIDE DEF c
<1>1. OnOneRow(c, y, w)
  BY <1>0, OneLinePieces DEF c
<1>2. row.h = h /\ row.w = w /\ row.x = 1 /\ row.y = y
  BY DEF Rect
<1>3. CASE h = 1
  <2>1. d = c
    BY <1>2, <1>3 DEF EntryRow, c
  <2> HIDE DEF d
  <2>2. \A a \in PieceNames : y <= c[a].y /\ c[a].y < y + h
    BY <1>1, <1>3 DEF OnOneRow
  <2>3. QED
    BY <1>1, <2>1, <2>2 DEF OnOneRow, OnRows, d, row
<1>4. CASE h = 2
  <2>1. d = [c EXCEPT !.summary = s]
    BY <1>2, <1>4 DEF EntryRow, TwoLineEntry, c
  <2>2. /\ s \in Rectangle /\ s.y = y + 1 /\ s.h = 1 /\ s.w \in Nat
        /\ s.w > 0 => s.x >= 1 /\ s.x + s.w <= 1 + w
    <3> HIDE DEF row
    <3>1. QED
      BY <1>2 DEF Rect, Rectangle, Least, Monus
  <2> HIDE DEF d, s
  <2>3. /\ d = [piece \in PieceNames |-> d[piece]]
        /\ d["summary"] = s /\ \A a \in PieceNames \ {"summary"} : d[a] = c[a]
        /\ d.marker = c.marker
    BY <1>1, <2>1 DEF OnOneRow, PieceNames
  <2>4. \A a \in PieceNames \ {"summary"} : y <= d[a].y /\ d[a].y < y + h /\ d[a].y = y
    BY <1>1, <1>4, <2>3 DEF OnOneRow
  <2>5. ASSUME NEW a \in PieceNames
        PROVE  /\ d[a] \in Rectangle /\ y <= d[a].y /\ d[a].y < y + h /\ d[a].h = 1 /\ d[a].w \in Nat
               /\ d[a].w > 0 => d[a].x >= 1 /\ d[a].x + d[a].w <= 1 + w
    <3>1. CASE a = "summary"
      BY <1>4, <2>2, <2>3, <3>1
    <3>2. CASE a # "summary"
      BY <1>1, <2>3, <2>4, <3>2 DEF OnOneRow
    <3>3. QED
      BY <3>1, <3>2
  <2>6. ASSUME NEW a \in PieceNames, NEW b \in PieceNames, a # b, d[a].w > 0, d[b].w > 0
        PROVE  Apart(d[a], d[b])
    <3>1. CASE a # "summary" /\ b # "summary"
      BY <1>1, <2>3, <2>6, <3>1 DEF OnOneRow
    <3>2. CASE a = "summary" \/ b = "summary"
      <4>1. d[a].y # d[b].y
        BY <2>2, <2>3, <2>4, <2>6, <3>2
      <4>2. QED
        BY <4>1 DEF Apart
    <3>3. QED
      BY <3>1, <3>2
  <2>7. QED
    BY <1>1, <2>3, <2>5, <2>6 DEF OnOneRow, OnRows, d, row
<1>5. QED
  BY <1>3, <1>4

\* Where the entries are: one below the other, the pinned ones above the header.
PlacedEntries(n, pinned, width, height, foc) ==
  LET lines == EntryLines(width)
      bottom == EntryBottom(height, n)
      header == Header(height, pinned, lines)
      at == Entries(pinned, foc, width, height)
  IN  /\ DOMAIN at \subseteq 1..n
      /\ \A i \in DOMAIN at :
           /\ at[i] = Rect(1, at[i].y, Monus(width, 2), at[i].h)
           /\ at[i].y \in Nat /\ at[i].h \in {1, 2} /\ at[i].y + at[i].h <= bottom
           /\ IF pinned[i] THEN at[i].y >= 2 /\ at[i].y + at[i].h <= header ELSE at[i].y >= header + 1
      /\ \A i, j \in DOMAIN at : i < j /\ pinned[i] = pinned[j] => at[i].y + at[i].h <= at[j].y
      /\ LET room == RoomForUnpinned(height, pinned, lines)
         IN  foc \in 1..n /\ ~pinned[foc] /\ room >= lines => foc \in DOMAIN at

\* The entries listed lie in their section, one below the other.
LEMMA EntriesPlaced ==
  ASSUME NEW n \in Nat, NEW pinned \in [1..n -> BOOLEAN], NEW width \in Nat, NEW height \in Nat, NEW foc \in Int
  PROVE  PlacedEntries(n, pinned, width, height, foc)
<1> DEFINE lines == EntryLines(width)
           bottom == EntryBottom(height, n)
           header == Header(height, pinned, lines)
           first == FirstPin(pinned)
           room == RoomForUnpinned(height, pinned, lines)
           top(k) == EntryTop(k, pinned, foc, height, lines)
           begin(k) == IF pinned[k] THEN first ELSE header + 1
           p == Pins(pinned)
           at == Entries(pinned, foc, width, height)
<1>1. /\ Len(pinned) = n /\ p \in 0..n /\ lines \in {1, 2} /\ bottom \in 0..height
      /\ first \in {1, 2} /\ (p > 0 => first = 2)
      /\ header = first + Least(p * lines, Monus(bottom, first))
      /\ room = Monus(bottom, header + 1)
  BY SectionRows DEF SectionsOf
<1>2. \A i \in 1..n :
        /\ top(i) \in Int
        /\ pinned[i] => top(i) = first + Rank(i, pinned) * lines
        /\ \A j \in 1..n : i < j /\ pinned[i] = pinned[j] => top(i) + lines <= top(j)
        /\ i = foc /\ ~pinned[i] /\ room >= lines =>
             header + 1 <= top(i) /\ top(i) + lines <= header + 1 + room
  BY EntryTops
<1>3. /\ DOMAIN at = {i \in 1..n : top(i) >= begin(i) /\ top(i) < bottom}
      /\ \A i \in DOMAIN at : at[i] = Rect(1, top(i), Monus(width, 2), Least(lines, bottom - top(i)))
  BY <1>1 DEF Entries
<1>4. \A i \in 1..n : Rank(i, pinned) \in Nat /\ (pinned[i] => Rank(i, pinned) < p)
  BY RankInSection
<1> HIDE DEF lines, bottom, header, first, room, top, p, at
<1>5. header \in Nat
  <2>1. p * lines \in Nat
    BY <1>1
  <2>2. QED
    BY <1>1, <2>1 DEF Least, Monus
<1>6. ASSUME NEW i \in DOMAIN at
      PROVE  /\ at[i].y = top(i) /\ at[i].h = Least(lines, bottom - top(i))
             /\ at[i].x = 1 /\ at[i].w = Monus(width, 2)
             /\ at[i] = Rect(1, at[i].y, Monus(width, 2), at[i].h)
             /\ at[i].h \in {1, 2} /\ at[i].h <= lines /\ top(i) + at[i].h <= bottom
             /\ i \in 1..n /\ top(i) >= begin(i) /\ top(i) \in Nat
  <2>1. i \in 1..n /\ top(i) >= begin(i) /\ top(i) < bottom /\ top(i) \in Int
    BY <1>2, <1>3
  <2>2. begin(i) \in Nat
    BY <1>1, <1>5
  <2>3. Least(lines, bottom - top(i)) \in {1, 2} /\ Least(lines, bottom - top(i)) <= lines
        /\ top(i) + Least(lines, bottom - top(i)) <= bottom /\ top(i) \in Nat
    <3> HIDE DEF begin
    <3>1. QED
      BY <1>1, <2>1, <2>2 DEF Least
  <2>4. at[i] = Rect(1, top(i), Monus(width, 2), Least(lines, bottom - top(i)))
    BY <1>3
  <2>5. QED
    BY <2>1, <2>3, <2>4 DEF Rect
<1>7. ASSUME NEW i \in DOMAIN at, pinned[i]
      PROVE  at[i].y >= 2 /\ at[i].y + at[i].h <= header
  <2>1. Rank(i, pinned) \in Nat /\ Rank(i, pinned) < p /\ top(i) = first + Rank(i, pinned) * lines
    BY <1>2, <1>4, <1>6, <1>7
  <2>2. first = 2
    BY <1>1, <2>1
  <2>3. bottom \in Nat /\ p \in Nat /\ first \in Nat /\ at[i].h \in Nat
    BY <1>1, <1>6
  <2>4. first + Rank(i, pinned) * lines + at[i].h <= header
    <3> DEFINE r == Rank(i, pinned)
               h == at[i].h
    <3>1. first + r * lines + h <= bottom /\ h <= lines
      BY <1>6, <2>1
    <3> HIDE DEF r, h
    <3>2. r \in Nat /\ r < p /\ h \in Nat
      BY <2>1, <2>3 DEF r, h
    <3>3. ASSUME lines = 1 PROVE first + r * lines + h <= header
      BY <1>1, <2>3, <3>1, <3>2, <3>3 DEF Least, Monus
    <3>4. ASSUME lines = 2 PROVE first + r * lines + h <= header
      BY <1>1, <2>3, <3>1, <3>2, <3>4 DEF Least, Monus
    <3>5. QED
      BY <1>1, <3>3, <3>4 DEF r, h
  <2>5. QED
    BY <1>6, <1>7, <2>1, <2>2, <2>4
<1>8. ASSUME NEW i \in DOMAIN at, NEW j \in DOMAIN at, i < j, pinned[i] = pinned[j]
      PROVE  at[i].y + at[i].h <= at[j].y
  <2>1. top(i) + lines <= top(j) /\ top(i) \in Int /\ top(j) \in Int
    BY <1>2, <1>6, <1>8
  <2>2. at[i].y = top(i) /\ at[j].y = top(j) /\ at[i].h \in {1, 2} /\ at[i].h <= lines
    BY <1>6
  <2>3. QED
    BY <1>1, <2>1, <2>2
<1>9. ASSUME foc \in 1..n, ~pinned[foc], room >= lines PROVE foc \in DOMAIN at
  <2>1. header + 1 <= top(foc) /\ top(foc) + lines <= header + 1 + room /\ top(foc) \in Int
    BY <1>2, <1>9
  <2>2. header + 1 + room = bottom
    BY <1>1, <1>5, <1>9 DEF Monus
  <2>3. top(foc) >= begin(foc) /\ top(foc) < bottom
    BY <1>1, <1>9, <2>1, <2>2
  <2>4. QED
    BY <1>3, <1>9, <2>3
<1>10. QED
  <2>1. \A i \in DOMAIN at :
                  /\ at[i] = Rect(1, at[i].y, Monus(width, 2), at[i].h)
                  /\ at[i].y \in Nat /\ at[i].h \in {1, 2} /\ at[i].y + at[i].h <= bottom
                  /\ IF pinned[i] THEN at[i].y >= 2 /\ at[i].y + at[i].h <= header ELSE at[i].y >= header + 1
    BY <1>6, <1>7
  <2>2. DOMAIN at \subseteq 1..n
    BY <1>3
  <2>3. QED
    BY <1>8, <1>9, <2>1, <2>2 DEF PlacedEntries, lines, bottom, header, room, at

\* A pane, and what the sidebar is drawn from.
PaneRecord ==
  [name : {"agent", "task"}, emu : Sizes, pty : Sizes, pinned : BOOLEAN, selected : BOOLEAN, reborn : BOOLEAN]

SidebarTyped == panes \in Seq(PaneRecord) /\ focus \in Nat /\ view \in Views /\ measured \in Sizes

\* The pins, as the sidebar takes them.
LEMMA PinnedTyped ==
  ASSUME SidebarTyped
  PROVE  /\ Len(panes) \in Nat /\ Pinned \in [1..Len(panes) -> BOOLEAN]
         /\ \A i \in 1..Len(panes) : panes[i] \in PaneRecord
<1>1. Len(panes) \in Nat /\ \A i \in 1..Len(panes) : panes[i] \in PaneRecord
  BY DEF SidebarTyped
<1>2. \A i \in 1..Len(panes) : panes[i].pinned \in BOOLEAN
  BY <1>1 DEF PaneRecord
<1>3. QED
  BY <1>1, <1>2 DEF Pinned

\* The pieces of the entries listed, on the rows `at`.
LEMMA PiecesPlaced ==
  ASSUME SidebarTyped
  PROVE  LET at == Entries(Pinned, focus + 1, view.width, Monus(measured.h, 2))
             entries == EntriesListed
         IN  /\ DOMAIN entries = DOMAIN at
             /\ \A i \in DOMAIN at :
                  LET d == entries[i]
                  IN  /\ d = [piece \in PieceNames |-> d[piece]]
                      /\ \A a \in PieceNames :
                           /\ d[a] \in Rectangle /\ d[a].h = 1 /\ d[a].w \in Nat
                           /\ at[i].y <= d[a].y /\ d[a].y < at[i].y + at[i].h
                           /\ d[a].w > 0 => d[a].x >= 1 /\ d[a].x + d[a].w <= 1 + Monus(view.width, 2)
                      /\ \A a, b \in PieceNames : a # b /\ d[a].w > 0 /\ d[b].w > 0 => Apart(d[a], d[b])
                      /\ view.width > 2 => d.marker.w = 1
<1> DEFINE at == Entries(Pinned, focus + 1, view.width, Monus(measured.h, 2))
           n == Len(panes)
           width == view.width
           height == Monus(measured.h, 2)
           said(i) == [name |-> NameWidth[panes[i].name], branch |-> BranchWidth, summary |-> measured.w]
<1>1. /\ n \in Nat /\ Pinned \in [1..n -> BOOLEAN] /\ width \in Nat /\ height \in Nat /\ focus + 1 \in Int
      /\ measured.w \in Nat /\ Monus(width, 2) \in Nat /\ (width > 2 => Monus(width, 2) > 0)
  BY PinnedTyped DEF SidebarTyped, Views, Sizes, Monus
<1>2. /\ DOMAIN at \subseteq 1..n
      /\ \A i \in DOMAIN at : /\ at[i] = Rect(1, at[i].y, Monus(width, 2), at[i].h)
                              /\ at[i].y \in Nat /\ at[i].h \in {1, 2}
  <2> HIDE DEF n, width, height
  <2>1. PlacedEntries(n, Pinned, width, height, focus + 1)
    BY <1>1, EntriesPlaced
  <2>2. QED
    BY <2>1 DEF PlacedEntries, n, width, height
<1>3. EntriesListed = [i \in DOMAIN at |-> EntryRow(at[i], said(i))]
  BY DEF EntriesListed
<1>4. \A i \in 1..n : said(i).name \in Nat /\ said(i).branch \in Nat /\ said(i).summary \in Nat
  <2>1. \A i \in 1..n : panes[i].name \in {"agent", "task"}
    BY PinnedTyped DEF PaneRecord
  <2>2. BranchWidth \in Nat
    BY InterfaceAssumption
  <2>3. QED
    BY <1>1, <2>1, <2>2 DEF NameWidth
<1> HIDE DEF at, n, width, height, said
<1>5. ASSUME NEW i \in DOMAIN at
      PROVE  LET d == EntriesListed[i]
             IN  /\ d = [piece \in PieceNames |-> d[piece]]
                 /\ \A a \in PieceNames :
                      /\ d[a] \in Rectangle /\ d[a].h = 1 /\ d[a].w \in Nat
                      /\ at[i].y <= d[a].y /\ d[a].y < at[i].y + at[i].h
                      /\ d[a].w > 0 => d[a].x >= 1 /\ d[a].x + d[a].w <= 1 + Monus(width, 2)
                 /\ \A a, b \in PieceNames : a # b /\ d[a].w > 0 /\ d[b].w > 0 => Apart(d[a], d[b])
                 /\ width > 2 => d.marker.w = 1
  <2> DEFINE y == at[i].y
             w == Monus(width, 2)
             h == at[i].h
             e == said(i)
             d == EntryRow(Rect(1, y, w, h), e)
  <2>1. EntriesListed[i] = d
    BY <1>2, <1>3
  <2>2. y \in Nat /\ w \in Nat /\ h \in {1, 2} /\ e.branch \in Nat /\ e.name \in Nat /\ e.summary \in Nat
    BY <1>1, <1>2, <1>4
  <2> HIDE DEF y, w, h, e
  <2>3. OnRows(d, y, w, h)
    BY <2>2, EntryPieces
  <2> HIDE DEF d
  <2>4. width > 2 => w > 0
    BY <1>1 DEF w
  <2>5. QED
    BY <2>1, <2>3, <2>4 DEF OnRows, y, w, h
<1>6. DOMAIN EntriesListed = DOMAIN at
  BY <1>3
<1>7. QED
  BY <1>5, <1>6 DEF at, width

\* The rows a line of the sidebar may be on, by what it is.
LEMMA LinesPlaced ==
  ASSUME SidebarTyped
  PROVE  LET height == Monus(measured.h, 2)
             lines == EntryLines(view.width)
             bottom == EntryBottom(height, Len(panes))
             header == Header(height, Pinned, lines)
         IN  /\ bottom \in 0..height /\ header \in Nat /\ header > 0 /\ (Pins(Pinned) > 0 => header > 1)
             /\ \A r \in SidebarTitles(Pinned, view.width, height) :
                  /\ r = Rect(1, r.y, Monus(view.width, 2), 1) /\ r.y \in Nat /\ r.y < bottom
                  /\ r.y \in {0, header} \/ (r.y = 1 /\ Pins(Pinned) > 0)
             /\ \A r \in TallyRow(Pinned, view.width, height) :
                  r = Rect(1, bottom, Monus(view.width, 2), 1) /\ bottom < height
<1> DEFINE height == Monus(measured.h, 2)
           lines == EntryLines(view.width)
           bottom == EntryBottom(height, Len(panes))
           header == Header(height, Pinned, lines)
           p == Pins(Pinned)
           first == FirstPin(Pinned)
<1>0. Len(panes) \in Nat /\ Pinned \in [1..Len(panes) -> BOOLEAN] /\ view.width \in Nat /\ height \in Nat
  BY PinnedTyped DEF SidebarTyped, Views, Sizes, Monus
<1>1. /\ Len(Pinned) = Len(panes) /\ p \in Nat /\ lines \in {1, 2} /\ bottom \in 0..height
      /\ HasTally(height, Len(panes)) => bottom = height - 1 /\ height >= 8
      /\ first \in {1, 2} /\ (p > 0 => first = 2)
      /\ header = first + Least(p * lines, Monus(bottom, first))
  <2> HIDE DEF height
  <2>1. SectionsOf(Len(panes), Pinned, view.width, height)
    BY <1>0, SectionRows
  <2>2. QED
    BY <2>1 DEF SectionsOf
<1>2. header \in Nat /\ header >= first
  <2> HIDE DEF header, first, p, lines, bottom, height
  <2>1. p * lines \in Nat
    BY <1>1
  <2>2. QED
    BY <1>0, <1>1, <2>1 DEF Least, Monus
<1>3. ASSUME NEW r \in SidebarTitles(Pinned, view.width, height)
      PROVE  /\ r = Rect(1, r.y, Monus(view.width, 2), 1) /\ r.y \in Nat /\ r.y < bottom
             /\ r.y \in {0, header} \/ (r.y = 1 /\ p > 0)
  <2> HIDE DEF header, lines, height
  <2>1. PICK y \in {0, header} \cup (IF p > 0 THEN {1} ELSE {}) :
          y < bottom /\ r = Rect(1, y, Monus(view.width, 2), 1)
    BY <1>1, <1>3 DEF SidebarTitles, header, lines
  <2>2. r.y = y
    BY <2>1 DEF Rect
  <2>3. QED
    BY <1>2, <2>1, <2>2
<1>4. ASSUME NEW r \in TallyRow(Pinned, view.width, height)
      PROVE  r = Rect(1, bottom, Monus(view.width, 2), 1) /\ bottom < height
  <2>1. HasTally(height, Len(panes)) /\ r = Rect(1, height - 1, Monus(view.width, 2), 1)
    BY <1>1, <1>4 DEF TallyRow
  <2>2. bottom = height - 1
    BY <1>1, <2>1
  <2> HIDE DEF bottom, height
  <2>3. QED
    BY <1>0, <2>1, <2>2
<1> HIDE DEF height, lines, bottom, header, p, first
<1>5. QED
  BY <1>1, <1>2, <1>3, <1>4 DEF height, lines, bottom, header, p

\* What a line of the sidebar is.
LEMMA LinesAre ==
  ASSUME SidebarTyped
  PROVE  \A r \in SidebarLines(EntriesListed) :
           \/ r \in SidebarTitles(Pinned, view.width, Monus(measured.h, 2))
           \/ r \in TallyRow(Pinned, view.width, Monus(measured.h, 2))
           \/ \E i \in DOMAIN EntriesListed : \E a \in PieceNames : r = EntriesListed[i][a]
<1>1. \A i \in DOMAIN EntriesListed : DOMAIN EntriesListed[i] = PieceNames
  BY PiecesPlaced
<1>2. QED
  BY <1>1 DEF SidebarLines

\* Entries are on rows of their own, in their section.
LEMMA EntriesApart ==
  ASSUME SidebarTyped
  PROVE  LET at == Entries(Pinned, focus + 1, view.width, Monus(measured.h, 2))
             bottom == EntryBottom(Monus(measured.h, 2), Len(panes))
             header == Header(Monus(measured.h, 2), Pinned, EntryLines(view.width))
         IN  /\ \A i \in DOMAIN at :
                  /\ at[i].y \in Nat /\ at[i].h \in {1, 2} /\ at[i].y + at[i].h <= bottom /\ header \in Nat
                  /\ (at[i].y >= 2 /\ at[i].y + at[i].h <= header) \/ at[i].y >= header + 1
             /\ \A i, j \in DOMAIN at : i # j => at[i].y + at[i].h <= at[j].y \/ at[j].y + at[j].h <= at[i].y
<1> DEFINE at == Entries(Pinned, focus + 1, view.width, Monus(measured.h, 2))
           n == Len(panes)
           width == view.width
           height == Monus(measured.h, 2)
           bottom == EntryBottom(height, n)
           header == Header(height, Pinned, EntryLines(width))
<1>1. n \in Nat /\ Pinned \in [1..n -> BOOLEAN] /\ width \in Nat /\ height \in Nat /\ focus + 1 \in Int
  BY PinnedTyped DEF SidebarTyped, Views, Sizes, Monus
<1>2. PlacedEntries(n, Pinned, width, height, focus + 1)
  <2> HIDE DEF n, width, height
  <2>1. QED
    BY <1>1, EntriesPlaced
<1>3. header \in Nat /\ bottom \in Nat
  BY <1>1, LinesPlaced
<1>4. /\ DOMAIN at \subseteq 1..n
      /\ \A i \in DOMAIN at :
           /\ at[i].y \in Nat /\ at[i].h \in {1, 2} /\ at[i].y + at[i].h <= bottom
           /\ IF Pinned[i] THEN at[i].y >= 2 /\ at[i].y + at[i].h <= header ELSE at[i].y >= header + 1
      /\ \A i, j \in DOMAIN at : i < j /\ Pinned[i] = Pinned[j] => at[i].y + at[i].h <= at[j].y
  BY <1>2 DEF PlacedEntries
<1> HIDE DEF at, n, bottom, header
<1>5. ASSUME NEW i \in DOMAIN at, NEW j \in DOMAIN at, i < j
      PROVE  at[i].y + at[i].h <= at[j].y \/ at[j].y + at[j].h <= at[i].y
  <2>1. CASE Pinned[i] = Pinned[j]
    BY <1>4, <1>5, <2>1
  <2>2. CASE Pinned[i] # Pinned[j]
    <3>1. Pinned[i] \in BOOLEAN /\ Pinned[j] \in BOOLEAN
      BY <1>1, <1>4
    <3>2. /\ at[i].y \in Nat /\ at[i].h \in Nat /\ at[j].y \in Nat /\ at[j].h \in Nat
          /\ at[i].y + at[i].h <= header \/ at[j].y + at[j].h <= header
          /\ at[i].y >= header + 1 \/ at[j].y >= header + 1
      BY <1>4, <2>2, <3>1
    <3>3. /\ IF Pinned[i] THEN at[i].y + at[i].h <= header ELSE at[i].y >= header + 1
          /\ IF Pinned[j] THEN at[j].y + at[j].h <= header ELSE at[j].y >= header + 1
      BY <1>4
    <3>4. QED
      BY <1>3, <2>2, <3>1, <3>2, <3>3
  <2>3. QED
    BY <2>1, <2>2
<1>6. \A i, j \in DOMAIN at : i # j => i < j \/ j < i
  BY <1>1, <1>4
<1>7. \A i, j \in DOMAIN at : i # j => at[i].y + at[i].h <= at[j].y \/ at[j].y + at[j].h <= at[i].y
  BY <1>5, <1>6
<1>8. QED
  BY <1>3, <1>4, <1>7 DEF at, n, bottom, header

\* No line of the sidebar is outside of it or drawn over another.
LEMMA SidebarLegible ==
  ASSUME SidebarTyped
  PROVE  /\ SidebarIsLegible(EntriesListed)
         /\ \A r \in SidebarLines(EntriesListed) :
              r \in Rectangle /\ r.w \in Nat /\ r.h = 1 /\ r.y \in Nat /\ r.y < Monus(measured.h, 2)
<1> DEFINE at == Entries(Pinned, focus + 1, view.width, Monus(measured.h, 2))
           entries == EntriesListed
           height == Monus(measured.h, 2)
           width == view.width
           bottom == EntryBottom(height, Len(panes))
           header == Header(height, Pinned, EntryLines(width))
           Title(r) == r \in SidebarTitles(Pinned, width, height)
           Tally(r) == r \in TallyRow(Pinned, width, height)
           Piece(r) == \E i \in DOMAIN entries : \E a \in PieceNames : r = entries[i][a]
<1>1. /\ width \in Nat /\ height \in Nat /\ Monus(width, 2) \in Nat
      /\ Monus(width, 2) > 0 => width - 2 = Monus(width, 2)
  BY DEF SidebarTyped, Views, Sizes, Monus
<1>2. /\ bottom \in 0..height /\ header \in Nat /\ header > 0 /\ (Pins(Pinned) > 0 => header > 1)
      /\ \A r : Title(r) => /\ r = Rect(1, r.y, Monus(width, 2), 1) /\ r.y \in Nat /\ r.y < bottom
                            /\ r.y \in {0, header} \/ (r.y = 1 /\ Pins(Pinned) > 0)
      /\ \A r : Tally(r) => r = Rect(1, bottom, Monus(width, 2), 1) /\ bottom < height
  BY LinesPlaced
<1>3. \A r \in SidebarLines(entries) : Title(r) \/ Tally(r) \/ Piece(r)
  BY LinesAre
<1>4. /\ \A i \in DOMAIN at :
           /\ at[i].y \in Nat /\ at[i].h \in {1, 2} /\ at[i].y + at[i].h <= bottom
           /\ (at[i].y >= 2 /\ at[i].y + at[i].h <= header) \/ at[i].y >= header + 1
      /\ \A i, j \in DOMAIN at : i # j => at[i].y + at[i].h <= at[j].y \/ at[j].y + at[j].h <= at[i].y
  BY EntriesApart
<1>5. /\ DOMAIN entries = DOMAIN at
      /\ \A i \in DOMAIN at :
           /\ \A a \in PieceNames :
                /\ entries[i][a] \in Rectangle /\ at[i].y <= entries[i][a].y /\ entries[i][a].y < at[i].y + at[i].h
                /\ entries[i][a].h = 1 /\ entries[i][a].w \in Nat
                /\ entries[i][a].w > 0 =>
                     entries[i][a].x >= 1 /\ entries[i][a].x + entries[i][a].w <= 1 + Monus(width, 2)
           /\ \A a, b \in PieceNames :
                a # b /\ entries[i][a].w > 0 /\ entries[i][b].w > 0 => Apart(entries[i][a], entries[i][b])
  BY PiecesPlaced
<1> HIDE DEF at, entries, height, width, bottom, header, Title, Tally
<1>6. ASSUME NEW r, Title(r) \/ Tally(r)
      PROVE  /\ r \in Rectangle /\ r.x = 1 /\ r.w = Monus(width, 2) /\ r.h = 1 /\ r.y \in Nat /\ r.y < height
             /\ r = Rect(1, r.y, Monus(width, 2), 1)
             /\ Title(r) => r.y < bottom /\ (r.y \in {0, header} \/ (r.y = 1 /\ header > 1))
             /\ Tally(r) => r.y = bottom
  <2>1. \E y \in Nat : r = [x |-> 1, y |-> y, w |-> Monus(width, 2), h |-> 1] /\ y < height
    BY <1>1, <1>2, <1>6 DEF Rect
  <2>2. r \in Rectangle /\ r.x = 1 /\ r.w = Monus(width, 2) /\ r.h = 1 /\ r.y \in Nat /\ r.y < height
    BY <1>1, <2>1 DEF Rectangle
  <2>3. Tally(r) => r.y = bottom
    BY <1>2 DEF Rect
  <2>4. r = Rect(1, r.y, Monus(width, 2), 1)
    BY <2>1 DEF Rect
  <2>5. QED
    BY <1>2, <2>2, <2>3, <2>4
<1>7. ASSUME NEW i \in DOMAIN entries, NEW a \in PieceNames
      PROVE  LET r == entries[i][a]
             IN  /\ r \in Rectangle /\ r.h = 1 /\ r.w \in Nat /\ r.y \in Nat /\ r.y < bottom /\ r.y < height
                 /\ r.y >= 2 /\ r.y # header
                 /\ r.w > 0 => r.x + r.w <= 1 + Monus(width, 2) /\ r.x >= 1
  <2>1. /\ entries[i][a] \in Rectangle /\ at[i].y <= entries[i][a].y /\ entries[i][a].y < at[i].y + at[i].h
        /\ entries[i][a].h = 1 /\ entries[i][a].w \in Nat
        /\ entries[i][a].w > 0 => entries[i][a].x >= 1 /\ entries[i][a].x + entries[i][a].w <= 1 + Monus(width, 2)
        /\ i \in DOMAIN at
    BY <1>5
  <2>2. entries[i][a].y \in Int /\ entries[i][a].x \in Int
    BY <2>1 DEF Rectangle
  <2>3. /\ at[i].y \in Nat /\ at[i].h \in {1, 2} /\ at[i].y + at[i].h <= bottom
        /\ (at[i].y >= 2 /\ at[i].y + at[i].h <= header) \/ at[i].y >= header + 1
    BY <1>4, <2>1
  <2> HIDE DEF Piece
  <2>4. QED
    BY <1>1, <1>2, <2>1, <2>2, <2>3
<1>8. ASSUME NEW r \in SidebarLines(entries)
      PROVE  /\ r \in Rectangle /\ r.w \in Nat /\ r.h = 1 /\ r.y \in Nat /\ r.y < height
             /\ r.w > 0 => r.x + r.w <= 1 + Monus(width, 2) /\ r.x >= 1
  <2>1. CASE Title(r) \/ Tally(r)
    BY <1>1, <1>6, <2>1
  <2>2. CASE Piece(r)
    BY <1>7, <2>2
  <2>3. QED
    BY <1>3, <2>1, <2>2
<1>9. ASSUME NEW r, NEW q, Title(r) \/ Tally(r), Title(q) \/ Tally(q), r # q
      PROVE  r.y # q.y
  BY <1>6, <1>9
<1>10. ASSUME NEW r, NEW q, Title(r) \/ Tally(r), Piece(q)
       PROVE  r.y # q.y
  <2>1. /\ r.y \in Nat
        /\ (r.y < bottom /\ (r.y \in {0, header} \/ (r.y = 1 /\ header > 1))) \/ r.y = bottom
    BY <1>6, <1>10
  <2>2. q.y \in Nat /\ q.y < bottom /\ q.y >= 2 /\ q.y # header
    BY <1>7, <1>10
  <2>3. QED
    BY <1>2, <2>1, <2>2
<1>11. ASSUME NEW r, NEW q, Piece(r), Piece(q), r # q, r.w > 0, q.w > 0
       PROVE  Apart(r, q)
  <2>1. PICK i \in DOMAIN entries, a \in PieceNames : r = entries[i][a]
    BY <1>11
  <2>2. PICK j \in DOMAIN entries, b \in PieceNames : q = entries[j][b]
    BY <1>11
  <2>3. CASE i = j
    <3>1. a # b
      BY <1>11, <2>1, <2>2, <2>3
    <3>2. QED
      BY <1>5, <1>11, <2>1, <2>2, <2>3, <3>1
  <2>4. CASE i # j
    <3>1. at[i].y + at[i].h <= at[j].y \/ at[j].y + at[j].h <= at[i].y
      BY <1>4, <1>5, <2>4
    <3>2. /\ at[i].y \in Nat /\ at[i].h \in Nat /\ at[j].y \in Nat /\ at[j].h \in Nat
          /\ at[i].y <= r.y /\ r.y < at[i].y + at[i].h /\ at[j].y <= q.y /\ q.y < at[j].y + at[j].h
      BY <1>4, <1>5, <2>1, <2>2
    <3>3. r.y \in Int /\ q.y \in Int
      BY <1>7, <2>1, <2>2
    <3>4. r.y # q.y
      BY ONLY <3>1, <3>2, <3>3
    <3>5. QED
      BY <3>4 DEF Apart
  <2>5. QED
    BY <2>3, <2>4
<1>12. \A r, q \in {l \in SidebarLines(entries) : l.w > 0} : r # q => Apart(r, q)
  <2> SUFFICES ASSUME NEW r \in SidebarLines(entries), NEW q \in SidebarLines(entries), r.w > 0, q.w > 0, r # q
               PROVE  Apart(r, q)
    OBVIOUS
  <2> HIDE DEF Piece
  <2>1. CASE Piece(r) /\ Piece(q)
    BY <1>11, <2>1
  <2>2. CASE ~(Piece(r) /\ Piece(q))
    <3>1. r.y # q.y
      BY <1>3, <1>9, <1>10, <2>2
    <3>2. QED
      BY <3>1 DEF Apart
  <2>3. QED
    BY <2>1, <2>2
<1>13. \A r \in {l \in SidebarLines(entries) : l.w > 0} : r.x + r.w < width /\ r.y + r.h <= height
  <2> SUFFICES ASSUME NEW r \in SidebarLines(entries), r.w > 0
               PROVE  r.x + r.w < width /\ r.y + r.h <= height
    OBVIOUS
  <2>1. /\ r \in Rectangle /\ r.w \in Nat /\ r.h = 1 /\ r.y \in Nat /\ r.y < height
        /\ r.x + r.w <= 1 + Monus(width, 2) /\ r.x >= 1 /\ r.x \in Int
    BY <1>8 DEF Rectangle
  <2>2. Monus(width, 2) > 0
    BY <1>1, <2>1
  <2>3. QED
    BY <1>1, <2>1, <2>2
<1>14. QED
  BY <1>8, <1>12, <1>13 DEF SidebarIsLegible, height, width, entries

\* The focused agent has an entry, with its mark.
LEMMA FocusListed ==
  ASSUME SidebarTyped
  PROVE  FocusedIsListed(EntriesListed)
<1> DEFINE room == RoomForUnpinned(Monus(measured.h, 2), Pinned, EntryLines(view.width))
           n == Len(panes)
           width == view.width
           height == Monus(measured.h, 2)
<1> SUFFICES ASSUME view.width > 2, Exists(focus), ~Pinned[focus + 1], room >= EntryLines(view.width)
             PROVE  focus + 1 \in DOMAIN EntriesListed /\ EntriesListed[focus + 1].marker.w = 1
  BY DEF FocusedIsListed
<1>1. n \in Nat /\ Pinned \in [1..n -> BOOLEAN] /\ width \in Nat /\ height \in Nat /\ focus + 1 \in Int
  BY PinnedTyped DEF SidebarTyped, Views, Sizes, Monus
<1>2. focus + 1 \in 1..n
  BY <1>1 DEF Exists, SidebarTyped
<1>3. PlacedEntries(n, Pinned, width, height, focus + 1)
  <2> HIDE DEF n, width, height
  <2>1. QED
    BY <1>1, EntriesPlaced
<1>4. focus + 1 \in DOMAIN Entries(Pinned, focus + 1, width, height)
  BY <1>2, <1>3 DEF PlacedEntries
<1>5. QED
  BY <1>4, PiecesPlaced

-----------------------------------------------------------------------------
(* The cursor of an overlay *)

\* The cursor is on a row of the list it moves in.
CursorTyped ==
  /\ cursor \in Nat /\ items \in Int
  /\ mode = "Spawn" => cursor < Options
  /\ mode = "Sidebar" => cursor < Len(NavItems)
  /\ mode = "Settings" => cursor < SettingsRows
  /\ mode = "TasksList" => cursor = 0 \/ cursor < items

\* A box is as high as its rows need and the terminal has.
LEMMA BoxHeight ==
  ASSUME NEW size \in Sizes, NEW least, NEW most, NEW rows \in Int, size.h >= 11
  PROVE  /\ Box(size, least, most, rows).h = Most(Least(rows + 3, size.h - 4), 5)
         /\ Box(size, least, most, rows).h \in Int
<1>1. size.h \in Nat /\ Monus(size.h, 4) = size.h - 4
  BY DEF Sizes, Monus
<1>2. Box(size, least, most, rows).h = Most(Least(rows + 3, size.h - 4), 5)
  BY <1>1 DEF Box, Centred, Rect
<1>3. Most(Least(rows + 3, size.h - 4), 5) \in Int
  BY <1>1 DEF Most, Least
<1>4. QED
  BY <1>2, <1>3

\* A list that scrolls shows the row the cursor is on.
LEMMA ScrollShows ==
  ASSUME NEW rows \in Int, NEW visible \in 2..8, NEW at \in Nat, NEW n \in Int, at < n, rows = Least(n, visible),
         NEW h \in Nat, h >= 11, visible <= Most(h \div 12, 2), NEW box, box.h = Most(Least(rows + 3, h - 4), 5)
  PROVE  at \in ScrolledRows(box, at, visible)
<1>1. visible <= h - 7
  BY DEF Most
<1>2. visible \in Int /\ h \in Int
  OBVIOUS
<1>3. rows \in Int /\ rows >= 1 /\ (rows = n \/ rows = visible) /\ rows <= visible
  BY DEF Least
<1>4. box.h \in Int /\ box.h >= rows + 3
  BY <1>1, <1>2, <1>3 DEF Most, Least
<1>5. /\ Monus(at, visible - 1) \in Nat
      /\ Monus(at, visible - 1) = at - (visible - 1) \/ (Monus(at, visible - 1) = 0 /\ at <= visible - 1)
  BY DEF Monus
<1>6. at >= Monus(at, visible - 1) /\ at <= Monus(at, visible - 1) + box.h - 3
  BY <1>2, <1>3, <1>4, <1>5
<1>7. QED
  BY <1>4, <1>5, <1>6 DEF ScrolledRows

\* The row of the cursor is drawn in every overlay that has one.
LEMMA CursorDrawn ==
  ASSUME CursorTyped, term \in Sizes, term.h >= 11
  PROVE  CursorIsDrawn
<1>1. term.h \in Nat /\ Options \in Nat \ {0} /\ Len(NavItems) = 3 /\ cursor \in Nat /\ items \in Int
  BY InterfaceAssumption DEF Sizes, NavItems, CursorTyped
<1>2. /\ SpawnVisible(term) \in 2..8 /\ SpawnVisible(term) <= Most(term.h \div 12, 2)
      /\ TasksVisible(term) \in 2..8 /\ TasksVisible(term) <= Most(term.h \div 12, 2)
  BY <1>1 DEF SpawnVisible, TasksVisible, Clamp, Most, Least
<1>3. CASE mode = "Spawn"
  <2> DEFINE rows == Least(Options, SpawnVisible(term))
             box == SpawnBox(term, Options)
  <2>1. rows \in Int
    BY <1>1, <1>2 DEF Least
  <2>2. box.h = Most(Least(rows + 3, term.h - 4), 5)
    <3> HIDE DEF rows
    <3>1. QED
      BY <2>1, BoxHeight DEF SpawnBox, rows
  <2>3. cursor < Options
    BY <1>3 DEF CursorTyped
  <2> HIDE DEF box
  <2>4. cursor \in ScrolledRows(box, cursor, SpawnVisible(term))
    BY <1>1, <1>2, <2>1, <2>2, <2>3, ScrollShows
  <2>5. QED
    BY <1>3, <2>4 DEF CursorIsDrawn, box
<1>4. CASE mode = "TasksList"
  <2> SUFFICES ASSUME items > 0
               PROVE  cursor \in ScrolledRows(TasksListBox(term, items, FALSE), cursor, TasksVisible(term))
    BY <1>4 DEF CursorIsDrawn
  <2> DEFINE rows == Least(items, TasksVisible(term))
             box == TasksListBox(term, items, FALSE)
  <2>1. rows \in Int
    BY <1>1, <1>2 DEF Least
  <2>2. box.h = Most(Least(rows + 3, term.h - 4), 5)
    <3>1. box = Box(term, 40, 72, rows)
      BY DEF TasksListBox
    <3> HIDE DEF rows, box
    <3>2. QED
      BY <2>1, <3>1, BoxHeight
  <2>3. cursor < items
    BY <1>1, <1>4 DEF CursorTyped
  <2> HIDE DEF box
  <2>4. cursor \in ScrolledRows(box, cursor, TasksVisible(term))
    BY <1>1, <1>2, <2>1, <2>2, <2>3, ScrollShows
  <2>5. QED
    BY <2>4 DEF box
<1>5. CASE mode = "Sidebar"
  <2>1. cursor < 3
    BY <1>1, <1>5 DEF CursorTyped
  <2>2. NavBox(term, Len(NavItems)).h = Most(Least(3 + 3, term.h - 4), 5)
    BY <1>1, BoxHeight DEF NavBox
  <2>3. NavBox(term, Len(NavItems)).h = 6
    BY <1>1, <2>2 DEF Most, Least
  <2>4. QED
    BY <1>1, <1>5, <2>1, <2>3 DEF CursorIsDrawn, PlainRows
<1>6. CASE mode = "Settings"
  <2>1. cursor < 4
    BY <1>1, <1>6 DEF CursorTyped, SettingsRows
  <2>2. SettingsBox(term, SettingsRows).h = Most(Least(4 + 3, term.h - 4), 5)
    BY <1>1, BoxHeight DEF SettingsBox, SettingsRows
  <2>3. SettingsBox(term, SettingsRows).h = 7
    BY <1>1, <2>2 DEF Most, Least
  <2>4. QED
    BY <1>1, <1>6, <2>1, <2>3 DEF CursorIsDrawn, PlainRows
<1>7. CASE mode \notin {"Spawn", "TasksList", "Sidebar", "Settings"}
  BY <1>7 DEF CursorIsDrawn
<1>8. QED
  BY <1>3, <1>4, <1>5, <1>6, <1>7

\* A sequence, whatever is in it.
Listed(q) == q = [i \in 1..Len(q) |-> q[i]] /\ Len(q) \in Nat

\* The types of what is laid out and drawn.
InterfaceTyped ==
  /\ term \in Terminals /\ known \in Sizes /\ measured \in Sizes
  /\ panes \in Seq(PaneRecord) /\ focus \in Nat /\ view \in Views
  /\ Listed(pane_rects)

\* What the lemmas about the sidebar and the layout assume.
LEMMA TypedFacts ==
  ASSUME InterfaceTyped
  PROVE  /\ SidebarTyped /\ term \in Sizes /\ NoSize \in Sizes
         /\ Len(panes) \in Nat /\ \A i \in 1..Len(panes) : panes[i] \in PaneRecord
<1>1. Terminals \subseteq Sizes
  BY InterfaceAssumption DEF Sizes
<1>2. NoSize \in Sizes
  BY DEF NoSize, Size, Sizes
<1>3. QED
  BY <1>1, <1>2 DEF InterfaceTyped, SidebarTyped

\* The panes the jump palette lists are panes, finitely many.
LEMMA MatchingCounted ==
  ASSUME InterfaceTyped
  PROVE  Cardinality(Matching) \in Nat /\ Matching \subseteq 0..(Len(panes) - 1)
<1>1. Matching \subseteq 0..(Len(panes) - 1)
  BY DEF Matching
<1>2. IsFiniteSet(0..(Len(panes) - 1))
  BY TypedFacts, FS_Interval
<1>3. IsFiniteSet(Matching)
  BY <1>1, <1>2, FS_Subset
<1>4. QED
  BY <1>1, <1>3, FS_CardinalityType

\* A click is on a pane of the last frame or on none.
LEMMA PaneAtInRange ==
  ASSUME InterfaceTyped, NEW p
  PROVE  PaneAt(p) \in -1..(Len(pane_rects) - 1)
<1> DEFINE I == {i \in 1..Len(pane_rects) : Covers(pane_rects[i], p)}
<1>1. PaneAt(p) = (IF I # {} THEN Min(I) ELSE 0) - 1
  BY DEF PaneAt, SelectInSeq
<1>2. I # {} => Min(I) \in I
  <2> SUFFICES ASSUME I # {} PROVE Min(I) \in I
    OBVIOUS
  <2>1. I \subseteq Nat
    BY DEF InterfaceTyped, Listed
  <2>2. \E x \in I : \A y \in I : x <= y
    BY <2>1, LeastOfNaturals
  <2> HIDE DEF I
  <2>3. QED
    BY <2>2 DEF Min
<1>3. Len(pane_rects) \in Nat
  BY DEF InterfaceTyped, Listed
<1>4. I \subseteq 1..Len(pane_rects)
  OBVIOUS
<1> HIDE DEF I
<1>5. CASE I = {}
  BY <1>1, <1>3, <1>5
<1>6. CASE I # {}
  <2>1. Min(I) \in 1..Len(pane_rects) /\ PaneAt(p) = Min(I) - 1
    BY <1>1, <1>2, <1>4, <1>6
  <2>2. QED
    BY <1>3, <2>1
<1>7. QED
  BY <1>5, <1>6

-----------------------------------------------------------------------------
(* Keys and the cursor *)

\* An overlay that opens or closes has its cursor on the first row.
LEMMA OpenResets ==
  ASSUME NEW m, Open(m)
  PROVE  CursorTyped'
<1>1. Options \in Nat \ {0} /\ Len(NavItems) = 3
  BY InterfaceAssumption DEF NavItems
<1>2. cursor' = 0 /\ items' = 0
  BY DEF Open
<1>3. QED
  BY <1>1, <1>2 DEF CursorTyped, SettingsRows, NavItems

\* Up and Down keep the cursor on a row of the list.
LEMMA CursorMoves ==
  ASSUME CursorTyped, NEW k, NEW n \in Int, MoveCursor(k, n),
         mode \in {"Spawn", "Sidebar", "Settings", "TasksList", "Jump"},
         mode = "Spawn" => n = Options,
         mode = "Sidebar" => n = Len(NavItems),
         mode = "Settings" => n = SettingsRows,
         mode = "TasksList" => n = items
  PROVE  CursorTyped'
<1>1. cursor \in Nat /\ items \in Int /\ mode' = mode /\ items' = items
  BY DEF CursorTyped, MoveCursor
<1>2. /\ cursor' \in Nat /\ (cursor' <= cursor \/ cursor' < n) /\ (cursor = 0 => cursor' = 0 \/ cursor' < n)
  BY <1>1 DEF MoveCursor, Monus
<1>3. Options \in Nat /\ Len(NavItems) = 3
  BY InterfaceAssumption DEF NavItems
<1>4. QED
  BY <1>1, <1>2, <1>3 DEF CursorTyped, SettingsRows, NavItems

\* A step that leaves the overlay alone leaves its cursor on a row.
LEMMA OverlayStays ==
  ASSUME CursorTyped, UNCHANGED <<mode, cursor, items>>
  PROVE  CursorTyped'
BY DEF CursorTyped

\* No key takes the cursor off the rows of its overlay ...
LEMMA KeyKeepsCursor ==
  ASSUME InterfaceTyped, CursorTyped, NEW k \in Keys, KeyInMode(k)
  PROVE  CursorTyped'
<1>0. /\ Options \in Int /\ Len(NavItems) \in Int /\ SettingsRows \in Int
      /\ items \in Int /\ Cardinality(Matching) \in Int
  BY InterfaceAssumption, MatchingCounted DEF NavItems, SettingsRows, CursorTyped
<1>1. CASE NormalKey(k) \/ MoveFocus(k)
  BY <1>1, OverlayStays DEF NormalKey, MoveFocus, overlay
<1>2. CASE ReadOnlyKey(k) \/ LeavePaneMode(k)
  BY <1>2, OpenResets DEF ReadOnlyKey, LeavePaneMode, Close
<1>3. CASE k = "Other" /\ (OpenOverlay \/ ShowHelp \/ ToggleZoom \/ ToggleSidebar \/ TogglePin \/ ClosePane)
  <2>1. CASE OpenOverlay
    BY <2>1, OpenResets DEF OpenOverlay
  <2>2. CASE ShowHelp \/ ToggleZoom \/ ToggleSidebar \/ TogglePin
    BY <2>2, OverlayStays DEF ShowHelp, ToggleZoom, ToggleSidebar, TogglePin, overlay
  <2>3. CASE ClosePane
    <3>1. UNCHANGED <<cursor, items>> /\ (mode' = "Normal" \/ mode' = mode)
      BY <2>3 DEF ClosePane
    <3>2. QED
      BY <3>1 DEF CursorTyped
  <2>4. QED
    BY <1>3, <2>1, <2>2, <2>3
<1>4. CASE JumpKey(k)
  <2>1. CASE Close
    BY <2>1, OpenResets DEF Close
  <2>2. CASE MoveCursor(k, Cardinality(Matching))
    BY <1>0, <1>4, <2>2, CursorMoves DEF JumpKey
  <2>3. CASE cursor' = 0 /\ UNCHANGED <<mode, show_help, items, focus>>
    BY <1>4, <2>3 DEF JumpKey, CursorTyped
  <2>4. QED
    BY <1>4, <2>1, <2>2, <2>3 DEF JumpKey
<1>5. CASE SpawnKey(k)
  <2>1. CASE Close \/ Open("SpawnCustom")
    BY <2>1, OpenResets DEF Close
  <2>2. CASE MoveCursor(k, Options)
    BY <1>0, <1>5, <2>2, CursorMoves DEF SpawnKey
  <2>3. QED
    BY <1>5, <2>1, <2>2 DEF SpawnKey
<1>6. CASE SpawnCustomKey(k)
  <2>1. CASE Close
    BY <2>1, OpenResets DEF Close
  <2>2. CASE Type("") \/ Type("agent")
    BY <2>2, OverlayStays DEF Type
  <2>3. QED
    BY <1>6, <2>1, <2>2 DEF SpawnCustomKey
<1>7. CASE SidebarKey(k)
  <2>1. CASE Close \/ Open(NavItems[cursor + 1])
    BY <2>1, OpenResets DEF Close
  <2>2. CASE MoveCursor(k, Len(NavItems))
    BY <1>0, <1>7, <2>2, CursorMoves DEF SidebarKey
  <2>3. QED
    BY <1>7, <2>1, <2>2 DEF SidebarKey
<1>8. CASE TasksRepoKey(k)
  <2>1. CASE Close
    BY <2>1, OpenResets DEF Close
  <2>2. CASE Type("") \/ Type("agent") \/ Type("none")
    BY <2>2, OverlayStays DEF Type
  <2>3. CASE UNCHANGED overlay
    BY <2>3, OverlayStays DEF overlay
  <2>4. CASE items' \in 0..MaxItems \cup {FetchFailed} /\ mode' = "TasksList" /\ cursor' = 0
    <3>1. items' \in Int
      BY <2>4, InterfaceAssumption DEF FetchFailed
    <3>2. QED
      BY <2>4, <3>1 DEF CursorTyped
  <2>5. QED
    BY <1>8, <2>1, <2>2, <2>3, <2>4 DEF TasksRepoKey
<1>9. CASE TasksListKey(k)
  <2>1. CASE Close
    BY <2>1, OpenResets DEF Close
  <2>2. CASE MoveCursor(k, items)
    BY <1>0, <1>9, <2>2, CursorMoves DEF TasksListKey
  <2>3. CASE UNCHANGED overlay
    BY <2>3, OverlayStays DEF overlay
  <2>4. QED
    BY <1>9, <2>1, <2>2, <2>3 DEF TasksListKey
<1>10. CASE SettingsKey(k)
  <2>1. CASE Close
    BY <2>1, OpenResets DEF Close
  <2>2. CASE MoveCursor(k, SettingsRows)
    BY <1>0, <1>10, <2>2, CursorMoves DEF SettingsKey
  <2>3. CASE UNCHANGED overlay
    BY <2>3, OverlayStays DEF overlay
  <2>4. QED
    BY <1>10, <2>1, <2>2, <2>3 DEF SettingsKey
<1>11. QED
  BY <1>1, <1>2, <1>3, <1>4, <1>5, <1>6, <1>7, <1>8, <1>9, <1>10 DEF KeyInMode

\* ... and no other step does.
LEMMA CursorStep ==
  ASSUME InterfaceTyped, CursorTyped, [Next]_vars
  PROVE  CursorTyped'
<1>1. CASE Event
  <2>1. CASE NoEvent \/ ResizeEvent \/ MouseUp \/ \E p \in Points : MouseDown(p) \/ MouseDrag(p)
    BY <2>1, OverlayStays DEF NoEvent, ResizeEvent, MouseUp, MouseDown, MouseDrag, overlay
  <2>2. CASE Gateway
    BY <2>2, OpenResets DEF Gateway
  <2>3. CASE \E k \in Keys : DismissHelp(k)
    BY <2>3, OverlayStays DEF DismissHelp
  <2>4. CASE \E k \in Keys : KeyInMode(k)
    BY <2>4, KeyKeepsCursor
  <2>5. QED
    BY <1>1, <2>1, <2>2, <2>3, <2>4 DEF Event
<1>2. CASE \/ Render \/ Draw \/ Skip \/ SpawnTask \/ Quit \/ ResizeTerminal
           \/ \E i \in 1..Len(panes) : Reap(i) \/ Respawn(i)
  BY <1>2, OverlayStays DEF Render, Draw, Skip, SpawnTask, Quit, ResizeTerminal, Reap, Respawn, overlay
<1>3. CASE UNCHANGED vars
  BY <1>3, OverlayStays DEF vars, overlay
<1>4. QED
  BY <1>1, <1>2, <1>3 DEF Next

-----------------------------------------------------------------------------
(* The panes *)

\* The process has the size of the emulator, or it was started again since.
PtyFits(p) == p.pty \in {NoSize, p.emu} \/ p.reborn

\* During a drag only the pane it began in is selected; else one pane may be.
SelectedWell ==
  shifted \/ \A i \in 1..Len(panes) : panes[i].selected =>
    /\ drag_origin # NoDrag => i = drag_origin + 1
    /\ \A j \in 1..Len(panes) : panes[j].selected => i = j

\* What is known of the panes: their sizes and their selections.
PanesInv ==
  /\ \A i \in 1..Len(panes) : PtyFits(panes[i])
  /\ SelectedWell

\* The panes stay, each with its selection.
PaneByPane ==
  /\ panes' = [i \in 1..Len(panes) |-> panes'[i]]
  /\ \A i \in 1..Len(panes) : panes'[i] \in PaneRecord /\ PtyFits(panes'[i])

\* Panes rewritten one by one are as many panes, each well formed.
LEMMA PaneByPaneTyped ==
  ASSUME InterfaceTyped, PaneByPane
  PROVE  panes' \in Seq(PaneRecord) /\ Len(panes') = Len(panes) /\ \A i \in 1..Len(panes') : PtyFits(panes'[i])
<1>1. Len(panes) \in Nat /\ \A i \in 1..Len(panes) : panes'[i] \in PaneRecord
  BY TypedFacts DEF PaneByPane
<1>2. panes' = [i \in 1..Len(panes) |-> panes'[i]]
  BY DEF PaneByPane
<1> DEFINE q == [i \in 1..Len(panes) |-> panes'[i]]
<1>3. q \in Seq(PaneRecord) /\ Len(q) = Len(panes)
  BY <1>1
<1> HIDE DEF q
<1>4. panes' = q
  BY <1>2 DEF q
<1>5. QED
  BY <1>3, <1>4 DEF PaneByPane

\* A step that selects no pane keeps what is known of the selections.
LEMMA SelectionKept ==
  ASSUME PanesInv, Len(panes') = Len(panes), UNCHANGED <<drag_origin, shifted>>,
         \A i \in 1..Len(panes) : panes'[i].selected => panes[i].selected
  PROVE  SelectedWell'
BY DEF PanesInv, SelectedWell

\* Every pane of the frame has its rectangle, inside the terminal.
LEMMA LaidOut ==
  ASSUME InterfaceTyped
  PROVE  /\ Listed(Rects)
         /\ \A k \in DOMAIN Rects : Inside(Rects[k], term)
         /\ \A i \in Drawn : i \in 1..Len(panes) /\ PlaceOf(i) \in Rectangle
         /\ ~Zooming => Len(Rects) = Len(panes)
<1> DEFINE area == PaneArea(term, view)
           n == Len(panes)
<1>1. /\ area \in Rectangle /\ area.w \in Nat /\ area.h \in Nat /\ area.x \in Nat /\ area.y = 0
      /\ area.x + area.w = term.w /\ area.h <= term.h
  BY TypedFacts, PaneAreaFits DEF InterfaceTyped
<1>2. n \in Nat /\ term.w \in Nat /\ term.h \in Nat
  BY TypedFacts DEF Sizes
<1>3. CASE Zooming
  <2>1. Rects = <<area>> /\ \A i : PlaceOf(i) = area
    BY <1>3 DEF Rects, PlaceOf
  <2>2. Drawn = {focus + 1} /\ focus + 1 \in 1..n
    BY <1>2, <1>3 DEF Drawn, Zooming, Exists, InterfaceTyped
  <2> HIDE DEF area
  <2>3. Listed(Rects) /\ DOMAIN Rects = {1} /\ Rects[1] = area
    BY <2>1 DEF Listed
  <2>4. Inside(area, term)
    BY <1>1, <1>2 DEF Inside
  <2>5. QED
    BY <1>1, <1>3, <2>1, <2>2, <2>3, <2>4
<1>4. CASE ~Zooming
  <2>1. Rects = SplitPanes(area, n) /\ (\A i : PlaceOf(i) = Rects[i]) /\ Drawn = 1..n
    BY <1>4 DEF Rects, PlaceOf, Drawn
  <2>2. SplitPanes(area, n) = [k \in 1..n |-> SplitPanes(area, n)[k]]
    BY DEF SplitPanes
  <2>3. \A k \in 1..n : LET r == SplitPanes(area, n)[k]
                        IN  /\ r \in Rectangle
                            /\ area.x <= r.x /\ r.x + r.w <= area.x + area.w
                            /\ area.y <= r.y /\ r.y + r.h <= area.y + area.h
    BY <1>1, <1>2, SplitStaysInside
  <2> HIDE DEF area
  <2>4. \A k \in 1..n : Rects[k] \in Rectangle /\ Inside(Rects[k], term)
    <3> TAKE k \in 1..n
    <3>1. Rects[k] \in Rectangle /\ Rects[k].x + Rects[k].w <= term.w /\ Rects[k].y + Rects[k].h <= area.h
      BY <1>1, <2>1, <2>3
    <3>2. Rects[k].y + Rects[k].h <= term.h
      BY <1>1, <1>2, <3>1 DEF Rectangle
    <3>3. QED
      BY <3>1, <3>2 DEF Inside
  <2>5. Rects = [k \in 1..n |-> Rects[k]]
    BY <2>1, <2>2
  <2>6. DOMAIN Rects = 1..n /\ Len(Rects) = n /\ Listed(Rects)
    BY <1>2, <2>5 DEF Listed
  <2>7. QED
    BY <2>1, <2>4, <2>6
<1>5. QED
  BY <1>3, <1>4

\* The size inside a border is a size, whatever the rectangle.
LEMMA InnerSize ==
  ASSUME NEW r \in Rectangle
  PROVE  Inner(r) \in Sizes
<1>1. r.w \in Int /\ r.h \in Int
  BY DEF Rectangle
<1>2. \A a \in Int : Most(Monus(a, 2), 2) \in Nat
  BY DEF Most, Monus
<1>3. QED
  BY <1>1, <1>2 DEF Inner, Size, Sizes, MIN_COLS, MIN_ROWS

\* A frame gives every pane drawn the size inside its border.
LEMMA RenderPanes ==
  ASSUME InterfaceTyped, PanesInv, Render
  PROVE  PaneByPane /\ SelectedWell' /\ \A i \in Drawn : panes'[i].emu = Inner(PlaceOf(i))
<1>1. panes' = [i \in 1..Len(panes) |-> IF i \in Drawn THEN Fitted(i) ELSE panes[i]]
  BY DEF Render
<1>2. ASSUME NEW i \in 1..Len(panes)
      PROVE  /\ panes'[i] \in PaneRecord /\ PtyFits(panes'[i]) /\ panes'[i].selected = panes[i].selected
             /\ i \in Drawn => panes'[i].emu = Inner(PlaceOf(i))
  <2> DEFINE size == Inner(PlaceOf(i))
  <2>1. panes[i] \in PaneRecord /\ PtyFits(panes[i])
    BY TypedFacts DEF PanesInv
  <2>2. CASE i \in Drawn /\ panes[i].emu # size
    <3>1. size \in Sizes
      BY <2>2, LaidOut, InnerSize
    <3>2. panes'[i] = [panes[i] EXCEPT !.emu = size, !.pty = IF @ = NoSize THEN NoSize ELSE size, !.reborn = FALSE]
      BY <1>1, <2>2 DEF Fitted
    <3> HIDE DEF size
    <3> DEFINE pty == IF panes[i].pty = NoSize THEN NoSize ELSE size
    <3>3. panes'[i] = [panes[i] EXCEPT !.emu = size, !.pty = pty, !.reborn = FALSE]
      BY <3>2
    <3>4. pty \in Sizes /\ pty \in {NoSize, size}
      BY <3>1, TypedFacts
    <3> HIDE DEF pty
    <3>5. /\ panes'[i] \in PaneRecord /\ panes'[i].selected = panes[i].selected
          /\ panes'[i].emu = size /\ panes'[i].pty \in {NoSize, size}
      <4>1. /\ panes'[i] \in PaneRecord /\ panes'[i].selected = panes[i].selected
            /\ panes'[i].emu = size /\ panes'[i].pty = pty
        BY ONLY <2>1, <3>1, <3>3, <3>4 DEF PaneRecord
      <4>2. QED
        BY <3>4, <4>1
    <3>6. QED
      BY <3>5 DEF PtyFits, size
  <2>3. CASE ~(i \in Drawn /\ panes[i].emu # size)
    <3>1. panes'[i] = panes[i]
      BY <1>1, <2>3 DEF Fitted
    <3>2. QED
      BY <2>1, <2>3, <3>1
  <2>4. QED
    BY <2>2, <2>3
<1>3. PaneByPane
  BY <1>1, <1>2 DEF PaneByPane
<1>4. \A i \in Drawn : i \in 1..Len(panes)
  BY LaidOut
<1>5. Len(panes') = Len(panes) /\ UNCHANGED <<drag_origin, shifted>>
  BY <1>3, PaneByPaneTyped DEF Render
<1>6. SelectedWell'
  BY <1>2, <1>5, SelectionKept
<1>7. QED
  BY <1>2, <1>3, <1>4, <1>6

\* One field of one pane is written.
LEMMA PaneWritten ==
  ASSUME InterfaceTyped, PanesInv, NEW i \in 1..Len(panes), NEW p \in PaneRecord, PtyFits(p),
         panes' = [panes EXCEPT ![i] = p]
  PROVE  /\ PaneByPane /\ panes'[i] = p /\ Len(panes') = Len(panes)
         /\ \A j \in 1..Len(panes) \ {i} : panes'[j] = panes[j]
<1>1. /\ Len(panes) \in Nat /\ DOMAIN panes = 1..Len(panes)
      /\ \A j \in 1..Len(panes) : panes[j] \in PaneRecord /\ PtyFits(panes[j])
  BY TypedFacts DEF InterfaceTyped, PanesInv
<1>2. panes = [j \in 1..Len(panes) |-> panes[j]]
  BY DEF InterfaceTyped
<1>3. /\ panes' = [j \in 1..Len(panes) |-> panes'[j]] /\ panes'[i] = p
      /\ \A j \in 1..Len(panes) \ {i} : panes'[j] = panes[j]
  BY <1>1, <1>2
<1>4. PaneByPane
  BY <1>1, <1>3 DEF PaneByPane
<1>5. QED
  BY <1>3, <1>4, PaneByPaneTyped

\* What every step keeps of the panes.
PanesStep == panes' \in Seq(PaneRecord) /\ PanesInv'

\* What is left to show of a step that rewrites panes one by one.
LEMMA PaneByPaneSteps ==
  ASSUME InterfaceTyped, PaneByPane, SelectedWell'
  PROVE  PanesStep
BY PaneByPaneTyped DEF PanesStep, PanesInv

\* A step that leaves the panes and the mouse alone.
LEMMA PanesStay ==
  ASSUME InterfaceTyped, PanesInv, UNCHANGED <<panes, drag_origin, shifted>>
  PROVE  PanesStep
BY DEF PanesStep, PanesInv, InterfaceTyped, SelectedWell, PtyFits

\* A pane's process or its pin changes.
LEMMA FieldWritten ==
  ASSUME InterfaceTyped, PanesInv, NEW i \in 1..Len(panes), NEW p \in PaneRecord, PtyFits(p),
         p.selected = panes[i].selected, panes' = [panes EXCEPT ![i] = p], UNCHANGED <<drag_origin, shifted>>
  PROVE  PanesStep /\ Len(panes') = Len(panes)
<1>1. /\ PaneByPane /\ Len(panes') = Len(panes) /\ panes'[i] = p
      /\ \A j \in 1..Len(panes) \ {i} : panes'[j] = panes[j]
  BY PaneWritten
<1>2. \A j \in 1..Len(panes) : panes'[j].selected => panes[j].selected
  BY <1>1
<1>3. SelectedWell'
  BY <1>1, <1>2, SelectionKept
<1>4. QED
  BY <1>1, <1>3, PaneByPaneSteps

\* A process that ends or starts again, and a pin.
LEMMA ReapKeeps ==
  ASSUME InterfaceTyped, PanesInv, NEW i \in 1..Len(panes),
         Reap(i) \/ Respawn(i) \/ (i = focus + 1 /\ TogglePin)
  PROVE  PanesStep /\ Len(panes') = Len(panes)
<1>1. panes[i] \in PaneRecord /\ PtyFits(panes[i]) /\ known \in Sizes /\ NoSize \in Sizes
  BY TypedFacts DEF PanesInv, InterfaceTyped
<1>2. UNCHANGED <<drag_origin, shifted>>
  BY DEF Reap, Respawn, TogglePin, SameKeys, mouse
<1>3. CASE Reap(i)
  <2> DEFINE p == [panes[i] EXCEPT !.pty = NoSize]
  <2>1. panes' = [panes EXCEPT ![i] = p]
    BY <1>3 DEF Reap
  <2>2. p \in PaneRecord /\ p.pty = NoSize /\ p.selected = panes[i].selected
    BY ONLY <1>1 DEF PaneRecord
  <2>3. PtyFits(p)
    BY <2>2 DEF PtyFits
  <2> HIDE DEF p
  <2>4. QED
    BY <1>2, <2>1, <2>2, <2>3, FieldWritten
<1>4. CASE Respawn(i)
  <2> DEFINE p == [panes[i] EXCEPT !.pty = known, !.reborn = TRUE]
  <2>1. panes' = [panes EXCEPT ![i] = p]
    BY <1>4 DEF Respawn
  <2>2. p \in PaneRecord /\ p.reborn = TRUE /\ p.selected = panes[i].selected
    BY ONLY <1>1 DEF PaneRecord
  <2>3. PtyFits(p)
    BY <2>2 DEF PtyFits
  <2> HIDE DEF p
  <2>4. QED
    BY <1>2, <2>1, <2>2, <2>3, FieldWritten
<1>5. CASE i = focus + 1 /\ TogglePin
  <2> DEFINE p == [panes[i] EXCEPT !.pinned = ~panes[i].pinned]
  <2>1. panes' = [panes EXCEPT ![i] = p]
    BY <1>5 DEF TogglePin
  <2>2. p \in PaneRecord /\ p.pty = panes[i].pty /\ p.emu = panes[i].emu /\ p.reborn = panes[i].reborn
        /\ p.selected = panes[i].selected
    BY ONLY <1>1 DEF PaneRecord
  <2>3. PtyFits(p)
    BY <1>1, <2>2 DEF PtyFits
  <2> HIDE DEF p
  <2>4. QED
    BY <1>2, <2>1, <2>2, <2>3, FieldWritten
<1>6. QED
  BY <1>3, <1>4, <1>5

\* A pane is spawned, by the user or for a task.
LEMMA AppendKeeps ==
  ASSUME InterfaceTyped, PanesInv, NEW name \in {"agent", "task"}, NEW started \in BOOLEAN,
         panes' = Append(panes, NewPane(name, started)), UNCHANGED <<drag_origin, shifted>>
  PROVE  PanesStep /\ Len(panes') = Len(panes) + 1
<1> DEFINE p == NewPane(name, started)
           n == Len(panes)
<1>1. known \in Sizes /\ NoSize \in Sizes
  BY TypedFacts DEF InterfaceTyped
<1>2. p \in PaneRecord /\ p.selected = FALSE /\ PtyFits(p)
  <2>1. p = [name |-> name, emu |-> known, pty |-> IF started THEN known ELSE NoSize,
             pinned |-> FALSE, selected |-> FALSE, reborn |-> FALSE]
    BY DEF NewPane
  <2> DEFINE pty == IF started THEN known ELSE NoSize
  <2>2. pty \in Sizes /\ pty \in {known, NoSize}
    BY <1>1
  <2>3. p = [name |-> name, emu |-> known, pty |-> pty, pinned |-> FALSE, selected |-> FALSE, reborn |-> FALSE]
    BY <2>1
  <2> HIDE DEF p, pty
  <2>4. p \in PaneRecord
    BY ONLY <1>1, <2>2, <2>3 DEF PaneRecord
  <2>5. p.selected = FALSE /\ p.emu = known /\ p.pty = pty
    BY ONLY <2>3
  <2>6. QED
    BY <2>2, <2>4, <2>5 DEF PtyFits
<1> HIDE DEF p
<1>3. /\ panes' \in Seq(PaneRecord) /\ Len(panes') = n + 1 /\ n \in Nat
      /\ panes'[n + 1] = p /\ \A j \in 1..n : panes'[j] = panes[j]
  BY <1>2 DEF InterfaceTyped, p
<1>4. \A j \in 1..Len(panes') : PtyFits(panes'[j])
  <2>1. \A j \in 1..n : PtyFits(panes'[j])
    BY <1>3 DEF PanesInv
  <2>2. 1..Len(panes') = 1..n \cup {n + 1}
    BY <1>3
  <2>3. QED
    BY <1>2, <1>3, <2>1, <2>2
<1>5. \A j \in 1..Len(panes') : panes'[j].selected => j \in 1..n /\ panes[j].selected
  <2>1. 1..Len(panes') = 1..n \cup {n + 1}
    BY <1>3
  <2>2. QED
    BY <1>2, <1>3, <2>1
<1>6. SelectedWell'
  BY <1>5 DEF PanesInv, SelectedWell
<1>7. QED
  BY <1>3, <1>4, <1>6 DEF PanesStep, PanesInv

\* RemoveAt takes one element out and moves those after it down by one.
LEMMA RemovedAt ==
  ASSUME NEW S, NEW s \in Seq(S), NEW i \in 1..Len(s)
  PROVE  /\ RemoveAt(s, i) \in Seq(S) /\ Len(RemoveAt(s, i)) = Len(s) - 1
         /\ \A j \in 1..(Len(s) - 1) : RemoveAt(s, i)[j] = s[IF j < i THEN j ELSE j + 1]
<1> DEFINE before == SubSeq(s, 1, i - 1)
           after == SubSeq(s, i + 1, Len(s))
<1>1. RemoveAt(s, i) = before \o after
  BY DEF RemoveAt
<1>2. before \in Seq(S) /\ Len(before) = i - 1 /\ \A j \in 1..(i - 1) : before[j] = s[j]
  BY SubSeqProperties
<1>3. after \in Seq(S) /\ Len(after) = Len(s) - i /\ \A j \in 1..(Len(s) - i) : after[j] = s[i + j]
  BY SubSeqProperties
<1> HIDE DEF before, after
<1>4. /\ before \o after \in Seq(S) /\ Len(before \o after) = Len(s) - 1
      /\ \A j \in 1..(Len(s) - 1) : (before \o after)[j] = IF j <= i - 1 THEN before[j] ELSE after[j - (i - 1)]
  <2>1. /\ before \o after \in Seq(S) /\ Len(before \o after) = Len(before) + Len(after)
        /\ \A j \in 1..(Len(before) + Len(after)) : (before \o after)[j] =
             IF j <= Len(before) THEN before[j] ELSE after[j - Len(before)]
    BY <1>2, <1>3, ConcatProperties
  <2>2. Len(before) = i - 1 /\ Len(before) + Len(after) = Len(s) - 1
    BY <1>2, <1>3
  <2>3. QED
    BY <2>1, <2>2
<1>5. ASSUME NEW j \in 1..(Len(s) - 1)
      PROVE  (before \o after)[j] = s[IF j < i THEN j ELSE j + 1]
  <2>1. CASE j < i
    BY <1>2, <1>4, <2>1
  <2>2. CASE ~(j < i)
    <3>1. j - (i - 1) \in 1..(Len(s) - i) /\ i + (j - (i - 1)) = j + 1
      BY <2>2
    <3>2. after[j - (i - 1)] = s[i + (j - (i - 1))]
      BY <1>3, <3>1
    <3>3. (before \o after)[j] = after[j - (i - 1)]
      BY <1>4, <2>2
    <3>4. QED
      BY <2>2, <3>1, <3>2, <3>3
  <2>3. QED
    BY <2>1, <2>2
<1>6. QED
  BY <1>1, <1>4, <1>5

\* A pane is closed: those after it move, each with its size and its selection.
LEMMA CloseKeeps ==
  ASSUME InterfaceTyped, PanesInv, ClosePane
  PROVE  PanesStep /\ Len(panes') = Len(panes) - 1
<1> DEFINE n == Len(panes)
           c == focus + 1
           old(j) == IF j < c THEN j ELSE j + 1
<1>1. /\ n \in Nat /\ c \in 1..n /\ panes' = RemoveAt(panes, c)
      /\ drag_origin' = drag_origin /\ shifted' = (shifted \/ drag_origin # NoDrag)
  BY TypedFacts DEF ClosePane, Exists, InterfaceTyped, mouse
<1>2. panes' \in Seq(PaneRecord) /\ Len(panes') = n - 1 /\ \A j \in 1..(n - 1) : panes'[j] = panes[old(j)]
  BY <1>1, RemovedAt DEF InterfaceTyped
<1>3. \A j \in 1..(n - 1) : old(j) \in 1..n
  BY <1>1
<1>4. \A j, k \in 1..(n - 1) : old(j) = old(k) => j = k
  BY <1>1
<1> HIDE DEF n, old
<1>5. \A j \in 1..Len(panes') : PtyFits(panes'[j])
  BY <1>2, <1>3 DEF PanesInv, n
<1>6. SelectedWell'
  <2> SUFFICES ASSUME ~shifted', NEW j \in 1..(n - 1), panes'[j].selected
               PROVE  /\ drag_origin' # NoDrag => j = drag_origin' + 1
                      /\ \A k \in 1..(n - 1) : panes'[k].selected => j = k
    BY <1>2 DEF SelectedWell
  <2>1. ~shifted /\ drag_origin' = NoDrag
    BY <1>1
  <2>2. ASSUME NEW k \in 1..(n - 1), panes'[k].selected PROVE j = k
    <3>1. old(j) = old(k)
      BY <1>2, <1>3, <2>1, <2>2 DEF PanesInv, SelectedWell, n
    <3>2. QED
      BY <1>4, <3>1
  <2>3. QED
    BY <2>1, <2>2
<1>7. QED
  BY <1>2, <1>5, <1>6 DEF PanesStep, PanesInv, n

\* What every step keeps of the focus.
FocusStep ==
  focus' \in Nat /\ (panes' = <<>> \/ focus' < Len(panes') \/ focus >= Len(panes) \/ Len(pane_rects) > Len(panes))

\* Keys that move the focus move it to a pane.
LEMMA NextFocusInRange ==
  ASSUME InterfaceTyped, NEW k
  PROVE  NextFocus(k) \in Nat /\ (NextFocus(k) < Len(panes) \/ NextFocus(k) = focus \/ focus >= Len(panes))
<1> DEFINE n == Len(panes)
           cols == GridCols(n)
<1>1. n \in Nat /\ focus \in Nat
  BY TypedFacts DEF InterfaceTyped
<1>2. CASE n = 0
  BY <1>1, <1>2 DEF NextFocus
<1>3. CASE n # 0
  <2>1. cols \in 1..n
    BY <1>1, <1>3, GridColsExist
  <2>2. PICK next \in Int : next = (focus \div cols + 1) * cols
    BY <1>1, <2>1
  <2>3. Least(next, n) <= n
    BY <1>1, <2>2 DEF Least
  <2>4. focus % cols > 0 => focus > 0
    <3> HIDE DEF cols
    <3>1. 0 % cols = 0
      BY <2>1
    <3>2. QED
      BY <1>1, <2>1, <3>1
  <2>5. (focus + 1) % n \in 0..(n - 1)
    BY <1>1, <1>3
  <2>6. NextFocus(k) =
          CASE k = "Right" /\ focus + 1 < Least(next, n) -> focus + 1
            [] k = "Left" /\ focus % cols > 0 -> focus - 1
            [] k = "Down" /\ focus + cols < n -> focus + cols
            [] k = "Up" /\ focus >= cols -> focus - cols
            [] k = "Tab" -> IF focus >= n THEN 0 ELSE (focus + 1) % n
            [] k = "BackTab" -> IF focus = 0 THEN n - 1 ELSE focus - 1
            [] OTHER -> focus
    BY <1>3, <2>2 DEF NextFocus
  <2> HIDE DEF cols, n
  <2> DEFINE fine(m) == m \in Nat /\ (m < n \/ m = focus \/ focus >= n)
  <2>7. fine(focus) /\ fine(0) /\ fine((focus + 1) % n) /\ fine(n - 1)
    BY <1>1, <1>3, <2>5
  <2>8. CASE k = "Right"
    <3>1. NextFocus(k) = IF focus + 1 < Least(next, n) THEN focus + 1 ELSE focus
      BY <2>6, <2>8
    <3>2. Least(next, n) \in Int
      BY <1>1, <2>2 DEF Least
    <3>3. QED
      BY <1>1, <2>3, <3>1, <3>2 DEF n
  <2>9. CASE k = "Left"
    <3>1. NextFocus(k) = IF focus % cols > 0 THEN focus - 1 ELSE focus
      BY <2>6, <2>9
    <3>2. QED
      BY <1>1, <2>4, <3>1 DEF n
  <2>10. CASE k \in {"Up", "Down"}
    BY <1>1, <2>1, <2>6, <2>10 DEF n
  <2>11. CASE k \notin {"Right", "Left", "Up", "Down"}
    <3>1. NextFocus(k) \in {focus, 0, (focus + 1) % n, n - 1, focus - 1} /\ (focus = 0 => NextFocus(k) # focus - 1)
      BY <1>1, <1>3, <2>5, <2>6, <2>11
    <3>2. focus # 0 => fine(focus - 1)
      BY <1>1
    <3> HIDE DEF fine
    <3>3. fine(NextFocus(k))
      BY <2>7, <3>1, <3>2
    <3>4. QED
      BY <3>3 DEF fine, n
  <2>12. QED
    BY <2>8, <2>9, <2>10, <2>11
<1>4. QED
  BY <1>2, <1>3

\* What a key does to the panes and the focus.
KeyOutcome ==
  /\ UNCHANGED <<screen, mouse>> /\ view' \in Views
  /\ \/ /\ UNCHANGED <<panes, shifted>> /\ focus' \in Nat
        /\ (focus' < Len(panes) \/ focus' = focus \/ focus >= Len(panes))
     \/ SpawnFocused /\ UNCHANGED shifted
     \/ UNCHANGED focus /\ TogglePin
     \/ ClosePane

\* Every key of every mode does one of these.
LEMMA KeyOutcomes ==
  ASSUME InterfaceTyped, NEW k \in Keys, KeyInMode(k)
  PROVE  KeyOutcome
<1>0. focus \in Nat /\ view \in Views /\ Len(panes) \in Nat
  BY TypedFacts DEF InterfaceTyped
<1>1. ASSUME UNCHANGED <<screen, mouse, view, panes, shifted, focus>>
      PROVE  KeyOutcome
  BY <1>0, <1>1 DEF KeyOutcome
<1>2. ASSUME SamePanes, SameKeys
      PROVE  KeyOutcome
  BY <1>1, <1>2 DEF SamePanes, SameKeys
<1>3. ASSUME SpawnFocused, SameKeys
      PROVE  KeyOutcome
  BY <1>0, <1>3 DEF SameKeys, KeyOutcome
<1>4. CASE NormalKey(k) \/ ReadOnlyKey(k) \/ LeavePaneMode(k) \/ SidebarKey(k) \/ TasksRepoKey(k)
  BY <1>2, <1>4 DEF NormalKey, ReadOnlyKey, LeavePaneMode, SidebarKey, TasksRepoKey
<1>5. CASE MoveFocus(k)
  BY <1>0, <1>5, NextFocusInRange DEF MoveFocus, SameKeys, KeyOutcome
<1>6. CASE OpenOverlay \/ ShowHelp
  BY <1>2, <1>6 DEF OpenOverlay, ShowHelp
<1>7. CASE ToggleZoom
  BY <1>1, <1>7 DEF ToggleZoom
<1>8. CASE ToggleSidebar
  <2>1. [view EXCEPT !.hidden = ~@] \in Views
    BY <1>0 DEF Views
  <2>2. QED
    BY <1>0, <1>8, <2>1 DEF ToggleSidebar, KeyOutcome
<1>9. CASE TogglePin
  BY <1>0, <1>9 DEF TogglePin, SameKeys, KeyOutcome
<1>10. CASE ClosePane
  BY <1>0, <1>10 DEF ClosePane, KeyOutcome
<1>11. CASE JumpKey(k)
  <2>1. focus' = focus \/ focus' \in Picked
    BY <1>11 DEF JumpKey
  <2>2. focus' \in Picked => focus' \in 0..(Len(panes) - 1)
    BY MatchingCounted DEF Picked
  <2>3. QED
    <3>1. focus' \in Nat /\ (focus' < Len(panes) \/ focus' = focus)
      BY <1>0, <2>1, <2>2
    <3>2. UNCHANGED <<screen, mouse, view, panes, shifted>>
      BY <1>11 DEF JumpKey, SameKeys
    <3>3. QED
      BY <1>0, <3>1, <3>2 DEF KeyOutcome
<1>12. CASE SpawnKey(k)
  BY <1>2, <1>3, <1>12 DEF SpawnKey
<1>13. CASE SpawnCustomKey(k)
  BY <1>2, <1>3, <1>13 DEF SpawnCustomKey
<1>14. CASE TasksListKey(k)
  BY <1>2, <1>3, <1>14 DEF TasksListKey
<1>15. CASE SettingsKey(k)
  <2>1. view' \in Views
    <3>1. CASE UNCHANGED view
      BY <1>0, <3>1
    <3>2. CASE ToggleSetting(cursor) /\ ~UNCHANGED view
      <4>1. [view EXCEPT !.status_bar = ~@] \in Views
        BY <1>0 DEF Views
      <4>2. [view EXCEPT !.width = IF @ > 0 THEN 0 ELSE DEFAULT_SIDEBAR_WIDTH] \in Views
        BY <1>0 DEF Views, DEFAULT_SIDEBAR_WIDTH
      <4>3. QED
        BY <3>2, <4>1, <4>2 DEF ToggleSetting
    <3>3. QED
      BY <1>15, <3>1, <3>2 DEF SettingsKey
  <2>2. QED
    BY <1>0, <1>15, <2>1 DEF SettingsKey, KeyOutcome
<1>16. QED
  BY <1>4, <1>5, <1>6, <1>7, <1>8, <1>9, <1>10, <1>11, <1>12, <1>13, <1>14, <1>15 DEF KeyInMode

\* Each of these keeps the panes, and the focus on one of them.
LEMMA KeyKeepsPanes ==
  ASSUME InterfaceTyped, PanesInv, KeyOutcome
  PROVE  PanesStep /\ FocusStep
<1>0. focus \in Nat /\ Len(panes) \in Nat /\ UNCHANGED drag_origin
  BY TypedFacts DEF InterfaceTyped, KeyOutcome, mouse
<1>1. CASE /\ UNCHANGED <<panes, shifted>> /\ focus' \in Nat
           /\ (focus' < Len(panes) \/ focus' = focus \/ focus >= Len(panes))
  BY <1>0, <1>1, PanesStay DEF FocusStep
<1>2. CASE SpawnFocused /\ UNCHANGED shifted
  <2>1. PICK started \in BOOLEAN : panes' = Append(panes, NewPane("agent", started))
    BY <1>2 DEF SpawnFocused
  <2>2. PanesStep /\ Len(panes') = Len(panes) + 1
    BY <1>0, <1>2, <2>1, AppendKeeps
  <2>3. QED
    BY <1>0, <1>2, <2>2 DEF SpawnFocused, FocusStep
<1>3. CASE UNCHANGED focus /\ TogglePin
  <2>1. focus + 1 \in 1..Len(panes)
    BY <1>0, <1>3 DEF TogglePin, Exists
  <2>2. PanesStep /\ Len(panes') = Len(panes)
    BY <1>3, <2>1, ReapKeeps
  <2>3. QED
    BY <1>0, <1>3, <2>2 DEF FocusStep
<1>4. CASE ClosePane
  <2>1. PanesStep /\ Len(panes') = Len(panes) - 1 /\ focus \in 0..(Len(panes) - 1)
    BY <1>0, <1>4, CloseKeeps DEF ClosePane, Exists
  <2>2. focus' = FocusAfterClose(Len(panes'))
    BY <1>4 DEF ClosePane
  <2>3. focus' \in Nat /\ (Len(panes') = 0 \/ focus' < Len(panes'))
    BY <1>0, <2>1, <2>2 DEF FocusAfterClose, Monus
  <2>4. Len(panes') = 0 => panes' = <<>>
    BY <2>1 DEF PanesStep
  <2>5. QED
    BY <2>1, <2>3, <2>4 DEF FocusStep
<1>5. QED
  BY <1>1, <1>2, <1>3, <1>4 DEF KeyOutcome

-----------------------------------------------------------------------------
(* The mouse *)

\* The button goes down: the other panes are deselected, and the drag begins here.
LEMMA PressKeeps ==
  ASSUME InterfaceTyped, PanesInv, NEW p, MouseDown(p)
  PROVE  PanesStep /\ FocusStep
<1> DEFINE idx == PaneAt(p)
<1>1. idx \in 0..(Len(pane_rects) - 1) /\ Len(pane_rects) \in Nat
  BY PaneAtInRange DEF MouseDown, InterfaceTyped, Listed
<1>2. panes' = DeselectOthers(idx) /\ focus' = idx /\ drag_origin' \in {idx, NoDrag} /\ shifted' = shifted
  BY DEF MouseDown
<1> HIDE DEF idx
<1>3. ASSUME NEW i \in 1..Len(panes)
      PROVE  panes'[i] \in PaneRecord /\ PtyFits(panes'[i]) /\ (panes'[i].selected => i = idx + 1)
  <2>1. panes[i] \in PaneRecord /\ PtyFits(panes[i])
    BY TypedFacts DEF PanesInv
  <2>2. PICK kept \in BOOLEAN : kept = (panes[i].selected /\ i = idx + 1)
    OBVIOUS
  <2>3. panes'[i] = [panes[i] EXCEPT !.selected = kept]
    BY <1>2, <2>2 DEF DeselectOthers
  <2>4. /\ panes'[i] \in PaneRecord /\ panes'[i].selected = kept /\ panes'[i].pty = panes[i].pty
        /\ panes'[i].emu = panes[i].emu /\ panes'[i].reborn = panes[i].reborn
    BY ONLY <2>1, <2>3 DEF PaneRecord
  <2>5. QED
    BY <2>1, <2>2, <2>4 DEF PtyFits
<1>4. PaneByPane
  BY <1>2, <1>3 DEF PaneByPane, DeselectOthers
<1>5. Len(panes') = Len(panes)
  BY <1>4, PaneByPaneTyped
<1>6. SelectedWell'
  BY <1>1, <1>2, <1>3, <1>5 DEF SelectedWell, NoDrag
<1>7. PanesStep
  BY <1>4, <1>6, PaneByPaneSteps
<1>8. Len(panes) \in Nat
  BY TypedFacts
<1>9. QED
  BY <1>1, <1>2, <1>5, <1>7, <1>8 DEF FocusStep

\* One pane is selected or deselected.
LEMMA Marked ==
  ASSUME InterfaceTyped, PanesInv, NEW i \in 1..Len(panes), NEW on \in BOOLEAN,
         panes' = [panes EXCEPT ![i].selected = on]
  PROVE  /\ PaneByPane /\ Len(panes') = Len(panes) /\ panes'[i].selected = on
         /\ \A j \in 1..Len(panes) \ {i} : panes'[j] = panes[j]
<1> DEFINE p == [panes[i] EXCEPT !.selected = on]
<1>1. panes[i] \in PaneRecord /\ PtyFits(panes[i])
  BY TypedFacts DEF PanesInv
<1>2. panes' = [panes EXCEPT ![i] = p]
  OBVIOUS
<1>3. /\ p \in PaneRecord /\ p.selected = on
      /\ p.pty = panes[i].pty /\ p.emu = panes[i].emu /\ p.reborn = panes[i].reborn
  BY ONLY <1>1 DEF PaneRecord
<1>4. PtyFits(p)
  BY <1>1, <1>3 DEF PtyFits
<1> HIDE DEF p
<1>5. QED
  BY <1>2, <1>3, <1>4, PaneWritten

\* A drag selects the pane it began in, which no other is selected beside.
LEMMA DragKeeps ==
  ASSUME InterfaceTyped, PanesInv, NEW p, MouseDrag(p)
  PROVE  PanesStep /\ FocusStep
<1>0. focus \in Nat /\ Len(panes) \in Nat
  BY TypedFacts DEF InterfaceTyped
<1>1. /\ drag_origin + 1 \in 1..Len(panes) /\ drag_origin # NoDrag /\ UNCHANGED <<focus, drag_origin, shifted>>
      /\ panes' = [panes EXCEPT ![drag_origin + 1].selected = TRUE]
  BY <1>0 DEF MouseDrag, Exists, mouse
<1>2. /\ PaneByPane /\ Len(panes') = Len(panes)
      /\ \A j \in 1..Len(panes) \ {drag_origin + 1} : panes'[j] = panes[j]
  BY <1>1, Marked
<1>3. ~shifted => \A i \in 1..Len(panes') : panes'[i].selected => i = drag_origin + 1
  BY <1>1, <1>2 DEF PanesInv, SelectedWell
<1>4. SelectedWell'
  BY <1>1, <1>3 DEF SelectedWell
<1>5. PanesStep
  BY <1>2, <1>4, PaneByPaneSteps
<1>6. QED
  BY <1>0, <1>1, <1>2, <1>5 DEF FocusStep

\* The button goes up: whatever pane has the focus by now, the drag is over.
LEMMA ReleaseKeeps ==
  ASSUME InterfaceTyped, PanesInv, MouseUp
  PROVE  PanesStep /\ FocusStep
<1>0. focus \in Nat /\ Len(panes) \in Nat
  BY TypedFacts DEF InterfaceTyped
<1>1. drag_origin' = NoDrag /\ UNCHANGED <<focus, shifted>>
  BY DEF MouseUp
<1>2. CASE Exists(focus)
  <2>1. focus + 1 \in 1..Len(panes) /\ panes' = [panes EXCEPT ![focus + 1].selected = FALSE]
    BY <1>0, <1>2 DEF Exists, MouseUp
  <2>2. /\ PaneByPane /\ Len(panes') = Len(panes) /\ panes'[focus + 1].selected = FALSE
        /\ \A j \in 1..Len(panes) \ {focus + 1} : panes'[j] = panes[j]
    BY <2>1, Marked
  <2>3. \A i \in 1..Len(panes') : panes'[i].selected => panes[i].selected
    BY <2>2
  <2>4. SelectedWell'
    BY <1>1, <2>2, <2>3 DEF PanesInv, SelectedWell
  <2>5. PanesStep
    BY <2>2, <2>4, PaneByPaneSteps
  <2>6. QED
    BY <1>0, <1>1, <2>2, <2>5 DEF FocusStep
<1>3. CASE ~Exists(focus)
  <2>1. panes' = panes
    BY <1>3 DEF MouseUp
  <2>2. PanesStep
    BY <1>1, <2>1 DEF PanesStep, PanesInv, SelectedWell, PtyFits, InterfaceTyped
  <2>3. QED
    BY <1>0, <1>1, <2>1, <2>2 DEF FocusStep, Exists
<1>4. QED
  BY <1>2, <1>3

-----------------------------------------------------------------------------
(* Steps *)

\* Sizes stay sizes, and rectangles a sequence.
LEMMA StepTypes ==
  ASSUME InterfaceTyped, [Next]_vars
  PROVE  /\ term' \in Terminals /\ known' \in Sizes /\ measured' \in Sizes
         /\ view' \in Views /\ Listed(pane_rects)'
<1>1. /\ term \in Terminals /\ known \in Sizes /\ measured \in Sizes /\ view \in Views
      /\ term \in Sizes /\ NoSize \in Sizes
      /\ pane_rects' = pane_rects => Listed(pane_rects)'
  BY TypedFacts DEF InterfaceTyped, Listed
<1>2. CASE Render
  <2>1. Listed(Rects) /\ pane_rects' = Rects
    BY <1>2, LaidOut DEF Render
  <2>2. Listed(pane_rects)'
    BY <2>1 DEF Listed
  <2>3. QED
    BY <1>1, <1>2, <2>2 DEF Render
<1>3. CASE Draw
  BY <1>1, <1>3 DEF Draw, mouse
<1>4. CASE Event
  <2>1. CASE ResizeEvent
    <3>1. term.w \in Nat /\ term.h \in Nat
      BY <1>1 DEF Sizes
    <3>2. Size(Most(term.w, MIN_COLS), Most(term.h, MIN_ROWS)) \in Sizes
      BY <3>1 DEF Size, Sizes, Most, MIN_COLS, MIN_ROWS
    <3>3. QED
      BY <1>1, <2>1, <3>2 DEF ResizeEvent, mouse
  <2>2. CASE NoEvent \/ Gateway \/ \E k \in Keys : DismissHelp(k)
    BY <1>1, <2>2 DEF NoEvent, Gateway, DismissHelp, SameKeys, screen, mouse
  <2>3. CASE \E k \in Keys : KeyInMode(k)
    BY <1>1, <2>3, KeyOutcomes DEF KeyOutcome, screen, mouse
  <2>4. CASE MouseUp \/ \E p \in Points : MouseDown(p) \/ MouseDrag(p)
    BY <1>1, <2>4 DEF MouseUp, MouseDown, MouseDrag, screen, mouse
  <2>5. QED
    BY <1>4, <2>1, <2>2, <2>3, <2>4 DEF Event
<1>5. CASE ResizeTerminal
  BY <1>1, <1>5 DEF ResizeTerminal, mouse
<1>6. CASE Skip \/ SpawnTask \/ Quit \/ \E i \in 1..Len(panes) : Reap(i) \/ Respawn(i)
  BY <1>1, <1>6 DEF Skip, SpawnTask, Quit, Reap, Respawn, screen, mouse
<1>7. CASE UNCHANGED vars
  BY <1>1, <1>7 DEF vars, screen, mouse
<1>8. QED
  BY <1>2, <1>3, <1>4, <1>5, <1>6, <1>7 DEF Next

\* Every step keeps the panes, and the focus on one of them.
LEMMA StepPanes ==
  ASSUME InterfaceTyped, PanesInv, [Next]_vars
  PROVE  PanesStep /\ FocusStep
<1>0. focus \in Nat /\ Len(panes) \in Nat
  BY TypedFacts DEF InterfaceTyped
<1>1. ASSUME UNCHANGED <<panes, focus, drag_origin, shifted>>
      PROVE  PanesStep /\ FocusStep
  BY <1>0, <1>1, PanesStay DEF FocusStep
<1>2. CASE Render
  <2>1. PanesStep /\ Len(panes') = Len(panes)
    BY <1>2, RenderPanes, PaneByPaneSteps, PaneByPaneTyped
  <2>2. QED
    BY <1>0, <1>2, <2>1 DEF Render, FocusStep
<1>3. CASE Draw \/ Skip \/ Quit \/ ResizeTerminal
  BY <1>1, <1>3 DEF Draw, Skip, Quit, ResizeTerminal, mouse
<1>4. CASE SpawnTask
  <2>1. PICK started \in BOOLEAN : panes' = Append(panes, NewPane("task", started))
    BY <1>4 DEF SpawnTask
  <2>2. UNCHANGED <<focus, drag_origin, shifted>>
    BY <1>4 DEF SpawnTask, mouse
  <2>3. PanesStep /\ Len(panes') = Len(panes) + 1
    BY <2>1, <2>2, AppendKeeps
  <2>4. QED
    BY <1>0, <2>2, <2>3 DEF FocusStep
<1>5. CASE Event
  <2>1. CASE NoEvent \/ ResizeEvent \/ Gateway \/ \E k \in Keys : DismissHelp(k)
    BY <1>1, <2>1 DEF NoEvent, ResizeEvent, Gateway, DismissHelp, SamePanes, SameKeys, mouse
  <2>2. CASE \E k \in Keys : KeyInMode(k)
    BY <2>2, KeyOutcomes, KeyKeepsPanes
  <2>3. CASE MouseUp
    BY <2>3, ReleaseKeeps
  <2>4. CASE \E p \in Points : MouseDown(p) \/ MouseDrag(p)
    BY <2>4, PressKeeps, DragKeeps
  <2>5. QED
    BY <1>5, <2>1, <2>2, <2>3, <2>4 DEF Event
<1>6. CASE \E i \in 1..Len(panes) : Reap(i) \/ Respawn(i)
  <2>1. PanesStep /\ Len(panes') = Len(panes) /\ focus' = focus
    BY <1>6, ReapKeeps DEF Reap, Respawn
  <2>2. QED
    BY <1>0, <2>1 DEF FocusStep
<1>7. CASE UNCHANGED vars
  BY <1>1, <1>7 DEF vars, mouse
<1>8. QED
  BY <1>2, <1>3, <1>4, <1>5, <1>6, <1>7 DEF Next

-----------------------------------------------------------------------------
(* Frames *)

\* Between the layout and the drawing of a frame the panes lie in its area.
FrameInside == phase = "draw" => \A k \in DOMAIN pane_rects : Inside(pane_rects[k], measured)

\* The area a frame was laid out for is not changed before it is drawn.
LEMMA FrameStep ==
  ASSUME InterfaceTyped, FrameInside, [Next]_vars
  PROVE  FrameInside'
<1>1. CASE Render
  <2>1. pane_rects' = Rects /\ measured' = term /\ \A k \in DOMAIN Rects : Inside(Rects[k], term)
    BY <1>1, LaidOut DEF Render
  <2>2. QED
    BY <2>1 DEF FrameInside, Inside
<1>2. CASE ResizeTerminal \/ UNCHANGED vars
  BY <1>2 DEF ResizeTerminal, vars, screen, mouse, FrameInside, Inside
<1>3. CASE Draw \/ Skip \/ SpawnTask \/ Event \/ Quit \/ \E i \in 1..Len(panes) : Reap(i) \/ Respawn(i)
  <2>1. phase' # "draw"
    BY <1>3 DEF Draw, Skip, SpawnTask, Event, Quit, Reap, Respawn
  <2>2. QED
    BY <2>1 DEF FrameInside
<1>4. QED
  BY <1>1, <1>2, <1>3 DEF Next

\* A line of the sidebar, moved below its border and cut at the right edge.
LEMMA LineInside ==
  ASSUME NEW r \in Rectangle, r.w \in Nat, r.h = 1, r.y \in Nat, NEW size \in Sizes, r.y < Monus(size.h, 2)
  PROVE  Inside([r EXCEPT !.y = @ + 1, !.w = Least(@, Monus(size.w, r.x))], size)
<1> DEFINE cut == Least(r.w, Monus(size.w, r.x))
           q == [r EXCEPT !.y = r.y + 1, !.w = cut]
<1>1. size.w \in Nat /\ size.h \in Nat /\ r.x \in Int
  BY DEF Sizes, Rectangle
<1>2. cut = 0 \/ r.x + cut <= size.w
  BY <1>1 DEF Least, Monus
<1>3. r.y + 1 + 1 <= size.h
  BY <1>1 DEF Monus
<1> HIDE DEF cut
<1>4. q.x = r.x /\ q.y = r.y + 1 /\ q.w = cut /\ q.h = 1
  BY DEF Rectangle
<1> HIDE DEF q
<1>5. Inside(q, size)
  BY <1>2, <1>3, <1>4 DEF Inside
<1>6. QED
  BY <1>5 DEF q, cut

\* Nothing of a frame on a large terminal is outside of it.
LEMMA FrameFits ==
  ASSUME InterfaceTyped, CursorTyped, FrameInside, phase = "draw", measured = term, Large(term)
  PROVE  /\ \A r \in ToSet(pane_rects) \cup OpenBoxes : Inside(r, term)
         /\ \A r \in SidebarLines(EntriesListed) :
              Inside([r EXCEPT !.y = @ + 1, !.w = Least(@, Monus(term.w, r.x))], term)
         /\ \A toasts \in 0..MAX_TOASTS : \A r \in ToastRows(measured, view, toasts) : Inside(r, term)
<1>1. \A r \in ToSet(pane_rects) : Inside(r, term)
  BY DEF ToSet, FrameInside
<1>2. \A r \in OpenBoxes : Inside(r, term)
  <2>1. measured \in Sizes /\ Large(measured) /\ items \in Int /\ Cardinality(Matching) \in Nat
    BY MatchingCounted DEF InterfaceTyped, CursorTyped
  <2>2. \A r \in OpenBoxes : Inside(r, measured)
    BY <2>1, OverlaysFit
  <2>3. QED
    BY <2>2
<1>3. ASSUME NEW r \in SidebarLines(EntriesListed)
      PROVE  Inside([r EXCEPT !.y = @ + 1, !.w = Least(@, Monus(term.w, r.x))], term)
  <2>1. term \in Sizes /\ SidebarTyped
    BY TypedFacts
  <2>2. r \in Rectangle /\ r.w \in Nat /\ r.h = 1 /\ r.y \in Nat /\ r.y < Monus(term.h, 2)
    BY <2>1, SidebarLegible
  <2>3. QED
    BY <2>1, <2>2, LineInside
<1>4. \A toasts \in 0..MAX_TOASTS : \A r \in ToastRows(measured, view, toasts) : Inside(r, term)
  <2>1. measured \in Sizes /\ view \in Views /\ 0..MAX_TOASTS \subseteq Nat
    BY DEF InterfaceTyped, MAX_TOASTS
  <2>2. QED
    BY <2>1, ToastsFit
<1>5. QED
  BY <1>1, <1>2, <1>3, <1>4

\* So the frame that makes the loop give up was of another size, or too small.
LEMMA DrawGivesUp ==
  ASSUME InterfaceTyped, CursorTyped, FrameInside, Draw, phase' = "gave_up"
  PROVE  measured # term \/ ~Large(term)
<1> SUFFICES ASSUME measured = term, Large(term) PROVE FALSE
  OBVIOUS
<1> DEFINE below(r) == [r EXCEPT !.y = @ + 1, !.w = Least(@, Monus(term.w, r.x))]
           sidebar == IF ShowsSidebar(measured, view) THEN {below(r) : r \in SidebarLines(EntriesListed)} ELSE {}
<1>1. phase = "draw"
  BY DEF Draw
<1>2. \A r \in sidebar : Inside(r, term)
  BY <1>1, FrameFits
<1>3. \A r \in ToSet(pane_rects) \cup OpenBoxes : Inside(r, term)
  BY <1>1, FrameFits
<1>4. \A toasts \in 0..MAX_TOASTS : \A r \in ToastRows(measured, view, toasts) : Inside(r, term)
  BY <1>1, FrameFits
<1>5. PICK toasts \in 0..MAX_TOASTS :
        IF \A r \in ToSet(pane_rects) \cup OpenBoxes \cup sidebar \cup ToastRows(measured, view, toasts) :
             Inside(r, term)
        THEN streak' = 0 /\ phase' = "handle" /\ measured' = NoSize
        ELSE TRUE
  BY DEF Draw
<1> HIDE DEF sidebar
<1>6. \A r \in ToSet(pane_rects) \cup OpenBoxes \cup sidebar \cup ToastRows(measured, view, toasts) : Inside(r, term)
  BY <1>2, <1>3, <1>4, <1>5
<1>7. QED
  BY <1>5, <1>6

\* No other step ends in giving up.
LEMMA GivesUpStep ==
  ASSUME InterfaceTyped, CursorTyped, FrameInside, GivesUpOnlyWhenTiny, [Next]_vars
  PROVE  GivesUpOnlyWhenTiny'
<1>0. term.w \in Nat /\ term.h \in Nat
  BY TypedFacts DEF Sizes
<1>1. CASE Draw
  <2>1. SUFFICES ASSUME phase' = "gave_up" PROVE measured' # term' \/ term'.w < 42 \/ term'.h < 11
    BY DEF GivesUpOnlyWhenTiny
  <2>2. measured' = measured /\ term' = term
    BY <1>1, <2>1 DEF Draw
  <2>3. QED
    BY <1>0, <1>1, <2>1, <2>2, DrawGivesUp DEF Large
<1>2. CASE UNCHANGED vars
  BY <1>2 DEF vars, screen, GivesUpOnlyWhenTiny
<1>3. CASE \/ Render \/ Skip \/ SpawnTask \/ Event \/ Quit \/ ResizeTerminal
           \/ \E i \in 1..Len(panes) : Reap(i) \/ Respawn(i)
  <2>1. phase' # "gave_up"
    BY <1>3 DEF Render, Skip, SpawnTask, Event, Quit, ResizeTerminal, Reap, Respawn, Ended
  <2>2. QED
    BY <2>1 DEF GivesUpOnlyWhenTiny
<1>4. QED
  BY <1>1, <1>2, <1>3 DEF Next

-----------------------------------------------------------------------------
(* The inductive invariant *)

\* Together they are inductive.
IInv == InterfaceTyped /\ CursorTyped /\ PanesInv /\ FrameInside /\ GivesUpOnlyWhenTiny

\* The invariant holds at the start,
LEMMA InterfaceInit ==
  ASSUME Init
  PROVE  IInv
<1>1. term \in Sizes /\ NoSize \in Sizes
  BY InterfaceAssumption DEF Init, Sizes, NoSize, Size
<1>2. known \in Sizes
  BY <1>1 DEF Init, Size, Sizes, Most, MIN_COLS, MIN_ROWS
<1>3. view \in Views
  BY InterfaceAssumption DEF Init, Views
<1>4. Listed(pane_rects)
  <2>1. pane_rects = <<>> /\ Len(pane_rects) = 0
    BY DEF Init
  <2>2. <<>> = [i \in 1..0 |-> pane_rects[i]]
    OBVIOUS
  <2>3. QED
    BY <2>1, <2>2 DEF Listed
<1>5. PICK n \in Nat : panes = [i \in 1..n |-> NewPane("agent", TRUE)]
  BY InterfaceAssumption DEF Init
<1>6. /\ NewPane("agent", TRUE) \in PaneRecord /\ PtyFits(NewPane("agent", TRUE))
      /\ NewPane("agent", TRUE).selected = FALSE
  BY <1>2 DEF NewPane, PaneRecord, PtyFits
<1>7. panes \in Seq(PaneRecord) /\ Len(panes) = n /\ \A i \in 1..n : panes[i] = NewPane("agent", TRUE)
  <2> DEFINE p == NewPane("agent", TRUE)
  <2> HIDE DEF p
  <2>1. panes = [i \in 1..n |-> p] /\ p \in PaneRecord
    BY <1>5, <1>6 DEF p
  <2>2. panes \in Seq(PaneRecord) /\ Len(panes) = n /\ \A i \in 1..n : panes[i] = p
    BY ONLY <2>1, <1>5
  <2>3. QED
    BY <2>2 DEF p
<1>8. InterfaceTyped
  BY <1>1, <1>2, <1>3, <1>4, <1>7 DEF Init, InterfaceTyped
<1>9. CursorTyped
  <2>1. mode = "Normal" /\ cursor = 0 /\ items = 0
    BY DEF Init
  <2>2. QED
    BY <2>1 DEF CursorTyped
<1>10. PanesInv
  BY <1>6, <1>7 DEF PanesInv, SelectedWell
<1>11. FrameInside /\ GivesUpOnlyWhenTiny
  BY DEF Init, FrameInside, GivesUpOnlyWhenTiny
<1>12. QED
  BY <1>8, <1>9, <1>10, <1>11 DEF IInv

\* after every step,
LEMMA InterfaceStep ==
  ASSUME IInv, [Next]_vars
  PROVE  IInv'
<1>1. PanesStep /\ FocusStep
  BY StepPanes DEF IInv
<1>2. InterfaceTyped'
  BY <1>1, StepTypes DEF IInv, InterfaceTyped, PanesStep, FocusStep
<1>3. CursorTyped'
  BY CursorStep DEF IInv
<1>4. FrameInside' /\ GivesUpOnlyWhenTiny'
  BY FrameStep, GivesUpStep DEF IInv
<1>5. QED
  BY <1>1, <1>2, <1>3, <1>4 DEF IInv, PanesStep

\* and so always.
LEMMA InterfaceInvariant == InterfaceSpec => []IInv
<1>1. QED
  BY InterfaceInit, InterfaceStep, PTL DEF InterfaceSpec

-----------------------------------------------------------------------------
(* The theorems *)

\* main_loop gives up on its frames (render_panic_streak) only when the terminal
\* is smaller than 42 by 11, or was resized while a frame was drawn: for every
\* configuration, whatever is typed, opened, spawned, closed and resized before,
\* the panes, the overlays, the toasts and the sidebar stay inside the buffer.
THEOREM FramesFit == InterfaceSpec => []GivesUpOnlyWhenTiny
<1>1. IInv => GivesUpOnlyWhenTiny
  BY DEF IInv
<1>2. QED
  BY <1>1, InterfaceInvariant, PTL

\* The handlers of the mouse keep one selection at most: a press deselects all
\* other panes, a drag selects only where it began, and no order of keys between
\* press and release leaves two, unless they close a pane during the drag.
THEOREM SelectsOnePane == InterfaceSpec => []OneSelection
<1>1. ASSUME IInv PROVE OneSelection
  <2> SUFFICES ASSUME ~shifted PROVE Cardinality({i \in 1..Len(panes) : panes[i].selected}) <= 1
    BY DEF OneSelection
  <2> DEFINE S == {i \in 1..Len(panes) : panes[i].selected}
  <2>1. \A i, j \in S : i = j
    BY <1>1 DEF IInv, PanesInv, SelectedWell
  <2>2. S = {} \/ \E i : S = {i}
    BY <2>1
  <2> HIDE DEF S
  <2>3. Cardinality(S) \in {0, 1}
    BY <2>2, FS_EmptySet, FS_Singleton
  <2>4. QED
    BY <2>3 DEF S
<1>2. QED
  BY <1>1, InterfaceInvariant, PTL

\* The row the cursor of an overlay is on is one of those drawn, on every terminal
\* of 11 rows or more, whatever its scrolling; the focused agent is listed in the
\* sidebar with its mark, and no line of the sidebar covers another.
THEOREM SelectionsAreDrawn == InterfaceSpec => []SelectionIsDrawn
<1>1. ASSUME IInv PROVE SelectionIsDrawn
  <2>1. term.h >= 11 => CursorIsDrawn
    BY <1>1, TypedFacts, CursorDrawn DEF IInv
  <2>2. FocusedIsListed(EntriesListed) /\ SidebarIsLegible(EntriesListed)
    BY <1>1, TypedFacts, FocusListed, SidebarLegible DEF IInv
  <2>3. QED
    BY <2>1, <2>2 DEF SelectionIsDrawn
<1>2. QED
  BY <1>1, InterfaceInvariant, PTL

\* render gives each pane it draws the size inside its border, its emulator and
\* its process alike, whatever sizes they had: only a process a reconnection
\* started again since the emulator last changed may differ.
THEOREM SizesFollowFrames == InterfaceSpec => SizesAgree
<1> DEFINE Agree == Render => \A i \in Drawn :
             /\ panes'[i].emu = Inner(PlaceOf(i))
             /\ panes'[i].pty \in {NoSize, panes'[i].emu} \/ panes'[i].reborn
<1>1. ASSUME IInv, Render PROVE Agree
  <2>1. /\ \A i \in 1..Len(panes) : PtyFits(panes'[i])
        /\ \A i \in Drawn : i \in 1..Len(panes) /\ panes'[i].emu = Inner(PlaceOf(i))
    BY <1>1, RenderPanes, LaidOut DEF IInv, PaneByPane
  <2>2. QED
    BY <2>1 DEF PtyFits
<1>2. IInv /\ [Next]_vars => [Agree]_vars
  BY <1>1
<1>3. QED
  BY <1>2, InterfaceInvariant, PTL DEF InterfaceSpec, SizesAgree

\* Whatever focus_next, the jump palette, a spawn, a close or a click do, the focus
\* is on a pane that exists, as long as there is one: only a click on a frame from
\* before a pane was closed (pane_at reads pane_rects) may leave it past the end.
THEOREM FocusIsOnAPane == InterfaceSpec => FocusStaysOnAPane
<1> DEFINE Stays == (panes' # <<>> /\ focus' >= Len(panes')) =>
                      focus >= Len(panes) \/ Len(pane_rects) > Len(panes)
<1>1. ASSUME IInv, [Next]_vars PROVE Stays
  <2>1. FocusStep /\ PanesStep
    BY <1>1, StepPanes DEF IInv
  <2>2. focus' \in Nat /\ Len(panes') \in Nat
    BY <2>1 DEF FocusStep, PanesStep
  <2>3. QED
    BY <2>1, <2>2 DEF FocusStep
<1>2. IInv /\ [Next]_vars => [Stays]_vars
  BY <1>1
<1>3. QED
  BY <1>2, InterfaceInvariant, PTL DEF InterfaceSpec, FocusStaysOnAPane

=============================================================================
