------------------------------ MODULE PaneFeed ------------------------------
(***************************************************************************)
(* From an agent's bytes to its pane: what apply_update does with Output.  *)
(* Every byte goes through three automata of their own                     *)
(*                                                                         *)
(*   QueryResponder (query.rs)   answers what a terminal is asked          *)
(*   OscScanner     (osc.rs)     takes the agent's status, OSC 9999, out   *)
(*   SyncScanner    (sync.rs)    holds a redraw, mode 2026, until its end  *)
(*                                                                         *)
(* and what is left is fed to the terminal emulator, whose grid Pane       *)
(* caches until it changes.  A chunk may end anywhere: one step is one     *)
(* byte, or one parameter string, whose bytes move no automaton.           *)
(*                                                                         *)
(* The agent writes units, whole sequences of such bytes.  What the pane   *)
(* should make of a list of units is said without the automata, by a fold. *)
(* A session that drops in the middle of a unit is respawned on the same   *)
(* pane, whose automata stay as they were.                                 *)
(*                                                                         *)
(* What the user selects with the mouse is coordinates of a small grid of  *)
(* any content, which output changes under the selection: what is copied is*)
(* read from the emulator, what is drawn from the cached grid.  A drag     *)
(* begins on a pane nothing was written to yet, for the automata and the   *)
(* selection do not depend on each other.                                  *)
(***************************************************************************)
EXTENDS Integers, FiniteSets, SequencesExt

CONSTANTS
  Kinds,      (* the units the agent writes                                 *)
  MaxUnits,   (* bound: units written                                       *)
  CutWithin,  (* bound: one session may drop, in its first CutWithin units   *)
  MaxScroll,  (* bound: how far the user scrolls back                       *)
  MAX_BATCH,  (* what a batch may hold                                      *)
  DragKinds,  (* bound: the units of which one is written during a drag     *)
  Rows, Cols  (* of the grid, where the user selects                        *)

ESC == "ESC"  BEL == "BEL"  ST_SECOND == "\\"

Unit ==
  [text    |-> <<"x">>,
   escM    |-> <<ESC, "M">>,
   colour  |-> <<ESC, "[", "31", "m">>,
   begin   |-> <<ESC, "[", "?2026", "h">>,
   end     |-> <<ESC, "[", "?2026", "l">>,
   title   |-> <<ESC, "]", "0", ";", "t", BEL>>,
   link    |-> <<ESC, "]", "8", ";", "t", ESC, ST_SECOND>>,
   status  |-> <<ESC, "]", "9999", ";", "working", BEL>>,
   done    |-> <<ESC, "]", "9999", ";", "done", ESC, ST_SECOND>>,
   garbled |-> <<ESC, "]", "9999", ";", "t", BEL>>,
   fg      |-> <<ESC, "]", "10", ";", "?", BEL>>,
   bg      |-> <<ESC, "]", "11", ";", "?", ESC, ST_SECOND>>,
   da1     |-> <<ESC, "[", "c">>,
   da2     |-> <<ESC, "[", ">", "c">>,
   decrqm  |-> <<ESC, "[", "?2004", "$", "p">>,
   terminfo |-> <<ESC, "P", "+q", "544e", ESC, ST_SECOND>>]

ASSUME FeedAssumption ==
  /\ Kinds \subseteq DOMAIN Unit /\ DragKinds \subseteq Kinds
  /\ {MaxUnits, CutWithin, MaxScroll, MAX_BATCH, Rows, Cols} \subseteq Nat

\* What ends a CSI, 0x40..=0x7e.  A word or a code of the alphabet that has a
\* letter ends it there, and the rest of it is text.
Finals == {"h", "l", "m", "c", "p", "x", "t", "M", "P", "[", "]", ST_SECOND, "+q", "544e", "working", "done"}
Activities == {"working", "done"}             (* payloads that parse          *)

VARIABLES
  written,    (* history: units written whole                               *)
  kind, at,   (* the unit being written, and how much of it was             *)
  cuts,
  osc,        (* OscScanner: state, ctx, held, param, payload               *)
  sync,       (* SyncScanner: state, in_sync, buf, seq                      *)
  query,      (* QueryResponder: state, buf                                 *)
  activity,   (* Pane::activity                                             *)
  answers,    (* history: responses written to the session                  *)
  fed,        (* history: what the emulator was fed                         *)
  scroll,
  grid_cache, (* the snapshot, or nothing while grid_dirty                   *)
  selection   (* Pane::selection with the grid it is in, or nothing         *)

feedVars == <<written, kind, at, cuts, osc, sync, query, activity, answers, fed, scroll, grid_cache, selection>>

-----------------------------------------------------------------------------
(* OscScanner::process, one byte: the next state, what comes out, an activity *)

Osc(state, ctx, held, param, payload) == [state |-> state, ctx |-> ctx, held |-> held, param |-> param, payload |-> payload]
OscInit == Osc("Normal", "Param", <<>>, <<>>, <<>>)
Gives(next, out, acts) == [next |-> next, out |-> out, acts |-> acts]

Is9999(o) == o.param = <<"9999">>

Parsed(payload) == IF Len(payload) = 1 /\ payload[1] \in Activities THEN payload ELSE <<>>

OscNormal(o, b) ==
  IF b = ESC THEN Gives([o EXCEPT !.state = "EscSeen", !.held = Append(@, ESC)], <<>>, <<>>)
             ELSE Gives(o, <<b>>, <<>>)

OscEscSeen(o, b) ==
  CASE b = "]" -> Gives([o EXCEPT !.state = "OscParam", !.held = Append(@, b), !.param = <<>>], <<>>, <<>>)
    [] b = ESC -> Gives(o, <<ESC>>, <<>>)
    [] OTHER   -> Gives([o EXCEPT !.state = "Normal", !.held = <<>>], <<ESC, b>>, <<>>)

\* An OSC is over: 9999 gives its activity, any other is flushed as it came.
OscEnds(o, ctx, rest) ==
  LET back == [o EXCEPT !.state = "Normal", !.held = <<>>, !.payload = <<>>] IN
  IF ctx = "Payload" THEN Gives(back, <<>>, Parsed(o.payload))
  ELSE Gives(back, IF ctx = "Param" /\ Is9999(o) THEN <<>> ELSE o.held \o rest, <<>>)

OscParam(o, b) ==
  CASE b = ";" -> Gives([o EXCEPT !.state = IF Is9999(o) THEN "OscPayload" ELSE "PassthroughOsc",
                                  !.held = IF Is9999(o) THEN <<>> ELSE Append(@, b), !.payload = <<>>], <<>>, <<>>)
    [] b = BEL -> OscEnds(o, "Param", <<BEL>>)
    [] b = ESC -> Gives([o EXCEPT !.state = "EscInOsc", !.ctx = "Param", !.held = Append(@, b)], <<>>, <<>>)
    [] OTHER   -> Gives([o EXCEPT !.held = Append(@, b), !.param = Append(@, b)], <<>>, <<>>)

OscPayload(o, b) ==
  CASE b = BEL -> OscEnds(o, "Payload", <<>>)
    [] b = ESC -> Gives([o EXCEPT !.state = "EscInOsc", !.ctx = "Payload"], <<>>, <<>>)
    [] OTHER   -> Gives([o EXCEPT !.payload = Append(@, b)], <<>>, <<>>)

PassthroughOsc(o, b) ==
  CASE b = BEL -> OscEnds(o, "Passthrough", <<BEL>>)
    [] b = ESC -> Gives([o EXCEPT !.state = "EscInOsc", !.ctx = "Passthrough", !.held = Append(@, b)], <<>>, <<>>)
    [] OTHER   -> Gives([o EXCEPT !.held = Append(@, b)], <<>>, <<>>)

\* Not a terminator after all: the OSC is given up and b is read again.
EscInOsc(o, b) ==
  IF b = ST_SECOND THEN OscEnds(o, o.ctx, <<b>>)
  ELSE LET again == OscNormal([o EXCEPT !.state = "Normal", !.held = <<>>, !.payload = <<>>], b) IN
       Gives(again.next, IF o.ctx = "Payload" THEN again.out ELSE o.held \o again.out, <<>>)

OscStep(o, b) ==
  CASE o.state = "Normal" -> OscNormal(o, b)
    [] o.state = "EscSeen" -> OscEscSeen(o, b)
    [] o.state = "OscParam" -> OscParam(o, b)
    [] o.state = "OscPayload" -> OscPayload(o, b)
    [] o.state = "PassthroughOsc" -> PassthroughOsc(o, b)
    [] o.state = "EscInOsc" -> EscInOsc(o, b)

-----------------------------------------------------------------------------
(* SyncScanner::process, one byte *)

SyncInit == [state |-> "Ground", in_sync |-> FALSE, buf |-> <<>>, seq |-> <<>>, out |-> <<>>]

Flush(s) == [s EXCEPT !.out = @ \o s.buf, !.buf = <<>>, !.in_sync = FALSE]

\* A slip: a batch that grows too large is dropped.
RouteOrDrop(s, bytes) ==
  LET grown == [s EXCEPT !.buf = @ \o bytes] IN
  IF ~s.in_sync THEN [s EXCEPT !.out = @ \o bytes]
  ELSE IF Len(grown.buf) > MAX_BATCH THEN [s EXCEPT !.buf = <<>>, !.in_sync = FALSE] ELSE grown

\* route, route_slice: to the batch, which is flushed when it grows too large.
Route(s, bytes) ==
  LET grown == [s EXCEPT !.buf = @ \o bytes] IN
  IF ~s.in_sync THEN [s EXCEPT !.out = @ \o bytes]
  ELSE IF Len(grown.buf) > MAX_BATCH THEN Flush(grown) ELSE grown

Ground(s) == [s EXCEPT !.state = "Ground", !.seq = <<>>]

\* begin_sync, end_sync, or any other CSI.
SyncCsi(s) ==
  CASE s.seq = Unit.begin -> [s EXCEPT !.in_sync = TRUE, !.buf = <<>>]
    [] s.seq = Unit.end   -> Flush(s)
    [] OTHER              -> Route(s, s.seq)

SyncStep(s, b) ==
  LET more == [s EXCEPT !.seq = Append(@, b)]
      into(state) == [more EXCEPT !.state = state]
  IN CASE s.state = "Ground" -> IF b = ESC THEN [s EXCEPT !.seq = <<ESC>>, !.state = "Esc"] ELSE Route(s, <<b>>)
       [] s.state = "Esc" -> (CASE b = "[" -> into("Csi") [] b = "]" -> into("Osc") [] b = "P" -> into("Dcs")
                                [] b = ESC -> s
                                [] OTHER -> Ground(Route(s, <<ESC, b>>)))
       [] s.state = "Csi" -> IF b \in Finals THEN Ground(SyncCsi(more)) ELSE more
       [] s.state = "Osc" -> (CASE b = BEL -> Ground(Route(more, more.seq)) [] b = ESC -> into("OscEsc") [] OTHER -> more)
       [] s.state = "OscEsc" -> IF b = ST_SECOND THEN Ground(Route(more, more.seq)) ELSE into("Osc")
       [] s.state = "Dcs" -> IF b = ESC THEN into("DcsEsc") ELSE more
       [] s.state = "DcsEsc" -> IF b = ST_SECOND THEN Ground(Route(more, more.seq)) ELSE into("Dcs")

-----------------------------------------------------------------------------
(* QueryResponder::process, one byte: the next state and the responses *)

QueryInit == [state |-> "Normal", buf |-> <<>>]

ColourResponse(body) == IF body \in {<<p, ";", "?">> : p \in {"10", "11", "12"}} THEN <<body[1]>> ELSE <<>>
Private == {"?2004", "?2026"}
CsiResponse(body) ==
  CASE Last(body) = "c" -> IF Head(body) = ">" THEN <<"da2">> ELSE <<"da">>
    [] Len(body) > 2 /\ Last(body) = "p" /\ body[Len(body) - 1] = "$" /\ Head(body) \in Private -> <<"decrqm">>
    [] OTHER -> <<>>
DcsResponse(body) == IF body # <<>> /\ Head(body) = "+q" THEN <<"terminfo">> ELSE <<>>

\* A slip: a sequence is only recognized if no chunk ends inside it.
QueryStepPerChunk(q, b) == [next |-> QueryInit, out |-> <<>>]

QueryStep(q, b) ==
  LET to(state, buf) == [next |-> [state |-> state, buf |-> buf], out |-> <<>>]
      over(out) == [next |-> [state |-> "Normal", buf |-> <<>>], out |-> out]
      body == Append(q.buf, b)
  IN CASE q.state = "Normal" -> to(IF b = ESC THEN "Esc" ELSE "Normal", <<>>)
       [] q.state = "Esc" -> (CASE b = "]" -> to("Osc", <<>>) [] b = "[" -> to("Csi", <<>>) [] b = "P" -> to("Dcs", <<>>)
                                [] b = ESC -> to("Esc", <<>>) [] OTHER -> to("Normal", <<>>))
       [] q.state = "Csi" -> IF b \in Finals THEN over(CsiResponse(body)) ELSE to("Csi", body)
       [] q.state = "Osc" -> (CASE b = BEL -> over(ColourResponse(q.buf)) [] b = ESC -> to("OscEsc", q.buf) [] OTHER -> to("Osc", body))
       [] q.state = "Dcs" -> IF b = ESC THEN to("DcsEsc", q.buf) ELSE to("Dcs", body)
       [] q.state = "OscEsc" -> IF b = ST_SECOND THEN over(ColourResponse(q.buf)) ELSE to("Osc", q.buf \o <<ESC, b>>)
       [] q.state = "DcsEsc" -> IF b = ST_SECOND THEN over(DcsResponse(q.buf)) ELSE to("Dcs", q.buf \o <<ESC, b>>)

-----------------------------------------------------------------------------
(* The pane *)

FeedInit ==
  /\ written = <<>> /\ kind \in Kinds /\ at = 0 /\ cuts = 0
  /\ osc = OscInit /\ sync = SyncInit /\ query = QueryInit
  /\ activity = <<>> /\ answers = <<>> /\ fed = <<>>
  /\ scroll = 0 /\ grid_cache = <<>> /\ selection = <<>>

\* The grid: a wide character covers the cell to its right, which is blank.
Cells == (1..Rows) \X (1..Cols)
GridRows == {r \in [1..Cols -> {"blank", "char", "wide", "rest"}] :
               r[Cols] # "wide" /\ \A c \in 1..Cols : (r[c] = "rest") = (c > 1 /\ r[c - 1] = "wide")}

Byte == Unit[kind][at + 1]
Whole == at + 1 = Len(Unit[kind])

\* A slip: nothing changed for the grid if the scanners held the bytes back.
CacheUnless(bytes) == IF bytes = <<>> THEN grid_cache ELSE <<>>

\* Pane::feed: new output shows the latest line again.
CacheAfter(bytes) == <<>>

\* What the emulator is fed changes at most a row of the grid (bound) under a
\* selection, which stays where it is.
Redraws(bytes) ==
  /\ selection # <<>> /\ written = <<>> /\ kind \in DragKinds /\ kind' \in DragKinds
  /\ IF bytes = <<>> THEN UNCHANGED selection
     ELSE \E r \in 1..Rows, row \in GridRows : selection' = <<[selection[1] EXCEPT !.grid[r] = row]>>

\* The agent writes a byte, and apply_update handles it.
Output ==
  /\ Len(written) + cuts < MaxUnits
  /\ LET o == OscStep(osc, Byte)
         s == FoldLeft(SyncStep, sync, o.out)
         q == QueryStep(query, Byte)
     IN /\ query' = q.next /\ answers' = answers \o q.out
        /\ osc' = o.next
        /\ activity' = IF o.acts = <<>> THEN activity ELSE o.acts
        /\ sync' = [s EXCEPT !.out = <<>>]
        /\ fed' = fed \o s.out
        /\ grid_cache' = CacheAfter(s.out)
        /\ scroll' = 0
        /\ IF Whole THEN written' = Append(written, kind) /\ kind' \in Kinds /\ at' = 0
                    ELSE at' = at + 1 /\ UNCHANGED <<written, kind>>
        /\ (selection = <<>> /\ UNCHANGED selection) \/ Redraws(s.out)
  /\ UNCHANGED cuts

\* The connection drops and respawn puts a new session on the same pane.
Cut ==
  /\ selection = <<>> /\ at > 0 /\ cuts = 0 /\ Len(written) < CutWithin
  /\ cuts' = cuts + 1
  /\ at' = 0 /\ kind' \in Kinds
  /\ UNCHANGED <<written, osc, sync, query, activity, answers, fed, scroll, grid_cache, selection>>

\* scroll_up, scroll_down, and a resize.
Scroll ==
  /\ selection = <<>>
  /\ scroll' \in 0..MaxScroll
  /\ grid_cache' = <<>>
  /\ UNCHANGED <<written, kind, at, cuts, osc, sync, query, activity, answers, fed, selection>>

\* paint_grid: a new snapshot only if the old one is stale.
Paint ==
  /\ grid_cache = <<>>
  /\ grid_cache' = <<Len(fed), scroll>>
  /\ selection' = [i \in DOMAIN selection |-> [selection[i] EXCEPT !.drawn = selection[i].grid]]
  /\ UNCHANGED <<written, kind, at, cuts, osc, sync, query, activity, answers, fed, scroll>>

-----------------------------------------------------------------------------
(* Selecting and copying *)

\* What the emulator has: selected_text reads it there.
Contents(s) == {p \in Cells : s.grid[p[1]][p[2]] \in {"char", "wide"}}

InOrder(p, q) == p[1] < q[1] \/ (p[1] = q[1] /\ p[2] <= q[2])
From(s) == IF InOrder(s.start, s.end) THEN s.start ELSE s.end
Until(s) == IF InOrder(s.start, s.end) THEN s.end ELSE s.start

\* selected_text: row by row, the whole of a row between; blank cells are no text.
Copied(s) ==
  {p \in Contents(s) :
     /\ p[1] \in From(s)[1]..Until(s)[1]
     /\ p[2] \in (IF p[1] = From(s)[1] THEN From(s)[2] ELSE 1)..(IF p[1] = Until(s)[1] THEN Until(s)[2] ELSE Cols)}

\* A slip: the columns between the two ends, on every row.
InSelectionAsBlock(p, s) ==
  p[1] \in From(s)[1]..Until(s)[1] /\ p[2] >= From(s)[2] /\ p[2] <= Until(s)[2]

\* paint_grid, for a cell it paints.
InSelection(p, s) ==
  /\ p[1] \in From(s)[1]..Until(s)[1]
  /\ CASE p[1] = From(s)[1] /\ p[1] = Until(s)[1] -> p[2] >= From(s)[2] /\ p[2] <= Until(s)[2]
       [] p[1] = From(s)[1] /\ p[1] # Until(s)[1] -> p[2] >= From(s)[2]
       [] p[1] # From(s)[1] /\ p[1] = Until(s)[1] -> p[2] <= Until(s)[2]
       [] OTHER -> TRUE

\* Pane::render: colours change places in what is selected, then at the cursor.
Painted(s) == {p \in Cells : s.drawn[p[1]][p[2]] # "rest"}
CursorCell(s) == IF scroll = 0 THEN s.cursor ELSE {}
Reversed(s) ==
  LET chosen == {p \in Painted(s) : InSelection(p, s)}
  IN  (chosen \ CursorCell(s)) \union (CursorCell(s) \ chosen)

\* start_selection where the button went down, extend_selection where it is now.
\* The cursor is hidden or (bound) where the button went down.
Drag ==
  /\ \E end \in Cells :
       \/ /\ selection # <<>>
          /\ selection' = <<[selection[1] EXCEPT !.end = end]>>
       \/ /\ selection = <<>> /\ written = <<>> /\ at = 0 /\ cuts = 0 /\ grid_cache # <<>> /\ kind \in DragKinds
          /\ \E grid \in [1..Rows -> GridRows], start \in Cells : \E cursor \in {{}, {start}} :
               selection' = <<[grid |-> grid, drawn |-> grid, start |-> start, end |-> end, cursor |-> cursor]>>
  /\ UNCHANGED <<written, kind, at, cuts, osc, sync, query, activity, answers, fed, scroll, grid_cache>>

\* The button comes up: what was selected is copied, and no more selected.
Release ==
  /\ selection # <<>>
  /\ selection' = <<>>
  /\ UNCHANGED <<written, kind, at, cuts, osc, sync, query, activity, answers, fed, scroll, grid_cache>>

FeedNext == Output \/ Cut \/ Scroll \/ Paint \/ Drag \/ Release
FeedSpec == FeedInit /\ [][FeedNext]_feedVars

-----------------------------------------------------------------------------
(* What the pane should show of a list of units *)

Answer == [fg |-> "10", bg |-> "11", da1 |-> "da", da2 |-> "da2", decrqm |-> "decrqm", terminfo |-> "terminfo"]
Reports == [status |-> "working", done |-> "done"]

\* A batch is held back whole, until its end or until it is too large.
Batched(m, bytes) ==
  IF m.open /\ Len(m.held \o bytes) <= MAX_BATCH
  THEN [m EXCEPT !.held = @ \o bytes]
  ELSE [m EXCEPT !.open = FALSE, !.held = <<>>, !.shown = @ \o m.held \o bytes]

\* One more unit.  Everything between the begin and the end of a batch is
\* released at its end (sync.rs, the module's comment): also what it held when
\* it was begun once more, which reopened remembers.
Reads(m, k) ==
  CASE k \in DOMAIN Reports -> [m EXCEPT !.activity = <<Reports[k]>>]
    [] k = "garbled" -> m
    [] k = "begin"   -> [m EXCEPT !.open = TRUE, !.reopened = @ \/ m.held # <<>>]
    [] k = "end"     -> [m EXCEPT !.open = FALSE, !.held = <<>>, !.shown = @ \o m.held]
    [] k \in DOMAIN Answer -> [Batched(m, Unit[k]) EXCEPT !.answers = Append(@, Answer[k])]
    [] OTHER -> Batched(m, Unit[k])

Nothing == [open |-> FALSE, reopened |-> FALSE, held |-> <<>>, shown |-> <<>>, activity |-> <<>>, answers |-> <<>>]
Meant == FoldLeft(Reads, Nothing, written)

-----------------------------------------------------------------------------
(* Properties *)

\* Wherever chunks end, the emulator has exactly what a terminal that honours
\* mode 2026 and OSC 9999 shows of the units written whole, and nothing of the
\* one being written, until a batch that holds something is begun once more
\* (see BatchesAreShown); the activity is the last status that parsed (osc.rs
\* and sync.rs, process; Pane::feed).
ShowsWholeFrames ==
  cuts = 0 => /\ Meant.reopened \/ fed = Meant.shown
              /\ activity = Meant.activity

\* What sync.rs says of itself: everything between the begin and the end of a
\* batch is released to the emulator, nothing is lost.  begin_sync empties the
\* buffer, so a batch begun again loses what it held: TLC refutes it of this
\* code (README.md, section 3), and no run checks it.
BatchesAreShown == cuts = 0 => fed = Meant.shown

\* Every query is answered once, in order, a batch or a status around it
\* notwithstanding: the agent waits for the answers before it draws.
EveryQueryAnswered == cuts = 0 => answers = Meant.answers

\* Unless it is marked stale, the cached grid is the emulator's at the
\* user's scroll position.
PaintIsCurrent == grid_cache \in {<<>>, <<Len(fed), scroll>>}

\* On a grid that is drawn as the emulator has it, the text that is copied is
\* the text that was drawn as selected, wide characters, output during the drag
\* and both directions of it included: selected_text and paint_grid each work
\* it out.  Under the cursor colours are reversed once more.
CopiedIsHighlighted ==
  grid_cache # <<>> =>
    \A s \in {selection[i] : i \in DOMAIN selection} : \A p \in Contents(s) :
      p \in Copied(s) <=> (p \in Reversed(s)) # (p \in CursorCell(s))
=============================================================================
