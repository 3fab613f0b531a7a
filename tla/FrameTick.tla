------------------------------ MODULE FrameTick ------------------------------
(***************************************************************************)
(* The clock of the frame loop: when a frame is due, how long the loop may *)
(* block for input (src/src/scheduler.rs), what one turn of main_loop does *)
(* before, between and after (src/src/app.rs), the statuses it derives     *)
(* (src/src/agent.rs), the timeline of their changes (src/src/activity.rs) *)
(* and the toasts (src/src/toast.rs).  Time passes in units, in a frame    *)
(* being drawn and in the poll; a handler takes none.  Bytes on the bus    *)
(* and exits of children do not end a poll, input does.                    *)
(***************************************************************************)
EXTENDS Integers, SequencesExt

CONSTANTS Target,         \* the frame budget
          MinPoll,        \* the floor of a poll
          IdleThreshold, MaxIdlePoll,
          MaxDraw,        \* a frame takes this long, at most
          TTL,            \* of a toast
          MAX_TOASTS,
          GiveUpAfter,
          AtStart,        \* panes on the command line
          MaxBus,         \* bound on updates waiting on the bus
          MaxChanges      \* bound on what happens

ASSUME TickAssumption ==
  /\ {Target, MinPoll, IdleThreshold, MaxIdlePoll, TTL, MAX_TOASTS, GiveUpAfter} \subseteq Nat \ {0}
  /\ {MaxDraw, AtStart, MaxBus, MaxChanges} \subseteq Nat
  /\ MinPoll <= Target /\ Target + MinPoll <= MaxIdlePoll /\ MaxIdlePoll <= IdleThreshold

VARIABLES phase,          \* "turn", "draw", "poll" or "gave_up"
          spent,          \* time in this phase
          since_now,      \* time since `now` was read in this turn
          idle,           \* is_idle(now), as read in this turn
          left,           \* what the poll may take
          since_render,   \* up to Target
          since_activity, \* up to IdleThreshold
          streak,         \* render_panic_streak
          panes,          \* id, lifecycle, last OSC 9999 state, and whether the child has exited
          last_status,    \* by position, NoStatus before the first record
          bus, toasts,    \* toasts as ages
          waiting,        \* history: age of the oldest change no frame has begun to draw, or -1
          drawing,        \* history: and of the oldest one in the frame being drawn
          told,           \* history: by pane id, the status recorded last
          next_id, changes

clock == <<phase, spent, since_now, idle, left, since_render, since_activity, streak>>
agents == <<panes, last_status, bus, toasts, told, next_id>>
vars == <<clock, agents, waiting, drawing, changes>>

None == -1
NoStatus == "none"
OscStates == {"working", "blocked"}
Exits == {"done", "failed"}

Least(a, b) == IF a < b THEN a ELSE b
Most(a, b) == IF a > b THEN a ELSE b
Older(age, n) == IF age = None THEN None ELSE age + n
Happens == changes < MaxChanges /\ changes' = changes + 1
\* Something new to draw.
Changed == waiting' = Most(waiting, 0)

-----------------------------------------------------------------------------
(* scheduler.rs *)

\* A slip: nothing is drawn while idle.
ShouldRenderUnlessIdle(elapsed) == elapsed >= Target /\ since_activity < IdleThreshold

ShouldRender(elapsed) == elapsed >= Target

IsIdle == since_activity >= IdleThreshold
\* With what has passed at `now` since the last frame.
PollTimeout(at_rest, elapsed) ==
  IF at_rest THEN MaxIdlePoll ELSE Most(MinPoll, Least(Target - Least(elapsed, Target), Target))

-----------------------------------------------------------------------------
(* agent.rs, activity.rs, toast.rs *)

FromLifecycle(state) == IF state = "running" THEN "working" ELSE state
Derive(p) ==
  IF p.state = "failed" THEN "failed"
  ELSE IF p.osc \in OscStates THEN p.osc
  ELSE FromLifecycle(p.state)

\* record_activity: an event for each pane whose status is not the one of the
\* last turn, `from` what was recorded at its position; the first is silent.
RecordActivity ==
  /\ last_status' = [i \in 1..Len(panes') |-> Derive(panes'[i])]
  /\ told' = [id \in DOMAIN told |->
       LET at == {i \in 1..Len(panes') : panes'[i].id = id} IN
       IF at = {} THEN told[id] ELSE Derive(panes'[CHOOSE i \in at : TRUE])]

PushToast(queue) == Append(IF Len(queue) >= MAX_TOASTS THEN Tail(queue) ELSE queue, 0)
Gc(queue) == SelectSeq(queue, LAMBDA age : age < TTL)

-----------------------------------------------------------------------------
(* A turn of the loop *)

\* reap_exited: the exit code decides, unless the pane is terminal already.
Reaped(p) == IF p.child \in Exits /\ p.state = "running" THEN [p EXCEPT !.state = p.child] ELSE p
\* drain_bus, apply_update: an update of a closed pane is dropped.
Drained(p) ==
  LET own == SelectSeq(bus, LAMBDA u : u.id = p.id) IN
  IF own = <<>> THEN p ELSE [p EXCEPT !.osc = Last(own).osc]

Turn ==
  /\ phase = "turn"
  /\ panes' = [i \in 1..Len(panes) |-> Drained(Reaped(panes[i]))]
  /\ bus' = <<>>
  /\ RecordActivity
  /\ toasts' = Gc(toasts)
  /\ since_activity' = IF bus # <<>> THEN 0 ELSE since_activity
  /\ idle' = (IsIdle /\ bus = <<>>)
  /\ since_now' = 0 /\ spent' = 0
  /\ IF ShouldRender(since_render)
     THEN phase' = "draw" /\ drawing' = Most(drawing, waiting) /\ waiting' = None /\ UNCHANGED left
     ELSE phase' = "poll" /\ left' = PollTimeout(idle', since_render) /\ UNCHANGED <<drawing, waiting>>
  /\ UNCHANGED <<since_render, streak, next_id, changes>>

\* What the frame shows is the state at its start; record_render(now) with the
\* turn's now, and so a poll of a whole frame after it.
DrawEnds ==
  /\ phase = "draw"
  /\ phase' = "poll" /\ spent' = 0
  /\ since_render' = Least(since_now, Target) /\ streak' = 0
  /\ left' = PollTimeout(idle, 0)
  /\ drawing' = None
  /\ UNCHANGED <<since_now, idle, since_activity, agents, waiting, changes>>

\* The frame is lost: last_render stays, a toast says so, the next poll is short.
DrawPanics ==
  /\ phase = "draw"
  /\ Happens
  /\ streak' = streak + 1
  /\ phase' = IF streak' >= GiveUpAfter THEN "gave_up" ELSE "poll"
  /\ spent' = 0
  /\ left' = PollTimeout(idle, since_render)
  /\ toasts' = PushToast(toasts)
  /\ Changed
  /\ UNCHANGED <<since_now, idle, since_render, since_activity, panes, last_status, bus, told, next_id, drawing>>

NewPane == [id |-> next_id, state |-> "running", osc |-> NoStatus, child |-> "running"]

AddPane ==
  /\ panes' = Append(panes, NewPane)
  /\ next_id' = next_id + 1
  /\ told' = [id \in DOMAIN told \cup {next_id} |-> IF id = next_id THEN NoStatus ELSE told[id]]
  /\ UNCHANGED <<last_status, bus, toasts>>

\* pump_orchestration, between the frame and the poll.
SpawnTask ==
  /\ phase = "poll" /\ spent = 0
  /\ Happens /\ AddPane /\ Changed
  /\ UNCHANGED <<clock, drawing>>

\* A slip: the parallel vector is not shortened.
StatusesKept(i) == last_status

\* close_focused_pane removes at the same position, if the vector reaches it.
StatusesWithout(i) == IF i <= Len(last_status) THEN RemoveAt(last_status, i) ELSE last_status

Close(i) ==
  /\ panes' = RemoveAt(panes, i)
  /\ last_status' = StatusesWithout(i)
  /\ UNCHANGED <<bus, toasts, told, next_id>>

\* One event ends the poll and is handled in the same turn.
Event ==
  /\ phase = "poll"
  /\ Happens
  /\ phase' = "turn" /\ spent' = 0
  /\ since_activity' = 0
  /\ \/ UNCHANGED agents
     \/ AddPane
     \/ \E i \in 1..Len(panes) : Close(i)
     \/ toasts' = PushToast(toasts) /\ UNCHANGED <<panes, last_status, bus, told, next_id>>
  /\ Changed
  /\ UNCHANGED <<since_now, idle, left, since_render, streak, drawing>>

PollTimesOut ==
  /\ phase = "poll"
  /\ spent >= left
  /\ phase' = "turn" /\ spent' = 0
  /\ UNCHANGED <<since_now, idle, left, since_render, since_activity, streak, agents, waiting, drawing, changes>>

-----------------------------------------------------------------------------
(* The world *)

\* A toast that has had its time is to disappear from the screen.
Expires == \E i \in 1..Len(toasts) : toasts[i] + 1 = TTL

Tick ==
  /\ \/ phase = "draw" /\ spent < MaxDraw
     \/ phase = "poll" /\ spent < left
  /\ spent' = spent + 1 /\ since_now' = since_now + 1
  /\ since_render' = Least(since_render + 1, Target)
  /\ since_activity' = Least(since_activity + 1, IdleThreshold)
  /\ toasts' = [i \in 1..Len(toasts) |-> Least(toasts[i] + 1, TTL)]
  /\ waiting' = IF Expires THEN Most(Older(waiting, 1), 0) ELSE Older(waiting, 1)
  /\ drawing' = Older(drawing, 1)
  /\ UNCHANGED <<phase, idle, left, streak, panes, last_status, bus, told, next_id, changes>>

\* The forwarder of a pane, or of one that was closed, puts an OSC 9999 state on the bus.
BusUpdate ==
  /\ phase \in {"draw", "poll"}
  /\ Len(bus) < MaxBus
  /\ Happens /\ Changed
  /\ \E id \in DOMAIN told, s \in OscStates : bus' = Append(bus, [id |-> id, osc |-> s])
  /\ UNCHANGED <<clock, panes, last_status, toasts, told, next_id, drawing>>

ChildExits(i) ==
  /\ phase \in {"draw", "poll"}
  /\ panes[i].child = "running"
  /\ Happens /\ Changed
  /\ \E code \in Exits : panes' = [panes EXCEPT ![i].child = code]
  /\ UNCHANGED <<clock, last_status, bus, toasts, told, next_id, drawing>>

-----------------------------------------------------------------------------
Init ==
  /\ phase = "turn" /\ spent = 0 /\ since_now = 0 /\ idle = FALSE /\ left = 0
  /\ since_render = 0 /\ since_activity = 0 /\ streak = 0
  /\ panes = [i \in 1..AtStart |-> [id |-> i, state |-> "running", osc |-> NoStatus, child |-> "running"]]
  /\ told = [i \in 1..AtStart |-> NoStatus]
  /\ next_id = AtStart + 1
  /\ last_status = <<>> /\ bus = <<>> /\ toasts = <<>>
  /\ waiting = 0 /\ drawing = None
  /\ changes = 0

Next ==
  \/ Turn \/ DrawEnds \/ DrawPanics \/ SpawnTask \/ Event \/ PollTimesOut \/ Tick \/ BusUpdate
  \/ \E i \in 1..Len(panes) : ChildExits(i)

TickSpec == Init /\ [][Next]_vars

-----------------------------------------------------------------------------
(* Properties *)

\* A change waits at most for the frame being drawn, one poll and its own
\* frame; each frame that panics costs another one and a short poll, or, when
\* the loop is idle, a long one.
DrawnInTime ==
  Most(waiting, drawing) <= 2 * MaxDraw + MaxIdlePoll + streak * (MaxDraw + MaxIdlePoll)

\* What record_activity compares a pane with is what it recorded of that pane:
\* with panes closed and added between two turns, each event of the timeline
\* goes on from the pane's own last one.
StatusIsItsOwn ==
  \A i \in 1..Len(panes) :
    i <= Len(last_status) => last_status[i] \in {NoStatus, told[panes[i].id]}

=============================================================================
