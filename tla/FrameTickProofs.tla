--------------------------- MODULE FrameTickProofs ---------------------------
(***************************************************************************)
(* Whatever the budgets of the scheduler and however long a frame takes, a *)
(* change is drawn in time, and whatever panes come and go, the timeline   *)
(* compares each with its own last status.                                 *)
(***************************************************************************)
EXTENDS FrameTick, SequenceTheorems, TLAPS

-----------------------------------------------------------------------------
(* The age of what is not drawn yet *)

Grace == MaxDraw + MaxIdlePoll
Oldest == Most(waiting, drawing)
\* What a change may have waited for when a frame is about to be drawn, or lost.
Budget == Grace + streak * Grace

Ages == Nat \union {None}

Clocked ==
  /\ phase \in {"turn", "draw", "poll", "gave_up"}
  /\ spent \in Nat /\ since_now \in Nat /\ left \in 0..MaxIdlePoll
  /\ since_render \in 0..Target
  /\ since_activity \in Nat /\ streak \in Nat
  /\ idle \in BOOLEAN
  /\ waiting \in Ages /\ drawing \in Ages

\* A change that came after the last frame was begun is not older than that, and
\* while its own frame is not due no frame is owed to an older one.
BeforeDue ==
  (phase # "draw" /\ since_render < Target) => /\ waiting <= since_render
                                               /\ drawing = None

\* A turn that has no frame to draw was brought about by an event: it is not idle.
NotIdle == (phase = "turn" /\ since_render < Target) => since_activity = 0

TurnInTime == phase = "turn" => Oldest <= Budget

DrawInTime ==
  phase = "draw" => /\ since_render = Target
                    /\ since_now = spent /\ spent <= MaxDraw
                    /\ waiting <= spent
                    /\ drawing <= Budget + spent

\* A poll uses up what is left of the budget and ends when the next frame is due.
PollInTime ==
  phase = "poll" => /\ spent <= left
                    /\ Oldest + (left - spent) <= Budget
                    /\ since_render + (left - spent) >= Target

LostInTime == phase = "gave_up" => Oldest <= Budget + MaxDraw

TimeInv == Clocked /\ BeforeDue /\ NotIdle /\ TurnInTime /\ DrawInTime /\ PollInTime /\ LostInTime

LEMMA Constants ==
  /\ Target \in Nat \ {0} /\ MinPoll \in Nat \ {0} /\ IdleThreshold \in Nat \ {0} /\ MaxIdlePoll \in Nat \ {0}
  /\ MaxDraw \in Nat
  /\ MinPoll <= Target /\ Target + MinPoll <= MaxIdlePoll
  BY TickAssumption

\* Each frame that is lost adds one grace to the budget.
LEMMA Streak ==
  ASSUME NEW n \in Nat, NEW g \in Nat
  PROVE  n * g \in Nat /\ (n + 1) * g = n * g + g
OBVIOUS

LEMMA BudgetIsANumber ==
  ASSUME Clocked
  PROVE  Grace \in Nat /\ streak * Grace \in Nat /\ Budget \in Nat
  BY Constants, Streak DEF Clocked, Grace, Budget

\* A poll is never longer than the idle one, and when not idle it reaches the
\* next frame.
LEMMA PollBounds ==
  ASSUME NEW at_rest \in BOOLEAN, NEW elapsed \in 0..Target
  PROVE  /\ PollTimeout(at_rest, elapsed) \in 0..MaxIdlePoll
         /\ elapsed + PollTimeout(at_rest, elapsed) >= Target
         /\ ~at_rest /\ elapsed < Target => elapsed + PollTimeout(at_rest, elapsed) <= MaxIdlePoll
  BY Constants DEF PollTimeout, Most, Least

LEMMA TimeInit == Init => TimeInv
<1> SUFFICES ASSUME Init PROVE TimeInv
  OBVIOUS
<1>1. idle \in BOOLEAN
  BY Zenon DEF Init
<1>2. Clocked
  BY <1>1, Constants DEF Init, Clocked, Ages
<1>3. Budget \in Nat /\ Oldest = 0
  BY <1>2, BudgetIsANumber DEF Init, Oldest, Most, None
<1> QED
  BY <1>2, <1>3 DEF Init, TimeInv, BeforeDue, NotIdle, TurnInTime, DrawInTime, PollInTime, LostInTime

LEMMA TurnKeepsTime == TimeInv /\ Turn => TimeInv'
<1> SUFFICES ASSUME TimeInv, Turn PROVE TimeInv'
  OBVIOUS
<1> USE Constants
<1>1. Clocked /\ phase = "turn" /\ Budget \in Nat /\ Oldest <= Budget /\ Budget' = Budget
  BY BudgetIsANumber DEF TimeInv, TurnInTime, Turn, Budget, Grace
<1>2. spent' = 0 /\ since_now' = 0 /\ since_render' = since_render /\ streak' = streak
      /\ since_activity' \in {0, since_activity} /\ idle' \in BOOLEAN
  BY DEF Turn
<1>3. CASE since_render = Target
  <2>1. phase' = "draw" /\ left' = left /\ waiting' = None /\ drawing' = Most(drawing, waiting)
    BY <1>1, <1>3 DEF Turn, ShouldRender, Clocked
  <2>2. drawing' \in Ages /\ drawing' <= Budget
    BY <1>1, <2>1 DEF Clocked, Ages, Oldest, Most, None
  <2> QED
    BY <1>1, <1>2, <1>3, <2>1, <2>2 DEF TimeInv, Clocked, Ages, BeforeDue, NotIdle, TurnInTime, DrawInTime, PollInTime, LostInTime, None
<1>4. CASE since_render < Target
  <2>1. phase' = "poll" /\ left' = PollTimeout(idle', since_render) /\ waiting' = waiting /\ drawing' = drawing
    BY <1>1, <1>4 DEF Turn, ShouldRender, Clocked
  <2>2. ~idle'
    <3>1. ~IsIdle
      BY <1>1, <1>4, Constants DEF TimeInv, NotIdle, IsIdle
    <3>2. idle' = (IsIdle /\ bus = <<>>)
      BY Zenon DEF Turn
    <3> QED
      BY <3>1, <3>2, Zenon
  <2>3. left' \in 0..MaxIdlePoll /\ since_render + left' >= Target /\ since_render + left' <= MaxIdlePoll
    BY <1>1, <1>2, <1>4, <2>1, <2>2, PollBounds DEF Clocked
  <2>4. waiting <= since_render /\ drawing = None
    BY <1>1, <1>4 DEF TimeInv, BeforeDue
  <2>5. Oldest' + left' <= Budget
    BY <1>1, <2>1, <2>3, <2>4, BudgetIsANumber DEF Oldest, Most, Clocked, Ages, None, Budget, Grace
  <2> QED
    BY <1>1, <1>2, <2>1, <2>3, <2>4, <2>5, <1>4 DEF TimeInv, Clocked, BeforeDue, NotIdle, TurnInTime, DrawInTime, PollInTime, LostInTime
<1> QED
  BY <1>1, <1>3, <1>4 DEF Clocked

LEMMA DrawKeepsTime == TimeInv /\ (DrawEnds \/ DrawPanics) => TimeInv'
<1> SUFFICES ASSUME TimeInv, phase = "draw", DrawEnds \/ DrawPanics PROVE TimeInv'
  BY DEF DrawEnds, DrawPanics
<1>1. /\ Clocked /\ Budget \in Nat /\ Grace \in Nat
      /\ since_render = Target /\ since_now = spent /\ spent <= MaxDraw
      /\ waiting <= spent /\ drawing <= Budget + spent
  BY BudgetIsANumber DEF TimeInv, DrawInTime
<1>2. CASE DrawEnds
  <2>1. /\ phase' = "poll" /\ spent' = 0 /\ since_now' = since_now /\ idle' = idle
        /\ since_activity' = since_activity /\ streak' = 0 /\ drawing' = None /\ waiting' = waiting
        /\ since_render' = Least(since_now, Target) /\ left' = PollTimeout(idle, 0)
    BY <1>2 DEF DrawEnds
  <2>2. left' \in 0..MaxIdlePoll /\ left' >= Target
    BY <1>1, <2>1, PollBounds, Constants DEF Clocked
  <2>3. Clocked'
    BY <1>1, <2>1, <2>2, Constants DEF Clocked, Ages, Least
  <2>4. Budget' = Grace
    BY <1>1, <2>1, Streak DEF Budget, Grace
  <2>5. Oldest' <= MaxDraw
    BY <1>1, <2>1, Constants DEF Oldest, Most, None, Clocked, Ages
  <2>6. PollInTime'
    BY <1>1, <2>1, <2>2, <2>3, <2>4, <2>5, Constants DEF PollInTime, Grace, Clocked, Oldest, Most, Ages
  <2>7. BeforeDue'
    BY <1>1, <2>1, Constants DEF BeforeDue, Least, Clocked
  <2> QED
    BY <2>1, <2>3, <2>6, <2>7 DEF TimeInv, NotIdle, TurnInTime, DrawInTime, LostInTime
<1>3. CASE DrawPanics
  <2>1. /\ phase' \in {"poll", "gave_up"} /\ spent' = 0 /\ since_now' = since_now /\ idle' = idle
        /\ since_activity' = since_activity /\ streak' = streak + 1 /\ drawing' = drawing
        /\ waiting' = Most(waiting, 0)
        /\ since_render' = since_render /\ left' = PollTimeout(idle, since_render)
    BY <1>3 DEF DrawPanics, Changed
  <2>2. left' \in 0..MaxIdlePoll
    BY <1>1, <2>1, PollBounds, Constants DEF Clocked
  <2>3. Clocked'
    BY <1>1, <2>1, <2>2 DEF Clocked, Ages, Most
  <2>4. Budget' = Budget + Grace
    BY <1>1, <2>1, Streak DEF Budget, Grace, Clocked
  <2>5. Oldest' <= Budget + MaxDraw
    BY <1>1, <2>1, Constants DEF Oldest, Most, None, Clocked, Ages
  <2>6. PollInTime'
    BY <1>1, <2>1, <2>2, <2>3, <2>4, <2>5, Constants DEF PollInTime, Grace, Clocked, Oldest, Most, Ages
  <2>7. LostInTime'
    BY <1>1, <2>3, <2>4, <2>5, Constants DEF LostInTime, Clocked, Oldest, Most, Ages
  <2> QED
    BY <1>1, <2>1, <2>3, <2>6, <2>7, Constants DEF TimeInv, BeforeDue, NotIdle, TurnInTime, DrawInTime
<1> QED
  BY <1>2, <1>3

\* Something new to draw, with the clock where it is: it has all of the budget.
LEMMA ChangeKeepsTime == TimeInv /\ Changed /\ UNCHANGED <<clock, drawing>> /\ phase \in {"draw", "poll"} => TimeInv'
<1> SUFFICES ASSUME TimeInv, Changed, UNCHANGED <<clock, drawing>>, phase \in {"draw", "poll"} PROVE TimeInv'
  OBVIOUS
<1>1. Clocked /\ Budget \in Nat /\ Grace \in Nat /\ Budget >= Grace
  BY BudgetIsANumber DEF TimeInv, Budget
<1>2. waiting' \in {waiting, 0} /\ waiting' \in Nat
  BY <1>1 DEF Changed, Most, Clocked, Ages, None
<1>3. Clocked' /\ Budget' = Budget
  BY <1>1, <1>2 DEF Clocked, clock, Ages, Budget, Grace
<1>4. DrawInTime' /\ BeforeDue'
  BY <1>1, <1>2, Constants DEF TimeInv, DrawInTime, BeforeDue, clock, Clocked, Budget, Grace, None
<1>5. PollInTime'
  <2>1. Oldest' \in {Oldest, 0}
    BY <1>1 DEF Changed, Oldest, Most, Clocked, Ages, None
  <2> QED
    BY <1>1, <1>3, <2>1, Constants DEF TimeInv, PollInTime, clock, Clocked, Grace
<1> QED
  BY <1>3, <1>4, <1>5 DEF TimeInv, NotIdle, TurnInTime, LostInTime, clock

\* An event, or the end of the poll: the next turn.
LEMMA PollEndKeepsTime == TimeInv /\ (Event \/ PollTimesOut) => TimeInv'
<1> SUFFICES ASSUME TimeInv, phase = "poll", Event \/ PollTimesOut PROVE TimeInv'
  BY DEF Event, PollTimesOut
<1>1. Clocked /\ Budget \in Nat /\ Grace \in Nat /\ Budget >= Grace
  BY BudgetIsANumber DEF TimeInv, Budget
<1>2. /\ phase' = "turn" /\ spent' = 0 /\ since_now' = since_now /\ idle' = idle /\ left' = left
      /\ since_render' = since_render /\ streak' = streak /\ drawing' = drawing
  BY DEF Event, PollTimesOut
<1>3. waiting' \in {waiting, 0} /\ waiting' \in Ages
  BY <1>1 DEF Event, PollTimesOut, Changed, Most, Clocked, Ages, None
<1>4. since_activity' \in Nat /\ (since_render < Target => since_activity' = 0)
  BY <1>1, Constants DEF Event, PollTimesOut, TimeInv, PollInTime, Clocked
<1>5. Clocked' /\ Budget' = Budget
  BY <1>1, <1>2, <1>3, <1>4 DEF Clocked, Budget, Grace
<1>6. TurnInTime'
  BY <1>1, <1>2, <1>3, <1>5, Constants DEF TimeInv, PollInTime, TurnInTime, Oldest, Most, Ages, None, Clocked
<1>7. BeforeDue'
  BY <1>1, <1>2, <1>3 DEF TimeInv, BeforeDue, Clocked
<1> QED
  BY <1>2, <1>4, <1>5, <1>6, <1>7 DEF TimeInv, NotIdle, DrawInTime, PollInTime, LostInTime

\* What one unit adds to an age it takes from the rest of the poll.
LEMMA OneUnitLater ==
  ASSUME NEW age \in Int, NEW older \in Int, NEW rest \in Int, NEW gone \in Int, NEW budget \in Int,
         age + (rest - gone) <= budget, rest - (gone + 1) <= budget, older <= age + 1 \/ older = 0
  PROVE  older + (rest - (gone + 1)) <= budget
OBVIOUS

LEMMA TickKeepsTime == TimeInv /\ Tick => TimeInv'
<1> SUFFICES ASSUME TimeInv, Tick PROVE TimeInv'
  OBVIOUS
<1>1. Clocked /\ Budget \in Nat /\ Grace \in Nat /\ Budget >= Grace
  BY BudgetIsANumber DEF TimeInv, Budget
<1>2. /\ phase' = phase /\ spent' = spent + 1 /\ since_now' = since_now + 1 /\ idle' = idle /\ left' = left
      /\ since_render' = Least(since_render + 1, Target) /\ streak' = streak
      /\ since_activity' = Least(since_activity + 1, IdleThreshold)
      /\ drawing' = Older(drawing, 1)
      /\ waiting' \in {Older(waiting, 1), Most(Older(waiting, 1), 0)}
  BY DEF Tick
<1>3. /\ drawing' \in Ages /\ drawing' \in {drawing, drawing + 1} /\ (drawing = None => drawing' = None)
      /\ waiting' \in Ages /\ waiting' \in {waiting, waiting + 1, 0}
  BY <1>1, <1>2 DEF Clocked, Ages, Older, Most, None
<1>4. Clocked' /\ Budget' = Budget
  BY <1>1, <1>2, <1>3, Constants DEF Clocked, Budget, Grace, Least
<1>5. CASE phase = "draw" /\ spent < MaxDraw
  <2>1. DrawInTime'
    BY <1>1, <1>2, <1>3, <1>4, <1>5, Constants DEF TimeInv, DrawInTime, Clocked, Ages, None, Least
  <2> QED
    BY <1>2, <1>4, <1>5, <2>1 DEF TimeInv, BeforeDue, NotIdle, TurnInTime, PollInTime, LostInTime
<1>6. CASE phase = "poll" /\ spent < left
  <2>1. BeforeDue'
    BY <1>1, <1>2, <1>3, <1>6, Constants DEF TimeInv, BeforeDue, Clocked, Least, Ages, None
  <2>2. Oldest' \in Ages /\ (Oldest' <= Oldest + 1 \/ Oldest' = 0)
    BY <1>1, <1>3 DEF Oldest, Most, Clocked, Ages, None
  <2>3. Oldest \in Ages
    BY <1>1 DEF Oldest, Most, Clocked, Ages
  <2>4. spent <= left /\ Oldest + (left - spent) <= Budget /\ since_render + (left - spent) >= Target
    BY <1>6 DEF TimeInv, PollInTime
  <2>5. Oldest' + (left - (spent + 1)) <= Budget
    <3>1. left \in Int /\ spent \in Int /\ Oldest \in Int /\ Oldest' \in Int /\ Budget \in Int
      BY <1>1, <2>2, <2>3 DEF Clocked, Ages, None
    <3>2. left - (spent + 1) <= Budget
      BY <1>1, <3>1, Constants DEF Clocked, Grace
    <3> QED
      BY <2>2, <2>4, <3>1, <3>2, OneUnitLater
  <2>6. since_render' + (left - (spent + 1)) >= Target
    BY <1>1, <1>2, <1>6, <2>4, Constants DEF Clocked, Least
  <2>7. PollInTime'
    BY <1>1, <1>2, <1>4, <1>6, <2>5, <2>6 DEF PollInTime, Clocked
  <2> QED
    BY <1>2, <1>4, <1>6, <2>1, <2>7 DEF TimeInv, NotIdle, TurnInTime, DrawInTime, LostInTime
<1> QED
  BY <1>5, <1>6 DEF Tick

LEMMA TimeStep == TimeInv /\ [Next]_vars => TimeInv'
<1> SUFFICES ASSUME TimeInv, [Next]_vars PROVE TimeInv'
  OBVIOUS
<1>1. CASE UNCHANGED vars
  BY <1>1 DEF vars, clock, TimeInv, Clocked, BeforeDue, NotIdle, TurnInTime, DrawInTime, PollInTime, LostInTime, Oldest, Budget, Grace
<1>2. ASSUME NEW i \in 1..Len(panes), ChildExits(i) PROVE TimeInv'
  BY <1>2, ChangeKeepsTime DEF ChildExits
<1>3. CASE SpawnTask \/ BusUpdate
  BY <1>3, ChangeKeepsTime DEF SpawnTask, BusUpdate
<1> QED
  BY <1>1, <1>2, <1>3, TurnKeepsTime, DrawKeepsTime, PollEndKeepsTime, TickKeepsTime DEF Next

\* A change is on the screen within two frames and a poll, and one frame and one
\* poll more for each frame that panicked since: for any frame budget, poll
\* floor, idle threshold and drawing time (scheduler.rs; main_loop).
THEOREM ChangesAreDrawn == TickSpec => []DrawnInTime
<1>1. TimeInv => DrawnInTime
  <2> SUFFICES ASSUME TimeInv PROVE DrawnInTime
    OBVIOUS
  <2>1. Clocked /\ Budget \in Nat /\ Grace \in Nat
    BY BudgetIsANumber DEF TimeInv
  <2>2. Oldest <= Budget + MaxDraw
    BY <2>1, Constants DEF TimeInv, Clocked, TurnInTime, DrawInTime, PollInTime, LostInTime, Oldest, Most, Ages, None
  <2> QED
    BY <2>1, <2>2, Constants DEF DrawnInTime, Oldest, Budget, Grace, Clocked
<1> QED
  BY <1>1, TimeInit, TimeStep, PTL DEF TickSpec

-----------------------------------------------------------------------------
(* The panes and the statuses recorded for them *)

\* q is a sequence, whatever is in it.
Listed(q) == q = [i \in 1..Len(q) |-> q[i]] /\ Len(q) \in Nat

\* The ids of the panes are known, and no two are alike.
Known == \A i \in 1..Len(panes) : "id" \in DOMAIN panes[i] /\ panes[i].id \in DOMAIN told
NoTwoAlike == \A i, j \in 1..Len(panes) : panes[i].id = panes[j].id => i = j

NextIdIsFree == next_id \in Nat /\ \A id \in DOMAIN told : id \in Nat /\ id < next_id

StatusInv ==
  /\ Listed(panes) /\ Listed(last_status)
  /\ Len(last_status) <= Len(panes)
  /\ Known /\ NoTwoAlike /\ NextIdIsFree
  /\ StatusIsItsOwn

LEMMA ListedIsSeq ==
  ASSUME NEW q, Listed(q)
  PROVE  q \in Seq({q[i] : i \in 1..Len(q)})
  BY DEF Listed

LEMMA SeqIsListed ==
  ASSUME NEW S, NEW q \in Seq(S)
  PROVE  Listed(q)
  BY DEF Listed

LEMMA MappedIsListed ==
  ASSUME NEW n \in Nat, NEW f, f = [i \in 1..n |-> f[i]]
  PROVE  Listed(f) /\ Len(f) = n
<1>1. f \in Seq({f[i] : i \in 1..n})
  OBVIOUS
<1>2. Len(f) = n
  BY <1>1
<1> QED
  BY <1>2 DEF Listed

LEMMA AppendToListed ==
  ASSUME NEW q, Listed(q), NEW e
  PROVE  /\ Listed(Append(q, e)) /\ Len(Append(q, e)) = Len(q) + 1
         /\ \A i \in 1..Len(q) : Append(q, e)[i] = q[i]
         /\ Append(q, e)[Len(q) + 1] = e
<1> DEFINE S == {q[i] : i \in 1..Len(q)} \union {e}
<1>1. q \in Seq(S)
  BY DEF Listed
<1>2. e \in S
  OBVIOUS
<1> HIDE DEF S
<1>3. /\ Append(q, e) \in Seq(S) /\ Len(Append(q, e)) = Len(q) + 1
      /\ \A i \in 1..Len(q) : Append(q, e)[i] = q[i]
      /\ Append(q, e)[Len(q) + 1] = e
  BY <1>1, <1>2, AppendProperties
<1> QED
  BY <1>3, SeqIsListed

LEMMA RemoveFromListed ==
  ASSUME NEW q, Listed(q), NEW n \in 1..Len(q)
  PROVE  /\ Listed(RemoveAt(q, n)) /\ Len(RemoveAt(q, n)) = Len(q) - 1
         /\ \A i \in 1..(Len(q) - 1) : RemoveAt(q, n)[i] = IF i < n THEN q[i] ELSE q[i + 1]
<1> DEFINE S == {q[i] : i \in 1..Len(q)}
           before == SubSeq(q, 1, n - 1)
           after == SubSeq(q, n + 1, Len(q))
<1>1. Len(q) \in Nat
  BY DEF Listed
<1>2. before \in Seq(S) /\ Len(before) = n - 1 /\ \A i \in 1..(n - 1) : before[i] = q[i]
  BY <1>1, SubSeqProperties
<1>3. after \in Seq(S) /\ Len(after) = Len(q) - n /\ \A i \in 1..(Len(q) - n) : after[i] = q[n + i]
  BY <1>1, SubSeqProperties
<1>4. /\ before \o after \in Seq(S) /\ Len(before \o after) = Len(q) - 1
      /\ \A i \in 1..(Len(q) - 1) : (before \o after)[i] = IF i <= n - 1 THEN before[i] ELSE after[i - (n - 1)]
  <2> HIDE DEF before, after, S
  <2>1. /\ before \o after \in Seq(S) /\ Len(before \o after) = Len(before) + Len(after)
        /\ \A i \in 1..(Len(before) + Len(after)) :
             (before \o after)[i] = IF i <= Len(before) THEN before[i] ELSE after[i - Len(before)]
    BY <1>2, <1>3, ConcatProperties
  <2>2. Len(before) + Len(after) = Len(q) - 1
    BY <1>1, <1>2, <1>3
  <2> QED
    BY <1>2, <2>1, <2>2
<1>5. \A i \in 1..(Len(q) - 1) : (before \o after)[i] = IF i < n THEN q[i] ELSE q[i + 1]
  <2> HIDE DEF before, after, S
  <2> QED
    BY <1>1, <1>2, <1>3, <1>4
<1> QED
  BY <1>4, <1>5, SeqIsListed DEF RemoveAt

-----------------------------------------------------------------------------
(* What a step does to them *)

SameIds ==
  /\ Listed(panes') /\ Len(panes') = Len(panes)
  /\ \A i \in 1..Len(panes) : "id" \in DOMAIN panes'[i] /\ panes'[i].id = panes[i].id
  /\ UNCHANGED next_id

Unrecorded == SameIds /\ UNCHANGED <<last_status, told>>

LEMMA UnrecordedKeeps == StatusInv /\ Unrecorded => StatusInv'
<1> SUFFICES ASSUME StatusInv, Unrecorded PROVE StatusInv'
  OBVIOUS
<1>1. Known' /\ NoTwoAlike' /\ NextIdIsFree'
  BY DEF StatusInv, Unrecorded, SameIds, Known, NoTwoAlike, NextIdIsFree
<1>2. StatusIsItsOwn'
  BY DEF StatusInv, Unrecorded, SameIds, StatusIsItsOwn
<1> QED
  BY <1>1, <1>2 DEF StatusInv, Unrecorded, SameIds

LEMMA RecordKeeps == StatusInv /\ SameIds /\ RecordActivity => StatusInv'
<1> SUFFICES ASSUME StatusInv, SameIds, RecordActivity PROVE StatusInv'
  OBVIOUS
<1>1. Len(panes) \in Nat /\ Len(panes') = Len(panes)
  BY DEF StatusInv, Listed, SameIds
<1>2. Listed(last_status') /\ Len(last_status') = Len(panes)
  BY <1>1, MappedIsListed DEF RecordActivity
<1>3. DOMAIN told' = DOMAIN told
  BY DEF RecordActivity
<1>4. Known' /\ NoTwoAlike' /\ NextIdIsFree'
  BY <1>1, <1>3 DEF StatusInv, SameIds, Known, NoTwoAlike, NextIdIsFree
<1>5. ASSUME NEW i \in 1..Len(panes) PROVE last_status'[i] = told'[panes'[i].id]
  <2> DEFINE at == {j \in 1..Len(panes') : panes'[j].id = panes'[i].id}
  <2>1. at = {i}
    BY <1>1, <1>4 DEF NoTwoAlike
  <2>2. panes'[i].id \in DOMAIN told
    BY <1>1, <1>3, <1>4 DEF Known
  <2>3. (CHOOSE j \in at : TRUE) = i
    BY <2>1
  <2>4. told'[panes'[i].id] = Derive(panes'[CHOOSE j \in at : TRUE])
    BY <2>1, <2>2 DEF RecordActivity
  <2>5. last_status'[i] = Derive(panes'[i])
    BY <1>1 DEF RecordActivity
  <2> QED
    BY <2>3, <2>4, <2>5
<1> QED
  BY <1>1, <1>2, <1>4, <1>5 DEF StatusInv, SameIds, StatusIsItsOwn

LEMMA AddKeeps == StatusInv /\ AddPane => StatusInv'
<1> SUFFICES ASSUME StatusInv, AddPane PROVE StatusInv'
  OBVIOUS
<1>1. Listed(panes) /\ Len(panes) \in Nat /\ Len(last_status) \in Nat /\ Len(last_status) <= Len(panes)
  BY DEF StatusInv, Listed
<1>2. /\ Listed(panes') /\ Len(panes') = Len(panes) + 1
      /\ \A i \in 1..Len(panes) : panes'[i] = panes[i]
      /\ panes'[Len(panes) + 1] = NewPane
  BY <1>1, AppendToListed DEF AddPane
<1>3. NewPane.id = next_id /\ "id" \in DOMAIN NewPane
  BY DEF NewPane
<1>4. /\ next_id \in Nat /\ next_id' = next_id + 1 /\ UNCHANGED last_status
      /\ DOMAIN told' = DOMAIN told \union {next_id}
      /\ \A id \in DOMAIN told : id \in Nat /\ id < next_id /\ told'[id] = told[id]
  BY DEF StatusInv, NextIdIsFree, AddPane
<1>5. Known'
  BY <1>1, <1>2, <1>3, <1>4 DEF StatusInv, Known
<1>6. NoTwoAlike'
  BY <1>1, <1>2, <1>3, <1>4 DEF StatusInv, Known, NoTwoAlike
<1>7. NextIdIsFree'
  BY <1>4 DEF NextIdIsFree
<1>8. StatusIsItsOwn'
  BY <1>1, <1>2, <1>4 DEF StatusInv, Known, StatusIsItsOwn
<1> QED
  BY <1>1, <1>2, <1>4, <1>5, <1>6, <1>7, <1>8 DEF StatusInv

LEMMA CloseKeeps == ASSUME NEW n \in 1..Len(panes), StatusInv, Close(n) PROVE StatusInv'
<1>1. /\ Listed(panes) /\ Len(panes) \in Nat
      /\ Listed(last_status) /\ Len(last_status) \in Nat /\ Len(last_status) <= Len(panes)
  BY DEF StatusInv, Listed
<1>2. /\ Listed(panes') /\ Len(panes') = Len(panes) - 1
      /\ \A i \in 1..(Len(panes) - 1) : panes'[i] = IF i < n THEN panes[i] ELSE panes[i + 1]
  BY <1>1, RemoveFromListed DEF Close
<1>3. UNCHANGED <<told, next_id>>
  BY DEF Close
<1>4. Known' /\ NextIdIsFree'
  <2>1. \A i \in 1..(Len(panes) - 1) : \E k \in 1..Len(panes) : panes'[i] = panes[k]
    BY <1>1, <1>2
  <2> QED
    BY <1>2, <1>3, <2>1 DEF StatusInv, Known, NextIdIsFree
<1>5. NoTwoAlike'
  BY <1>1, <1>2 DEF StatusInv, NoTwoAlike
<1>6. /\ Listed(last_status') /\ Len(last_status') <= Len(panes')
      /\ \A i \in 1..Len(last_status') : last_status'[i] = IF i < n THEN last_status[i] ELSE last_status[i + 1]
      /\ \A i \in 1..Len(last_status') : i >= n => i + 1 <= Len(last_status)
      /\ Len(last_status') <= Len(last_status)
  <2>1. CASE n <= Len(last_status)
    <3>1. last_status' = RemoveAt(last_status, n) /\ n \in 1..Len(last_status)
      BY <1>1, <2>1 DEF Close, StatusesWithout
    <3>2. /\ Listed(last_status') /\ Len(last_status') = Len(last_status) - 1
          /\ \A i \in 1..(Len(last_status) - 1) : last_status'[i] = IF i < n THEN last_status[i] ELSE last_status[i + 1]
      BY <1>1, <3>1, RemoveFromListed
    <3> QED
      BY <1>1, <1>2, <3>2
  <2>2. CASE n > Len(last_status)
    <3>1. last_status' = last_status
      BY <1>1, <2>2 DEF Close, StatusesWithout
    <3> QED
      BY <1>1, <1>2, <2>2, <3>1
  <2> QED
    BY <1>1, <2>1, <2>2
<1>7. StatusIsItsOwn'
  <2> SUFFICES ASSUME NEW i \in 1..Len(panes'), i <= Len(last_status')
               PROVE  last_status'[i] \in {NoStatus, told[panes'[i].id]}
    BY <1>3 DEF StatusIsItsOwn
  <2>1. Len(last_status') \in Nat /\ Len(panes') \in Nat
    BY <1>2, <1>6 DEF Listed
  <2>2. CASE i < n
    BY <1>1, <1>2, <1>6, <2>1, <2>2 DEF StatusInv, StatusIsItsOwn
  <2>3. CASE i >= n
    <3>1. i + 1 \in 1..Len(panes) /\ i + 1 <= Len(last_status)
      BY <1>1, <1>2, <1>6, <2>1, <2>3
    <3>2. panes'[i] = panes[i + 1] /\ last_status'[i] = last_status[i + 1]
      BY <1>1, <1>2, <1>6, <2>1, <2>3
    <3> QED
      BY <3>1, <3>2 DEF StatusInv, StatusIsItsOwn
  <2> QED
    BY <1>1, <1>2, <2>2, <2>3
<1> QED
  BY <1>2, <1>4, <1>5, <1>6, <1>7 DEF StatusInv

-----------------------------------------------------------------------------

LEMMA StatusInit == Init => StatusInv
<1> SUFFICES ASSUME Init PROVE StatusInv
  OBVIOUS
<1>1. Listed(panes) /\ Len(panes) = AtStart /\ AtStart \in Nat
  BY TickAssumption, MappedIsListed DEF Init
<1>2. Listed(last_status) /\ Len(last_status) = 0
  BY DEF Init, Listed
<1> QED
  BY <1>1, <1>2 DEF Init, StatusInv, Known, NoTwoAlike, NextIdIsFree, StatusIsItsOwn

LEMMA TurnKeepsIds == StatusInv /\ Turn => SameIds
<1> SUFFICES ASSUME StatusInv, Turn PROVE SameIds
  OBVIOUS
<1>1. Listed(panes') /\ Len(panes') = Len(panes)
  BY MappedIsListed DEF StatusInv, Listed, Turn
<1>2. ASSUME NEW i \in 1..Len(panes) PROVE "id" \in DOMAIN panes'[i] /\ panes'[i].id = panes[i].id
  <2>1. "id" \in DOMAIN panes[i]
    BY DEF StatusInv, Known
  <2>2. "id" \in DOMAIN Reaped(panes[i]) /\ Reaped(panes[i]).id = panes[i].id
    BY <2>1 DEF Reaped
  <2>3. "id" \in DOMAIN Drained(Reaped(panes[i])) /\ Drained(Reaped(panes[i])).id = Reaped(panes[i]).id
    BY <2>2 DEF Drained
  <2> QED
    BY <2>2, <2>3 DEF Turn
<1> QED
  BY <1>1, <1>2 DEF SameIds, Turn

LEMMA ExitKeepsIds == ASSUME NEW i \in 1..Len(panes), StatusInv, ChildExits(i) PROVE Unrecorded
<1>1. PICK code \in Exits : panes' = [panes EXCEPT ![i].child = code]
  BY DEF ChildExits
<1>2. DOMAIN panes = 1..Len(panes) /\ Len(panes) \in Nat
  BY DEF StatusInv, Listed
<1>3. Listed(panes') /\ Len(panes') = Len(panes)
  BY <1>1, <1>2, MappedIsListed
<1>4. \A k \in 1..Len(panes) : "id" \in DOMAIN panes'[k] /\ panes'[k].id = panes[k].id
  BY <1>1, <1>2 DEF StatusInv, Known
<1> QED
  BY <1>3, <1>4 DEF Unrecorded, SameIds, ChildExits

LEMMA Untouched == StatusInv /\ UNCHANGED <<panes, last_status, told, next_id>> => StatusInv'
<1> SUFFICES ASSUME StatusInv, UNCHANGED <<panes, last_status, told, next_id>> PROVE StatusInv'
  OBVIOUS
<1> QED
  BY DEF StatusInv, Listed, Known, NoTwoAlike, NextIdIsFree, StatusIsItsOwn

LEMMA StatusStep == StatusInv /\ [Next]_vars => StatusInv'
<1> SUFFICES ASSUME StatusInv, [Next]_vars PROVE StatusInv'
  OBVIOUS
<1>1. CASE Turn
  BY <1>1, TurnKeepsIds, RecordKeeps DEF Turn
<1>2. CASE SpawnTask
  BY <1>2, AddKeeps DEF SpawnTask
<1>3. CASE Event
  BY <1>3, AddKeeps, CloseKeeps, Untouched DEF Event, agents
<1>4. CASE DrawEnds \/ DrawPanics \/ PollTimesOut \/ Tick \/ BusUpdate \/ UNCHANGED vars
  BY <1>4, Untouched DEF DrawEnds, DrawPanics, PollTimesOut, Tick, BusUpdate, agents, vars
<1>5. ASSUME NEW i \in 1..Len(panes), ChildExits(i) PROVE StatusInv'
  BY <1>5, ExitKeepsIds, UnrecordedKeeps
<1> QED
  BY <1>1, <1>2, <1>3, <1>4, <1>5 DEF Next

\* However panes are closed, added and reported on between two turns, the status
\* record_activity compares a pane with is the one it recorded of that pane: for
\* any number of panes and updates (record_activity, close_focused_pane).
THEOREM StatusesStayWithTheirPanes == TickSpec => []StatusIsItsOwn
<1>1. StatusInv => StatusIsItsOwn
  BY DEF StatusInv
<1> QED
  BY <1>1, StatusInit, StatusStep, PTL DEF TickSpec

=============================================================================
