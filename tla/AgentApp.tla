------------------------------ MODULE AgentApp ------------------------------
(***************************************************************************)
(* The application: the frame loop of src/src/app.rs over the agents'      *)
(* processes and threads (PtyPipeline) and over the coordinator            *)
(* (CoordinatorLoop), with stand-alone PTYs, that is without --daemon.     *)
(*                                                                         *)
(* One turn of main_loop is                                                *)
(*                                                                         *)
(*   reap_exited (the sweep, then what it found), drain_bus,               *)
(*   pump_orchestration, pump_reconnect, one input event,                  *)
(*   should_auto_exit                                                      *)
(*                                                                         *)
(* and pc says where in the turn the loop is.  The children, the reader    *)
(* and the forwarder threads run between any two steps of it.  An agent is *)
(* spread over parallel vectors (panes, sessions, pane_task, ...) that     *)
(* share a position, while threads know it by the pane's id.               *)
(*                                                                         *)
(* NumTasks > 0 is `orcatui orchestrate` (the application starts with no   *)
(* pane), Reconnecting is `orcatui run --remote H --reconnect`.  Rendering,*)
(* focus, pinning, toasts and the activity log are left out: the focused   *)
(* position is any position.                                               *)
(***************************************************************************)
EXTENDS PtyPipeline, CoordinatorLoop, SequencesExt

CONSTANTS
  NumAgents,     (* agents of `orcatui run`                                *)
  Reconnecting,  (* enable_reconnect was called                            *)
  MaxAttempts,   (* ReconnectPolicy::max_attempts                          *)
  MaxPanes,      (* max_panes(): what the picker lets the terminal hold    *)
  SpawnMayFail,  (* may PtySession::spawn return Err?                      *)
  ScreenMayFail, (* may the terminal, or ten frames in a row, fail?        *)
  Keys           (* keys the user presses                                  *)

ASSUME AppAssumption ==
  /\ NumAgents \in Nat /\ MaxPanes \in Nat /\ MaxAttempts \in Nat
  /\ NumAgents = 0 <=> NumTasks > 0
  /\ MaxInbox >= 2 * NumTasks
  /\ Reconnecting \in BOOLEAN /\ SpawnMayFail \in BOOLEAN /\ ScreenMayFail \in BOOLEAN
  /\ Keys \subseteq {"gateway", "esc", "n", "enter", "x", "z", "quit"}
  /\ IsFiniteSet(PaneIds) /\ PaneIds = 0..(Cardinality(PaneIds) - 1)
  /\ IsFiniteSet(Sessions) /\ Sessions = 1..Cardinality(Sessions)
  /\ None \notin Nat /\ None \notin {"waiting", "elapsed"}

VARIABLES
  panes,          (* Vec<Pane>: stable id and state                         *)
  sessions,       (* Vec<Option<PtySession>>                                *)
  pane_task,      (* Vec<Option<TaskId>>                                    *)
  reconnect,      (* Vec<Option<ReconnectSession>>: the attempt counter     *)
  reconnect_due,  (* Vec<Option<Instant>>: None, waiting, elapsed           *)
  next_pane_id,
  shown,          (* per session, the chunks its pane's emulator was fed    *)
  pc,             (* where main_loop is                                     *)
  reaped,         (* positions whose child this turn's sweep found gone     *)
  mode,           (* InputMode, as far as it matters here                   *)
  zoomed,
  quit,
  failed          (* main_loop returned Err                                 *)

vecs == <<panes, sessions, pane_task, reconnect, reconnect_due>>
sessionVars == <<childVars, handle, threadVars, pane>>
userVars == <<mode, zoomed, quit, failed>>
loopVars == <<pc, reaped>>
appVars == <<pipeVars, coordVars, vecs, next_pane_id, shown, loopVars, userVars>>

AgentState == {"Running", "Done", "Failed"}
Positions == DOMAIN panes
Terminal(i) == panes[i].state # "Running"

\* A slip: taking the id for a position.
PositionsOfIndex(id) == {id + 1} \cap Positions

\* idx_of_pane, as the set of at most one position.
PositionsOf(id) == {i \in Positions : panes[i].id = id}

AppInit ==
  /\ PipeInit
  /\ LoopInit
  /\ panes = <<>> /\ sessions = <<>> /\ pane_task = <<>>
  /\ reconnect = <<>> /\ reconnect_due = <<>>
  /\ next_pane_id = 0
  /\ shown = [s \in Sessions |-> 0]
  /\ pc = "start" /\ reaped = {}
  /\ mode = "Normal" /\ zoomed = FALSE /\ quit = FALSE /\ failed = FALSE

-----------------------------------------------------------------------------
(* Spawning *)

Fresh == {s \in Sessions : proc[s] = "absent"}
SpawnFails == SpawnMayFail /\ UNCHANGED sessionVars
SpawnSucceeds(s, id) ==
  /\ s \in Fresh /\ \A r \in Fresh : s <= r
  /\ SpawnSession(s, id)

\* A slip: the new pane's position for its id.
PaneIdIsPosition == Len(panes)

NewPaneId == next_pane_id

\* spawn_one: every vector grows by one; retry is the new pane's reconnect slot.
SpawnPane(task, retry) ==
  /\ next_pane_id \in PaneIds
  /\ next_pane_id' = next_pane_id + 1
  /\ \/ \E s \in Sessions :
          /\ SpawnSucceeds(s, NewPaneId)
          /\ panes' = Append(panes, [id |-> NewPaneId, state |-> "Running"])
          /\ sessions' = Append(sessions, s)
     \/ /\ SpawnFails
        /\ panes' = Append(panes, [id |-> NewPaneId, state |-> "Failed"])
        /\ sessions' = Append(sessions, None)
  /\ pane_task' = Append(pane_task, task)
  /\ reconnect' = Append(reconnect, retry)
  /\ reconnect_due' = Append(reconnect_due, None)

\* spawn_agents, then enable_reconnect: panes opened later are not eligible.
StartAgent ==
  /\ pc = "start"
  /\ Len(panes) < NumAgents
  /\ SpawnPane(None, IF Reconnecting THEN 0 ELSE None)
  /\ UNCHANGED <<bus, rxOpen, coordVars, shown, loopVars, userVars>>

Started ==
  /\ pc = "start"
  /\ Len(panes) = NumAgents
  /\ pc' = "reap"
  /\ UNCHANGED <<pipeVars, coordVars, vecs, next_pane_id, shown, reaped, userVars>>

-----------------------------------------------------------------------------
(* Exits *)

\* A slip: leaving the slot to a session whose child is gone already.
TakeRunningSession(i) ==
  LET live == {s \in {sessions[i]} \ {None} : ~Gone(s)} IN
  /\ sessions' = IF live = {} THEN sessions ELSE [sessions EXCEPT ![i] = None]
  /\ DropSessions(live)

\* Option::take on the session slot: if it was occupied, Drop runs.
TakeSession(i) ==
  /\ sessions' = [sessions EXCEPT ![i] = None]
  /\ DropSessions({sessions[i]} \ {None})

RetriesLeft(i) == reconnect[i] # None /\ reconnect[i] <= MaxAttempts

\* A slip: the later, less informed Exit overwrites the verdict.
VerdictOfCode(i, c) == IF c \in {0, None} THEN "Done" ELSE "Failed"

Verdict(i, c) ==
  IF Terminal(i) THEN panes[i].state ELSE IF c \in {0, None} THEN "Done" ELSE "Failed"

\* A slip: only a pane that ended well reports.
ReportCleanExit(i) ==
  IF pane_task[i] = None \/ panes'[i].state = "Failed" THEN UNCHANGED coordVars ELSE ReportDone(pane_task[i])

\* A failed task is reported done too, with "failed" for its summary.
ReportExit(i) == IF pane_task[i] = None THEN UNCHANGED coordVars ELSE ReportDone(pane_task[i])

\* apply_update, Exit with a live pane.  c is the exit code or None.
ExitApplied(i, c) ==
  /\ TakeSession(i)
  /\ \/ /\ RetriesLeft(i)
        /\ reconnect' = [reconnect EXCEPT ![i] = @ + 1]
        /\ reconnect_due' = [reconnect_due EXCEPT ![i] = "waiting"]
        /\ panes' = [panes EXCEPT ![i].state = "Failed"]
        /\ UNCHANGED coordVars
     \/ /\ ~RetriesLeft(i)
        /\ panes' = [panes EXCEPT ![i].state = Verdict(i, c)]
        /\ ReportExit(i)
        /\ UNCHANGED <<reconnect, reconnect_due>>
  /\ UNCHANGED <<pane_task, next_pane_id>>

\* A slip: waiting for the tty to report end of file.
ReapableAtEof(i) == ~Terminal(i) /\ sessions[i] # None /\ reader[sessions[i]] = "done" /\ Gone(sessions[i])

Reapable(i) == ~Terminal(i) /\ sessions[i] # None /\ Gone(sessions[i])

\* The sweep polls every slot (an exit between two of its polls is one before or
\* after all of them), and applies what it found only then.
ReapPoll ==
  /\ pc = "reap"
  /\ reaped' = {i \in Positions : Reapable(i)}
  /\ pc' = IF reaped' = {} THEN "drain" ELSE "reaped"
  /\ UNCHANGED <<pipeVars, coordVars, vecs, next_pane_id, shown, userVars>>

ReapOne ==
  /\ pc = "reaped"
  /\ \E i \in reaped :
       /\ \A j \in reaped : i <= j
       /\ ExitApplied(i, code[sessions[i]])
       /\ reaped' = reaped \ {i}
  /\ pc' = IF reaped' = {} THEN "drain" ELSE "reaped"
  /\ UNCHANGED <<bus, rxOpen, shown, userVars>>

-----------------------------------------------------------------------------
(* drain_bus *)

\* An update for a pane that has been closed is dropped.
DrainOne ==
  /\ pc = "drain"
  /\ bus # <<>>
  /\ bus' = Tail(bus)
  /\ LET u == Head(bus) IN
       \/ /\ PositionsOf(u.pane) = {}
          /\ UNCHANGED <<sessionVars, coordVars, vecs, next_pane_id, shown>>
       \/ /\ PositionsOf(u.pane) # {} /\ u.kind = "Output"
          /\ shown' = [shown EXCEPT ![u.src] = @ + 1]
          /\ UNCHANGED <<sessionVars, coordVars, vecs, next_pane_id>>
       \/ /\ u.kind = "Exit"
          /\ \E i \in PositionsOf(u.pane) : ExitApplied(i, None)
          /\ UNCHANGED shown
  /\ UNCHANGED <<rxOpen, loopVars, userVars>>

DrainEnd ==
  /\ pc = "drain"
  /\ bus = <<>>
  /\ pc' = "pump"
  /\ UNCHANGED <<pipeVars, coordVars, vecs, next_pane_id, shown, reaped, userVars>>

-----------------------------------------------------------------------------
(* pump_orchestration, then pump_reconnect *)

\* A slip: the dispatched task is never marked as in progress.
DispatchUnmarked ==
  /\ pc = "pump"
  /\ \E t \in Known, agent \in Agents :
       /\ IsNext(t)
       /\ DispatchNext(agent)
       /\ SpawnPane(t, None)
  /\ UNCHANGED <<bus, rxOpen, shown, loopVars, userVars>>

\* dispatch_next, mark_in_progress, spawn_one: the task is InProgress whatever
\* became of the spawn.
DispatchOne ==
  /\ pc = "pump"
  /\ \E t \in Known, agent \in Agents :
       /\ Release(t, agent)
       /\ SpawnPane(t, None)
  /\ UNCHANGED <<bus, rxOpen, shown, loopVars, userVars>>

NothingToDispatch == \A t \in Known : ~Dispatchable(t)

Due(i) == reconnect[i] # None /\ reconnect_due[i] = "elapsed"

\* The pane is kept, and with it the id its new forwarder reports under.
RespawnOne ==
  /\ pc = "pump"
  /\ NothingToDispatch
  /\ \E i \in Positions :
       /\ Due(i) /\ \A j \in Positions : Due(j) => i <= j
       /\ reconnect_due' = [reconnect_due EXCEPT ![i] = None]
       /\ \/ /\ ~RetriesLeft(i)
             /\ UNCHANGED <<sessionVars, panes, sessions, reconnect>>
          \/ /\ RetriesLeft(i)
             /\ reconnect' = [reconnect EXCEPT ![i] = 0]
             /\ \/ \E s \in Sessions :
                     /\ SpawnSucceeds(s, panes[i].id)
                     /\ panes' = [panes EXCEPT ![i].state = "Running"]
                     /\ sessions' = [sessions EXCEPT ![i] = s]
                \/ /\ SpawnFails
                   /\ panes' = [panes EXCEPT ![i].state = "Failed"]
                   /\ UNCHANGED sessions
  /\ UNCHANGED <<bus, rxOpen, coordVars, pane_task, next_pane_id, shown, loopVars, userVars>>

PumpEnd ==
  /\ pc = "pump"
  /\ NothingToDispatch
  /\ \A i \in Positions : ~Due(i)
  /\ pc' = "input"
  /\ UNCHANGED <<pipeVars, coordVars, vecs, next_pane_id, shown, reaped, userVars>>

\* Bound: the last wait does not end before a session is left for the respawn.
BackoffElapses ==
  /\ pc # "stopped"
  /\ SpawnMayFail \/ Cardinality(Fresh) > Cardinality({i \in Positions : Due(i)})
  /\ \E i \in Positions :
       /\ reconnect_due[i] = "waiting"
       /\ reconnect_due' = [reconnect_due EXCEPT ![i] = "elapsed"]
  /\ UNCHANGED <<pipeVars, coordVars, panes, sessions, pane_task, reconnect, next_pane_id, shown, loopVars, userVars>>

-----------------------------------------------------------------------------
(* One event: idle, or one of the keys.  In Normal mode all but two go to the agent. *)

Event == pc = "input" /\ pc' = "check" /\ UNCHANGED reaped
Key(key, when) == Event /\ key \in Keys /\ mode \in when

Idle ==
  /\ Event
  /\ UNCHANGED <<pipeVars, coordVars, vecs, next_pane_id, shown, userVars>>

SwitchMode ==
  /\ \/ Key("gateway", {"Normal", "Pane", "Spawn"}) /\ mode' = "Pane" /\ UNCHANGED zoomed
     \/ Key("esc", {"Pane", "Spawn"}) /\ mode' = "Normal" /\ UNCHANGED zoomed
     \/ Key("n", {"Pane"}) /\ mode' = "Spawn" /\ UNCHANGED zoomed
     \/ Key("z", {"Pane"}) /\ zoomed' = ~zoomed /\ UNCHANGED mode
  /\ UNCHANGED <<pipeVars, coordVars, vecs, next_pane_id, shown, quit, failed>>

PickAgent ==
  /\ Key("enter", {"Spawn"})
  /\ mode' = "Normal"
  /\ IF Len(panes) < MaxPanes
     THEN SpawnPane(None, None)
     ELSE UNCHANGED <<sessionVars, vecs, next_pane_id>>
  /\ UNCHANGED <<bus, rxOpen, coordVars, shown, zoomed, quit, failed>>

\* An emptied grid leaves the pane mode and the zoom behind.
ResetIfEmpty(grid) ==
  IF grid = <<>> THEN mode' = "Normal" /\ zoomed' = FALSE ELSE UNCHANGED <<mode, zoomed>>

ClosePane ==
  /\ Key("x", {"Pane"})
  /\ \E i \in Positions :
       /\ DropSessions({sessions[i]} \ {None})
       /\ panes' = RemoveAt(panes, i)
       /\ sessions' = RemoveAt(sessions, i)
       /\ pane_task' = RemoveAt(pane_task, i)
       /\ reconnect' = RemoveAt(reconnect, i)
       /\ reconnect_due' = RemoveAt(reconnect_due, i)
       /\ ResetIfEmpty(panes')
  /\ UNCHANGED <<bus, rxOpen, coordVars, next_pane_id, shown, quit, failed>>

Quit ==
  /\ Key("quit", {"Normal", "Pane", "Spawn"})
  /\ quit' = TRUE
  /\ UNCHANGED <<pipeVars, coordVars, vecs, next_pane_id, shown, mode, zoomed, failed>>

-----------------------------------------------------------------------------
(* The end of the turn, and of the run *)

AllSessionsGone == \A i \in DOMAIN sessions : sessions[i] = None
OrchestrationDrained == AllDone
ShouldAutoExit ==
  /\ AllSessionsGone
  /\ OrchestrationDrained
  /\ \A i \in DOMAIN reconnect_due : reconnect_due[i] = None
  /\ mode = "Normal"
  /\ ~zoomed

CheckExit ==
  /\ pc = "check"
  /\ pc' = IF ShouldAutoExit \/ quit THEN "teardown" ELSE "reap"
  /\ UNCHANGED <<pipeVars, coordVars, vecs, next_pane_id, shown, reaped, userVars>>

\* setup_terminal before the first turn, a frame after the drain (the tenth panic in a
\* row, or an I/O error) and the poll for an event end the run with an error.
LoopFails ==
  /\ ScreenMayFail
  /\ \/ pc = "start" /\ Len(panes) = NumAgents
     \/ pc = "drain" /\ bus = <<>>
     \/ pc = "input"
  /\ pc' = "teardown" /\ failed' = TRUE
  /\ UNCHANGED <<pipeVars, coordVars, vecs, next_pane_id, shown, reaped, mode, zoomed, quit>>

\* Dropping the App drops its fields in order: each session (kill and join), and
\* then the receiving end of the bus.
DropNext ==
  /\ pc = "teardown"
  /\ \E i \in Positions :
       /\ sessions[i] # None
       /\ \A j \in Positions : sessions[j] # None => i <= j
       /\ TakeSession(i)
  /\ UNCHANGED <<bus, rxOpen, coordVars, panes, pane_task, reconnect, reconnect_due, next_pane_id, shown, loopVars, userVars>>

Stop ==
  /\ pc = "teardown"
  /\ AllSessionsGone
  /\ pc' = "stopped"
  /\ rxOpen' = FALSE
  /\ UNCHANGED <<sessionVars, bus, coordVars, vecs, next_pane_id, shown, reaped, userVars>>

\* The UI thread: every step waits until the joins of the step before returned.
UINext ==
  /\ JoinsDone
  /\ \/ StartAgent \/ Started
     \/ ReapPoll \/ ReapOne
     \/ DrainOne \/ DrainEnd
     \/ DispatchOne \/ RespawnOne \/ PumpEnd
     \/ Idle \/ SwitchMode \/ PickAgent \/ ClosePane \/ Quit
     \/ CheckExit \/ LoopFails \/ DropNext \/ Stop

EnvNext == (ChildNext \/ ThreadNext) /\ UNCHANGED <<coordVars, vecs, next_pane_id, shown, loopVars, userVars>>

AppNext == UINext \/ EnvNext \/ BackoffElapses

\* The loop and the threads are scheduled; nothing makes an agent exit.
AppFairness == WF_appVars(UINext) /\ WF_appVars(BackoffElapses) /\ ThreadFairness

AppSpec == AppInit /\ [][AppNext]_appVars /\ AppFairness

-----------------------------------------------------------------------------
(* Properties *)

\* The parallel vectors stay parallel, whatever is closed, spawned and respawned:
\* one length, ids increasing and never handed out again, and the session in a slot
\* is the one whose forwarder was given the id of the pane at that position.
Lockstep ==
  /\ {Len(sessions), Len(pane_task), Len(reconnect), Len(reconnect_due)} = {Len(panes)}
  /\ \A i \in Positions :
       /\ panes[i].id < next_pane_id
       /\ \A j \in Positions : i < j => panes[i].id < panes[j].id
       /\ sessions[i] # None => pane[sessions[i]] = panes[i].id

\* Until the program ends, a pane is Running exactly while it owns a session, and
\* at all times the sessions in the slots are those held: no child runs that is in
\* no slot, so none is leaked.
RunningOwnsItsChild ==
  /\ pc \notin {"teardown", "stopped"} =>
       \A i \in Positions : panes[i].state = "Running" <=> sessions[i] # None
  /\ \A s \in Sessions :
       /\ handle[s] = "held" <=> \E i \in Positions : sessions[i] = s
       /\ proc[s] = "running" => handle[s] = "held"

\* Without reconnection, a verdict (Done or Failed) given to a pane is final: the
\* late, less informed Exit of its forwarder does not change it, and neither does
\* what happens to the panes around it.
VerdictIsFinal ==
  [][\A i \in Positions : (panes[i].state # "Running" /\ ~Reconnecting) =>
       \A j \in DOMAIN panes' : panes'[j].id = panes[i].id => panes'[j].state = panes[i].state]_panes

\* Everything a child wrote reaches its pane: dropping the session of an exited
\* child while its last output is still in the pipeline loses nothing, so once its
\* forwarder is done and the bus is drained of it the pane, if still there, has it all.
NoOutputLost ==
  \A s \in Sessions, i \in Positions :
    /\ forwarder[s] = "done" /\ rxOpen
    /\ panes[i].id = pane[s]
    /\ \A k \in DOMAIN bus : bus[k].src # s
    => shown[s] = wrote[s]

\* The application kills an agent only when the user closes its pane or quits, when
\* its own screen fails, or when the agent has let go of its tty: never because of what another agent, or
\* the earlier owner of a position, did.
KilledOnlyOnPurpose ==
  [][\A s \in Sessions : (proc[s] = "running" /\ proc'[s] = "killed") =>
       \/ pc = "input" /\ \A i \in DOMAIN panes' : panes'[i].id # pane[s]
       \/ pc = "teardown" /\ (quit \/ failed)
       \/ "child" \notin tty[s]]_proc

\* What stops the UI thread for good: a join on a session whose tty is still held by
\* a process the agent left behind.
StuckInJoin == \E s \in Sessions : handle[s] = "dropped" /\ "descendant" \in tty[s]

\* An agent whose process is gone is reaped, whether or not its tty reports EOF.
ExitIsNoticed ==
  \A s \in Sessions : (handle[s] = "held" /\ Gone(s)) ~> (handle[s] = "dropped" \/ StuckInJoin)

\* Quitting, or a screen that fails, ends every agent and the program.
QuitEndsEverything ==
  (quit \/ failed) ~> ((pc = "stopped" /\ \A s \in Sessions : proc[s] # "running") \/ StuckInJoin)

\* If every agent ends, so does the program, with every task done.
RunCompletes ==
  (\A s \in Sessions : (proc[s] = "running") ~> Gone(s)) => <>(AllDone /\ pc = "stopped")

-----------------------------------------------------------------------------
(* Orchestration *)

\* The application, with its panes, processes, threads and doubled exits, drives the
\* coordinator as CoordinatorLoop says, and so implements OrchestratedRun.
DrivesTheLoop == LoopSpec

\* A task is in progress exactly while a pane runs it (when spawning succeeds and
\* nobody closes panes), and never has two panes.
TaskHasItsPane ==
  \A t \in Known :
    /\ (tasks[t].status = "InProgress") <=> \E i \in Positions : pane_task[i] = t /\ ~Terminal(i)
    /\ Cardinality({i \in Positions : pane_task[i] = t}) <= 1

=============================================================================
