----------------------------- MODULE Worktrees ------------------------------
(***************************************************************************)
(* `orcatui run --worktree`: a git worktree and a branch for each agent    *)
(* (src/src/worktree.rs), made by App::spawn_agents before the agent is    *)
(* started in it and removed when the application is dropped, after its    *)
(* sessions.  Several applications may run in one repository; git is       *)
(* external: any command may fail, and directories may be deleted by hand. *)
(* Agents the user picks later, and agents that are started again after a  *)
(* drop (--reconnect), get no worktree: they run in launch_cwd.            *)
(*                                                                         *)
(* A worktree is its suffix, <slug>-<short-id>, from which path and branch *)
(* are made.  Short ids are 24 bits of a clock and a counter and nothing   *)
(* checks that they differ: the model draws them from a small set.         *)
(***************************************************************************)
EXTENDS Integers, FiniteSets, Sequences, TLC

CONSTANTS
  None,
  Apps,         (* applications run in the repository                       *)
  ShortIds,
  LaunchCwd,    (* App::launch_cwd                                          *)
  AgentsPerApp, (* specs of each                                            *)
  MaxPicked,    (* bound: agents the user of one picks                      *)
  Picking,      (* bound: applications whose user picks any                 *)
  Reconnecting, (* applications run with --reconnect                        *)
  MaxFailures   (* bound: git commands that fail, directories deleted       *)

\* What slugify makes of some agents' names: two may be one slug.
Slug == "Build" :> "build" @@ "build!" :> "build" @@ "..." :> "agent"
Suffixes == {<<Slug[name], id>> : name \in DOMAIN Slug, id \in ShortIds}

ASSUME WtAssumption ==
  /\ AgentsPerApp \in Nat /\ MaxPicked \in Nat /\ MaxFailures \in Nat
  /\ Reconnecting \subseteq Apps /\ Picking \subseteq Apps /\ None \notin Apps /\ LaunchCwd \notin Suffixes

VARIABLES
  registered, dirs, branches,   (* the repository: what git and the disk have *)
  failures,
  phase,      (* of an application: opening, spawning, running, dropping, gone       *)
  specs,      (* agents it has still to spawn                               *)
  next,       (* a worktree made whose agent is not started yet             *)
  entries,    (* OwnedWorktrees::entries                                    *)
  agents,     (* its agents that run: the pane of each and where it runs    *)
  panes,      (* App::next_pane_id                                          *)
  due,        (* panes whose agent dropped and is to be started again       *)
  stage,      (* of the entry being dropped: remove, delete                 *)
  reported,   (* history: worktrees whose removal it complained of          *)
  owner       (* history: the application that made each worktree           *)

repoVars == <<registered, dirs, branches>>
crewVars == <<agents, panes, due>>
wtVars == <<repoVars, failures, phase, specs, next, entries, crewVars, stage, reported, owner>>

WtInit ==
  /\ registered = {} /\ dirs = {} /\ branches = {} /\ failures = 0
  /\ phase = [a \in Apps |-> "opening"]
  /\ specs = [a \in Apps |-> AgentsPerApp]
  /\ next = [a \in Apps |-> {}]
  /\ entries = [a \in Apps |-> <<>>]
  /\ agents = [a \in Apps |-> {}]
  /\ panes = [a \in Apps |-> 0]
  /\ due = [a \in Apps |-> {}]
  /\ stage = [a \in Apps |-> "remove"]
  /\ reported = [a \in Apps |-> {}]
  /\ owner = [s \in Suffixes |-> None]

GitFails == failures < MaxFailures /\ failures' = failures + 1
GitWorks == UNCHANGED failures

\* WorktreeManager::open asks git three things; only the last may fail and the
\* application go on.
Open(a) ==
  /\ phase[a] = "opening"
  /\ \/ GitWorks /\ phase' = [phase EXCEPT ![a] = "spawning"]
     \/ GitFails /\ \E p \in {"gone", "spawning"} : phase' = [phase EXCEPT ![a] = p]
  /\ UNCHANGED <<repoVars, specs, next, entries, crewVars, stage, reported, owner>>

-----------------------------------------------------------------------------
(* git worktree add -b <branch> <path> HEAD *)

Free(s) == s \notin registered \union branches \union dirs

AddWorktree(s) ==
  /\ Free(s)
  /\ registered' = registered \union {s} /\ dirs' = dirs \union {s} /\ branches' = branches \union {s}
  /\ GitWorks

\* Refused, or given up half-way with the branch made.
AddFails(s) ==
  /\ IF Free(s) THEN GitFails ELSE GitWorks
  /\ \/ UNCHANGED <<branches, owner>>
     \/ s \notin branches /\ branches' = branches \union {s} /\ owner' = [owner EXCEPT ![s] = None]
  /\ UNCHANGED <<registered, dirs>>

Remember(a, s) ==
  /\ entries' = [entries EXCEPT ![a] = Append(@, s)]
  /\ next' = [next EXCEPT ![a] = {s}]

\* A slip: the worktree is remembered before it is known to be ours.
CreateForEarly(a, s) ==
  /\ phase[a] = "spawning" /\ specs[a] > 0 /\ next[a] = {}
  /\ \/ AddWorktree(s) /\ owner' = [owner EXCEPT ![s] = a] /\ Remember(a, s) /\ UNCHANGED phase
     \/ /\ AddFails(s) /\ phase' = [phase EXCEPT ![a] = "dropping"]
        /\ entries' = [entries EXCEPT ![a] = Append(@, s)] /\ UNCHANGED next
  /\ UNCHANGED <<specs, crewVars, stage, reported>>

\* create_for; a failure ends spawn_agents and drops what it has.
CreateFor(a, s) ==
  /\ phase[a] = "spawning" /\ specs[a] > 0 /\ next[a] = {}
  /\ \/ AddWorktree(s) /\ owner' = [owner EXCEPT ![s] = a] /\ Remember(a, s) /\ UNCHANGED phase
     \/ AddFails(s) /\ phase' = [phase EXCEPT ![a] = "dropping"] /\ UNCHANGED <<next, entries>>
  /\ UNCHANGED <<specs, crewVars, stage, reported>>

Agent(n, cwd) == [pane |-> n, cwd |-> cwd]

\* PtySession::spawn for pane n; one that fails is only a failed pane.
Spawn(a, n, cwd) == agents' \in {agents, [agents EXCEPT ![a] = @ \union {Agent(n, cwd)}]}

\* The agent of a spec, in the worktree just made.
StartAgent(a) ==
  /\ phase[a] = "spawning"
  /\ \E s \in next[a] : Spawn(a, panes[a], s)
  /\ next' = [next EXCEPT ![a] = {}]
  /\ specs' = [specs EXCEPT ![a] = @ - 1]
  /\ panes' = [panes EXCEPT ![a] = @ + 1]
  /\ UNCHANGED <<repoVars, failures, phase, due, entries, stage, reported, owner>>

AllSpawned(a) ==
  /\ phase[a] = "spawning" /\ specs[a] = 0
  /\ phase' = [phase EXCEPT ![a] = "running"]
  /\ UNCHANGED <<repoVars, failures, specs, next, entries, crewVars, stage, reported, owner>>

\* spawn_one_local: an agent from the picker.
PickAgent(a) ==
  /\ a \in Picking /\ phase[a] = "running" /\ panes[a] < AgentsPerApp + MaxPicked
  /\ Spawn(a, panes[a], LaunchCwd)
  /\ panes' = [panes EXCEPT ![a] = @ + 1]
  /\ UNCHANGED <<repoVars, failures, phase, specs, next, due, entries, stage, reported, owner>>

\* An agent exits or is closed: its worktree stays.  With --reconnect, one that
\* had a spec and exits is started again.
AgentEnds(a, g) ==
  /\ g \in agents[a]
  /\ agents' = [agents EXCEPT ![a] = @ \ {g}]
  /\ \/ UNCHANGED due
     \/ a \in Reconnecting /\ g.pane < AgentsPerApp /\ due' = [due EXCEPT ![a] = @ \union {g.pane}]
  /\ UNCHANGED <<repoVars, failures, phase, specs, next, panes, entries, stage, reported, owner>>

\* respawn, on the same pane.
Respawn(a, n) ==
  /\ phase[a] = "running" /\ n \in due[a]
  /\ due' = [due EXCEPT ![a] = @ \ {n}]
  /\ Spawn(a, n, LaunchCwd)
  /\ UNCHANGED <<repoVars, failures, phase, specs, next, panes, entries, stage, reported, owner>>

-----------------------------------------------------------------------------
(* The end of an application *)

Quit(a) ==
  /\ phase[a] = "running"
  /\ phase' = [phase EXCEPT ![a] = "dropping"]
  /\ UNCHANGED <<repoVars, failures, specs, next, entries, crewVars, stage, reported, owner>>

\* SIGKILL: no Drop runs.
Killed(a) ==
  /\ phase[a] \in {"spawning", "running", "dropping"} /\ failures < MaxFailures
  /\ failures' = failures + 1
  /\ phase' = [phase EXCEPT ![a] = "killed"]
  /\ UNCHANGED <<repoVars, specs, next, entries, crewVars, stage, reported, owner>>

\* Dropping an App drops `sessions` before `worktrees`: fields go in order.
DropSession(a, g) ==
  /\ phase[a] = "dropping" /\ g \in agents[a]
  /\ agents' = [agents EXCEPT ![a] = @ \ {g}]
  /\ UNCHANGED <<repoVars, failures, phase, specs, next, panes, due, entries, stage, reported, owner>>

\* A slip: `worktrees` declared before `sessions`.
WorktreesTurnAnyTime(a) == phase[a] = "dropping" /\ entries[a] # <<>>

WorktreesTurn(a) == phase[a] = "dropping" /\ entries[a] # <<>> /\ agents[a] = {}

Complain(a) == reported' = [reported EXCEPT ![a] = @ \union {Head(entries[a])}]

\* Drop of OwnedWorktrees, one git command at a time: remove --force, which
\* is content if the directory is gone ...
RemoveWorktree(a) ==
  /\ WorktreesTurn(a) /\ stage[a] = "remove"
  /\ LET s == Head(entries[a]) IN
     \/ /\ s \in registered /\ registered' = registered \ {s} /\ dirs' = dirs \ {s}
        /\ GitWorks /\ UNCHANGED reported
     \/ /\ GitFails /\ UNCHANGED <<registered, dirs>>
        /\ \/ s \notin dirs /\ UNCHANGED reported
           \/ s \in dirs /\ Complain(a)
  /\ stage' = [stage EXCEPT ![a] = "delete"]
  /\ UNCHANGED <<branches, phase, specs, next, entries, crewVars, owner>>

\* A slip: the first failure ends the clean-up.
NextEntryUnlessFailed(a) ==
  entries' = [entries EXCEPT ![a] = IF Head(@) \in reported'[a] THEN <<>> ELSE Tail(@)]

NextEntry(a) == entries' = [entries EXCEPT ![a] = Tail(@)]

\* ... and branch -D, whatever remove said; git refuses it while the branch is checked out.
DeleteBranch(a) ==
  /\ WorktreesTurn(a) /\ stage[a] = "delete"
  /\ LET s == Head(entries[a]) IN
     \/ /\ s \in branches \ registered /\ branches' = branches \ {s}
        /\ GitWorks /\ UNCHANGED reported
     \/ /\ IF s \in branches \ registered THEN GitFails ELSE GitWorks
        /\ Complain(a) /\ UNCHANGED branches
  /\ NextEntry(a)
  /\ stage' = [stage EXCEPT ![a] = "remove"]
  /\ UNCHANGED <<registered, dirs, phase, specs, next, crewVars, owner>>

Gone(a) ==
  /\ phase[a] = "dropping" /\ entries[a] = <<>> /\ agents[a] = {}
  /\ phase' = [phase EXCEPT ![a] = "gone"]
  /\ UNCHANGED <<repoVars, failures, specs, next, entries, crewVars, stage, reported, owner>>

\* rm -rf of a worktree: git still has it registered.
DeletedByHand(s) ==
  /\ s \in dirs /\ GitFails
  /\ dirs' = dirs \ {s}
  /\ UNCHANGED <<registered, branches, phase, specs, next, entries, crewVars, stage, reported, owner>>

WtNext ==
  \/ \E a \in Apps :
       \/ Open(a) \/ StartAgent(a) \/ AllSpawned(a) \/ PickAgent(a) \/ Quit(a) \/ Killed(a)
       \/ RemoveWorktree(a) \/ DeleteBranch(a) \/ Gone(a)
       \/ \E s \in Suffixes : CreateFor(a, s)
       \/ \E g \in agents[a] : AgentEnds(a, g) \/ DropSession(a, g)
       \/ \E n \in due[a] : Respawn(a, n)
  \/ \E s \in Suffixes : DeletedByHand(s)

WtSpec == WtInit /\ [][WtNext]_wtVars

-----------------------------------------------------------------------------
(* Properties *)

\* No two agents, of one application or of two, share a worktree, even where
\* their suffixes were drawn alike, and none has its worktree taken from under
\* it (create_for; the order of App's fields, app.rs:225).  Those in launch_cwd
\* have none to share.
AgentsAreIsolated ==
  \A a \in Apps : \A g \in agents[a] : g.cwd # LaunchCwd =>
    /\ g.cwd \in registered /\ owner[g.cwd] = a
    /\ \A h \in agents[a] : h.cwd = g.cwd => h = g

\* What `run --worktree` says of itself (cli.rs, worktree.rs): each agent runs in
\* its own worktree.  Picked and restarted agents share launch_cwd: TLC refutes
\* it of this code (README.md, section 3), and no run checks it.
EachAgentItsOwn == \A a \in Apps : \A g, h \in agents[a] : g.cwd = h.cwd => g = h

\* Whatever fails, an application leaves nothing behind in silence: what it
\* made is removed, branch and all, or was complained of
\* (Drop of OwnedWorktrees).
NothingLeftUnsaid ==
  \A a \in Apps : phase[a] = "gone" =>
    \A s \in registered \union branches : owner[s] = a => s \in reported[a]

\* Clean-up takes only what its application made: a suffix that was refused
\* belongs to someone else.
TakesOnlyItsOwn ==
  [][\A s \in (registered \ registered') \union (branches \ branches') :
       \E a \in Apps : phase[a] = "dropping" /\ owner[s] = a /\ entries[a] # <<>> /\ Head(entries[a]) = s]_wtVars
=============================================================================
