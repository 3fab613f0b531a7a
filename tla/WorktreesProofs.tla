-------------------------- MODULE WorktreesProofs ---------------------------
(***************************************************************************)
(* What is proved of Worktrees, for any number of applications, suffixes   *)
(* and failures: agents share no worktree and keep theirs, clean-up takes  *)
(* only what its application made, and leaves nothing behind without a word.*)
(***************************************************************************)
EXTENDS Worktrees, TLAPS

WtPhases == {"opening", "spawning", "running", "dropping", "gone", "killed"}

Crew == [pane : Nat, cwd : Suffixes \union {LaunchCwd}]

\* The types; dirs, failures and stage play no part in the proofs.
WtTypeOK ==
  /\ registered \in SUBSET Suffixes
  /\ branches \in SUBSET Suffixes
  /\ phase \in [Apps -> WtPhases]
  /\ specs \in [Apps -> Int]
  /\ next \in [Apps -> SUBSET Suffixes]
  /\ entries \in [Apps -> Seq(Suffixes)]
  /\ agents \in [Apps -> SUBSET Crew]
  /\ panes \in [Apps -> Nat]
  /\ due \in [Apps -> SUBSET Nat]
  /\ reported \in [Apps -> SUBSET Suffixes]
  /\ owner \in [Suffixes -> Apps \union {None}]

Listed(a, s) == \E i \in 1..Len(entries[a]) : entries[a][i] = s

\* What an application remembers it made, once, and its branch is still there.
EntriesAreOwned ==
  \A a \in Apps : \A i \in 1..Len(entries[a]) :
    /\ entries[a][i] \in branches
    /\ owner[entries[a][i]] = a
    /\ \A j \in 1..Len(entries[a]) : entries[a][i] = entries[a][j] => i = j

\* Its agents in worktrees are each in one it made, alone, and so will be the
\* one about to be started.
AgentsAreOwned ==
  \A a \in Apps :
    /\ \A s \in next[a] : s \in registered /\ owner[s] = a
    /\ \A g \in agents[a] : g.cwd # LaunchCwd =>
         /\ g.cwd \in registered /\ owner[g.cwd] = a /\ g.cwd \notin next[a]
         /\ \A h \in agents[a] : h.cwd = g.cwd => h = g

\* A worktree is made and not used yet only while its spec is being spawned.
NextIsSpawning ==
  \A a \in Apps : next[a] # {} => phase[a] \in {"spawning", "killed"} /\ specs[a] > 0

\* What is left of what it made is what it has still to remove, or complained of.
LeftIsKnown ==
  /\ registered \subseteq branches
  /\ \A a \in Apps : \A s \in branches : owner[s] = a => Listed(a, s) \/ s \in reported[a]

\* Before and after, nothing is left to remove.
NothingToDo == \A a \in Apps : phase[a] \in {"opening", "gone"} => entries[a] = <<>>

WtInv == WtTypeOK /\ EntriesAreOwned /\ AgentsAreOwned /\ NextIsSpawning /\ LeftIsKnown /\ NothingToDo
-----------------------------------------------------------------------------
(* Sequences *)

\* A sequence with one more element.
LEMMA AppendIs ==
  ASSUME NEW S, NEW q \in Seq(S), NEW e \in S
  PROVE  /\ Append(q, e) \in Seq(S)
         /\ Len(Append(q, e)) = Len(q) + 1
         /\ Append(q, e)[Len(q) + 1] = e
         /\ \A i \in 1..Len(q) : Append(q, e)[i] = q[i]
  OBVIOUS

\* A sequence without its head.
LEMMA TailIs ==
  ASSUME NEW S, NEW q \in Seq(S), q # <<>>
  PROVE  /\ Tail(q) \in Seq(S)
         /\ Len(q) \in Nat \ {0}
         /\ Head(q) = q[1] /\ Head(q) \in S
         /\ Len(Tail(q)) = Len(q) - 1
         /\ \A i \in 1..(Len(q) - 1) : Tail(q)[i] = q[i + 1]
  OBVIOUS

-----------------------------------------------------------------------------
(* The steps *)

\* Steps that leave git's books, the entries and the complaints alone.
SameBooks == UNCHANGED <<registered, branches, entries, reported, owner>>

\* Open, AllSpawned, Quit, Killed, Gone: only the phase moves, forward, and not
\* away from `spawning` while a worktree waits to be used.
LEMMA PhaseKeeps ==
  ASSUME WtInv, NEW a \in Apps, NEW p \in WtPhases,
         SameBooks, UNCHANGED <<specs, next, crewVars>>,
         phase' = [phase EXCEPT ![a] = p],
         p = "gone" => phase[a] = "opening" \/ entries[a] = <<>>,
         p # "opening",
         next[a] # {} => p \in {"spawning", "killed"}
  PROVE  WtInv'
  <1> USE DEF WtInv, SameBooks, crewVars
  <1>1. WtTypeOK'
    BY DEF WtTypeOK
  <1>2. EntriesAreOwned' /\ AgentsAreOwned' /\ LeftIsKnown'
    BY DEF EntriesAreOwned, AgentsAreOwned, LeftIsKnown, Listed
  <1>3. NextIsSpawning'
    BY DEF NextIsSpawning, WtTypeOK
  <1>4. NothingToDo'
    BY DEF NothingToDo, WtTypeOK
  <1> QED BY <1>1, <1>2, <1>3, <1>4

\* AgentEnds and DropSession: there are fewer agents.
LEMMA FewerAgentsKeep ==
  ASSUME WtInv, NEW a \in Apps, NEW g \in Crew,
         SameBooks, UNCHANGED <<phase, specs, next, panes>>, due' \in [Apps -> SUBSET Nat],
         agents' = [agents EXCEPT ![a] = @ \ {g}]
  PROVE  WtInv'
  <1> USE DEF WtInv, SameBooks
  <1>0. agents' \in [Apps -> SUBSET Crew] /\ \A b \in Apps : agents'[b] \subseteq agents[b]
    BY DEF WtTypeOK
  <1>1. WtTypeOK'
    BY <1>0 DEF WtTypeOK
  <1>2. EntriesAreOwned' /\ LeftIsKnown' /\ NothingToDo' /\ NextIsSpawning'
    BY DEF EntriesAreOwned, LeftIsKnown, Listed, NothingToDo, NextIsSpawning
  <1>3. AgentsAreOwned'
    BY <1>0 DEF AgentsAreOwned
  <1> QED BY <1>1, <1>2, <1>3

\* PickAgent and Respawn: there is at most one more in launch_cwd.
LEMMA LaunchedKeep ==
  ASSUME WtInv, NEW a \in Apps, NEW n \in Nat,
         SameBooks, UNCHANGED <<phase, specs, next>>,
         panes' \in [Apps -> Nat], due' \in [Apps -> SUBSET Nat],
         Spawn(a, n, LaunchCwd)
  PROVE  WtInv'
  <1> USE DEF WtInv, SameBooks
  <1>0. /\ agents' \in [Apps -> SUBSET Crew]
        /\ \A b \in Apps : \A g \in agents'[b] : g \in agents[b] \/ g.cwd = LaunchCwd
    <2> DEFINE g == Agent(n, LaunchCwd)
    <2>1. g \in Crew /\ g.cwd = LaunchCwd
      BY DEF Agent, Crew
    <2>2. agents' \in {agents, [agents EXCEPT ![a] = @ \union {g}]}
      BY DEF Spawn
    <2> HIDE DEF g
    <2>3. CASE agents' = agents
      BY <2>3 DEF WtTypeOK
    <2>4. CASE agents' = [agents EXCEPT ![a] = @ \union {g}]
      <3>1. agents' \in [Apps -> SUBSET Crew]
        BY <2>1, <2>4 DEF WtTypeOK
      <3>2. \A b \in Apps : agents'[b] \subseteq agents[b] \union {g}
        BY <2>4 DEF WtTypeOK
      <3> QED BY <2>1, <3>1, <3>2
    <2> QED BY <2>2, <2>3, <2>4
  <1>1. WtTypeOK'
    BY <1>0 DEF WtTypeOK
  <1>2. EntriesAreOwned' /\ LeftIsKnown' /\ NothingToDo' /\ NextIsSpawning'
    BY DEF EntriesAreOwned, LeftIsKnown, Listed, NothingToDo, NextIsSpawning
  <1>3. AgentsAreOwned'
    BY <1>0 DEF AgentsAreOwned
  <1> QED BY <1>1, <1>2, <1>3

\* StartAgent: the agent moves into the worktree made for it, or comes to nothing.
LEMMA StartAgentKeeps ==
  ASSUME WtInv, NEW a \in Apps, StartAgent(a)
  PROVE  WtInv'
  <1> USE DEF WtInv, StartAgent, repoVars
  <1>0. PICK s \in next[a] : Spawn(a, panes[a], s)
    OBVIOUS
  <1> DEFINE g == Agent(panes[a], s)
  <1>1. g \in Crew /\ g.cwd = s
    BY DEF Agent, Crew, WtTypeOK
  <1>2. /\ agents' \in [Apps -> SUBSET Crew]
        /\ \A b \in Apps : b # a => agents'[b] = agents[b]
        /\ agents'[a] \subseteq agents[a] \union {g}
    <2>1. agents' \in {agents, [agents EXCEPT ![a] = @ \union {g}]}
      BY <1>0 DEF Spawn
    <2> HIDE DEF g
    <2> QED BY <1>1, <2>1 DEF WtTypeOK
  <1>3. next' \in [Apps -> SUBSET Suffixes] /\ \A b \in Apps : next'[b] \subseteq next[b] /\ next'[a] = {}
    BY DEF WtTypeOK
  <1>4. specs' \in [Apps -> Int] /\ panes' \in [Apps -> Nat]
    BY DEF WtTypeOK
  <1> HIDE DEF g
  <1>5. WtTypeOK'
    BY <1>2, <1>3, <1>4 DEF WtTypeOK
  <1>6. EntriesAreOwned' /\ LeftIsKnown' /\ NothingToDo'
    BY DEF EntriesAreOwned, LeftIsKnown, Listed, NothingToDo
  <1>7. NextIsSpawning'
    BY DEF NextIsSpawning, WtTypeOK
  <1>8. AgentsAreOwned'
    <2>1. s \in registered /\ owner[s] = a /\ \A h \in agents[a] : h.cwd = s => h.cwd = LaunchCwd
      BY DEF AgentsAreOwned
    <2>2. \A b \in Apps : \A r \in next'[b] : r \in registered' /\ owner'[r] = b
      BY <1>3 DEF AgentsAreOwned
    <2>3. ASSUME NEW b \in Apps, NEW h \in agents'[b], h.cwd # LaunchCwd
          PROVE  /\ h.cwd \in registered' /\ owner'[h.cwd] = b /\ h.cwd \notin next'[b]
                 /\ \A i \in agents'[b] : i.cwd = h.cwd => i = h
      <3>1. CASE b # a
        BY <1>2, <1>3, <2>3, <3>1 DEF AgentsAreOwned
      <3>2. CASE b = a
        BY <1>1, <1>2, <1>3, <2>1, <2>3, <3>2 DEF AgentsAreOwned
      <3> QED BY <3>1, <3>2
    <2> QED BY <2>2, <2>3 DEF AgentsAreOwned
  <1> QED BY <1>5, <1>6, <1>7, <1>8

\* create_for that worked: the suffix was free, so nobody else's.
LEMMA WorktreeAdded ==
  ASSUME WtInv, NEW a \in Apps, NEW s \in Suffixes,
         phase[a] = "spawning", specs[a] > 0, next[a] = {},
         AddWorktree(s), owner' = [owner EXCEPT ![s] = a], Remember(a, s),
         UNCHANGED <<phase, specs, crewVars, stage, reported>>
  PROVE  WtInv'
  <1> USE DEF WtInv, AddWorktree, Remember, Free, crewVars
  <1>0. /\ entries[a] \in Seq(Suffixes) /\ entries'[a] = Append(entries[a], s)
        /\ \A b \in Apps : b # a => entries'[b] = entries[b]
        /\ s \notin branches /\ s \notin registered
        /\ owner'[s] = a /\ \A r \in Suffixes : r # s => owner'[r] = owner[r]
    BY DEF WtTypeOK
  <1>1. WtTypeOK'
    BY <1>0, AppendIs DEF WtTypeOK
  <1>2. EntriesAreOwned'
    <2>1. \A b \in Apps : \A i \in 1..Len(entries[b]) : entries[b][i] \in Suffixes /\ entries[b][i] # s
      BY <1>0 DEF EntriesAreOwned, WtTypeOK
    <2> SUFFICES ASSUME NEW b \in Apps, NEW i \in 1..Len(entries'[b])
                 PROVE  /\ entries'[b][i] \in branches'
                        /\ owner'[entries'[b][i]] = b
                        /\ \A j \in 1..Len(entries'[b]) : entries'[b][i] = entries'[b][j] => i = j
      BY DEF EntriesAreOwned
    <2>2. CASE b = a
      <3>1. /\ Len(entries[a]) \in Nat
            /\ Len(entries'[a]) = Len(entries[a]) + 1
            /\ entries'[a][Len(entries[a]) + 1] = s
            /\ \A j \in 1..Len(entries[a]) : entries'[a][j] = entries[a][j]
        BY <1>0, AppendIs
      <3> QED BY <1>0, <2>1, <2>2, <3>1 DEF EntriesAreOwned
    <2>3. CASE b # a
      BY <1>0, <2>1, <2>3 DEF EntriesAreOwned
    <2> QED BY <2>2, <2>3
  <1>3. AgentsAreOwned'
    BY <1>0 DEF AgentsAreOwned, WtTypeOK
  <1>4. NextIsSpawning'
    BY DEF NextIsSpawning, WtTypeOK
  <1>5. LeftIsKnown'
    <2> SUFFICES ASSUME NEW b \in Apps, NEW r \in branches', owner'[r] = b
                 PROVE  Listed(b, r)' \/ r \in reported'[b]
      BY DEF LeftIsKnown
    <2>1. CASE r = s
      <3>1. b = a /\ Len(entries'[a]) \in Nat \ {0} /\ entries'[a][Len(entries'[a])] = s
        BY <1>0, <2>1, AppendIs
      <3> QED BY <2>1, <3>1 DEF Listed
    <2>2. CASE r # s
      <3>1. r \in Suffixes /\ owner[r] = b /\ (Listed(b, r) \/ r \in reported[b])
        BY <1>0, <2>2 DEF LeftIsKnown, WtTypeOK
      <3>2. Listed(b, r) => Listed(b, r)'
        BY <1>0, AppendIs DEF Listed
      <3> QED BY <3>1, <3>2
    <2> QED BY <2>1, <2>2
  <1>6. NothingToDo'
    BY <1>0 DEF NothingToDo, WtTypeOK
  <1> QED BY <1>1, <1>2, <1>3, <1>4, <1>5, <1>6

\* create_for that failed: at most a branch of nobody is left.
LEMMA WorktreeRefused ==
  ASSUME WtInv, NEW a \in Apps, NEW s \in Suffixes,
         phase[a] = "spawning", next[a] = {},
         AddFails(s), phase' = [phase EXCEPT ![a] = "dropping"],
         UNCHANGED <<next, entries, specs, crewVars, stage, reported>>
  PROVE  WtInv'
  <1> USE DEF WtInv, AddFails, crewVars
  <1>0. CASE UNCHANGED <<branches, owner>>
    BY <1>0, PhaseKeeps DEF SameBooks, WtPhases
  <1>1. CASE s \notin branches /\ branches' = branches \union {s} /\ owner' = [owner EXCEPT ![s] = None]
    <2>0. /\ owner'[s] = None /\ \A r \in Suffixes : r # s => owner'[r] = owner[r]
          /\ s \notin registered
      BY <1>1 DEF WtTypeOK, LeftIsKnown
    <2>1. WtTypeOK'
      BY <1>1 DEF WtTypeOK, WtPhases
    <2>2. EntriesAreOwned'
      BY <1>1, <2>0 DEF EntriesAreOwned, WtTypeOK
    <2>3. AgentsAreOwned'
      BY <1>1, <2>0 DEF AgentsAreOwned, WtTypeOK
    <2>4. NextIsSpawning' /\ NothingToDo'
      BY DEF NextIsSpawning, NothingToDo, WtTypeOK
    <2>5. LeftIsKnown'
      <3>1. \A b \in Apps, r \in branches' : owner'[r] = b => r # s /\ r \in branches /\ owner[r] = b
        BY <1>1, <2>0, WtAssumption DEF WtTypeOK
      <3>2. registered' \subseteq branches'
        BY <1>1 DEF LeftIsKnown
      <3> QED BY <3>1, <3>2 DEF LeftIsKnown, Listed
    <2> QED BY <2>1, <2>2, <2>3, <2>4, <2>5
  <1> QED BY <1>0, <1>1

LEMMA ComplaintIsTyped ==
  ASSUME NEW f \in [Apps -> SUBSET Suffixes], NEW a \in Apps, NEW s \in Suffixes
  PROVE  /\ [f EXCEPT ![a] = @ \union {s}] \in [Apps -> SUBSET Suffixes]
         /\ \A b \in Apps : f[b] \subseteq [f EXCEPT ![a] = @ \union {s}][b]
  OBVIOUS

\* git worktree remove: what goes is the entry's, and no agent of its is left.
LEMMA RemoveWorktreeKeeps ==
  ASSUME WtInv, NEW a \in Apps, RemoveWorktree(a)
  PROVE  WtInv'
  <1> DEFINE s == Head(entries[a])
  <1> USE DEF WtInv, RemoveWorktree, WorktreesTurn, crewVars
  <1>0. /\ s \in Suffixes /\ owner[s] = a
        /\ next[a] = {} /\ agents[a] = {}
        /\ registered' \in {registered, registered \ {s}}
        /\ reported' \in {reported, [reported EXCEPT ![a] = @ \union {s}]}
    <2>1. s = entries[a][1] /\ 1 \in 1..Len(entries[a]) /\ s \in Suffixes
      BY TailIs DEF WtTypeOK
    <2> QED BY <2>1 DEF EntriesAreOwned, NextIsSpawning, Complain
  <1> HIDE DEF s, RemoveWorktree
  <1>1. WtTypeOK'
    <2>1. registered' \in SUBSET Suffixes
      BY <1>0 DEF WtTypeOK
    <2>2. reported' \in [Apps -> SUBSET Suffixes]
      <3>1. reported \in [Apps -> SUBSET Suffixes] /\ s \in Suffixes
        BY <1>0 DEF WtTypeOK
      <3>2. [reported EXCEPT ![a] = @ \union {s}] \in [Apps -> SUBSET Suffixes]
        BY ONLY <3>1, a \in Apps, ComplaintIsTyped
      <3> QED BY <3>1, <3>2, <1>0
    <2> QED BY <2>1, <2>2 DEF WtTypeOK, RemoveWorktree
  <1>2. EntriesAreOwned' /\ NextIsSpawning' /\ NothingToDo'
    BY DEF EntriesAreOwned, NextIsSpawning, NothingToDo, RemoveWorktree
  <1>3. AgentsAreOwned'
    BY <1>0 DEF AgentsAreOwned, RemoveWorktree
  <1>4. LeftIsKnown'
    <2>1. \A b \in Apps : reported[b] \subseteq reported'[b]
      <3>1. reported \in [Apps -> SUBSET Suffixes] /\ s \in Suffixes
        BY <1>0 DEF WtTypeOK
      <3>2. \A b \in Apps : reported[b] \subseteq [reported EXCEPT ![a] = @ \union {s}][b]
        BY ONLY <3>1, a \in Apps, ComplaintIsTyped
      <3>3. CASE reported' = [reported EXCEPT ![a] = @ \union {s}]
        BY ONLY <3>2, <3>3
      <3>4. CASE reported' = reported
        BY ONLY <3>4
      <3> QED BY ONLY <3>3, <3>4, <1>0
    <2> QED BY <1>0, <2>1 DEF LeftIsKnown, Listed, RemoveWorktree
  <1> QED BY <1>1, <1>2, <1>3, <1>4

\* git branch -D: the entry goes, with its branch or with a complaint.
LEMMA DeleteBranchKeeps ==
  ASSUME WtInv, NEW a \in Apps, DeleteBranch(a)
  PROVE  WtInv'
  <1> DEFINE s == Head(entries[a])
  <1> USE DEF WtInv, DeleteBranch, WorktreesTurn, crewVars
  <1>0. /\ entries[a] \in Seq(Suffixes) /\ entries[a] # <<>> /\ entries'[a] = Tail(entries[a])
        /\ \A b \in Apps : b # a => entries'[b] = entries[b]
        /\ \/ s \notin registered /\ branches' = branches \ {s} /\ reported' = reported
           \/ branches' = branches /\ reported' = [reported EXCEPT ![a] = @ \union {s}]
    BY DEF WtTypeOK, NextEntry, Complain
  <1>1. /\ s \in Suffixes /\ s = entries[a][1] /\ Len(entries[a]) \in Nat \ {0}
        /\ entries'[a] \in Seq(Suffixes) /\ Len(entries'[a]) = Len(entries[a]) - 1
        /\ \A i \in 1..(Len(entries[a]) - 1) : entries'[a][i] = entries[a][i + 1]
    BY <1>0, TailIs
  <1>2. owner[s] = a
    BY <1>1 DEF EntriesAreOwned
  <1> HIDE DEF s
  <1>3. WtTypeOK'
    <2>1. branches' \in SUBSET Suffixes
      BY <1>0 DEF WtTypeOK
    <2>3. reported' \in [Apps -> SUBSET Suffixes]
      <3>1. reported \in [Apps -> SUBSET Suffixes] /\ s \in Suffixes
        BY <1>1 DEF WtTypeOK
      <3>2. [reported EXCEPT ![a] = @ \union {s}] \in [Apps -> SUBSET Suffixes]
        BY ONLY <3>1, a \in Apps, ComplaintIsTyped
      <3> QED BY <3>1, <3>2, <1>0
    <2>2. entries' \in [Apps -> Seq(Suffixes)]
      BY <1>0, <1>1 DEF WtTypeOK, NextEntry
    <2> QED BY <2>1, <2>2, <2>3 DEF WtTypeOK
  <1>4. EntriesAreOwned'
    <2> SUFFICES ASSUME NEW b \in Apps, NEW i \in 1..Len(entries'[b])
                 PROVE  /\ entries'[b][i] \in branches'
                        /\ owner'[entries'[b][i]] = b
                        /\ \A j \in 1..Len(entries'[b]) : entries'[b][i] = entries'[b][j] => i = j
      BY DEF EntriesAreOwned
    <2>1. CASE b = a
      <3>1. i \in 1..(Len(entries[a]) - 1) /\ i + 1 \in 1..Len(entries[a]) /\ 1 \in 1..Len(entries[a])
        BY <1>1, <2>1
      <3>2. entries'[a][i] \in branches /\ owner[entries'[a][i]] = a /\ entries'[a][i] # s
        BY <1>1, <3>1 DEF EntriesAreOwned
      <3>3. ASSUME NEW j \in 1..(Len(entries[a]) - 1), entries'[a][i] = entries'[a][j]
            PROVE  i = j
        <4>1. j + 1 \in 1..Len(entries[a]) /\ entries[a][i + 1] = entries[a][j + 1]
          BY <1>1, <3>1, <3>3
        <4>2. i + 1 = j + 1
          BY <3>1, <4>1 DEF EntriesAreOwned
        <4> QED BY <4>2
      <3> QED BY <1>0, <1>1, <2>1, <3>2, <3>3
    <2>2. CASE b # a
      <3>1. /\ entries[b][i] \in branches /\ owner[entries[b][i]] = b
            /\ \A j \in 1..Len(entries[b]) : entries[b][i] = entries[b][j] => i = j
        BY <1>0, <2>2 DEF EntriesAreOwned
      <3> QED BY <1>0, <1>2, <2>2, <3>1
    <2> QED BY <2>1, <2>2
  <1>5. AgentsAreOwned' /\ NextIsSpawning'
    BY DEF AgentsAreOwned, NextIsSpawning
  <1>6. LeftIsKnown'
    <2>1. registered' \subseteq branches'
      BY <1>0 DEF LeftIsKnown
    <2> SUFFICES ASSUME NEW b \in Apps, NEW r \in branches', owner'[r] = b
                 PROVE  Listed(b, r)' \/ r \in reported'[b]
      BY <2>1 DEF LeftIsKnown
    <2>2. r \in branches /\ owner[r] = b /\ (Listed(b, r) \/ r \in reported[b])
      BY <1>0 DEF LeftIsKnown
    <2>3. r \in reported[b] => r \in reported'[b]
      BY <1>0 DEF WtTypeOK
    <2>4. CASE r = s
      <3>1. branches' # branches \ {s}
        BY <2>4
      <3> QED BY <1>0, <1>2, <2>2, <2>4, <3>1 DEF WtTypeOK
    <2>5. CASE r # s /\ Listed(b, r)
      <3>1. CASE b # a
        BY <1>0, <2>5, <3>1 DEF Listed
      <3>2. CASE b = a
        <4>1. PICK i \in 1..Len(entries[a]) : entries[a][i] = r
          BY <2>5, <3>2 DEF Listed
        <4>2. i # 1 /\ i - 1 \in 1..(Len(entries[a]) - 1)
          BY <1>1, <2>5, <4>1
        <4>3. entries'[a][i - 1] = r /\ i - 1 \in 1..Len(entries'[a])
          BY <1>1, <4>1, <4>2
        <4> QED BY <3>2, <4>3 DEF Listed
      <3> QED BY <3>1, <3>2
    <2> QED BY <2>2, <2>3, <2>4, <2>5
  <1>7. NothingToDo'
    BY <1>0 DEF NothingToDo, WtTypeOK
  <1> QED BY <1>3, <1>4, <1>5, <1>6, <1>7

-----------------------------------------------------------------------------
(* The theorems *)

LEMMA WtInitially == WtInit => WtInv
  <1> SUFFICES ASSUME WtInit PROVE WtInv
    OBVIOUS
  <1> USE DEF WtInit
  <1>1. \A a \in Apps : entries[a] = <<>> /\ <<>> \in Seq(Suffixes) /\ Len(entries[a]) = 0
    OBVIOUS
  <1>2. WtTypeOK
    BY <1>1, WtAssumption DEF WtTypeOK, WtPhases
  <1>3. EntriesAreOwned
    BY <1>1 DEF EntriesAreOwned
  <1>4. AgentsAreOwned /\ NextIsSpawning
    BY DEF AgentsAreOwned, NextIsSpawning
  <1>5. LeftIsKnown /\ NothingToDo
    BY <1>1 DEF LeftIsKnown, NothingToDo
  <1> QED BY <1>2, <1>3, <1>4, <1>5 DEF WtInv

LEMMA WtStep == WtInv /\ [WtNext]_wtVars => WtInv'
  <1> SUFFICES ASSUME WtInv, [WtNext]_wtVars PROVE WtInv'
    OBVIOUS
  <1>1. CASE UNCHANGED wtVars
    BY <1>1 DEF WtInv, wtVars, repoVars, crewVars, WtTypeOK, EntriesAreOwned, AgentsAreOwned, NextIsSpawning,
                LeftIsKnown, Listed, NothingToDo
  <1>2. CASE \E s \in Suffixes : DeletedByHand(s)
    BY <1>2 DEF DeletedByHand, WtInv, crewVars, WtTypeOK, EntriesAreOwned, AgentsAreOwned, NextIsSpawning,
                LeftIsKnown, Listed, NothingToDo
  <1>3. ASSUME NEW a \in Apps, Open(a) PROVE WtInv'
    <2>1. next[a] = {} /\ entries[a] = <<>>
      BY <1>3 DEF Open, WtInv, NextIsSpawning, NothingToDo
    <2> QED BY <1>3, <2>1, PhaseKeeps DEF Open, WtPhases, SameBooks, repoVars
  <1>4. ASSUME NEW a \in Apps, AllSpawned(a) PROVE WtInv'
    <2>1. next[a] = {}
      BY <1>4 DEF AllSpawned, WtInv, NextIsSpawning
    <2> QED BY <1>4, <2>1, PhaseKeeps DEF AllSpawned, WtPhases, SameBooks, repoVars
  <1>5. ASSUME NEW a \in Apps, Quit(a) PROVE WtInv'
    <2>1. next[a] = {}
      BY <1>5 DEF Quit, WtInv, NextIsSpawning
    <2> QED BY <1>5, <2>1, PhaseKeeps DEF Quit, WtPhases, SameBooks, repoVars
  <1>6. ASSUME NEW a \in Apps, Killed(a) PROVE WtInv'
    BY <1>6, PhaseKeeps DEF Killed, WtPhases, SameBooks, repoVars
  <1>7. ASSUME NEW a \in Apps, Gone(a) PROVE WtInv'
    <2>1. next[a] = {}
      BY <1>7 DEF Gone, WtInv, NextIsSpawning
    <2> QED BY <1>7, <2>1, PhaseKeeps DEF Gone, WtPhases, SameBooks, repoVars
  <1>8. ASSUME NEW a \in Apps, NEW g \in agents[a], AgentEnds(a, g) \/ DropSession(a, g) PROVE WtInv'
    <2>1. g \in Crew /\ due \in [Apps -> SUBSET Nat]
      BY DEF WtInv, WtTypeOK
    <2>2. g.pane \in Nat
      BY <2>1 DEF Crew
    <2>3. due' \in [Apps -> SUBSET Nat]
      BY <1>8, <2>1, <2>2 DEF AgentEnds, DropSession
    <2> QED BY <1>8, <2>1, <2>3, FewerAgentsKeep DEF AgentEnds, DropSession, SameBooks, repoVars
  <1>10. ASSUME NEW a \in Apps, PickAgent(a) PROVE WtInv'
    <2>1. panes[a] \in Nat /\ panes' \in [Apps -> Nat] /\ due' \in [Apps -> SUBSET Nat]
      BY <1>10 DEF PickAgent, WtInv, WtTypeOK
    <2> QED BY <1>10, <2>1, LaunchedKeep DEF PickAgent, SameBooks, repoVars
  <1>11. ASSUME NEW a \in Apps, NEW n \in due[a], Respawn(a, n) PROVE WtInv'
    <2>1. n \in Nat /\ panes' \in [Apps -> Nat] /\ due' \in [Apps -> SUBSET Nat]
      BY <1>11 DEF Respawn, WtInv, WtTypeOK
    <2> QED BY <1>11, <2>1, LaunchedKeep DEF Respawn, SameBooks, repoVars
  <1>9. ASSUME NEW a \in Apps, NEW s \in Suffixes, CreateFor(a, s) PROVE WtInv'
    BY <1>9, WorktreeAdded, WorktreeRefused DEF CreateFor
  <1> QED BY <1>1, <1>2, <1>3, <1>4, <1>5, <1>6, <1>7, <1>8, <1>9, <1>10, <1>11,
             StartAgentKeeps, RemoveWorktreeKeeps, DeleteBranchKeeps DEF WtNext

LEMMA WtAlways == WtSpec => []WtInv
  <1> QED BY WtInitially, WtStep, PTL DEF WtSpec

\* No two agents, of one application or of several, share a worktree, and none
\* has its worktree removed under it, however short the ids and whatever git
\* refuses (create_for; Drop of App before Drop of OwnedWorktrees).  Agents that
\* are picked or started again are in launch_cwd, of which nothing is said.
THEOREM WorktreesIsolate == WtSpec => []AgentsAreIsolated
  <1>1. WtInv => AgentsAreIsolated
    BY DEF WtInv, AgentsAreOwned, AgentsAreIsolated
  <1> QED BY <1>1, WtAlways, PTL

\* When an application has gone, each worktree or branch it made is gone too, or
\* it complained of it, for any number of failures (Drop of OwnedWorktrees).
THEOREM CleanUpIsNotSilent == WtSpec => []NothingLeftUnsaid
  <1>1. WtInv => NothingLeftUnsaid
    <2> SUFFICES ASSUME WtInv, NEW a \in Apps, phase[a] = "gone",
                        NEW s \in registered \union branches, owner[s] = a
                 PROVE  s \in reported[a]
      BY DEF NothingLeftUnsaid
    <2>1. s \in branches /\ Len(entries[a]) = 0
      BY DEF WtInv, LeftIsKnown, NothingToDo
    <2> QED BY <2>1 DEF WtInv, LeftIsKnown, Listed
  <1> QED BY <1>1, WtAlways, PTL

\* Clean-up removes a worktree or a branch only if the application cleaning up
\* made it, and it is the entry whose turn it is (Drop of OwnedWorktrees).
THEOREM CleanUpTakesItsOwn == WtSpec => TakesOnlyItsOwn
  <1> DEFINE Own(s) == \E a \in Apps : phase[a] = "dropping" /\ owner[s] = a
                                       /\ entries[a] # <<>> /\ Head(entries[a]) = s
  <1> DEFINE Taken == (registered \ registered') \union (branches \ branches')
  <1>1. WtInv /\ [WtNext]_wtVars => \A s \in Taken : Own(s)
    <2> SUFFICES ASSUME WtInv, [WtNext]_wtVars, NEW s \in Taken PROVE Own(s)
      OBVIOUS
    <2>1. \/ \E a \in Apps : RemoveWorktree(a) \/ DeleteBranch(a)
          \/ registered \subseteq registered' /\ branches \subseteq branches'
      BY DEF WtNext, wtVars, repoVars, Open, StartAgent, AllSpawned, PickAgent, Respawn, Quit, Killed, Gone, CreateFor,
             AddWorktree, AddFails, AgentEnds, DropSession, DeletedByHand
    <2>2. PICK a \in Apps : RemoveWorktree(a) \/ DeleteBranch(a)
      BY <2>1
    <2>3. /\ phase[a] = "dropping" /\ entries[a] # <<>>
          /\ registered \ registered' \subseteq {Head(entries[a])}
          /\ branches \ branches' \subseteq {Head(entries[a])}
      BY <2>2 DEF RemoveWorktree, DeleteBranch, WorktreesTurn
    <2>4. s = Head(entries[a])
      BY <2>3
    <2>5. s = entries[a][1] /\ 1 \in 1..Len(entries[a])
      BY <2>3, <2>4, TailIs DEF WtInv, WtTypeOK
    <2>6. owner[s] = a
      BY <2>5 DEF WtInv, EntriesAreOwned
    <2> QED BY <2>3, <2>4, <2>6
  <1>2. WtInv /\ [WtNext]_wtVars => [\A s \in Taken : Own(s)]_wtVars
    BY <1>1
  <1> QED BY <1>2, WtAlways, PTL DEF WtSpec, TakesOnlyItsOwn
=============================================================================
