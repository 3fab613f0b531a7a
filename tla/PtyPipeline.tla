----------------------------- MODULE PtyPipeline -----------------------------
(***************************************************************************)
(* One agent process and the two threads that carry its output to the      *)
(* user interface: src/src/pty_session.rs and src/src/bus.rs.              *)
(*                                                                         *)
(*   child --slave tty--> [kernel buffer] --pump_reader thread-->          *)
(*         mpsc channel --forward_session thread--> bus (unbounded, N:1)   *)
(*                                                                         *)
(* Output is counted, not stored: the kernel buffer holds the chunks       *)
(* read+1..wrote of a session and the mpsc channel the chunks              *)
(* sent+1..read, so both are FIFO as the code's are.  The bus is explicit, *)
(* because what matters there is how the sessions interleave.              *)
(***************************************************************************)
EXTENDS Naturals, Sequences

CONSTANTS
  Sessions,          (* identities of successful PtySession::spawn calls     *)
  PaneIds,           (* stable pane ids a forwarder may be started for       *)
  MaxChunks,         (* bound on what one child writes                       *)
  AllowDescendants,  (* may a child leave a process behind on its tty?       *)
  None               (* Option::None: no exit code, no pane yet              *)

ASSUME PipelineAssumption ==
  /\ MaxChunks \in Nat
  /\ None \notin PaneIds
  /\ AllowDescendants \in BOOLEAN

VARIABLES
  proc,       (* the child: absent, running, exited (by itself), killed      *)
  code,       (* what try_wait reports once the child is gone                *)
  tty,        (* who holds the slave side open                               *)
  handle,     (* the PtySession value: none, held, dropped                   *)
  wrote,      (* chunks written by the child                                 *)
  read,       (* chunks pump_reader has put on the mpsc channel              *)
  sent,       (* chunks forward_session has put on the bus                   *)
  reader,     (* pump_reader thread: none, reading, done                     *)
  forwarder,  (* forward_session thread: none, pumping, done                 *)
  pane,       (* the pane_id the forwarder was started with                  *)
  bus,        (* pending AgentUpdates, oldest first                          *)
  rxOpen      (* the UI still holds bus_rx                                   *)

childVars == <<proc, code, tty, wrote>>
threadVars == <<read, sent, reader, forwarder>>
pipeVars == <<proc, code, tty, handle, wrote, read, sent, reader, forwarder, pane, bus, rxOpen>>

\* What try_wait may report: success, failure; a signalled child counts as a failure.
ExitCodes == {0, 1}
Failure == 1
Holders == {"child", "descendant"}

\* src is not in the code's AgentUpdate: it records, for the properties only,
\* which session's forwarder sent the update.
Update == [kind : {"Output", "Exit"}, pane : PaneIds, src : Sessions]

Gone(s) == proc[s] \in {"exited", "killed"}

PipeInit ==
  /\ proc = [s \in Sessions |-> "absent"]
  /\ code = [s \in Sessions |-> None]
  /\ tty = [s \in Sessions |-> {}]
  /\ handle = [s \in Sessions |-> "none"]
  /\ wrote = [s \in Sessions |-> 0]
  /\ read = [s \in Sessions |-> 0]
  /\ sent = [s \in Sessions |-> 0]
  /\ reader = [s \in Sessions |-> "none"]
  /\ forwarder = [s \in Sessions |-> "none"]
  /\ pane = [s \in Sessions |-> None]
  /\ bus = <<>>
  /\ rxOpen = TRUE

-----------------------------------------------------------------------------
(* The child and what it leaves on its tty *)

ChildWrites(s) ==
  /\ "child" \in tty[s]
  /\ wrote[s] < MaxChunks
  /\ wrote' = [wrote EXCEPT ![s] = @ + 1]
  /\ UNCHANGED <<proc, code, tty, handle, pane, bus, rxOpen, threadVars>>

ChildForks(s) ==
  /\ AllowDescendants
  /\ "child" \in tty[s]
  /\ tty' = [tty EXCEPT ![s] = @ \cup {"descendant"}]
  /\ UNCHANGED <<proc, code, handle, wrote, pane, bus, rxOpen, threadVars>>

\* A child may close its standard streams and keep running.
ChildClosesTty(s) ==
  /\ proc[s] = "running"
  /\ "child" \in tty[s]
  /\ tty' = [tty EXCEPT ![s] = @ \ {"child"}]
  /\ UNCHANGED <<proc, code, handle, wrote, pane, bus, rxOpen, threadVars>>

ChildExits(s) ==
  /\ proc[s] = "running"
  /\ proc' = [proc EXCEPT ![s] = "exited"]
  /\ \E c \in ExitCodes : code' = [code EXCEPT ![s] = c]
  /\ tty' = [tty EXCEPT ![s] = @ \ {"child"}]
  /\ UNCHANGED <<handle, wrote, pane, bus, rxOpen, threadVars>>

DescendantExits(s) ==
  /\ "descendant" \in tty[s]
  /\ tty' = [tty EXCEPT ![s] = @ \ {"descendant"}]
  /\ UNCHANGED <<proc, code, handle, wrote, pane, bus, rxOpen, threadVars>>

-----------------------------------------------------------------------------
(* pump_reader *)

ReaderPump(s) ==
  /\ reader[s] = "reading"
  /\ read[s] < wrote[s]
  /\ IF forwarder[s] = "done"      \* the receiver was dropped
     THEN /\ reader' = [reader EXCEPT ![s] = "done"]
          /\ UNCHANGED read
     ELSE /\ read' = [read EXCEPT ![s] = @ + 1]
          /\ UNCHANGED reader
  /\ UNCHANGED <<childVars, handle, sent, forwarder, pane, bus, rxOpen>>

\* A slip: giving up when the child is gone, with output still in the kernel buffer.
ReaderEofWithoutDraining(s) ==
  /\ reader[s] = "reading"
  /\ Gone(s)
  /\ reader' = [reader EXCEPT ![s] = "done"]
  /\ UNCHANGED <<childVars, handle, read, sent, forwarder, pane, bus, rxOpen>>

\* The master reports end of file once nobody holds the slave and it is drained.
ReaderEof(s) ==
  /\ reader[s] = "reading"
  /\ tty[s] = {}
  /\ read[s] = wrote[s]
  /\ reader' = [reader EXCEPT ![s] = "done"]
  /\ UNCHANGED <<childVars, handle, read, sent, forwarder, pane, bus, rxOpen>>

(* forward_session *)

Forward(s) ==
  /\ forwarder[s] = "pumping"
  /\ sent[s] < read[s]
  /\ IF rxOpen
     THEN /\ bus' = Append(bus, [kind |-> "Output", pane |-> pane[s], src |-> s])
          /\ sent' = [sent EXCEPT ![s] = @ + 1]
          /\ UNCHANGED forwarder
     ELSE /\ forwarder' = [forwarder EXCEPT ![s] = "done"]
          /\ UNCHANGED <<bus, sent>>
  /\ UNCHANGED <<childVars, handle, read, reader, pane, rxOpen>>

\* The mpsc channel is disconnected and empty: one Exit{code: None}, then the end.
ForwardExit(s) ==
  /\ forwarder[s] = "pumping"
  /\ reader[s] = "done"
  /\ sent[s] = read[s]
  /\ forwarder' = [forwarder EXCEPT ![s] = "done"]
  /\ bus' = IF rxOpen THEN Append(bus, [kind |-> "Exit", pane |-> pane[s], src |-> s]) ELSE bus
  /\ UNCHANGED <<childVars, handle, read, sent, reader, pane, rxOpen>>

-----------------------------------------------------------------------------
(* What the owner of the session does.  These leave the bus to the caller. *)

\* PtySession::spawn succeeded, and a forwarder was started for pane p.
SpawnSession(s, p) ==
  /\ proc[s] = "absent"
  /\ proc' = [proc EXCEPT ![s] = "running"]
  /\ tty' = [tty EXCEPT ![s] = {"child"}]
  /\ handle' = [handle EXCEPT ![s] = "held"]
  /\ reader' = [reader EXCEPT ![s] = "reading"]
  /\ forwarder' = [forwarder EXCEPT ![s] = "pumping"]
  /\ pane' = [pane EXCEPT ![s] = p]
  /\ UNCHANGED <<code, wrote, read, sent>>

\* A slip: a Drop that leaves the child alone.
DropWithoutKill(S) ==
  /\ handle' = [s \in Sessions |-> IF s \in S THEN "dropped" ELSE handle[s]]
  /\ UNCHANGED <<wrote, threadVars, pane, proc, code, tty>>

\* Drop kills the child if it is alive and then joins the reader.  S is the set of
\* sessions dropped in one step of the owner; the join is JoinsDone below.
DropSessions(S) ==
  LET alive == {s \in S : proc[s] = "running"} IN
  /\ handle' = [s \in Sessions |-> IF s \in S THEN "dropped" ELSE handle[s]]
  /\ proc' = [s \in Sessions |-> IF s \in alive THEN "killed" ELSE proc[s]]
  /\ code' = [s \in Sessions |-> IF s \in alive THEN Failure ELSE code[s]]
  /\ tty' = [s \in Sessions |-> IF s \in alive THEN tty[s] \ {"child"} ELSE tty[s]]
  /\ UNCHANGED <<wrote, threadVars, pane>>

\* The owner's thread may go on: every reader it has to join has ended.
JoinsDone == \A s \in Sessions : handle[s] = "dropped" => reader[s] = "done"

ChildNext ==
  \E s \in Sessions :
    \/ ChildWrites(s)
    \/ ChildForks(s)
    \/ ChildClosesTty(s)
    \/ ChildExits(s)
    \/ DescendantExits(s)

ThreadNext ==
  \E s \in Sessions :
    \/ ReaderPump(s)
    \/ ReaderEof(s)
    \/ Forward(s)
    \/ ForwardExit(s)

ThreadFairness ==
  \A s \in Sessions :
    /\ WF_pipeVars(ReaderPump(s) \/ ReaderEof(s))
    /\ WF_pipeVars(Forward(s) \/ ForwardExit(s))

-----------------------------------------------------------------------------
(***************************************************************************)
(* The pipeline on its own, under an owner that spawns, drops and consumes *)
(* in any order.  AgentApp has the real owner.                             *)
(***************************************************************************)
OwnerSpawns ==
  /\ JoinsDone
  /\ \E s \in Sessions, p \in PaneIds : SpawnSession(s, p)
  /\ UNCHANGED <<bus, rxOpen>>

\* Of its own accord, or because of the update it consumed.
OwnerDrops ==
  /\ JoinsDone
  /\ \E s \in Sessions : handle[s] = "held" /\ DropSessions({s})
  /\ \/ UNCHANGED bus
     \/ bus # <<>> /\ bus' = Tail(bus)
  /\ UNCHANGED rxOpen

OwnerConsumes ==
  /\ JoinsDone
  /\ bus # <<>>
  /\ bus' = Tail(bus)
  /\ UNCHANGED <<childVars, handle, threadVars, pane, rxOpen>>

OwnerLeaves ==
  /\ JoinsDone
  /\ rxOpen
  /\ rxOpen' = FALSE
  /\ UNCHANGED <<childVars, handle, threadVars, pane, bus>>

OwnerNext == OwnerSpawns \/ OwnerDrops \/ OwnerConsumes \/ OwnerLeaves

PipeNext == ChildNext \/ ThreadNext \/ OwnerNext

PipeSpec == PipeInit /\ [][PipeNext]_pipeVars /\ ThreadFairness

-----------------------------------------------------------------------------
(* Properties *)

PipeTypeOK ==
  /\ proc \in [Sessions -> {"absent", "running", "exited", "killed"}]
  /\ code \in [Sessions -> ExitCodes \cup {None}]
  /\ tty \in [Sessions -> SUBSET Holders]
  /\ handle \in [Sessions -> {"none", "held", "dropped"}]
  /\ wrote \in [Sessions -> 0..MaxChunks]
  /\ read \in [Sessions -> 0..MaxChunks]
  /\ sent \in [Sessions -> 0..MaxChunks]
  /\ reader \in [Sessions -> {"none", "reading", "done"}]
  /\ forwarder \in [Sessions -> {"none", "pumping", "done"}]
  /\ pane \in [Sessions -> PaneIds \cup {None}]
  /\ bus \in Seq(Update)
  /\ rxOpen \in BOOLEAN

\* The UI is told everything a child wrote, and then, once, that it ended: when a
\* forwarder finishes while the UI listens nothing is left behind in the kernel
\* buffer or the channel, and on the bus nothing of a session follows its Exit.
StreamWholeThenExit ==
  /\ \A s \in Sessions : (forwarder[s] = "done" /\ rxOpen) => sent[s] = wrote[s]
  /\ \A j, k \in DOMAIN bus :
       (bus[j].kind = "Exit" /\ bus[k].src = bus[j].src) => k <= j

\* Dropping a session returns, unless a process the child left behind still holds
\* the tty: nothing else can keep the owner's thread in the join.
DropReturnsUnlessHeld ==
  \A s \in Sessions :
    (handle[s] = "dropped") ~> (reader[s] = "done" \/ "descendant" \in tty[s])

=============================================================================
