---------------------------- MODULE DaemonServer ----------------------------
(***************************************************************************)
(* The built-in daemon (src/src/daemon_server.rs) and the clients attached *)
(* to it (run_attach in src/src/cli.rs).                                   *)
(*                                                                         *)
(*   agent thread --Output, Exit------------------->\                      *)
(*   acceptor ------Connected----------------------> event queue           *)
(*   client thread -Command, Disconnected---------->/    |                 *)
(*                                                       v                 *)
(*                    sockets <--blocking writes--- the event loop         *)
(*                                                                         *)
(* One thread handles the events and writes to every client in turn.  An   *)
(* agent with its PTY and reader is what PtyPipeline shows it to be: some  *)
(* chunks of output, then one Exit.  Chunks are numbered for the           *)
(* properties' sake.  A session's id is its position in the vector (one    *)
(* more than in the code); its PtySession is held exactly while its state  *)
(* is Running, so the slot is not a variable of its own.  The commands     *)
(* Write and Resize only pass data to an agent and are left out.           *)
(***************************************************************************)
EXTENDS Naturals, Sequences, FiniteSets

CONSTANTS
  Clients,        (* connections, in any order                               *)
  Askers,         (* clients that send commands of their own                 *)
  Silent,         (* clients that may stop reading from their socket         *)
  InitialAgents,  (* how many agents are named on the command line           *)
  MaxSessions,    (* bound on the sessions ever created                      *)
  MaxChunks,      (* bound on the chunks of output of one agent              *)
  MaxCommands,    (* bound on the commands all clients send                  *)
  AllowDescendants, (* may an agent leave a process behind on its tty?       *)
  SocketBuffer    (* messages a socket holds before a write to it blocks     *)

ASSUME DaemonAssumption ==
  /\ Askers \subseteq Clients /\ Silent \subseteq Clients
  /\ {InitialAgents, MaxSessions, MaxChunks, MaxCommands} \subseteq Nat
  /\ InitialAgents <= MaxSessions
  /\ AllowDescendants \in BOOLEAN
  /\ SocketBuffer \in Nat \ {0}

VARIABLES
  sessions,   (* the state of each AgentEntry                                *)
  made,       (* chunks each agent's thread has put on the queue             *)
  pump,       (* the agents' threads: pumping, done                          *)
  lingers,    (* agents that have left a process behind on their tty         *)
  killed,     (* sessions whose process was told to die                      *)
  queue,      (* event_rx, oldest first                                      *)
  clients,    (* the clients whose writer is registered                      *)
  pc,         (* the event loop: check, recv, send, drop, stopped            *)
  dropped,    (* at the end, how many sessions the loop's thread has reached *)
  msg,        (* the message being written                                   *)
  to,         (* the clients it is still to be written to                    *)
  shutdown,   (* the flag SIGTERM sets                                       *)
  conn,       (* a client's end of its socket: none, open, closed            *)
  thread,     (* a client's reader thread: none, reading, done               *)
  stream,     (* everything written to a client's socket                     *)
  taken,      (* how much of it the client has read                          *)
  skipped,    (* how much of that went to the reader of the handshake        *)
  asked       (* commands sent so far                                        *)

agentVars == <<made, pump, lingers>>
loopVars == <<sessions, killed, clients, pc, dropped, msg, to>>
clientVars == <<conn, taken, skipped>>
vars == <<sessions, made, pump, lingers, killed, queue, clients, pc, dropped, msg, to,
          shutdown, conn, thread, stream, taken, skipped, asked>>

Ids == 1..MaxSessions
AgentState == {"Running", "Done", "Failed"}
Known == DOMAIN sessions
Held(i) == sessions[i] = "Running"

\* Hello and List ask for the same thing and are both a query here.
Commands == [kind : {"query", "create"}] \cup [kind : {"kill"}, session : Ids]
NoMsg == [kind |-> "none"]

\* What the queue carries, from the agents' threads, the acceptor and the clients' threads.
Events ==
  [kind : {"Output"}, session : Ids, n : 1..MaxChunks] \cup [kind : {"Exit"}, session : Ids]
    \cup [kind : {"Connected", "Disconnected"}, client : Clients]
    \cup [kind : {"Command"}, client : Clients, cmd : Commands]

Init ==
  /\ sessions \in [1..InitialAgents -> {"Running", "Failed"}]
  /\ made = [i \in Ids |-> 0]
  /\ pump = [i \in Ids |-> IF i \in Known /\ Held(i) THEN "pumping" ELSE "done"]
  /\ lingers = {}
  /\ killed = {}
  /\ queue = <<>>
  /\ clients = {}
  /\ pc = "check"
  /\ dropped = 0
  /\ msg = NoMsg
  /\ to = {}
  /\ shutdown = FALSE
  /\ conn = [c \in Clients |-> "none"]
  /\ thread = [c \in Clients |-> "none"]
  /\ stream = [c \in Clients |-> <<>>]
  /\ taken = [c \in Clients |-> 0]
  /\ skipped = [c \in Clients |-> 0]
  /\ asked = 0

-----------------------------------------------------------------------------
(* The threads that feed the queue *)

\* A chunk may still be under way when the agent has been killed.
AgentOutput(i) ==
  /\ pump[i] = "pumping"
  /\ made[i] < MaxChunks
  /\ made' = [made EXCEPT ![i] = @ + 1]
  /\ queue' = Append(queue, [kind |-> "Output", session |-> i, n |-> made[i] + 1])
  /\ UNCHANGED <<pump, lingers, loopVars, clientVars, shutdown, thread, stream, asked>>

\* A process the agent started keeps the tty open, whatever becomes of the agent.
LeaveDescendant(i) ==
  /\ AllowDescendants
  /\ pump[i] = "pumping"
  /\ i \notin killed
  /\ lingers' = lingers \cup {i}
  /\ UNCHANGED <<made, pump, loopVars, queue, clientVars, shutdown, thread, stream, asked>>

DescendantEnds(i) ==
  /\ i \in lingers
  /\ lingers' = lingers \ {i}
  /\ UNCHANGED <<made, pump, loopVars, queue, clientVars, shutdown, thread, stream, asked>>

\* The reader sees the end of the stream when nobody holds the tty; its channel
\* closes, and the agent's thread reports an exit.
AgentEnds(i) ==
  /\ pump[i] = "pumping"
  /\ i \notin lingers
  /\ pump' = [pump EXCEPT ![i] = "done"]
  /\ queue' = Append(queue, [kind |-> "Exit", session |-> i])
  /\ UNCHANGED <<made, lingers, loopVars, clientVars, shutdown, thread, stream, asked>>

\* A slip: the reader thread is started before the loop is told of the client.
AcceptThreadFirst(c) ==
  /\ conn[c] # "none"
  /\ thread[c] = "none"
  /\ IF conn[c] = "closed"
     THEN /\ queue' = queue \o <<[kind |-> "Disconnected", client |-> c],
                                 [kind |-> "Connected", client |-> c]>>
          /\ thread' = [thread EXCEPT ![c] = "done"]
     ELSE /\ queue' = Append(queue, [kind |-> "Connected", client |-> c])
          /\ thread' = [thread EXCEPT ![c] = "reading"]
  /\ UNCHANGED <<agentVars, loopVars, clientVars, shutdown, stream, asked>>

\* The acceptor announces the client and then starts its reader thread.
Accept(c) ==
  /\ conn[c] # "none"
  /\ thread[c] = "none"
  /\ queue' = Append(queue, [kind |-> "Connected", client |-> c])
  /\ thread' = [thread EXCEPT ![c] = "reading"]
  /\ UNCHANGED <<agentVars, loopVars, clientVars, shutdown, stream, asked>>

\* Creations that have been asked for and not yet been handled.
Ordered == {k \in DOMAIN queue : queue[k].kind = "Command" /\ queue[k].cmd.kind = "create"}

\* A line of a client reaches its thread, which passes the command on.
ClientCommand(c) ==
  /\ c \in Askers
  /\ thread[c] = "reading"
  /\ conn[c] = "open"
  /\ asked < MaxCommands
  /\ asked' = asked + 1
  /\ \E cmd \in Commands :
       /\ cmd.kind = "create" => Len(sessions) + Cardinality(Ordered) < MaxSessions
       /\ queue' = Append(queue, [kind |-> "Command", client |-> c, cmd |-> cmd])
  /\ UNCHANGED <<agentVars, loopVars, clientVars, shutdown, thread, stream>>

ThreadEof(c) ==
  /\ thread[c] = "reading"
  /\ conn[c] = "closed"
  /\ thread' = [thread EXCEPT ![c] = "done"]
  /\ queue' = Append(queue, [kind |-> "Disconnected", client |-> c])
  /\ UNCHANGED <<agentVars, loopVars, clientVars, shutdown, stream, asked>>

-----------------------------------------------------------------------------
(* The clients *)

Connect(c) ==
  /\ conn[c] = "none"
  /\ conn' = [conn EXCEPT ![c] = "open"]
  /\ UNCHANGED <<agentVars, queue, loopVars, shutdown, thread, stream, taken, skipped, asked>>

\* AttachClient::connect reads the hello line with a buffered reader of its own;
\* what that reader takes besides the line is not seen by the one run_attach makes.
Handshake(c) ==
  /\ conn[c] = "open"
  /\ taken[c] = 0
  /\ \E k \in 1..Len(stream[c]) :
       /\ taken' = [taken EXCEPT ![c] = k]
       /\ skipped' = [skipped EXCEPT ![c] = k]
  /\ UNCHANGED <<agentVars, queue, loopVars, shutdown, conn, thread, stream, asked>>

ClientRead(c) ==
  /\ conn[c] = "open"
  /\ taken[c] \in 1..(Len(stream[c]) - 1)
  /\ taken' = [taken EXCEPT ![c] = @ + 1]
  /\ UNCHANGED <<agentVars, queue, loopVars, shutdown, conn, thread, stream, skipped, asked>>

\* The panes of an attached client are the sessions of its hello, all of them set
\* to Running; one is finished when an exit was read after the handshake.
Panes(c) == IF taken[c] = 0 THEN {} ELSE DOMAIN stream[c][1].sessions
PaneDone(c, i) ==
  \E k \in skipped[c] + 1..taken[c] : stream[c][k] = [kind |-> "exit", session |-> i]

AllPanesDone(c) == Panes(c) # {} /\ \A i \in Panes(c) : PaneDone(c, i)

\* Every pane is terminal: run_attach ends.
AutoLeave(c) ==
  /\ conn[c] = "open"
  /\ AllPanesDone(c)
  /\ conn' = [conn EXCEPT ![c] = "closed"]
  /\ UNCHANGED <<agentVars, queue, loopVars, shutdown, thread, stream, taken, skipped, asked>>

\* Ctrl-Q, or the client's process dies.
Leave(c) ==
  /\ conn[c] = "open"
  /\ conn' = [conn EXCEPT ![c] = "closed"]
  /\ UNCHANGED <<agentVars, queue, loopVars, shutdown, thread, stream, taken, skipped, asked>>

-----------------------------------------------------------------------------
(* The event loop *)

\* The top of the loop: SIGTERM is noticed here and nowhere else.
Check ==
  /\ pc = "check"
  /\ pc' = IF shutdown THEN "drop" ELSE "recv"
  /\ UNCHANGED <<agentVars, sessions, killed, queue, clients, dropped, msg, to, shutdown,
                 clientVars, thread, stream, asked>>

\* The join of a dropped PtySession returns: its reader has seen the end of the stream.
Joined(i) == Held(i) => pump[i] = "done"
JoinDone == dropped # 0 => Joined(dropped)

\* A slip: the sessions are let go of without their processes being killed.
DropWithoutKill ==
  /\ pc = "drop"
  /\ dropped < Len(sessions)
  /\ JoinDone
  /\ dropped' = dropped + 1
  /\ UNCHANGED <<agentVars, sessions, killed, queue, clients, pc, msg, to, shutdown,
                 clientVars, thread, stream, asked>>

\* Leaving run() drops the server, session by session: a held one is killed and its
\* reader joined, on this thread, before the next one's turn.
DropSession ==
  /\ pc = "drop"
  /\ dropped < Len(sessions)
  /\ JoinDone
  /\ dropped' = dropped + 1
  /\ killed' = killed \cup {i \in {dropped + 1} : Held(i)}
  /\ UNCHANGED <<agentVars, sessions, queue, clients, pc, msg, to, shutdown,
                 clientVars, thread, stream, asked>>

\* main returns, and the process with all its threads and sockets is gone.
Stop ==
  /\ pc = "drop"
  /\ dropped = Len(sessions)
  /\ JoinDone
  /\ pc' = "stopped"
  /\ conn' = [c \in Clients |-> IF conn[c] = "none" THEN "none" ELSE "closed"]
  /\ UNCHANGED <<agentVars, sessions, killed, queue, clients, dropped, msg, to, shutdown,
                 thread, stream, taken, skipped, asked>>

\* recv_timeout gives up after half a second; sessions that died do not end the loop.
Timeout ==
  /\ pc = "recv"
  /\ queue = <<>>
  /\ pc' = "check"
  /\ UNCHANGED <<agentVars, sessions, killed, queue, clients, dropped, msg, to, shutdown,
                 clientVars, thread, stream, asked>>

Receive(kind) ==
  /\ pc = "recv"
  /\ queue # <<>>
  /\ Head(queue).kind = kind
  /\ queue' = Tail(queue)
  /\ UNCHANGED <<dropped, shutdown, clientVars, thread, stream, asked>>

\* What is left to do for an event is to write m to the clients in S.
Send(m, S) ==
  /\ msg' = IF S = {} THEN NoMsg ELSE m
  /\ to' = S
  /\ pc' = IF S = {} THEN "check" ELSE "send"

\* Chunks of i the loop has dealt with.
Handled(i) ==
  made[i] - Cardinality({k \in DOMAIN queue : queue[k].kind = "Output" /\ queue[k].session = i})

\* SessionInfo of every session; after is not in the code's: it records, for the
\* properties only, where in each session's output the message stands.
Info(kind) ==
  [kind |-> kind, sessions |-> sessions, after |-> [i \in Known |-> Handled(i)]]

HandleOutput ==
  /\ Receive("Output")
  /\ LET e == Head(queue)
     IN  Send([kind |-> "output", session |-> e.session, n |-> e.n], clients)
  /\ UNCHANGED <<agentVars, sessions, killed, clients>>

\* The code is always None, so the state is Done; the dropped PtySession kills
\* what is left of the agent.
HandleExit ==
  /\ Receive("Exit")
  /\ LET i == Head(queue).session
     IN  /\ sessions' = [sessions EXCEPT ![i] = "Done"]
         /\ killed' = killed \cup {i}
         /\ Send([kind |-> "exit", session |-> i], clients)
  /\ UNCHANGED <<agentVars, clients>>

\* The hello is written before the writer is registered; no event comes in between.
HandleConnected ==
  /\ Receive("Connected")
  /\ LET c == Head(queue).client
     IN  /\ clients' = clients \cup {c}
         /\ Send(Info("hello"), {c})
  /\ UNCHANGED <<agentVars, sessions, killed>>

HandleDisconnected ==
  /\ Receive("Disconnected")
  /\ clients' = clients \ {Head(queue).client}
  /\ Send(NoMsg, {})
  /\ UNCHANGED <<agentVars, sessions, killed>>

CommandIs(kind) ==
  /\ Receive("Command")
  /\ Head(queue).cmd.kind = kind

\* Only a client that is still registered is answered.
Asker == {Head(queue).client} \cap clients

\* The sessions as they are.
HandleQuery ==
  /\ CommandIs("query")
  /\ Send(Info("list"), Asker)
  /\ UNCHANGED <<agentVars, sessions, killed, clients>>

\* An agent that cannot be started is recorded as Failed; the client is told of
\* its id all the same, and no other client is told anything.
HandleCreate ==
  /\ CommandIs("create")
  /\ \E state \in {"Running", "Failed"} :
       LET i == Len(sessions) + 1
       IN  /\ sessions' = Append(sessions, state)
           /\ pump' = [pump EXCEPT ![i] = IF state = "Running" THEN "pumping" ELSE "done"]
           /\ Send([kind |-> "created", session |-> i], Asker)
  /\ UNCHANGED <<made, lingers, killed, clients>>

\* A slip: the kill is taken for the exit.
KillAndForget ==
  /\ CommandIs("kill")
  /\ LET i == Head(queue).cmd.session
     IN  IF i \in Known /\ Held(i)
         THEN sessions' = [sessions EXCEPT ![i] = "Done"] /\ killed' = killed \cup {i}
         ELSE UNCHANGED <<sessions, killed>>
  /\ Send(NoMsg, {})
  /\ UNCHANGED <<agentVars, clients>>

\* The process is killed; the exit is announced when its thread reports it.
HandleKill ==
  /\ CommandIs("kill")
  /\ LET i == Head(queue).cmd.session
     IN  killed' = IF i \in Known /\ Held(i) THEN killed \cup {i} ELSE killed
  /\ Send(NoMsg, {})
  /\ UNCHANGED <<agentVars, sessions, clients>>

\* A slip: a client whose socket is full is passed over.
WriteOrSkip(c) ==
  /\ pc = "send"
  /\ c \in to
  /\ stream' = IF conn[c] = "open" /\ Len(stream[c]) - taken[c] < SocketBuffer
               THEN [stream EXCEPT ![c] = Append(@, msg)]
               ELSE stream
  /\ Send(msg, to \ {c})
  /\ UNCHANGED <<agentVars, sessions, killed, queue, clients, dropped, clientVars, shutdown,
                 thread, asked>>

\* write_all to one client: a full socket blocks the loop, an error is ignored.
WriteTo(c) ==
  /\ pc = "send"
  /\ c \in to
  /\ IF conn[c] = "open"
     THEN /\ Len(stream[c]) - taken[c] < SocketBuffer
          /\ stream' = [stream EXCEPT ![c] = Append(@, msg)]
     ELSE UNCHANGED stream
  /\ Send(msg, to \ {c})
  /\ UNCHANGED <<agentVars, sessions, killed, queue, clients, dropped, clientVars, shutdown,
                 thread, asked>>

Sigterm ==
  /\ ~shutdown
  /\ shutdown' = TRUE
  /\ UNCHANGED <<agentVars, loopVars, queue, clientVars, thread, stream, asked>>

-----------------------------------------------------------------------------
LoopStep ==
  \/ Check \/ Timeout \/ DropSession \/ Stop
  \/ HandleOutput \/ HandleExit \/ HandleConnected \/ HandleDisconnected
  \/ HandleQuery \/ HandleCreate \/ HandleKill
  \/ \E c \in Clients : WriteTo(c)

AgentStep(i) == AgentOutput(i) \/ AgentEnds(i) \/ LeaveDescendant(i) \/ DescendantEnds(i)
ThreadStep(c) == Accept(c) \/ ThreadEof(c)
ClientReads(c) == Handshake(c) \/ ClientRead(c)

Alive == pc # "stopped"

\* Everything ends with the daemon's process.
Next ==
  /\ Alive
  /\ \/ LoopStep
     \/ Sigterm
     \/ \E i \in Ids : AgentStep(i)
     \/ \E c \in Clients : \/ ThreadStep(c) \/ ClientReads(c) \/ ClientCommand(c)
                           \/ Connect(c) \/ AutoLeave(c) \/ Leave(c)

\* The loop is in a write to a client that is there and does not make room.
Blocked ==
  /\ pc = "send"
  /\ \E c \in to \cap Silent : conn[c] = "open" /\ Len(stream[c]) - taken[c] >= SocketBuffer

\* The loop's thread is in a join, and a process the agent left behind has the tty.
StuckInJoin == pc = "drop" /\ dropped # 0 /\ ~Joined(dropped) /\ dropped \in lingers

\* The loop runs, unless a write blocks it (the clients after that one wait, too).  A
\* killed agent ends once nobody else has its tty; no other agent has to, and no process
\* left behind.  A client reads what it is sent (run_attach has a thread for it), unless
\* it is Silent.  Nothing is asked of the acceptor and the client threads.
Fairness ==
  /\ WF_vars(Alive /\ ~Blocked /\ LoopStep)
  /\ \A i \in Ids : WF_vars(Alive /\ i \in killed /\ AgentEnds(i))
  /\ \A c \in Clients \ Silent : WF_vars(Alive /\ ClientReads(c))

DaemonSpec == Init /\ [][Next]_vars /\ Fairness

-----------------------------------------------------------------------------
(* Properties *)

Told(c, i) == [kind |-> "exit", session |-> i] \in {stream[c][k] : k \in DOMAIN stream[c]}
OutputsAt(c, i) == {k \in DOMAIN stream[c] : stream[c][k].kind = "output" /\ stream[c][k].session = i}

\* What a client is sent of a session it was shown continues the session's output from
\* where it stood at the hello, chunk by chunk; and an exit comes once, when nothing of
\* the output is missing, and with nothing of the session after it (one queue for
\* outputs and exits, broadcast from one thread).
StreamInOrder ==
  \A c \in Clients : stream[c] # <<>> => \A i \in DOMAIN stream[c][1].sessions :
    LET start == stream[c][1].after[i]
    IN  /\ \A j, k \in OutputsAt(c, i) : j < k => stream[c][j].n < stream[c][k].n
        /\ \E last \in start..made[i] :
             /\ {stream[c][k].n : k \in OutputsAt(c, i)} = start + 1..last
             /\ \A j \in DOMAIN stream[c] : stream[c][j] = [kind |-> "exit", session |-> i] =>
                  /\ last = made[i]
                  /\ \A k \in j + 1..Len(stream[c]) :
                       stream[c][k].kind \in {"output", "exit"} => stream[c][k].session # i

\* A session whose state changes while a client connects is neither missed nor reported
\* twice: whenever the loop is between two events, the sessions of a client's hello,
\* brought up to date with the exits it was sent since, are those of the server
\* (handle_client_connected writes the hello and registers the writer in one event).
ViewIsCurrent ==
  pc \in {"check", "recv"} =>
    \A c \in clients : conn[c] = "open" =>
      /\ stream[c] # <<>> /\ stream[c][1].kind = "hello"
      /\ \A i \in DOMAIN stream[c][1].sessions :
           stream[c][1].sessions[i] = "Running" => (Told(c, i) <=> ~Held(i))

\* The writer of a client that is gone does not stay behind: once the client's thread
\* has ended and its events are handled, the client is not registered, although the
\* connection is announced and revoked by different threads.
NoStaleWriter ==
  \A c \in Clients :
    /\ thread[c] = "done"
    /\ \A k \in DOMAIN queue : queue[k].kind = "Disconnected" => queue[k].client # c
    => c \notin clients



\* What the module's documentation says: the daemon "exits cleanly on SIGTERM".  TLC
\* refutes it of this code (README.md, section 3): no run checks it.
ExitsOnSigterm == shutdown ~> pc = "stopped"

=============================================================================
