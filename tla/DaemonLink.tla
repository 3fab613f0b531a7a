----------------------------- MODULE DaemonLink -----------------------------
(***************************************************************************)
(* `orcatui run --daemon`: the application over a daemon that owns the     *)
(* PTYs.  DaemonClient (src/src/orca_daemon.rs) has two sockets: control,  *)
(* where the UI thread sends a request and waits for the reply that has    *)
(* its id, and stream, read by a thread that reports to the bus.  The      *)
(* rules of src/src/app.rs on top of it are here too: opening, typing,     *)
(* closing, what a lost daemon does to the panes, and the retries.         *)
(*                                                                         *)
(* The daemon itself is not in this repository: it may answer late, answer *)
(* in pieces, close a connection, crash and come back.  A session's id is  *)
(* made of its pane's id, so the model uses the pane's id for both.        *)
(***************************************************************************)
EXTENDS Integers, FiniteSets, Sequences, SequencesExt

CONSTANTS
  None,
  MaxConns,     (* bound: connections made                                  *)
  MaxPaneId,    (* bound: panes opened, ids 1..MaxPaneId                    *)
  MaxRequests,  (* bound: keys typed and panes opened while connected       *)
  MaxBreaks,    (* bound: times the daemon crashes or closes                *)
  MaxFrames,    (* bound: frames the daemon sends                           *)
  AttemptLimits, (* what daemon.reconnect_max_attempts may be; 0: no limit  *)
  Initial, Cap  (* daemon.reconnect_initial_secs, reconnect_max_secs        *)

ASSUME LinkAssumption ==
  /\ MaxConns \in Nat /\ MaxPaneId \in Nat /\ MaxRequests \in Nat
  /\ MaxBreaks \in Nat /\ MaxFrames \in Nat
  /\ AttemptLimits \subseteq Nat /\ Initial \in Nat /\ Cap \in Nat
  /\ None \notin Int

VARIABLES
  socket,       (* the daemon's socket file: gone, stale, live              *)
  owned,        (* sessions the daemon has                                  *)
  breaks, frames,
  requests,     (* control, to the daemon                                   *)
  replies,      (* control, from it: lines, each in two pieces              *)
  tail,         (* the second piece of a line not sent yet                  *)
  max_attempts, (* the limit configured, which does not change              *)
  reset,        (* the daemon closed control with a request unread          *)
  closed,       (* per connection: the daemon closed it                     *)
  stream,       (* per connection: frames on their way                      *)
  reader,       (* per connection: its orca-daemon-stream thread            *)
  session_map,  (* per connection: the map that thread routes by            *)
  daemon,       (* Option<DaemonClient>: the connection, or None            *)
  conns,        (* connections made                                         *)
  conn_state, next_retry, attempts, backoff,
  next_request_id,
  rpc,          (* the request the UI thread waits for                      *)
  buf,          (* the piece of a line read_ndjson_line has                 *)
  panes, next_pane_id,
  bus,          (* AgentUpdates not applied yet                             *)
  served,       (* history: this connection's requests carried out          *)
  acked,        (* history: this connection's requests that returned Ok     *)
  misfed        (* history: panes that were fed another session's output    *)

daemonVars == <<socket, owned, breaks, frames>>
controlVars == <<requests, replies, tail, reset>>
streamVars == <<stream, reader>>
clientVars == <<daemon, conns, conn_state, next_retry, attempts, backoff>>
rpcVars == <<next_request_id, rpc, buf>>
paneVars == <<panes, next_pane_id>>
history == <<served, acked, misfed>>
linkVars == <<daemonVars, controlVars, closed, max_attempts, streamVars, session_map, clientVars, rpcVars, paneVars, bus, history>>

Conns == 1..MaxConns
PaneIds == 0..MaxPaneId
Connected == daemon # None
Requests == [id : 1..MaxRequests, type : {"createOrAttach", "write"}, sid : PaneIds, sent : BOOLEAN]
Frames == [ftype : {"Data", "Event"}, sid : PaneIds]
Positions == DOMAIN panes

LinkInit ==
  /\ socket \in {"gone", "stale", "live"} /\ owned = {} /\ breaks = 0 /\ frames = 0
  /\ requests = <<>> /\ replies = <<>> /\ tail = None /\ reset = FALSE
  /\ closed = [c \in Conns |-> FALSE]
  /\ max_attempts \in AttemptLimits
  /\ stream = [c \in Conns |-> <<>>]
  /\ reader = [c \in Conns |-> "absent"]
  /\ session_map = [c \in Conns |-> {}]
  /\ daemon = None /\ conns = 0
  /\ conn_state = "starting" /\ next_retry = "none" /\ attempts = 0 /\ backoff = Initial
  /\ next_request_id = 1 /\ rpc = None /\ buf = None
  /\ panes = <<[id |-> 0, state |-> "Running", sid |-> None]>> /\ next_pane_id = 1
  /\ bus = <<>>
  /\ served = {} /\ acked = {} /\ misfed = {}

-----------------------------------------------------------------------------
(* Connecting *)

\* The map a new reader starts with: session -> the pane's stable id.
MapOfPanes == {<<panes[i].sid, panes[i].id>> : i \in {j \in Positions : panes[j].sid # None}}

\* Both hellos were accepted: new sockets, a new reader, the counters reset.
Attach ==
  /\ conns < MaxConns
  /\ conns' = conns + 1 /\ daemon' = conns + 1
  /\ reader' = [reader EXCEPT ![conns + 1] = "reading"]
  /\ session_map' = [session_map EXCEPT ![conns + 1] = MapOfPanes]
  /\ conn_state' = "Connected" /\ next_retry' = "none"
  /\ attempts' = 0 /\ backoff' = Initial
  /\ next_request_id' = 1
  /\ requests' = <<>> /\ replies' = <<>> /\ tail' = None /\ reset' = FALSE
  /\ served' = {} /\ acked' = {}
  /\ UNCHANGED <<stream, closed, max_attempts>>

GoStandalone ==
  /\ conn_state' = "Standalone" /\ next_retry' = "none"
  /\ UNCHANGED <<daemon, conns, backoff, reader, stream, session_map, closed, max_attempts, controlVars, next_request_id, served, acked>>

\* connect_with: unless the daemon serves and accepts both hellos, an error.
TryConnect(refused) ==
  \/ socket = "gone" /\ GoStandalone /\ UNCHANGED attempts
  \/ socket = "live" /\ Attach
  \/ socket # "gone" /\ refused

\* try_connect_daemon, once, before the first frame.
TryConnectDaemon ==
  /\ conn_state = "starting"
  /\ TryConnect(GoStandalone /\ UNCHANGED attempts)
  /\ UNCHANGED <<daemonVars, rpc, buf, paneVars, bus, misfed>>

SmallerOf(a, b) == IF a < b THEN a ELSE b

\* A slip: the attempt is not counted.
RetryForever ==
  /\ next_retry' = "waiting" /\ backoff' = SmallerOf(2 * backoff, Cap)
  /\ UNCHANGED <<attempts, daemon, conns, conn_state, reader, stream, session_map, closed, max_attempts, controlVars, next_request_id, served, acked>>

\* A refusal is counted; reconnect_max_attempts = 0 never gives up (and nothing then
\* reads the counter, which stays where it is in the model).
RetryRefused ==
  /\ attempts' = IF max_attempts = 0 THEN attempts ELSE attempts + 1
  /\ \/ max_attempts > 0 /\ attempts' >= max_attempts /\ GoStandalone
     \/ /\ max_attempts > 0 => attempts' < max_attempts
        /\ next_retry' = "waiting" /\ backoff' = SmallerOf(2 * backoff, Cap)
        /\ UNCHANGED <<daemon, conns, conn_state, reader, stream, session_map, closed, max_attempts, controlVars, next_request_id, served, acked>>

PumpDaemonReconnect ==
  /\ conn_state = "Disconnected" /\ next_retry = "elapsed"
  /\ TryConnect(RetryRefused)
  /\ UNCHANGED <<daemonVars, rpc, buf, paneVars, bus, misfed>>

RetryElapses ==
  /\ next_retry = "waiting"
  /\ next_retry' = "elapsed"
  /\ UNCHANGED <<daemonVars, controlVars, closed, max_attempts, streamVars, session_map, daemon, conns, conn_state, attempts, backoff, rpcVars, paneVars, bus, history>>

-----------------------------------------------------------------------------
(* Remote procedure calls: the UI thread sends, then waits *)

\* A slip: the new pane is registered by its position.
PositionEntry == <<rpc.sid, Len(panes)>>

PaneEntry == <<rpc.sid, rpc.sid>>

\* What spawn_one_daemon and send_to_focused do with the outcome of rpc().
Finish(outcome) ==
  LET ok == outcome = "Ok" IN
  /\ rpc' = None
  /\ acked' = IF ok THEN acked \union {rpc.id} ELSE acked
  /\ \/ /\ rpc.type = "createOrAttach"
        /\ panes' = Append(panes, [id |-> rpc.sid, state |-> IF ok THEN "Running" ELSE "Failed", sid |-> IF ok THEN rpc.sid ELSE None])
        /\ session_map' = IF ok THEN [session_map EXCEPT ![daemon] = @ \union {PaneEntry}] ELSE session_map
     \/ rpc.type = "write" /\ UNCHANGED <<panes, session_map>>
  /\ \/ /\ outcome = "Disconnected"
        /\ daemon' = None /\ conn_state' = "Disconnected" /\ next_retry' = "waiting"
     \/ outcome # "Disconnected" /\ UNCHANGED <<daemon, conn_state, next_retry>>
  /\ UNCHANGED <<daemonVars, closed, max_attempts, streamVars, conns, attempts, backoff, next_request_id, next_pane_id, bus, served, misfed>>

\* write_ndjson fails at once on a closed socket, and then as Io, never as Disconnected.
Send(type, sid) ==
  /\ Connected /\ rpc = None /\ next_request_id <= MaxRequests
  /\ next_request_id' = next_request_id + 1
  /\ rpc' = [id |-> next_request_id, type |-> type, sid |-> sid, sent |-> ~closed[daemon]]
  /\ requests' = IF rpc'.sent THEN Append(requests, rpc') ELSE requests
  /\ UNCHANGED <<daemonVars, replies, tail, reset, closed, max_attempts, streamVars, session_map, clientVars, buf, panes, bus, history>>

SpawnOneDaemon ==
  /\ next_pane_id \in PaneIds
  /\ next_pane_id' = next_pane_id + 1
  /\ Send("createOrAttach", next_pane_id)

\* send_to_focused: a pane without a daemon session swallows the keys.
SendToFocused(i) ==
  /\ panes[i].sid # None
  /\ Send("write", panes[i].sid)
  /\ UNCHANGED next_pane_id

\* A slip: the first line that arrives is taken for the reply.
AnyReply(line) == rpc # None

Matches(line) == line.id = rpc.id

\* The next piece: a line's end completes it, unless its start was dropped.
ReadPiece ==
  /\ rpc # None /\ rpc.sent /\ replies # <<>>
  /\ LET piece == Head(replies) IN
     /\ replies' = Tail(replies)
     /\ \/ /\ piece.part = 1
           /\ buf' = piece
           /\ UNCHANGED <<daemonVars, closed, max_attempts, streamVars, session_map, clientVars, next_request_id, rpc, paneVars, bus, history>>
        \/ /\ piece.part = 2 /\ buf # None /\ ~Matches(piece)
           /\ buf' = None
           /\ UNCHANGED <<daemonVars, closed, max_attempts, streamVars, session_map, clientVars, next_request_id, rpc, paneVars, bus, history>>
        \/ piece.part = 2 /\ buf # None /\ Matches(piece) /\ buf' = None /\ Finish(IF piece.ok THEN "Ok" ELSE "SessionNotFound")
        \/ piece.part = 2 /\ buf = None /\ buf' = None /\ Finish("Protocol")
  /\ UNCHANGED <<requests, tail, reset>>

\* EOF is Disconnected; a failed write, or a reset, is Io.
ControlFails ==
  /\ rpc # None /\ closed[daemon] /\ (rpc.sent => replies = <<>>)
  /\ buf' = None
  /\ Finish(IF reset \/ ~rpc.sent THEN "Io" ELSE "Disconnected")
  /\ UNCHANGED controlVars

\* The read timeout: Io, and what was read of the line is dropped with buf.
RpcTimeout ==
  /\ rpc # None /\ rpc.sent /\ replies = <<>> /\ ~closed[daemon]
  /\ buf' = None
  /\ Finish("Io")
  /\ UNCHANGED controlVars

-----------------------------------------------------------------------------
(* The daemon *)

Serving == Connected /\ ~closed[daemon]

\* It carries a request out and sends the first piece of the reply.
Serve ==
  /\ Serving /\ requests # <<>> /\ tail = None
  /\ LET req == Head(requests) IN
     \E ok \in {req.type = "createOrAttach" \/ req.sid \in owned, FALSE} :
       /\ ok \/ req.type = "createOrAttach" \/ req.sid \notin owned
       /\ owned' = IF ok THEN owned \union {req.sid} ELSE owned
       /\ served' = IF ok THEN served \union {req.id} ELSE served
       /\ replies' = Append(replies, [id |-> req.id, ok |-> ok, part |-> 1])
       /\ tail' = [id |-> req.id, ok |-> ok, part |-> 2]
  /\ requests' = Tail(requests)
  /\ UNCHANGED <<socket, breaks, frames, reset, closed, max_attempts, streamVars, session_map, clientVars, rpcVars, paneVars, bus, acked, misfed>>

ServeRest ==
  /\ Serving /\ tail # None
  /\ replies' = Append(replies, tail) /\ tail' = None
  /\ UNCHANGED <<daemonVars, requests, reset, closed, max_attempts, streamVars, session_map, clientVars, rpcVars, paneVars, bus, history>>

\* Output of a session, or its end.
Emit(ftype, sid) ==
  /\ Serving /\ sid \in owned /\ frames < MaxFrames
  /\ frames' = frames + 1
  /\ stream' = [stream EXCEPT ![daemon] = Append(@, [ftype |-> ftype, sid |-> sid])]
  /\ owned' = IF ftype = "Event" THEN owned \ {sid} ELSE owned
  /\ UNCHANGED <<socket, breaks, controlVars, closed, max_attempts, reader, session_map, clientVars, rpcVars, paneVars, bus, history>>

\* It crashes (its file stays or goes, its sessions are lost) or only closes this client.
Break ==
  /\ Serving /\ breaks < MaxBreaks
  /\ breaks' = breaks + 1
  /\ closed' = [closed EXCEPT ![daemon] = TRUE]
  /\ reset' = (requests # <<>>) /\ tail' = None
  /\ \/ socket' \in {"gone", "stale"} /\ owned' = {}
     \/ UNCHANGED <<socket, owned>>
  /\ UNCHANGED <<max_attempts, frames, requests, replies, streamVars, session_map, clientVars, rpcVars, paneVars, bus, history>>

Restart ==
  /\ socket # "live" /\ breaks > 0
  /\ socket' = "live"
  /\ UNCHANGED <<owned, breaks, frames, controlVars, closed, max_attempts, streamVars, session_map, clientVars, rpcVars, paneVars, bus, history>>

-----------------------------------------------------------------------------
(* The stream readers and the bus *)

\* An id the map does not have goes to pane 0.
PaneOf(c, sid) ==
  LET known == {p \in PaneIds : <<sid, p>> \in session_map[c]} IN
  IF known = {} THEN 0 ELSE CHOOSE p \in known : TRUE

\* A frame: output, or the exit of a session.
ReadFrame(c) ==
  /\ reader[c] = "reading" /\ stream[c] # <<>>
  /\ LET frame == Head(stream[c]) IN
     bus' = Append(bus, [kind |-> frame.ftype, pane |-> PaneOf(c, frame.sid), sid |-> frame.sid])
  /\ stream' = [stream EXCEPT ![c] = Tail(@)]
  /\ UNCHANGED <<daemonVars, controlVars, closed, max_attempts, reader, session_map, clientVars, rpcVars, paneVars, history>>

\* A slip: the reader ends without a word.
StreamEndsSilently(c) ==
  /\ reader[c] = "reading" /\ stream[c] = <<>> /\ closed[c]
  /\ reader' = [reader EXCEPT ![c] = "done"]
  /\ UNCHANGED <<daemonVars, controlVars, closed, max_attempts, stream, session_map, clientVars, rpcVars, paneVars, bus, history>>

Lost(c) == {p[2] : p \in session_map[c]}

\* Disconnected: an exit for every pane the map has.
StreamEnds(c) ==
  /\ reader[c] = "reading" /\ stream[c] = <<>> /\ closed[c]
  /\ reader' = [reader EXCEPT ![c] = "done"]
  /\ bus' = bus \o [k \in 1..Cardinality(Lost(c)) |-> [kind |-> "Event", pane |-> SetToSeq(Lost(c))[k], sid |-> SetToSeq(Lost(c))[k]]]
  /\ UNCHANGED <<daemonVars, controlVars, closed, max_attempts, stream, session_map, clientVars, rpcVars, paneVars, history>>

\* drain_bus, one update: a closed pane's are dropped, a terminal state stays.
ApplyUpdate ==
  /\ rpc = None /\ bus # <<>>
  /\ bus' = Tail(bus)
  /\ LET u == Head(bus)
         at == {i \in Positions : panes[i].id = u.pane}
     IN /\ misfed' = IF u.kind = "Data" THEN misfed \union {panes[i].id : i \in {j \in at : panes[j].sid # u.sid}} ELSE misfed
        /\ panes' = [i \in Positions |-> IF i \in at /\ u.kind = "Event" /\ panes[i].state = "Running"
                                         THEN [panes[i] EXCEPT !.state = "Done"] ELSE panes[i]]
  /\ UNCHANGED <<daemonVars, controlVars, closed, max_attempts, streamVars, session_map, clientVars, rpcVars, next_pane_id, served, acked>>

\* close_focused_pane: the daemon and the map are not told.
ClosePane(i) ==
  /\ rpc = None
  /\ panes' = RemoveAt(panes, i)
  /\ UNCHANGED <<daemonVars, controlVars, closed, max_attempts, streamVars, session_map, clientVars, rpcVars, next_pane_id, bus, history>>

LinkNext ==
  \/ TryConnectDaemon \/ PumpDaemonReconnect \/ RetryElapses
  \/ SpawnOneDaemon
  \/ \E i \in Positions : SendToFocused(i) \/ ClosePane(i)
  \/ ReadPiece \/ ControlFails \/ RpcTimeout
  \/ Serve \/ ServeRest \/ Break \/ Restart
  \/ \E sid \in PaneIds : Emit("Data", sid) \/ Emit("Event", sid)
  \/ \E c \in Conns : ReadFrame(c) \/ StreamEnds(c)
  \/ ApplyUpdate

LinkFairness ==
  /\ WF_linkVars(ReadPiece \/ ControlFails \/ RpcTimeout)
  /\ WF_linkVars(ApplyUpdate) /\ WF_linkVars(PumpDaemonReconnect) /\ WF_linkVars(RetryElapses)
  /\ \A c \in Conns : WF_linkVars(ReadFrame(c) \/ StreamEnds(c))

LinkSpec == LinkInit /\ [][LinkNext]_linkVars /\ LinkFairness

-----------------------------------------------------------------------------
(* Properties *)

\* An rpc() that returns Ok was carried out: replies that come after their
\* request timed out, or in pieces, are never taken for the next one's
\* (orca_daemon.rs, rpc and read_ndjson_line).
AckedWasServed == acked \subseteq served

\* Whatever closes, shifts, breaks or reconnects, a pane other than the first
\* is only ever fed its own session's output.
OutputGoesHome == misfed \subseteq {0}

\* The UI thread waits for the reply to a request that a closed connection has taken.
AwaitsInVain == rpc # None /\ rpc.sent /\ closed[daemon] /\ ~reset /\ replies = <<>>

LossKnown == AwaitsInVain \/ conn_state = "Disconnected"

\* A connection that is lost under a request is made again, or given up: because the
\* socket's file is gone, or after max_attempts refusals, from the failing call through
\* every backoff, whatever the daemon does meanwhile.  Without a limit, the default, the
\* retries go on for as long as that takes: no refusal is the last one.  A loss that shows
\* in any other way is not known to be one: see LossIsNoticed.
RetryEnds ==
  \/ LossKnown ~> (conn_state = "Standalone" \/ Serving)
  \/ max_attempts = 0 /\ []<><<PumpDaemonReconnect>>_linkVars

\* What the documentation of rpc() says: a daemon that crashed or closed the socket is
\* DaemonError::Disconnected, on which the callers start to reconnect.  TLC refutes it of
\* this code (README.md, section 3): no run checks it.
LossIsNoticed == [][ControlFails => conn_state' = "Disconnected"]_linkVars

\* No pane goes on as Running once the connection that served it is gone, if
\* it was registered while its reader was still there (pane 0 is a local one).
LostPanesEnd ==
  \A p \in 1..MaxPaneId :
    (\E c \in Conns : reader[c] = "reading" /\ closed[c] /\ <<p, p>> \in session_map[c])
      ~> ~\E i \in Positions : panes[i].id = p /\ panes[i].state = "Running"
=============================================================================
