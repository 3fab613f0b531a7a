------------------------------ MODULE Companion ------------------------------
(***************************************************************************)
(* `orcatui run --mobile` (src/src/mobile.rs): each turn of the frame loop *)
(* publishes a snapshot of the panes; the task `serve` keeps the latest    *)
(* and broadcasts it, and a task for each client sends it on over a        *)
(* WebSocket.  A snapshot is its number, 0 the empty one from before the   *)
(* first.                                                                  *)
(*                                                                         *)
(* The runtime has several threads: the latest snapshot and the broadcast  *)
(* are two steps, and so are a client's subscription, its handshake and    *)
(* its reading of the latest.  A subscriber that falls behind what the     *)
(* broadcast channel holds goes on with the oldest it still has.           *)
(***************************************************************************)
EXTENDS Integers

CONSTANTS
  Clients,
  Capacity,      \* of the broadcast channel
  MaxSnapshots,  \* bound on what the application publishes
  MaxFailures    \* bound on accepts that fail

ASSUME CompanionAssumption ==
  Capacity \in Nat \ {0} /\ MaxSnapshots \in Nat /\ MaxFailures \in Nat

VARIABLES
  sent,      \* snapshots the application published
  app,       \* "running" or "ended"
  serve,     \* at select!, between its two steps, returned, or dropped with the runtime
  taken,     \* received from the application, in order
  latest,
  cast,      \* broadcast
  failures,
  task,      \* of each client: where handle_connection is
  joined,    \* history: what was broadcast when the client subscribed
  next,      \* the number its subscription is at
  carrying,  \* what its task is sending
  view,      \* what the client shows
  shown      \* history: nothing yet, the greeting, or a broadcast

serverVars == <<serve, taken, latest, cast, failures>>
clientVars == <<task, joined, next, carrying, view, shown>>
companionVars == <<sent, app, serverVars, clientVars>>

Nothing == -1
Most(a, b) == IF a > b THEN a ELSE b

\* The runtime or the listener may fail to start: serve is then over at once.
CompanionInit ==
  /\ sent = 0 /\ app = "running"
  /\ serve \in {"select", "returned"} /\ taken = 0 /\ latest = 0 /\ cast = 0 /\ failures = 0
  /\ task = [c \in Clients |-> "away"]
  /\ joined = [c \in Clients |-> 0] /\ next = [c \in Clients |-> 0]
  /\ carrying = [c \in Clients |-> Nothing] /\ view = [c \in Clients |-> Nothing]
  /\ shown = [c \in Clients |-> "nothing"]

-----------------------------------------------------------------------------
(* The application *)

\* publish_snapshot, every turn; nobody listening is no error.
Publish ==
  /\ app = "running" /\ sent < MaxSnapshots
  /\ sent' = sent + 1
  /\ UNCHANGED <<app, serverVars, clientVars>>

\* The application is dropped, and the sender with it.
AppEnds ==
  /\ app = "running"
  /\ app' = "ended"
  /\ UNCHANGED <<sent, serverVars, clientVars>>

-----------------------------------------------------------------------------
(* serve *)

Take ==
  /\ serve = "select" /\ taken < sent
  /\ taken' = taken + 1 /\ latest' = taken'
  /\ serve' = "broadcast"
  /\ UNCHANGED <<sent, app, cast, failures, clientVars>>

Broadcast ==
  /\ serve = "broadcast"
  /\ cast' = taken /\ serve' = "select"
  /\ UNCHANGED <<sent, app, taken, latest, failures, clientVars>>

\* The channel is closed and empty: serve returns.
NoMoreUpdates ==
  /\ serve = "select" /\ app = "ended" /\ taken = sent
  /\ serve' = "returned"
  /\ UNCHANGED <<sent, app, taken, latest, cast, failures, clientVars>>

\* The oldest snapshot the broadcast channel holds.
Oldest == Most(cast - Capacity + 1, 1)

\* A slip: past all it holds.
NothingRetained == cast + 1

\* Where a subscriber that lagged goes on.
AfterLag == Oldest

\* subscribe: what is broadcast from now on.
Accept(c) ==
  /\ serve = "select" /\ task[c] = "connecting"
  /\ task' = [task EXCEPT ![c] = "handshake"]
  /\ joined' = [joined EXCEPT ![c] = cast]
  /\ next' = [next EXCEPT ![c] = cast + 1]
  /\ UNCHANGED <<sent, app, serverVars, carrying, view, shown>>

\* An accept that fails ends serve, for every client.
AcceptFails ==
  /\ serve = "select" /\ failures < MaxFailures
  /\ \E c \in Clients : task[c] = "connecting"
  /\ serve' = "returned" /\ failures' = failures + 1
  /\ UNCHANGED <<sent, app, taken, latest, cast, clientVars>>

\* The thread of the runtime ends: its tasks are dropped wherever they wait.
DropRuntime ==
  /\ serve = "returned"
  /\ serve' = "dropped"
  /\ task' = [c \in Clients |-> "gone"]
  /\ UNCHANGED <<sent, app, taken, latest, cast, failures, joined, next, carrying, view, shown>>

-----------------------------------------------------------------------------
(* handle_connection *)

\* The upgrade fails, the token is wrong, or both are well.
Handshake(c) ==
  /\ task[c] = "handshake"
  /\ \E outcome \in {"greeting", "gone"} : task' = [task EXCEPT ![c] = outcome]
  /\ UNCHANGED <<sent, app, serverVars, joined, next, carrying, view, shown>>

\* A slip: what there was when the server started.
EmptyGreeting == 0

Greeting == latest

ReadLatest(c) ==
  /\ task[c] = "greeting"
  /\ carrying' = [carrying EXCEPT ![c] = Greeting]
  /\ task' = [task EXCEPT ![c] = "sending"]
  /\ UNCHANGED <<sent, app, serverVars, joined, next, view, shown>>

\* The client takes what was sent.
Sent(c) ==
  /\ task[c] = "sending"
  /\ view' = [view EXCEPT ![c] = carrying[c]]
  /\ shown' = [shown EXCEPT ![c] = IF @ = "nothing" THEN "greeting" ELSE "broadcast"]
  /\ task' = [task EXCEPT ![c] = "receiving"]
  /\ UNCHANGED <<sent, app, serverVars, joined, next, carrying>>

Receive(c) ==
  /\ task[c] = "receiving" /\ next[c] <= cast
  /\ IF next[c] < Oldest
     THEN next' = [next EXCEPT ![c] = AfterLag] /\ UNCHANGED <<task, carrying>>
     ELSE /\ carrying' = [carrying EXCEPT ![c] = next[c]]
          /\ next' = [next EXCEPT ![c] = @ + 1]
          /\ task' = [task EXCEPT ![c] = "sending"]
  /\ UNCHANGED <<sent, app, serverVars, joined, view, shown>>

\* The broadcast channel is closed and read to its end.
Closed(c) ==
  /\ task[c] = "receiving" /\ serve = "returned" /\ next[c] > cast
  /\ task' = [task EXCEPT ![c] = "gone"]
  /\ UNCHANGED <<sent, app, serverVars, joined, next, carrying, view, shown>>

ClientConnects(c) ==
  /\ task[c] = "away"
  /\ task' = [task EXCEPT ![c] = "connecting"]
  /\ UNCHANGED <<sent, app, serverVars, joined, next, carrying, view, shown>>

ClientLeaves(c) ==
  /\ task[c] \notin {"away", "gone"}
  /\ task' = [task EXCEPT ![c] = "gone"]
  /\ UNCHANGED <<sent, app, serverVars, joined, next, carrying, view, shown>>

ServeNext == Take \/ Broadcast \/ NoMoreUpdates
HandlerNext(c) == Handshake(c) \/ ReadLatest(c) \/ Sent(c) \/ Receive(c) \/ Closed(c)
CompanionNext ==
  \/ Publish \/ AppEnds \/ ServeNext \/ AcceptFails \/ DropRuntime
  \/ \E c \in Clients : Accept(c) \/ HandlerNext(c) \/ ClientConnects(c) \/ ClientLeaves(c)

\* select! takes its ready branches at random, tasks are scheduled, and a client
\* that stays reads what it is sent.
CompanionFairness ==
  /\ WF_companionVars(ServeNext) /\ WF_companionVars(DropRuntime)
  /\ \A c \in Clients : SF_companionVars(Accept(c)) /\ WF_companionVars(HandlerNext(c))

CompanionSpec == CompanionInit /\ [][CompanionNext]_companionVars /\ CompanionFairness

-----------------------------------------------------------------------------
(* Properties *)

\* A client never shows anything from before its connection was accepted, and
\* what it shows only goes forward, except once: the latest snapshot it is
\* greeted with, which may be ahead of the broadcasts that were waiting for it
\* (serve, handle_connection).
ForwardAfterGreeting ==
  [][\A c \in Clients : view'[c] # view[c] =>
       /\ view'[c] >= joined[c]
       /\ view'[c] > view[c] \/ shown[c] = "greeting"]_companionVars

\* However slow it reads and however much it misses, a client that stays is
\* brought up to every snapshot, or a later one, while the server lives.
CatchesUp ==
  \A c \in Clients, n \in 1..MaxSnapshots :
    (sent >= n /\ task[c] \in {"greeting", "sending", "receiving"})
      ~> (view[c] >= n \/ task[c] = "gone")

=============================================================================
