------------------------- MODULE DaemonServerProofs -------------------------
(***************************************************************************)
(* The daemon forgets the writer of every client that is gone, and what it *)
(* tells the clients that stay is whole, in order and current, for any     *)
(* number of clients, sessions, chunks and commands.                       *)
(*                                                                         *)
(* The second part follows a chunk on its way to a client: it waits in the *)
(* queue, in the order it was made (InLine); the loop handles it; a client *)
(* that was greeted before is sent it then (Followed). An exit is the last *)
(* word of its session's thread (LastOfThread), so it comes after all of   *)
(* them.                                                                   *)
(***************************************************************************)
EXTENDS DaemonServer, FiniteSetTheorems, TLAPS

ConnectedAt(k, c) == queue[k].kind = "Connected" /\ queue[k].client = c
DisconnectedAt(k, c) == queue[k].kind = "Disconnected" /\ queue[k].client = c

QueueTyped ==
  /\ queue \in Seq(Events)
  /\ made \in [Ids -> 0..MaxChunks]
  /\ thread \in [Clients -> {"none", "reading", "done"}]

\* A client is revoked only by its thread, as the last thing it does.
RevokedByThread ==
  \A c \in Clients : \A k \in DOMAIN queue : DisconnectedAt(k, c) => thread[c] = "done"

\* When the thread has ended, an announcement still to be handled is followed by the
\* revocation.
AnnouncedThenRevoked ==
  \A c \in Clients : \A j \in DOMAIN queue :
    ConnectedAt(j, c) /\ thread[c] = "done" => \E k \in DOMAIN queue : k > j /\ DisconnectedAt(k, c)

\* A registered client whose thread has ended is about to be forgotten.
AboutToBeForgotten ==
  \A c \in clients : c \in Clients /\ thread[c] = "done" => \E k \in DOMAIN queue : DisconnectedAt(k, c)

WriterInv == QueueTyped /\ RevokedByThread /\ AnnouncedThenRevoked /\ AboutToBeForgotten

-----------------------------------------------------------------------------
(* What a step does to the queue, the threads and the registered writers *)

Announces(c) == [kind |-> "Connected", client |-> c]
Revokes(c) == [kind |-> "Disconnected", client |-> c]
Lifecycle == {"Connected", "Disconnected"}

Quiet == UNCHANGED <<queue, thread, clients>>

Feeds ==
  \E e \in Events : /\ e.kind \notin Lifecycle
                    /\ queue' = Append(queue, e)
                    /\ UNCHANGED <<thread, clients>>

AcceptFeeds(c) ==
  /\ thread[c] = "none"
  /\ queue' = Append(queue, Announces(c))
  /\ thread' = [thread EXCEPT ![c] = "reading"]
  /\ UNCHANGED clients

EofFeeds(c) ==
  /\ queue' = Append(queue, Revokes(c))
  /\ thread' = [thread EXCEPT ![c] = "done"]
  /\ UNCHANGED clients

Takes ==
  /\ queue # <<>>
  /\ queue' = Tail(queue)
  /\ UNCHANGED thread
  /\ \/ Head(queue).kind \notin Lifecycle /\ UNCHANGED clients
     \/ Head(queue).kind = "Connected" /\ clients' = clients \cup {Head(queue).client}
     \/ Head(queue).kind = "Disconnected" /\ clients' = clients \ {Head(queue).client}

\* Appending to a sequence: the elements and the type.
LEMMA Appended ==
  ASSUME NEW S, NEW s \in Seq(S), NEW e \in S
  PROVE  /\ Append(s, e) \in Seq(S)
         /\ DOMAIN Append(s, e) = 1..Len(s) + 1
         /\ DOMAIN s = 1..Len(s) /\ Len(s) \in Nat
         /\ \A k \in 1..Len(s) : Append(s, e)[k] = s[k]
         /\ Append(s, e)[Len(s) + 1] = e
  OBVIOUS

\* Taking the head off: every element moves down by one.
LEMMA Taken ==
  ASSUME NEW S, NEW s \in Seq(S), s # <<>>
  PROVE  /\ Tail(s) \in Seq(S) /\ Head(s) = s[1] /\ Head(s) \in S
         /\ Len(s) \in Nat \ {0} /\ DOMAIN s = 1..Len(s)
         /\ DOMAIN Tail(s) = 1..Len(s) - 1
         /\ \A k \in 1..Len(s) - 1 : Tail(s)[k] = s[k + 1]
  OBVIOUS

-----------------------------------------------------------------------------
(* Every step has one of these shapes *)

Shape ==
  \/ Quiet
  \/ Feeds
  \/ \E c \in Clients : AcceptFeeds(c)
  \/ \E c \in Clients : EofFeeds(c)
  \/ Takes

\* An agent thread's chunk is an event, and the agent's count stays in range.
LEMMA OutputShape ==
  ASSUME NEW i \in Ids, QueueTyped, AgentOutput(i)
  PROVE  Feeds /\ made' \in [Ids -> 0..MaxChunks]
<1> DEFINE e == [kind |-> "Output", session |-> i, n |-> made[i] + 1]
<1>1. made[i] + 1 \in 1..MaxChunks
  BY DaemonAssumption DEF QueueTyped, AgentOutput
<1>2. e \in Events
  BY <1>1 DEF Events
<1>3. e.kind \notin Lifecycle
  BY DEF Lifecycle
<1>4. queue' = Append(queue, e) /\ UNCHANGED <<thread, clients>>
  BY DEF AgentOutput, loopVars
<1>5. made' \in [Ids -> 0..MaxChunks]
  BY <1>1, DaemonAssumption DEF QueueTyped, AgentOutput
<1>6. QED
  BY <1>2, <1>3, <1>4, <1>5 DEF Feeds

\* So are its exit and a client's command.
LEMMA FeedShapes ==
  /\ \A i \in Ids : AgentEnds(i) => Feeds /\ UNCHANGED made
  /\ \A c \in Clients : ClientCommand(c) => Feeds /\ UNCHANGED made
<1>1. ASSUME NEW i \in Ids, AgentEnds(i) PROVE Feeds /\ UNCHANGED made
  <2> DEFINE e == [kind |-> "Exit", session |-> i]
  <2>1. e \in Events /\ e.kind \notin Lifecycle
    BY DEF Events, Lifecycle
  <2>2. queue' = Append(queue, e) /\ UNCHANGED <<made, thread, clients>>
    BY <1>1 DEF AgentEnds, loopVars
  <2>3. QED
    BY <2>1, <2>2 DEF Feeds
<1>2. ASSUME NEW c \in Clients, ClientCommand(c) PROVE Feeds /\ UNCHANGED made
  <2>1. PICK cmd \in Commands :
          queue' = Append(queue, [kind |-> "Command", client |-> c, cmd |-> cmd])
    BY <1>2 DEF ClientCommand
  <2> DEFINE e == [kind |-> "Command", client |-> c, cmd |-> cmd]
  <2>2. e \in Events /\ e.kind \notin Lifecycle
    BY DEF Events, Lifecycle
  <2>3. UNCHANGED <<made, thread, clients>>
    BY <1>2 DEF ClientCommand, agentVars, loopVars
  <2>4. QED
    BY <2>1, <2>2, <2>3 DEF Feeds
<1>3. QED
  BY <1>1, <1>2

\* The loop takes events off the queue and registers or forgets only what they name.
LEMMA LoopShape ==
  ASSUME LoopStep PROVE (Quiet \/ Takes) /\ UNCHANGED made
<1>1. CASE Check
  BY <1>1 DEF Check, Quiet, agentVars
<1>2. CASE Timeout
  BY <1>2 DEF Timeout, Quiet, agentVars
<1>2a. CASE DropSession \/ Stop
  BY <1>2a DEF DropSession, Stop, Quiet, agentVars
<1>3. CASE HandleOutput
  BY <1>3 DEF HandleOutput, Receive, Takes, Lifecycle, agentVars
<1>4. CASE HandleExit
  BY <1>4 DEF HandleExit, Receive, Takes, Lifecycle, agentVars
<1>5. CASE HandleConnected
  BY <1>5 DEF HandleConnected, Receive, Takes, Lifecycle, agentVars
<1>6. CASE HandleDisconnected
  BY <1>6 DEF HandleDisconnected, Receive, Takes, Lifecycle, agentVars
<1>7. CASE HandleQuery
  BY <1>7 DEF HandleQuery, CommandIs, Receive, Takes, Lifecycle, agentVars
<1>8. CASE HandleCreate
  BY <1>8 DEF HandleCreate, CommandIs, Receive, Takes, Lifecycle, agentVars
<1>9. CASE HandleKill
  BY <1>9 DEF HandleKill, CommandIs, Receive, Takes, Lifecycle, agentVars
<1>10. CASE \E c \in Clients : WriteTo(c)
  BY <1>10 DEF WriteTo, Quiet, agentVars
<1>11. QED
  BY <1>1, <1>2, <1>2a, <1>3, <1>4, <1>5, <1>6, <1>7, <1>8, <1>9, <1>10 DEF LoopStep

LEMMA StepShape ==
  ASSUME QueueTyped, [Next]_vars
  PROVE  Shape /\ made' \in [Ids -> 0..MaxChunks]
<1>0. made \in [Ids -> 0..MaxChunks]
  BY DEF QueueTyped
<1>1. CASE LoopStep
  BY <1>0, <1>1, LoopShape DEF Shape
<1>2. CASE Sigterm
  BY <1>0, <1>2 DEF Sigterm, Shape, Quiet, agentVars, loopVars
<1>3. CASE \E i \in Ids : AgentOutput(i) \/ AgentEnds(i)
  BY <1>0, <1>3, OutputShape, FeedShapes DEF Shape
<1>3a. CASE \E i \in Ids : LeaveDescendant(i) \/ DescendantEnds(i)
  BY <1>0, <1>3a DEF LeaveDescendant, DescendantEnds, Shape, Quiet, loopVars
<1>4. ASSUME NEW c \in Clients, Accept(c) PROVE Shape /\ UNCHANGED made
  BY <1>4 DEF Accept, Shape, AcceptFeeds, Announces, agentVars, loopVars
<1>5. ASSUME NEW c \in Clients, ThreadEof(c) PROVE Shape /\ UNCHANGED made
  BY <1>5 DEF ThreadEof, Shape, EofFeeds, Revokes, agentVars, loopVars
<1>6. ASSUME NEW c \in Clients,
             ClientReads(c) \/ Connect(c) \/ AutoLeave(c) \/ Leave(c)
      PROVE  Shape /\ UNCHANGED made
  BY <1>6 DEF ClientReads, Handshake, ClientRead, Connect, AutoLeave, Leave,
              Shape, Quiet, agentVars, loopVars
<1>7. ASSUME NEW c \in Clients, ClientCommand(c) PROVE Shape /\ UNCHANGED made
  BY <1>7, FeedShapes DEF Shape
<1>8. CASE UNCHANGED vars
  BY <1>0, <1>8 DEF vars, Shape, Quiet
<1>9. QED
  BY <1>0, <1>1, <1>2, <1>3, <1>3a, <1>4, <1>5, <1>6, <1>7, <1>8 DEF Next, AgentStep, ThreadStep

-----------------------------------------------------------------------------
(* The shapes preserve the invariant *)

\* An event that is no client's beginning or end is put on the queue.
LEMMA FeedsKeep == WriterInv /\ Feeds /\ made' \in [Ids -> 0..MaxChunks] => WriterInv'
<1> SUFFICES ASSUME WriterInv, Feeds, made' \in [Ids -> 0..MaxChunks] PROVE WriterInv'
  OBVIOUS
<1> USE DEF WriterInv
<1>1. PICK e \in Events : /\ e.kind \notin Lifecycle
                          /\ queue' = Append(queue, e)
                          /\ UNCHANGED <<thread, clients>>
  BY DEF Feeds
<1>n. PICK n \in Nat : n = Len(queue)
  BY DEF QueueTyped
<1>2. /\ queue' \in Seq(Events) /\ n \in Nat
      /\ DOMAIN queue' = 1..n + 1 /\ DOMAIN queue = 1..n
      /\ \A k \in 1..n : queue'[k] = queue[k]
      /\ queue'[n + 1] = e
  BY <1>n, <1>1, Appended DEF QueueTyped
<1>3. \A c \in Clients : \A k \in 1..n :
        /\ ConnectedAt(k, c)' <=> ConnectedAt(k, c)
        /\ DisconnectedAt(k, c)' <=> DisconnectedAt(k, c)
  BY <1>2 DEF ConnectedAt, DisconnectedAt
<1>4. \A c \in Clients : ~ConnectedAt(n + 1, c)' /\ ~DisconnectedAt(n + 1, c)'
  BY <1>1, <1>2 DEF ConnectedAt, DisconnectedAt, Lifecycle
<1>5. QueueTyped'
  BY <1>1, <1>2 DEF QueueTyped
<1>6. RevokedByThread'
  BY <1>1, <1>2, <1>3, <1>4 DEF RevokedByThread
<1>7. AnnouncedThenRevoked'
  BY <1>1, <1>2, <1>3, <1>4 DEF AnnouncedThenRevoked
<1>8. AboutToBeForgotten'
  BY <1>1, <1>2, <1>3 DEF AboutToBeForgotten
<1>9. QED
  BY <1>5, <1>6, <1>7, <1>8

\* A client is announced: its thread has not begun, so nothing revokes it yet.
LEMMA AcceptKeeps ==
  ASSUME NEW a \in Clients, WriterInv, AcceptFeeds(a), made' \in [Ids -> 0..MaxChunks]
  PROVE  WriterInv'
<1> USE DEF WriterInv
<1>n. PICK n \in Nat : n = Len(queue)
  BY DEF QueueTyped
<1>0. Announces(a) \in Events
  BY DEF Announces, Events
<1>1. /\ queue' \in Seq(Events) /\ n \in Nat
      /\ DOMAIN queue' = 1..n + 1 /\ DOMAIN queue = 1..n
      /\ \A k \in 1..n : queue'[k] = queue[k]
      /\ queue'[n + 1] = Announces(a)
  BY <1>n, <1>0, Appended DEF QueueTyped, AcceptFeeds
<1>2. \A c \in Clients : \A k \in 1..n :
        /\ ConnectedAt(k, c)' <=> ConnectedAt(k, c)
        /\ DisconnectedAt(k, c)' <=> DisconnectedAt(k, c)
  BY <1>1 DEF ConnectedAt, DisconnectedAt
<1>3. \A c \in Clients : /\ ConnectedAt(n + 1, c)' => c = a
                         /\ ~DisconnectedAt(n + 1, c)'
  BY <1>1 DEF ConnectedAt, DisconnectedAt, Announces
<1>4. thread \in [Clients -> {"none", "reading", "done"}]
  BY DEF QueueTyped
<1>5. /\ thread[a] = "none" /\ thread'[a] = "reading"
      /\ \A c \in Clients \ {a} : thread'[c] = thread[c]
      /\ UNCHANGED clients
  BY <1>4 DEF AcceptFeeds
<1>6. QueueTyped'
  BY <1>1, <1>4 DEF QueueTyped, AcceptFeeds
<1>7. RevokedByThread'
  BY <1>1, <1>2, <1>3, <1>5 DEF RevokedByThread
<1>8. AnnouncedThenRevoked'
  BY <1>1, <1>2, <1>3, <1>5 DEF AnnouncedThenRevoked
<1>9. AboutToBeForgotten'
  BY <1>1, <1>2, <1>5 DEF AboutToBeForgotten
<1>10. QED
  BY <1>6, <1>7, <1>8, <1>9

\* A thread ends: its revocation comes after everything that is on the queue.
LEMMA EofKeeps ==
  ASSUME NEW a \in Clients, WriterInv, EofFeeds(a), made' \in [Ids -> 0..MaxChunks]
  PROVE  WriterInv'
<1> USE DEF WriterInv
<1>n. PICK n \in Nat : n = Len(queue)
  BY DEF QueueTyped
<1>0. Revokes(a) \in Events
  BY DEF Revokes, Events
<1>1. /\ queue' \in Seq(Events) /\ n \in Nat
      /\ DOMAIN queue' = 1..n + 1 /\ DOMAIN queue = 1..n
      /\ \A k \in 1..n : queue'[k] = queue[k]
      /\ queue'[n + 1] = Revokes(a)
  BY <1>n, <1>0, Appended DEF QueueTyped, EofFeeds
<1>2. \A c \in Clients : \A k \in 1..n :
        /\ ConnectedAt(k, c)' <=> ConnectedAt(k, c)
        /\ DisconnectedAt(k, c)' <=> DisconnectedAt(k, c)
  BY <1>1 DEF ConnectedAt, DisconnectedAt
<1>3. /\ DisconnectedAt(n + 1, a)'
      /\ \A c \in Clients : /\ ~ConnectedAt(n + 1, c)'
                            /\ DisconnectedAt(n + 1, c)' => c = a
  BY <1>1 DEF ConnectedAt, DisconnectedAt, Revokes
<1>4. thread \in [Clients -> {"none", "reading", "done"}]
  BY DEF QueueTyped
<1>5. /\ thread'[a] = "done"
      /\ \A c \in Clients \ {a} : thread'[c] = thread[c]
      /\ UNCHANGED clients
  BY <1>4 DEF EofFeeds
<1>6. QueueTyped'
  BY <1>1, <1>4 DEF QueueTyped, EofFeeds
<1>7. RevokedByThread'
  BY <1>1, <1>2, <1>3, <1>5 DEF RevokedByThread
<1>8. AnnouncedThenRevoked'
  BY <1>1, <1>2, <1>3, <1>5 DEF AnnouncedThenRevoked
<1>9. AboutToBeForgotten'
  BY <1>1, <1>2, <1>3, <1>5 DEF AboutToBeForgotten
<1>10. QED
  BY <1>6, <1>7, <1>8, <1>9

\* The loop takes an event.  Only a revocation that is the head is lost, and then its
\* client is forgotten; an announcement that is the head has its revocation behind it.
LEMMA TakesKeeps == WriterInv /\ Takes /\ made' \in [Ids -> 0..MaxChunks] => WriterInv'
<1> SUFFICES ASSUME WriterInv, Takes, made' \in [Ids -> 0..MaxChunks] PROVE WriterInv'
  OBVIOUS
<1> USE DEF WriterInv
<1>n. PICK n \in Nat : n = Len(queue)
  BY DEF QueueTyped
<1>1. /\ queue' \in Seq(Events) /\ n \in Nat \ {0}
      /\ Head(queue) = queue[1]
      /\ DOMAIN queue = 1..n /\ DOMAIN queue' = 1..n - 1
      /\ \A k \in 1..n - 1 : queue'[k] = queue[k + 1]
      /\ UNCHANGED thread
  BY <1>n, Taken DEF QueueTyped, Takes
<1>2. \A c \in Clients : \A k \in 1..n - 1 :
        /\ ConnectedAt(k, c)' <=> ConnectedAt(k + 1, c)
        /\ DisconnectedAt(k, c)' <=> DisconnectedAt(k + 1, c)
  BY <1>1 DEF ConnectedAt, DisconnectedAt
<1>3. QueueTyped'
  BY <1>1 DEF QueueTyped
<1>4. RevokedByThread'
  <2>1. \A k \in 1..n - 1 : k + 1 \in 1..n
    BY <1>1
  <2>2. QED
    BY <1>1, <1>2, <2>1 DEF RevokedByThread
<1>5. AnnouncedThenRevoked'
  <2> SUFFICES ASSUME NEW c \in Clients, NEW j \in 1..n - 1,
                      ConnectedAt(j, c)', thread'[c] = "done"
               PROVE  \E k \in 1..n - 1 : k > j /\ DisconnectedAt(k, c)'
    BY <1>1 DEF AnnouncedThenRevoked
  <2>1. j + 1 \in 1..n /\ ConnectedAt(j + 1, c) /\ thread[c] = "done"
    BY <1>1, <1>2
  <2>2. PICK k \in 1..n : k > j + 1 /\ DisconnectedAt(k, c)
    BY <1>1, <2>1 DEF AnnouncedThenRevoked
  <2>3. k - 1 \in 1..n - 1 /\ k - 1 > j /\ (k - 1) + 1 = k
    BY <1>1, <2>2
  <2>4. DisconnectedAt(k - 1, c)'
    BY <1>2, <2>2, <2>3
  <2>5. QED
    BY <2>3, <2>4
<1>6. AboutToBeForgotten'
  <2> SUFFICES ASSUME NEW c \in clients', c \in Clients, thread'[c] = "done"
               PROVE  \E k \in 1..n - 1 : DisconnectedAt(k, c)'
    BY <1>1 DEF AboutToBeForgotten
  <2>1. \E k \in 1..n : k > 1 /\ DisconnectedAt(k, c)
    <3>1. CASE ConnectedAt(1, c)
      BY <1>1, <3>1 DEF AnnouncedThenRevoked
    <3>2. CASE ~ConnectedAt(1, c)
      <4>1. c \in clients /\ ~DisconnectedAt(1, c)
        BY <1>1, <3>2 DEF Takes, ConnectedAt, DisconnectedAt, Lifecycle
      <4>2. PICK k \in 1..n : DisconnectedAt(k, c)
        BY <1>1, <4>1 DEF AboutToBeForgotten
      <4>3. QED
        BY <1>1, <4>1, <4>2
    <3>3. QED
      BY <3>1, <3>2
  <2>2. PICK k \in 1..n : k > 1 /\ DisconnectedAt(k, c)
    BY <2>1
  <2>3. k - 1 \in 1..n - 1 /\ (k - 1) + 1 = k
    BY <1>1, <2>2
  <2>4. QED
    BY <1>2, <2>2, <2>3
<1>7. QED
  BY <1>3, <1>4, <1>5, <1>6

-----------------------------------------------------------------------------
\* The invariant holds at the start and after every step.
LEMMA WriterInvHolds == DaemonSpec => []WriterInv
<1>1. Init => WriterInv
  <2> SUFFICES ASSUME Init PROVE WriterInv
    OBVIOUS
  <2>1. queue = <<>> /\ clients = {} /\ queue \in Seq(Events) /\ DOMAIN queue = {}
    BY DEF Init
  <2>2. QueueTyped
    BY <2>1, DaemonAssumption DEF Init, QueueTyped
  <2>3. QED
    BY <2>1, <2>2 DEF WriterInv, RevokedByThread, AnnouncedThenRevoked, AboutToBeForgotten
<1>2. WriterInv /\ [Next]_vars => WriterInv'
  <2> SUFFICES ASSUME WriterInv, [Next]_vars PROVE WriterInv'
    OBVIOUS
  <2>1. Shape /\ made' \in [Ids -> 0..MaxChunks]
    BY StepShape DEF WriterInv
  <2>2. CASE Quiet
    BY <2>1, <2>2 DEF Quiet, WriterInv, QueueTyped, RevokedByThread, AnnouncedThenRevoked,
                      AboutToBeForgotten, ConnectedAt, DisconnectedAt
  <2>3. CASE Feeds
    BY <2>1, <2>3, FeedsKeep
  <2>4. CASE \E c \in Clients : AcceptFeeds(c)
    BY <2>1, <2>4, AcceptKeeps
  <2>5. CASE \E c \in Clients : EofFeeds(c)
    BY <2>1, <2>5, EofKeeps
  <2>6. CASE Takes
    BY <2>1, <2>6, TakesKeeps
  <2>7. QED
    BY <2>1, <2>2, <2>3, <2>4, <2>5, <2>6 DEF Shape
<1>3. QED
  BY <1>1, <1>2, PTL DEF DaemonSpec

\* NoStaleWriter: whenever a client's thread has ended and the loop has handled its
\* revocation, the client's writer is not registered: broadcasts cannot go on writing to
\* a socket nobody reads (daemon_server.rs, acceptor and ClientDisconnected).
THEOREM GoneIsForgotten == DaemonSpec => []NoStaleWriter
<1>1. WriterInv => NoStaleWriter
  BY DEF WriterInv, AboutToBeForgotten, NoStaleWriter, DisconnectedAt
<1>2. QED
  BY <1>1, WriterInvHolds, PTL

(* How many elements of a sequence are in W *)

Count(q, W) == Cardinality({k \in DOMAIN q : q[k] \in W})

LEMMA CountIsNat ==
  ASSUME NEW S, NEW q \in Seq(S), NEW W
  PROVE  IsFiniteSet({k \in DOMAIN q : q[k] \in W}) /\ Count(q, W) \in Nat
<1>1. IsFiniteSet(1..Len(q)) /\ {k \in DOMAIN q : q[k] \in W} \subseteq 1..Len(q)
  BY FS_Interval
<1>2. QED
  BY <1>1, FS_Subset, FS_CardinalityType DEF Count

LEMMA CountAppend ==
  ASSUME NEW S, NEW q \in Seq(S), NEW u \in S, NEW W
  PROVE  Count(Append(q, u), W) = Count(q, W) + IF u \in W THEN 1 ELSE 0
<1> DEFINE before == {k \in DOMAIN q : q[k] \in W}
           n == Len(q) + 1
<1>1. /\ DOMAIN Append(q, u) = DOMAIN q \union {n} /\ n \notin DOMAIN q
      /\ Append(q, u)[n] = u /\ \A k \in DOMAIN q : Append(q, u)[k] = q[k]
  OBVIOUS
<1>2. {k \in DOMAIN Append(q, u) : Append(q, u)[k] \in W} = before \union IF u \in W THEN {n} ELSE {}
  BY <1>1
<1>3. IsFiniteSet(before) /\ n \notin before
  BY <1>1, CountIsNat
<1>4. Cardinality(before) \in Nat /\ Cardinality(before \union {n}) = Cardinality(before) + 1
  BY <1>3, FS_AddElement, FS_CardinalityType
<1>5. CASE u \in W
  BY <1>2, <1>4, <1>5 DEF Count
<1>6. CASE u \notin W
  <2>1. Count(Append(q, u), W) = Cardinality(before)
    BY <1>2, <1>6 DEF Count
  <2>2. Count(q, W) = Cardinality(before)
    BY DEF Count
  <2> HIDE DEF before
  <2>3. QED
    BY <1>4, <1>6, <2>1, <2>2
<1>7. QED
  BY <1>5, <1>6

LEMMA CountTail ==
  ASSUME NEW S, NEW q \in Seq(S), q # <<>>, NEW W
  PROVE  Count(q, W) = Count(Tail(q), W) + IF Head(q) \in W THEN 1 ELSE 0
<1> DEFINE all == {k \in DOMAIN q : q[k] \in W}
           later == all \ {1}
           after == {k \in DOMAIN Tail(q) : Tail(q)[k] \in W}
           up == [k \in after |-> k + 1]
<1>1. /\ Len(q) \in Nat \ {0} /\ DOMAIN q = 1..Len(q) /\ DOMAIN Tail(q) = 1..(Len(q) - 1)
      /\ Head(q) = q[1] /\ \A k \in 1..(Len(q) - 1) : Tail(q)[k] = q[k + 1]
  OBVIOUS
<1>2. IsFiniteSet(all) /\ IsFiniteSet(after) /\ Cardinality(after) \in Nat
  <2>1. Tail(q) \in Seq(S)
    OBVIOUS
  <2>2. QED
    BY <2>1, CountIsNat DEF Count
<1>3. up \in Bijection(after, later)
  <2>1. \A k \in after : k + 1 \in later
    BY <1>1
  <2>2. \A m \in later : m - 1 \in after /\ (m - 1) + 1 = m
    BY <1>1
  <2>3. up \in [after -> later] /\ \A j, k \in after : up[j] = up[k] => j = k
    BY <1>1, <2>1
  <2>4. \A m \in later : \E k \in after : up[k] = m
    BY <2>2
  <2>5. QED
    BY <2>3, <2>4 DEF Bijection, Injection, Surjection, IsInjective
<1>4. Cardinality(later) = Cardinality(after)
  BY <1>2, <1>3, FS_Bijection DEF ExistsBijection
<1>5. /\ 1 \in all => Cardinality(later) = Cardinality(all) - 1
      /\ 1 \notin all => Cardinality(later) = Cardinality(all)
  <2> HIDE DEF all
  <2>1. IsFiniteSet(all)
    BY <1>2
  <2>2. QED
    BY <2>1, FS_RemoveElement
<1>6. 1 \in all <=> Head(q) \in W
  BY <1>1
<1>7. Cardinality(all) \in Nat
  BY <1>2, FS_CardinalityType
<1>8. Count(q, W) = Cardinality(all) /\ Count(Tail(q), W) = Cardinality(after)
  BY DEF Count
<1> HIDE DEF all, later, after
<1>9. CASE Head(q) \in W
  BY <1>2, <1>4, <1>5, <1>6, <1>7, <1>8, <1>9
<1>10. CASE Head(q) \notin W
  BY <1>2, <1>4, <1>5, <1>6, <1>7, <1>8, <1>10
<1>11. QED
  BY <1>9, <1>10

-----------------------------------------------------------------------------
(* Types *)

\* Appending to a sequence keeps its type.

-----------------------------------------------------------------------------
(* A session's chunks in a queue q *)

\* Where they are, and the first chunk of m that is not among them.
Waits(q, i) == {k \in DOMAIN q : q[k].kind = "Output" /\ q[k].session = i}
Before(q, i, m) == m - Cardinality(Waits(q, i))

\* They are those from the first that was not handled to the last that was made, in order.
Lined(q, i, m) ==
  /\ Before(q, i, m) \in 0..m
  /\ {q[k].n : k \in Waits(q, i)} = Before(q, i, m) + 1..m
  /\ \A j, k \in Waits(q, i) : j < k => q[j].n < q[k].n

Outputs(i) == {e \in Events : e.kind = "Output" /\ e.session = i}

\* What an event carries.
LEMMA EventFacts ==
  ASSUME NEW e \in Events
  PROVE  /\ e.kind = "Output" => e.session \in Ids /\ e.n \in 1..MaxChunks
         /\ e.kind = "Exit" => e.session \in Ids
         /\ e.kind \in Lifecycle => e.client \in Clients
         /\ e.kind = "Connected" => e = Announces(e.client)
         /\ e.kind = "Command" => e.client \in Clients /\ e.cmd \in Commands
  BY DEF Events, Lifecycle, Announces

LEMMA WaitsCounted ==
  ASSUME NEW q \in Seq(Events), NEW i
  PROVE  /\ Cardinality(Waits(q, i)) = Count(q, Outputs(i))
         /\ Cardinality(Waits(q, i)) \in Nat
<1>1. \A k \in DOMAIN q : q[k] \in Events
  OBVIOUS
<1>2. Waits(q, i) = {k \in DOMAIN q : q[k] \in Outputs(i)}
  BY <1>1 DEF Waits, Outputs
<1>3. QED
  BY <1>2, CountIsNat DEF Count

\* Anything else may be put on the queue.
LEMMA OtherAppended ==
  ASSUME NEW q \in Seq(Events), NEW e \in Events, NEW i, ~(e.kind = "Output" /\ e.session = i),
         NEW m \in Nat
  PROVE  /\ Before(Append(q, e), i, m) = Before(q, i, m)
         /\ Lined(q, i, m) => Lined(Append(q, e), i, m)
<1> DEFINE r == Append(q, e)
<1>1. /\ DOMAIN r = DOMAIN q \cup {Len(q) + 1} /\ r[Len(q) + 1] = e
      /\ \A k \in DOMAIN q : r[k] = q[k]
  OBVIOUS
<1>2. Waits(r, i) = Waits(q, i) /\ \A k \in Waits(q, i) : r[k] = q[k]
  BY <1>1 DEF Waits
<1> HIDE DEF r
<1>3. {r[k].n : k \in Waits(r, i)} = {q[k].n : k \in Waits(q, i)}
  BY <1>2
<1>4. Before(r, i, m) = Before(q, i, m)
  BY <1>2 DEF Before
<1>5. Lined(q, i, m) => Lined(r, i, m)
  BY <1>2, <1>3, <1>4 DEF Lined
<1>6. QED
  BY <1>4, <1>5 DEF r

\* A new chunk goes to the end.
LEMMA ChunkAppended ==
  ASSUME NEW q \in Seq(Events), NEW i \in Ids, NEW m \in Nat, m < MaxChunks,
         Lined(q, i, m)
  PROVE  LET r == Append(q, [kind |-> "Output", session |-> i, n |-> m + 1])
         IN  Before(r, i, m + 1) = Before(q, i, m) /\ Lined(r, i, m + 1)
<1> DEFINE e == [kind |-> "Output", session |-> i, n |-> m + 1]
           r == Append(q, e)
           z == Len(q) + 1
           b == Before(q, i, m)
<1>1. e \in Events
  BY DaemonAssumption DEF Events
<1>2. /\ DOMAIN r = DOMAIN q \cup {z} /\ z \notin DOMAIN q /\ r[z] = e
      /\ (\A k \in DOMAIN q : r[k] = q[k] /\ k < z)
  OBVIOUS
<1>3. Waits(r, i) = Waits(q, i) \cup {z} /\ z \notin Waits(q, i)
  BY <1>2 DEF Waits
<1>4. Count(r, Outputs(i)) = Count(q, Outputs(i)) + 1
  BY <1>1, CountAppend DEF Outputs
<1>5. r \in Seq(Events)
  BY <1>1, Appended
<1>6. Before(r, i, m + 1) = b
  <2>1. Cardinality(Waits(r, i)) = Cardinality(Waits(q, i)) + 1 /\ Cardinality(Waits(q, i)) \in Nat
    BY <1>4, <1>5, WaitsCounted
  <2> HIDE DEF r
  <2>2. QED
    BY <2>1 DEF Before
<1>7. b \in 0..m /\ {q[k].n : k \in Waits(q, i)} = b + 1..m
  BY DEF Lined
<1>8. \A k \in Waits(q, i) : r[k] = q[k] /\ k < z /\ q[k].n <= m
  <2>1. \A k \in Waits(q, i) : q[k].n \in b + 1..m
    BY <1>7
  <2>2. QED
    BY <1>2, <2>1, <1>7 DEF Waits
<1>9. r[z].n = m + 1
  BY <1>2
<1> HIDE DEF r, z, b, e
<1>10. {r[k].n : k \in Waits(r, i)} = {q[k].n : k \in Waits(q, i)} \cup {m + 1}
  BY <1>3, <1>8, <1>9
<1>11. (b + 1..m) \cup {m + 1} = b + 1..m + 1 /\ b \in 0..m + 1
  BY <1>7
<1>12. \A j, k \in Waits(r, i) : j < k => r[j].n < r[k].n
  <2>1. z \in Nat
    BY DEF z
  <2>2. Waits(q, i) \subseteq Nat
    BY DEF Waits
  <2>3. \A j, k \in Waits(q, i) : j < k => q[j].n < q[k].n
    BY DEF Lined
  <2>4. \A k \in Waits(q, i) : q[k].n \in Nat
    <3>1. \A k \in Waits(q, i) : q[k].n \in b + 1..m
      BY <1>7
    <3>2. QED
      BY <1>7, <3>1
  <2>5. QED
    BY <1>3, <1>8, <1>9, <2>1, <2>2, <2>3, <2>4
<1>13. Lined(r, i, m + 1)
  BY <1>6, <1>7, <1>10, <1>11, <1>12 DEF Lined
<1>14. QED
  BY <1>6, <1>13 DEF r, e, b

\* Anything else may be taken off.
LEMMA OtherTaken ==
  ASSUME NEW q \in Seq(Events), q # <<>>, NEW i, NEW m \in Nat,
         ~(Head(q).kind = "Output" /\ Head(q).session = i)
  PROVE  /\ Before(Tail(q), i, m) = Before(q, i, m)
         /\ Lined(q, i, m) => Lined(Tail(q), i, m)
<1> DEFINE r == Tail(q)
<1>1. /\ r \in Seq(Events) /\ Head(q) = q[1] /\ DOMAIN q = 1..Len(q) /\ DOMAIN r = 1..Len(q) - 1
      /\ Len(q) \in Nat \ {0} /\ \A k \in 1..Len(q) - 1 : r[k] = q[k + 1]
  BY Taken
<1> HIDE DEF r
<1>2. \A k \in Waits(r, i) : k + 1 \in Waits(q, i) /\ r[k] = q[k + 1]
  BY <1>1 DEF Waits
<1>3. \A k \in Waits(q, i) : k - 1 \in Waits(r, i) /\ r[k - 1] = q[k]
  BY <1>1 DEF Waits
<1>4. Head(q) \notin Outputs(i)
  BY DEF Outputs
<1>5. Count(q, Outputs(i)) = Count(r, Outputs(i)) /\ Count(r, Outputs(i)) \in Nat
  <2>1. Count(r, Outputs(i)) \in Nat
    BY <1>1, CountIsNat
  <2>2. Count(q, Outputs(i)) = Count(r, Outputs(i)) + 0
    BY <1>4, CountTail DEF r
  <2>3. QED
    BY <2>1, <2>2
<1>6. Before(r, i, m) = Before(q, i, m)
  BY <1>1, <1>5, WaitsCounted DEF Before
<1>7. {r[k].n : k \in Waits(r, i)} = {q[k].n : k \in Waits(q, i)}
  BY <1>2, <1>3
<1>8. ASSUME Lined(q, i, m) PROVE \A j, k \in Waits(r, i) : j < k => r[j].n < r[k].n
  <2>1. \A j, k \in Waits(r, i) : j < k => j + 1 < k + 1
    BY <1>1 DEF Waits
  <2>2. QED
    BY <1>2, <1>8, <2>1 DEF Lined
<1>9. Lined(q, i, m) => Lined(r, i, m)
  BY <1>6, <1>7, <1>8 DEF Lined
<1>10. QED
  BY <1>6, <1>9 DEF r

\* The session's chunk that is taken off is the first that was not handled.
LEMMA ChunkTaken ==
  ASSUME NEW q \in Seq(Events), q # <<>>, NEW i \in Ids, NEW m \in Nat,
         Head(q).kind = "Output" /\ Head(q).session = i, Lined(q, i, m)
  PROVE  /\ Before(Tail(q), i, m) = Before(q, i, m) + 1
         /\ Head(q).n = Before(q, i, m) + 1
         /\ Lined(Tail(q), i, m)
<1> DEFINE r == Tail(q)
           b == Before(q, i, m)
<1>1. /\ r \in Seq(Events) /\ Head(q) = q[1] /\ DOMAIN q = 1..Len(q) /\ DOMAIN r = 1..Len(q) - 1
      /\ Len(q) \in Nat \ {0} /\ (\A k \in 1..Len(q) - 1 : r[k] = q[k + 1]) /\ Head(q) \in Events
  BY Taken
<1> HIDE DEF r
<1>2. \A k \in Waits(r, i) : k + 1 \in Waits(q, i) /\ r[k] = q[k + 1] /\ k + 1 > 1
  BY <1>1 DEF Waits
<1>3. \A k \in Waits(q, i) : k # 1 => k - 1 \in Waits(r, i) /\ r[k - 1] = q[k] /\ 1 < k
  BY <1>1 DEF Waits
<1>4. Head(q) \in Outputs(i)
  BY <1>1 DEF Outputs
<1>5. Count(q, Outputs(i)) = Count(r, Outputs(i)) + 1 /\ Count(r, Outputs(i)) \in Nat
  BY <1>1, <1>4, CountTail, CountIsNat DEF r
<1>6. Before(r, i, m) = b + 1 /\ b + 1 <= m
  <2>1. /\ Cardinality(Waits(q, i)) = Count(q, Outputs(i))
        /\ Cardinality(Waits(r, i)) = Count(r, Outputs(i))
    BY <1>1, WaitsCounted
  <2> DEFINE x == Count(q, Outputs(i))
             y == Count(r, Outputs(i))
  <2>2. x = y + 1 /\ y \in Nat /\ b = m - x /\ Before(r, i, m) = m - y
    BY <1>5, <2>1 DEF Before
  <2> HIDE DEF x, y, b
  <2>3. QED
    BY <2>2
<1>7. b \in 0..m /\ {q[k].n : k \in Waits(q, i)} = b + 1..m
  BY DEF Lined
<1>8. 1 \in Waits(q, i)
  BY <1>1 DEF Waits
<1> HIDE DEF b
<1>9. q[1].n = b + 1 /\ \A k \in Waits(q, i) : k # 1 => q[k].n # b + 1
  <2>1. PICK k \in Waits(q, i) : q[k].n = b + 1
    <3>1. b + 1 \in b + 1..m
      BY <1>6, <1>7
    <3>2. QED
      BY <1>7, <3>1
  <2>2. \A j \in Waits(q, i) : q[j].n \in b + 1..m
    BY <1>7
  <2>3. \A j \in Waits(q, i) : j # 1 => q[1].n < q[j].n
    BY <1>3, <1>8 DEF Lined
  <2>4. k = 1
    BY <1>7, <1>8, <2>1, <2>2, <2>3
  <2>5. QED
    BY <1>7, <1>8, <2>1, <2>2, <2>3, <2>4
<1>10. {r[k].n : k \in Waits(r, i)} = {q[k].n : k \in Waits(q, i)} \ {b + 1}
  <2>1. \A k \in Waits(r, i) : r[k].n \in {q[j].n : j \in Waits(q, i)} \ {b + 1}
    BY <1>2, <1>9, <1>1 DEF Waits
  <2>2. \A j \in Waits(q, i) : q[j].n # b + 1 => q[j].n \in {r[k].n : k \in Waits(r, i)}
    BY <1>3, <1>9
  <2>3. QED
    BY <2>1, <2>2
<1>11. (b + 1..m) \ {b + 1} = (b + 1) + 1..m /\ b + 1 \in 0..m
  BY <1>6, <1>7
<1>12. \A j, k \in Waits(r, i) : j < k => r[j].n < r[k].n
  <2>1. \A j, k \in Waits(r, i) : j < k => j + 1 < k + 1
    BY <1>1 DEF Waits
  <2>2. QED
    BY <1>2, <2>1 DEF Lined
<1>13. Lined(r, i, m)
  BY <1>6, <1>7, <1>10, <1>11, <1>12 DEF Lined
<1>14. QED
  BY <1>1, <1>6, <1>9, <1>13 DEF r, b

-----------------------------------------------------------------------------
(* The agents' side of the queue *)

\* e is output or the exit of session i.
About(i, e) == e.kind \in {"Output", "Exit"} /\ e.session = i

\* Nothing more will come of session i.
Over(i) == pump[i] = "done" /\ \A k \in DOMAIN queue : ~About(i, queue[k])

AgentsTyped ==
  /\ QueueTyped
  /\ sessions \in Seq(AgentState)
  /\ pump \in [Ids -> {"pumping", "done"}]

\* No session is created beyond the bound.
Room == Len(sessions) + Cardinality(Ordered) <= MaxSessions

InLine == \A i \in Ids : Lined(queue, i, made[i])

\* An Exit is the last word of its session's thread.
LastOfThread ==
  \A k \in DOMAIN queue : queue[k].kind = "Exit" =>
    /\ pump[queue[k].session] = "done"
    /\ \A j \in DOMAIN queue : j > k => ~About(queue[k].session, queue[j])

NotYet == \A i \in Ids \ Known : Over(i) /\ made[i] = 0

LineInv == AgentsTyped /\ Room /\ InLine /\ LastOfThread /\ NotYet

\* A step that handles no output: where the loop stands in each session's output
\* stays, and a session that is over stays over.
Steady == \A i \in Ids : Handled(i)' = Handled(i)
Lasting ==
  /\ Known \subseteq Known'
  /\ \A i \in Ids : pump'[i] = "done" /\ Over(i) => Over(i)' /\ made'[i] = made[i]
  /\ \A i \in Known : pump[i] = "done" => pump'[i] = "done"

LEMMA HandledIs == \A i \in Ids : Handled(i) = Before(queue, i, made[i])
  BY DEF Handled, Before, Waits

LEMMA HandledIsThen == \A i \in Ids : Handled(i)' = Before(queue', i, made'[i])
  BY DEF Handled, Before, Waits

Creations == {e \in Events : e.kind = "Command" /\ e.cmd.kind = "create"}

LEMMA OrderedCounted ==
  ASSUME queue \in Seq(Events)
  PROVE  Cardinality(Ordered) = Count(queue, Creations) /\ Cardinality(Ordered) \in Nat
<1>1. \A k \in DOMAIN queue : queue[k] \in Events
  OBVIOUS
<1>2. Ordered = {k \in DOMAIN queue : queue[k] \in Creations}
  BY <1>1 DEF Ordered, Creations
<1>3. QED
  BY <1>2, CountIsNat DEF Count

LEMMA OrderedCountedThen ==
  ASSUME queue' \in Seq(Events)
  PROVE  Cardinality(Ordered)' = Count(queue', Creations) /\ Count(queue', Creations) \in Nat
<1>1. \A k \in DOMAIN queue' : queue'[k] \in Events
  OBVIOUS
<1>2. Ordered' = {k \in DOMAIN queue' : queue'[k] \in Creations}
  BY <1>1 DEF Ordered, Creations
<1>3. QED
  BY <1>2, CountIsNat DEF Count

\* What is known of the sessions and of an event on the queue.
LEMMA LineFacts ==
  ASSUME LineInv
  PROVE  /\ queue \in Seq(Events) /\ made \in [Ids -> 0..MaxChunks] /\ MaxChunks \in Nat
         /\ sessions \in Seq(AgentState) /\ Len(sessions) \in Nat /\ Known = 1..Len(sessions)
         /\ pump \in [Ids -> {"pumping", "done"}] /\ Len(sessions) <= MaxSessions
         /\ Known \subseteq Ids /\ Cardinality(Ordered) \in Nat /\ MaxSessions \in Nat
<1>1. /\ queue \in Seq(Events) /\ made \in [Ids -> 0..MaxChunks]
      /\ sessions \in Seq(AgentState) /\ pump \in [Ids -> {"pumping", "done"}]
      /\ MaxChunks \in Nat /\ MaxSessions \in Nat
  BY DaemonAssumption DEF LineInv, AgentsTyped, QueueTyped
<1>2. Cardinality(Ordered) \in Nat /\ Len(sessions) \in Nat /\ Known = 1..Len(sessions)
  BY <1>1, OrderedCounted DEF Known
<1>3. Len(sessions) <= MaxSessions
  BY <1>1, <1>2 DEF LineInv, Room
<1>4. QED
  BY <1>1, <1>2, <1>3 DEF Ids

\* A step of neither the agents nor the queue.
LEMMA LineRests ==
  ASSUME LineInv, UNCHANGED <<queue, made, pump, sessions, thread>>
  PROVE  LineInv' /\ Steady /\ Lasting
<1>1. (AgentsTyped /\ LastOfThread /\ NotYet)'
  BY DEF LineInv, AgentsTyped, QueueTyped, LastOfThread, NotYet, Over, Known
<1>2. Room'
  BY DEF LineInv, Room, Ordered
<1>3. InLine'
  BY DEF LineInv, InLine
<1>4. Steady /\ Lasting
  BY DEF Steady, Lasting, Handled, Over, Known
<1>5. QED
  BY <1>1, <1>2, <1>3, <1>4 DEF LineInv

\* An event is put on the queue; pump may have ended for the session it is about.
LEMMA LineAppends ==
  ASSUME LineInv, NEW e \in Events, queue' = Append(queue, e),
         thread' \in [Clients -> {"none", "reading", "done"}],
         UNCHANGED sessions,
         e \in Creations => Len(sessions) + Cardinality(Ordered) < MaxSessions,
         \/ e.kind \notin {"Output", "Exit"} /\ UNCHANGED <<made, pump>>
         \/ /\ e.kind = "Exit" /\ pump[e.session] = "pumping"
            /\ pump' = [pump EXCEPT ![e.session] = "done"] /\ UNCHANGED made
         \/ /\ e.kind = "Output" /\ pump[e.session] = "pumping" /\ made[e.session] < MaxChunks
            /\ e = [kind |-> "Output", session |-> e.session, n |-> made[e.session] + 1]
            /\ made' = [made EXCEPT ![e.session] = @ + 1] /\ UNCHANGED pump
  PROVE  LineInv' /\ Steady /\ Lasting
<1> USE LineFacts, EventFacts
<1>1. PICK z \in Nat : z = Len(queue) + 1
  BY LineFacts
<1>2. /\ queue' \in Seq(Events) /\ DOMAIN queue' = 1..z /\ DOMAIN queue = 1..z - 1
      /\ queue'[z] = e /\ \A k \in 1..z - 1 : queue'[k] = queue[k]
  BY <1>1, Appended
<1>3. AgentsTyped'
  <2>1. made' \in [Ids -> 0..MaxChunks]
    <3>1. CASE UNCHANGED made
      BY <3>1
    <3>2. CASE e.kind = "Output"
      <4>1. PICK s \in Ids : s = e.session
        BY <3>2
      <4>2. made[s] \in 0..MaxChunks /\ made[s] < MaxChunks /\ made' = [made EXCEPT ![s] = @ + 1]
        BY <3>2, <4>1
      <4>3. made[s] + 1 \in 0..MaxChunks
        BY <4>2
      <4>4. QED
        BY ONLY <4>2, <4>3, made \in [Ids -> 0..MaxChunks]
    <3>3. QED
      BY <3>1, <3>2
  <2>2. pump' \in [Ids -> {"pumping", "done"}]
    OBVIOUS
  <2>3. QED
    BY <1>2, <2>1, <2>2 DEF AgentsTyped, QueueTyped
<1>4. Room'
  <2>1. Cardinality(Ordered)' = Cardinality(Ordered) + IF e \in Creations THEN 1 ELSE 0
    <3>1. Count(queue', Creations) = Count(queue, Creations) + IF e \in Creations THEN 1 ELSE 0
      BY CountAppend
    <3>2. QED
      BY <1>2, <3>1, OrderedCounted, OrderedCountedThen
  <2>2. Len(sessions') = Len(sessions)
    OBVIOUS
  <2>3. CASE e \in Creations
    BY <2>1, <2>2, <2>3 DEF LineInv, Room
  <2>4. CASE e \notin Creations
    BY <2>1, <2>2, <2>4 DEF LineInv, Room
  <2>5. QED
    BY <2>3, <2>4
<1>5. ASSUME NEW i \in Ids
      PROVE  Lined(queue', i, made'[i]) /\ Before(queue', i, made'[i]) = Before(queue, i, made[i])
  <2>1. Lined(queue, i, made[i]) /\ made[i] \in Nat
    BY DEF LineInv, InLine
  <2>2. CASE e.kind = "Output" /\ e.session = i
    BY <2>1, <2>2, ChunkAppended
  <2>3. CASE ~(e.kind = "Output" /\ e.session = i)
    <3>1. made'[i] = made[i]
      BY <2>3
    <3>2. QED
      BY <2>1, <2>3, <3>1, OtherAppended
  <2>4. QED
    BY <2>2, <2>3
<1>6. InLine' /\ Steady
  BY <1>5, HandledIs, HandledIsThen DEF InLine, Steady
<1>7. LastOfThread'
  <2> SUFFICES ASSUME NEW k \in 1..z, queue'[k].kind = "Exit"
               PROVE  /\ pump'[queue'[k].session] = "done"
                      /\ \A j \in 1..z : j > k => ~About(queue'[k].session, queue'[j])
    BY <1>2 DEF LastOfThread
  <2>1. CASE k = z
    BY <1>2, <2>1
  <2>2. CASE k # z
    <3>1. k \in 1..z - 1 /\ queue'[k] = queue[k] /\ queue[k].session \in Ids
      BY <1>2, <2>2
    <3>2. /\ pump[queue[k].session] = "done"
          /\ \A j \in 1..z - 1 : j > k => ~About(queue[k].session, queue[j])
      BY <1>2, <3>1 DEF LineInv, LastOfThread
    <3>3. ~About(queue[k].session, e) /\ pump'[queue[k].session] = "done"
      BY <3>1, <3>2 DEF About
    <3>4. QED
      BY <1>2, <3>1, <3>2, <3>3
  <2>3. QED
    BY <2>1, <2>2
<1>8. \A i \in Ids : Over(i) => Over(i)' /\ made'[i] = made[i]
  <2> SUFFICES ASSUME NEW i \in Ids, Over(i) PROVE Over(i)' /\ made'[i] = made[i]
    OBVIOUS
  <2>1. ~About(i, e) /\ pump'[i] = "done" /\ made'[i] = made[i]
    BY DEF About, Over
  <2>2. QED
    BY <1>2, <2>1 DEF Over
<1>9. NotYet' /\ Lasting
  <2>1. Known' = Known
    BY DEF Known
  <2>2. \A i \in Known : pump[i] = "done" => pump'[i] = "done"
    OBVIOUS
  <2>3. QED
    BY <1>8, <2>1, <2>2 DEF LineInv, NotYet, Lasting
<1>10. QED
  BY <1>3, <1>4, <1>6, <1>7, <1>9 DEF LineInv

\* The loop takes an event; an Exit ends its session and a creation starts one.
Handles(h) ==
  /\ queue # <<>> /\ h = Head(queue) /\ queue' = Tail(queue)
  /\ UNCHANGED <<made, thread>>
  /\ \/ h.kind # "Exit" /\ h \notin Creations /\ UNCHANGED <<pump, sessions>>
     \/ h.kind = "Exit" /\ sessions' = [sessions EXCEPT ![h.session] = "Done"] /\ UNCHANGED pump
     \/ /\ h \in Creations
        /\ \E state \in {"Running", "Failed"} :
             /\ sessions' = Append(sessions, state)
             /\ pump' = [pump EXCEPT ![Len(sessions) + 1] = IF state = "Running" THEN "pumping" ELSE "done"]

\* A chunk that is handled is the next of its session.
NextHandled(i, n) ==
  /\ n = Handled(i) + 1 /\ Handled(i)' = n
  /\ \A j \in Ids \ {i} : Handled(j)' = Handled(j)

\* Replacing an element of a sequence.
LEMMA ExceptIs ==
  ASSUME NEW S, NEW q \in Seq(S), NEW i \in DOMAIN q, NEW e \in S
  PROVE  /\ [q EXCEPT ![i] = e] \in Seq(S)
         /\ Len([q EXCEPT ![i] = e]) = Len(q)
         /\ DOMAIN [q EXCEPT ![i] = e] = DOMAIN q
  OBVIOUS

LEMMA LineTakes ==
  ASSUME LineInv, NEW h, Handles(h)
  PROVE  /\ LineInv' /\ Lasting
         /\ h \in Events
         /\ IF h.kind = "Output" THEN NextHandled(h.session, h.n) ELSE Steady
         /\ h.kind \in {"Output", "Exit"} => h.session \in Known
         /\ h.kind = "Exit" => Over(h.session)'
<1>0. PICK z \in Nat : z = Len(queue) - 1
  <2>1. Len(queue) \in Nat \ {0}
    BY LineFacts, Taken DEF Handles
  <2>2. QED
    BY <2>1
<1>1. /\ queue' \in Seq(Events) /\ DOMAIN queue' = 1..z /\ DOMAIN queue = 1..z + 1
      /\ queue[1] = h /\ h \in Events /\ \A k \in 1..z : queue'[k] = queue[k + 1]
  BY <1>0, LineFacts, Taken DEF Handles
<1>2. /\ \A k \in 1..z : k + 1 \in 1..z + 1 /\ k + 1 > 1
      /\ \A j, k \in 1..z : j > k => j + 1 > k + 1
      /\ 1 \in 1..z + 1
  OBVIOUS
<1>3. UNCHANGED <<made, thread>>
  BY DEF Handles
<1>4. h.kind \in {"Output", "Exit"} => h.session \in Ids
  BY <1>1, EventFacts
<1>5. h.kind \in {"Output", "Exit"} => h.session \in Known
  <2> SUFFICES ASSUME h.kind \in {"Output", "Exit"}, h.session \notin Known PROVE FALSE
    OBVIOUS
  <2>1. About(h.session, queue[1])
    BY <1>1 DEF About
  <2>2. QED
    BY <1>1, <1>2, <1>4, <2>1 DEF LineInv, NotYet, Over
<1>6. /\ Len(sessions') = Len(sessions) + (IF h \in Creations THEN 1 ELSE 0)
      /\ sessions' \in Seq(AgentState) /\ Known \subseteq Known'
  <2>1. CASE h.kind # "Exit" /\ h \notin Creations
    BY <2>1, LineFacts DEF Handles, Known
  <2>2. CASE h.kind = "Exit"
    <3>1. sessions' = [sessions EXCEPT ![h.session] = "Done"] /\ h \notin Creations
      BY <2>2 DEF Handles, Creations
    <3>2. sessions' \in Seq(AgentState) /\ Len(sessions') = Len(sessions) /\ Known' = Known
      <4>1. sessions \in Seq(AgentState) /\ "Done" \in AgentState
        BY LineFacts DEF AgentState
      <4>2. QED
        BY ONLY <3>1, <4>1, <1>5, <2>2, ExceptIs DEF Known
    <3>3. QED
      BY <3>1, <3>2, LineFacts
  <2>3. CASE h \in Creations
    <3>1. PICK state \in AgentState : sessions' = Append(sessions, state)
      BY <2>3 DEF Handles, Creations, AgentState
    <3>2. QED
      BY <2>3, <3>1, LineFacts DEF Known
  <2>4. QED
    BY <2>1, <2>2, <2>3
<1>7. Cardinality(Ordered) = Cardinality(Ordered)' + (IF h \in Creations THEN 1 ELSE 0)
      /\ Cardinality(Ordered)' \in Nat
  <2>1. Count(queue, Creations) = Count(Tail(queue), Creations) + IF h \in Creations THEN 1 ELSE 0
    BY LineFacts, CountTail DEF Handles
  <2>2. QED
    BY <1>1, <2>1, LineFacts, OrderedCounted, OrderedCountedThen DEF Handles
<1>8. Room'
  <2>1. CASE h \in Creations
    BY <2>1, <1>6, <1>7, LineFacts DEF LineInv, Room
  <2>2. CASE h \notin Creations
    BY <2>2, <1>6, <1>7, LineFacts DEF LineInv, Room
  <2>3. QED
    BY <2>1, <2>2
<1>9. /\ pump' \in [Ids -> {"pumping", "done"}]
      /\ \A i \in Known : pump'[i] = pump[i]
      /\ \A i \in Ids : pump'[i] # pump[i] => i = Len(sessions) + 1 /\ i \notin Known /\ h \in Creations
  <2>1. CASE h \in Creations
    <3>1. PICK s \in {"pumping", "done"} : pump' = [pump EXCEPT ![Len(sessions) + 1] = s]
      BY <2>1 DEF Handles, Creations
    <3>2. pump \in [Ids -> {"pumping", "done"}] /\ Known \subseteq Ids /\ Len(sessions) + 1 \notin Known
      BY LineFacts
    <3>3. QED
      BY ONLY <2>1, <3>1, <3>2
  <2>2. CASE h \notin Creations
    BY <2>2, LineFacts DEF Handles
  <2>3. QED
    BY <2>1, <2>2
<1>10. AgentsTyped'
  BY <1>1, <1>3, <1>6, <1>9 DEF AgentsTyped, QueueTyped, LineInv
<1>11. InLine' /\ IF h.kind = "Output" THEN NextHandled(h.session, h.n) ELSE Steady
  <2>1. \A i \in Ids : Lined(queue, i, made[i]) /\ made[i] \in Nat /\ made'[i] = made[i]
    BY <1>3, LineFacts DEF LineInv, InLine
  <2>2. ASSUME NEW i \in Ids, ~(h.kind = "Output" /\ h.session = i)
        PROVE  Lined(queue', i, made'[i]) /\ Handled(i)' = Handled(i)
    BY <2>1, <2>2, LineFacts, OtherTaken, HandledIs, HandledIsThen DEF Handles
  <2>3. ASSUME h.kind = "Output"
        PROVE  /\ Lined(queue', h.session, made'[h.session])
               /\ h.n = Handled(h.session) + 1 /\ Handled(h.session)' = h.n
    BY <2>1, <2>3, <1>4, LineFacts, ChunkTaken, HandledIs, HandledIsThen DEF Handles
  <2>4. QED
    BY <2>2, <2>3, <1>4 DEF InLine, NextHandled, Steady
<1>12. \A i \in Ids : pump'[i] = "done" /\ Over(i) => Over(i)' /\ made'[i] = made[i]
  BY <1>1, <1>2, <1>3 DEF Over
<1>13. Lasting
  BY <1>6, <1>9, <1>12 DEF Lasting
<1>14. LastOfThread'
  <2> SUFFICES ASSUME NEW k \in 1..z, queue'[k].kind = "Exit"
               PROVE  /\ pump'[queue'[k].session] = "done"
                      /\ \A j \in 1..z : j > k => ~About(queue'[k].session, queue'[j])
    BY <1>1 DEF LastOfThread
  <2>1. queue'[k] = queue[k + 1] /\ queue[k + 1].kind = "Exit" /\ queue[k + 1] \in Events /\ k + 1 \in 1..z + 1
    BY <1>1, <1>2, LineFacts
  <2>2. /\ pump[queue[k + 1].session] = "done"
        /\ \A j \in 1..z + 1 : j > k + 1 => ~About(queue[k + 1].session, queue[j])
    BY <1>1, <2>1 DEF LineInv, LastOfThread
  <2>3. queue[k + 1].session \in Known
    <3>1. queue[k + 1].session \in Ids /\ About(queue[k + 1].session, queue[k + 1])
      BY <2>1, EventFacts DEF About
    <3>2. QED
      BY <1>1, <2>1, <3>1 DEF LineInv, NotYet, Over
  <2>4. QED
    BY <1>1, <1>2, <1>9, <2>1, <2>2, <2>3
<1>15. NotYet'
  <2> SUFFICES ASSUME NEW i \in Ids, i \notin Known' PROVE Over(i)' /\ made'[i] = 0
    BY DEF NotYet
  <2>1. i \notin Known /\ Over(i) /\ made[i] = 0
    BY <1>6 DEF LineInv, NotYet
  <2>2. pump'[i] = pump[i]
    <3>1. CASE h \in Creations
      <4>1. Known' = 1..Len(sessions) + 1
        BY <1>6, <3>1 DEF Known
      <4>2. QED
        BY <1>9, <4>1, LineFacts
    <3>2. CASE h \notin Creations
      BY <1>9, <3>2
    <3>3. QED
      BY <3>1, <3>2
  <2>3. QED
    BY <1>3, <1>12, <2>1, <2>2 DEF Over
<1>16. h.kind = "Exit" => Over(h.session)'
  <2> SUFFICES ASSUME h.kind = "Exit" PROVE Over(h.session)'
    OBVIOUS
  <2>1. /\ pump[h.session] = "done"
        /\ \A j \in 1..z + 1 : j > 1 => ~About(h.session, queue[j])
    BY <1>1, <1>2 DEF LineInv, LastOfThread
  <2>2. pump'[h.session] = "done"
    BY <1>4, <1>5, <1>9, <2>1
  <2>3. QED
    BY <1>1, <1>2, <2>1, <2>2 DEF Over
<1>17. QED
  BY <1>1, <1>5, <1>8, <1>10, <1>11, <1>13, <1>14, <1>15, <1>16 DEF LineInv

-----------------------------------------------------------------------------
(* The clients' side *)

\* q is a sequence, whatever is in it.
Listed(q) == q = [k \in 1..Len(q) |-> q[k]] /\ Len(q) \in Nat

StreamsTyped ==
  /\ clients \subseteq Clients /\ to \subseteq clients
  /\ conn \in [Clients -> {"none", "open", "closed"}]
  /\ stream = [c \in Clients |-> stream[c]]
  /\ \A c \in Clients : Listed(stream[c])

\* A client is announced once, by its thread's beginning, and before anything is
\* written to it.
AnnouncedOnce ==
  \A c \in Clients :
    /\ thread[c] = "none" => c \notin clients /\ stream[c] = <<>> /\ \A k \in DOMAIN queue : ~ConnectedAt(k, c)
    /\ thread[c] # "none" => conn[c] # "none"
    /\ \A k \in DOMAIN queue : ConnectedAt(k, c) =>
         /\ c \notin clients /\ stream[c] = <<>>
         /\ \A j \in DOMAIN queue : ConnectedAt(j, c) => j = k

\* msg is about to be written to c.
Due(c) == pc = "send" /\ c \in to /\ conn[c] = "open"
Listening(c) == c \in clients /\ conn[c] = "open"
ExitOf(i) == [kind |-> "exit", session |-> i]
Shown(c) == DOMAIN stream[c][1].sessions

\* What is being written is where its session stands.
Current ==
  pc = "send" =>
    /\ msg.kind = "output" => msg.session \in Ids /\ msg.n = Handled(msg.session)
    /\ msg.kind = "exit" => msg.session \in Known /\ msg = ExitOf(msg.session) /\ Over(msg.session)

\* The first message of a client is the hello, which is written at once.
Greeted(c) ==
  /\ stream[c] # <<>> => stream[c][1].kind = "hello" /\ Shown(c) \subseteq Known
  /\ Listening(c) => stream[c] # <<>> \/ (Due(c) /\ msg.kind = "hello")
  /\ Due(c) /\ msg.kind = "hello" => stream[c] = <<>> /\ msg = Info("hello")

Owed(c, i) == Due(c) /\ msg.kind = "output" /\ msg.session = i
ExitDue(c, i) == Due(c) /\ msg = ExitOf(i)

\* What c was sent of session i, in chunks, and what more there is to send.
Chunks(c, i) == {stream[c][k].n : k \in OutputsAt(c, i)}
Level(c, i) == IF Owed(c, i) THEN Handled(i) - 1 ELSE Handled(i)
Ended(c, i) == Over(i) /\ ~Owed(c, i) /\ ~ExitDue(c, i)

\* StreamInOrder for one client and one session, up to what is under way.
Followed(c, i) ==
  LET start == stream[c][1].after[i]
  IN  /\ \A j, k \in OutputsAt(c, i) : j < k => stream[c][j].n < stream[c][k].n
      /\ start \in Nat
      /\ \E last \in start..Handled(i) :
           /\ Chunks(c, i) = start + 1..last
           /\ Listening(c) => last = Level(c, i)
           /\ \A j \in DOMAIN stream[c] : stream[c][j] = ExitOf(i) =>
                /\ last = made[i] /\ Ended(c, i)
                /\ \A k \in j + 1..Len(stream[c]) :
                     stream[c][k].kind \in {"output", "exit"} => stream[c][k].session # i

\* ViewIsCurrent for one client and one session, up to what is under way.
Followable(c, i) ==
  Listening(c) /\ stream[c][1].sessions[i] = "Running" => ((Told(c, i) \/ ExitDue(c, i)) <=> ~Held(i))

ClientInv(c) == Greeted(c) /\ (stream[c] # <<>> => \A i \in Shown(c) : Followed(c, i) /\ Followable(c, i))

StreamInv == StreamsTyped /\ AnnouncedOnce /\ Current /\ \A c \in Clients : ClientInv(c)

-----------------------------------------------------------------------------

LEMMA SeqIsListed ==
  ASSUME NEW S, NEW q \in Seq(S)
  PROVE  Listed(q)
  BY DEF Listed

LEMMA ListedAppend ==
  ASSUME NEW q, Listed(q), NEW e
  PROVE  /\ Listed(Append(q, e)) /\ Append(q, e) # <<>>
         /\ Len(q) \in Nat /\ Len(Append(q, e)) = Len(q) + 1
         /\ DOMAIN q = 1..Len(q) /\ DOMAIN Append(q, e) = 1..Len(q) + 1
         /\ \A k \in 1..Len(q) : Append(q, e)[k] = q[k]
         /\ Append(q, e)[Len(q) + 1] = e
<1> DEFINE S == {q[k] : k \in 1..Len(q)} \cup {e}
<1>1. q \in Seq(S) /\ e \in S
  BY DEF Listed
<1> HIDE DEF S
<1>2. /\ Append(q, e) \in Seq(S) /\ Len(Append(q, e)) = Len(q) + 1 /\ Len(q) \in Nat
      /\ DOMAIN q = 1..Len(q) /\ DOMAIN Append(q, e) = 1..Len(q) + 1
      /\ \A k \in 1..Len(q) : Append(q, e)[k] = q[k]
      /\ Append(q, e)[Len(q) + 1] = e
  BY <1>1
<1>3. Listed(Append(q, e))
  BY <1>2, SeqIsListed
<1>4. Append(q, e) # <<>>
  BY <1>2
<1>5. QED
  BY <1>2, <1>3, <1>4

LEMMA HandledInRange ==
  ASSUME LineInv, NEW i \in Ids
  PROVE  Handled(i) \in 0..made[i] /\ made[i] \in Nat /\ Handled(i) \in Nat
<1>1. made[i] \in Nat
  BY LineFacts
<1>2. Handled(i) \in 0..made[i]
  BY HandledIs DEF LineInv, InLine, Lined
<1>3. QED
  BY <1>1, <1>2

LEMMA HandledInRangeThen ==
  ASSUME LineInv', NEW i \in Ids
  PROVE  Handled(i)' \in Nat
<1>1. made'[i] \in Nat
  BY DaemonAssumption DEF LineInv, AgentsTyped, QueueTyped
<1>2. Handled(i)' \in 0..made'[i]
  BY HandledIsThen DEF LineInv, InLine, Lined, Before, Waits
<1>3. QED
  BY <1>1, <1>2

\* A session that is over has been handled to its end.
LEMMA OverIsHandled ==
  ASSUME LineInv, NEW i \in Ids, Over(i)
  PROVE  Handled(i) = made[i]
<1>1. Waits(queue, i) = {}
  BY DEF Waits, Over, About
<1>2. Cardinality(Waits(queue, i)) = 0
  BY <1>1, FS_EmptySet
<1>3. made[i] \in Nat
  BY HandledInRange
<1>4. QED
  BY <1>2, <1>3, HandledIs DEF Before

LEMMA InfoSteady ==
  ASSUME LineInv, Steady, UNCHANGED sessions
  PROVE  Info("hello")' = Info("hello")
<1>1. Known' = Known /\ Known \subseteq Ids
  BY LineFacts DEF Known
<1>2. [i \in Known' |-> Handled(i)'] = [i \in Known |-> Handled(i)]
  BY <1>1 DEF Steady
<1>3. QED
  BY <1>2 DEF Info

LEMMA Sent ==
  ASSUME NEW m, NEW S, Send(m, S)
  PROVE  /\ to' = S /\ pc' \in {"check", "send"}
         /\ pc' = "send" => msg' = m /\ S # {}
         /\ \A c \in S : pc' = "send"
  BY DEF Send

-----------------------------------------------------------------------------
(* One client, one session, one step *)

\* Nothing is written to the client.
LEMMA FollowedKept ==
  ASSUME NEW c \in Clients, NEW i \in Ids, Followed(c, i),
         stream'[c] = stream[c], Handled(i) \in Nat, Handled(i)' \in Nat, Handled(i) <= Handled(i)',
         Listening(c)' => Listening(c) /\ Level(c, i)' = Level(c, i),
         Ended(c, i) => Ended(c, i)' /\ made'[i] = made[i]
  PROVE  Followed(c, i)'
<1>1. OutputsAt(c, i)' = OutputsAt(c, i) /\ Chunks(c, i)' = Chunks(c, i)
  BY DEF OutputsAt, Chunks
<1>2. stream[c][1].after[i] \in Nat
  BY DEF Followed
<1>3. PICK last \in stream[c][1].after[i]..Handled(i) :
           /\ Chunks(c, i) = stream[c][1].after[i] + 1..last
           /\ Listening(c) => last = Level(c, i)
           /\ \A j \in DOMAIN stream[c] : stream[c][j] = ExitOf(i) =>
                /\ last = made[i] /\ Ended(c, i)
                /\ \A k \in j + 1..Len(stream[c]) :
                     stream[c][k].kind \in {"output", "exit"} => stream[c][k].session # i
  BY DEF Followed
<1>4. last \in stream[c][1].after[i]..Handled(i)'
  BY <1>2
<1>5. ExitOf(i)' = ExitOf(i)
  BY DEF ExitOf
<1>6. Listening(c)' => last = Level(c, i)'
  BY <1>3
<1>7. \A j, k \in OutputsAt(c, i) : j < k => stream[c][j].n < stream[c][k].n
  BY DEF Followed
<1> HIDE DEF Ended, Level, Listening, Chunks, OutputsAt, ExitOf
<1>8. QED
  BY <1>1, <1>2, <1>3, <1>4, <1>5, <1>6, <1>7 DEF Followed

\* The hello is written to the client.
LEMMA FollowedFirst ==
  ASSUME LineInv, NEW c \in Clients, NEW i \in Known,
         Steady, stream'[c] = Append(<<>>, Info("hello")), ~Due(c)'
  PROVE  Followed(c, i)'
<1> DEFINE m == Info("hello")
<1>1. stream'[c] = <<m>> /\ DOMAIN stream'[c] = {1} /\ stream'[c][1] = m
  OBVIOUS
<1>2. m.kind = "hello" /\ m.after[i] = Handled(i)
  BY DEF Info
<1>3. i \in Ids /\ Handled(i)' = Handled(i) /\ Handled(i) \in Nat
  BY LineFacts, HandledInRange DEF Steady
<1> HIDE DEF m
<1>4. OutputsAt(c, i)' = {} /\ Chunks(c, i)' = {}
  BY <1>1, <1>2 DEF OutputsAt, Chunks
<1>5. \A j \in DOMAIN stream'[c] : stream'[c][j] # ExitOf(i)'
  BY <1>1, <1>2 DEF ExitOf
<1>6. Level(c, i)' = Handled(i)'
  BY DEF Level, Owed
<1>7. {} = Handled(i) + 1..Handled(i) /\ Handled(i) \in Handled(i)..Handled(i)
  BY <1>3
<1>8. QED
  BY <1>1, <1>2, <1>3, <1>4, <1>5, <1>6, <1>7 DEF Followed

\* Anything else is written to the client.
LEMMA FollowedOn ==
  ASSUME LineInv, NEW c \in Clients, NEW i \in Known, Followed(c, i), Current,
         Listed(stream[c]), stream[c] # <<>>, Listening(c), Due(c), ~Due(c)',
         Steady, made'[i] = made[i], Over(i) => Over(i)',
         stream'[c] = Append(stream[c], msg)
  PROVE  Followed(c, i)'
<1> DEFINE z == Len(stream[c]) + 1
           start == stream[c][1].after[i]
<1>1. /\ z \in Nat /\ DOMAIN stream'[c] = 1..z /\ DOMAIN stream[c] = 1..z - 1 /\ Len(stream'[c]) = z
      /\ stream'[c][z] = msg /\ (\A k \in 1..z - 1 : stream'[c][k] = stream[c][k])
      /\ 1 \in 1..z - 1
  BY ListedAppend DEF Listed
<1>2. i \in Ids /\ Handled(i)' = Handled(i) /\ Handled(i) \in Nat /\ made[i] \in Nat
  BY LineFacts, HandledInRange DEF Steady
<1>3. start \in Nat /\ stream'[c][1].after[i] = start
  BY <1>1 DEF Followed
<1>4. PICK last \in start..Handled(i) :
           /\ Chunks(c, i) = start + 1..last
           /\ Listening(c) => last = Level(c, i)
           /\ \A j \in DOMAIN stream[c] : stream[c][j] = ExitOf(i) =>
                /\ last = made[i] /\ Ended(c, i)
                /\ \A k \in j + 1..Len(stream[c]) :
                     stream[c][k].kind \in {"output", "exit"} => stream[c][k].session # i
  BY DEF Followed
<1>5. last = Level(c, i)
  BY <1>4
<1>6. Level(c, i)' = Handled(i) /\ ~Owed(c, i)' /\ ~ExitDue(c, i)'
  BY <1>2 DEF Level, Owed, ExitDue
<1>7. \A j, k \in OutputsAt(c, i) : j < k => stream[c][j].n < stream[c][k].n
  BY DEF Followed
<1>8. OutputsAt(c, i) \subseteq 1..z - 1
  BY <1>1 DEF OutputsAt
<1>9. \A j \in 1..z - 1 : stream[c][j] = ExitOf(i) =>
        /\ last = made[i] /\ Ended(c, i)
        /\ \A k \in j + 1..z - 1 :
             stream[c][k].kind \in {"output", "exit"} => stream[c][k].session # i
  BY <1>1, <1>4
<1>10. ExitOf(i)' = ExitOf(i)
  BY DEF ExitOf
<1> HIDE DEF z, start
<1>11. CASE Owed(c, i)
  <2>1. msg.kind = "output" /\ msg.session = i /\ msg.n = Handled(i) /\ last = Handled(i) - 1
    BY <1>5, <1>11 DEF Owed, Current, Level, Due
  <2>2. OutputsAt(c, i)' = OutputsAt(c, i) \cup {z}
    BY <1>1, <2>1 DEF OutputsAt
  <2>3. Chunks(c, i)' = Chunks(c, i) \cup {Handled(i)}
    BY <1>1, <1>8, <2>1, <2>2 DEF Chunks
  <2>4. Handled(i) = last + 1 /\ last \in Nat /\ start <= last
    BY <1>2, <1>3, <2>1
  <2>5. Chunks(c, i)' = start + 1..Handled(i) /\ Handled(i) \in start..Handled(i)
    <3>1. start + 1..last \cup {last + 1} = start + 1..last + 1 /\ last + 1 \in start..last + 1
      BY ONLY <1>3, <2>4
    <3>2. QED
      BY <1>4, <2>3, <2>4, <3>1
  <2>6. \A k \in OutputsAt(c, i) : stream[c][k].n \in start + 1..last
    BY <1>4 DEF Chunks
  <2>7. \A j, k \in OutputsAt(c, i)' : j < k => stream'[c][j].n < stream'[c][k].n
    <3>1. \A k \in OutputsAt(c, i) : k \in 1..z - 1 /\ k < z /\ stream'[c][k] = stream[c][k]
      BY <1>1, <1>8
    <3>2. \A j \in OutputsAt(c, i) : stream[c][j].n < last + 1
      <4>1. \A x \in start + 1..last : x < last + 1
        BY ONLY <1>3, <2>4
      <4>2. QED
        BY <2>6, <4>1
    <3>3. stream'[c][z].n = last + 1
      BY <1>1, <2>1, <2>4
    <3>4. ASSUME NEW j \in OutputsAt(c, i), NEW k \in OutputsAt(c, i), j < k
          PROVE  stream'[c][j].n < stream'[c][k].n
      BY <3>1, <3>4, <1>7
    <3>5. \A j \in OutputsAt(c, i) : stream'[c][j].n < stream'[c][z].n
      BY <3>1, <3>2, <3>3
    <3>6. \A k \in OutputsAt(c, i) : ~(z < k)
      BY <1>1, <3>1
    <3>7. ASSUME NEW j \in OutputsAt(c, i) \cup {z}, NEW k \in OutputsAt(c, i) \cup {z}, j < k
          PROVE  stream'[c][j].n < stream'[c][k].n
      <4>1. CASE j = z
        BY <1>1, <3>6, <3>7, <4>1
      <4>2. CASE j # z /\ k = z
        BY <3>5, <4>2
      <4>3. CASE j # z /\ k # z
        <5>1. j \in OutputsAt(c, i) /\ k \in OutputsAt(c, i) /\ j < k
          BY <3>7, <4>3
        <5>2. QED
          BY <3>4, <5>1
      <4>4. QED
        BY <4>1, <4>2, <4>3
    <3>8. QED
      BY <2>2, <3>7
  <2>8. \A j \in 1..z : stream'[c][j] # ExitOf(i)
    <3>1. msg # ExitOf(i)
      BY <2>1 DEF ExitOf
    <3>2. \A j \in 1..z - 1 : stream[c][j] # ExitOf(i)
      BY <1>9, <1>11 DEF Ended
    <3>3. stream'[c][z] # ExitOf(i)
      BY <1>1, <3>1
    <3>4. \A j \in 1..z - 1 : stream'[c][j] # ExitOf(i)
      BY <1>1, <3>2
    <3>5. 1..z = 1..z - 1 \cup {z}
      BY <1>1
    <3>6. QED
      BY <3>3, <3>4, <3>5
  <2>9. QED
    BY <1>1, <1>2, <1>3, <1>6, <1>10, <2>5, <2>7, <2>8 DEF Followed
<1>12. CASE ~Owed(c, i)
  <2>1. last = Handled(i) /\ ~(msg.kind = "output" /\ msg.session = i)
    BY <1>5, <1>12 DEF Owed, Level
  <2>2. OutputsAt(c, i)' = OutputsAt(c, i)
    BY <1>1, <2>1 DEF OutputsAt
  <2>3. Chunks(c, i)' = Chunks(c, i)
    BY <1>1, <1>8, <2>2 DEF Chunks
  <2>4. \A j, k \in OutputsAt(c, i)' : j < k => stream'[c][j].n < stream'[c][k].n
    BY <1>1, <1>7, <1>8, <2>2
  <2>5. Ended(c, i)' <=> Over(i)'
    BY <1>6 DEF Ended
  <2>6. ASSUME NEW j \in 1..z, stream'[c][j] = ExitOf(i)
        PROVE  /\ last = made'[i] /\ Ended(c, i)'
               /\ \A k \in j + 1..z :
                    stream'[c][k].kind \in {"output", "exit"} => stream'[c][k].session # i
    <3>1. CASE j = z
      <4>1. msg = ExitOf(i) /\ msg.kind = "exit" /\ msg.session = i
        BY <1>1, <2>6, <3>1 DEF ExitOf
      <4>2. Over(i)
        BY <4>1 DEF Due, Current
      <4>3. last = made[i]
        BY <1>2, <2>1, <4>2, OverIsHandled
      <4>4. QED
        BY <1>1, <2>5, <3>1, <4>2, <4>3
    <3>2. CASE j # z
      <4>1. j \in 1..z - 1 /\ stream[c][j] = ExitOf(i)
        BY <1>1, <2>6, <3>2
      <4>2. last = made[i] /\ Ended(c, i)
        BY <1>9, <4>1
      <4>3. ~(msg.kind = "exit" /\ msg.session = i)
        BY <4>2 DEF Ended, ExitDue, Current, Due
      <4>4. \A k \in j + 1..z - 1 :
              stream'[c][k].kind \in {"output", "exit"} => stream'[c][k].session # i
        BY <1>1, <1>9, <4>1
      <4>5. Over(i)'
        BY <4>2 DEF Ended
      <4>6. QED
        BY <1>1, <2>1, <2>5, <4>1, <4>2, <4>3, <4>4, <4>5
    <3>3. QED
      BY <3>1, <3>2
  <2>7. Handled(i) \in start..Handled(i)
    BY <2>1
  <2>8. QED
    BY <1>1, <1>2, <1>3, <1>4, <1>6, <1>10, <2>1, <2>3, <2>4, <2>6, <2>7 DEF Followed
<1>13. QED
  BY <1>11, <1>12

-----------------------------------------------------------------------------
(* One client, one step *)

\* Nothing is written to the client and it is not being greeted.
LEMMA ClientKept ==
  ASSUME LineInv, LineInv', NEW c \in Clients, ClientInv(c), stream'[c] = stream[c],
         Known \subseteq Known', Listening(c)' => Listening(c) /\ stream[c] # <<>>,
         ~(Due(c)' /\ msg'.kind = "hello"),
         \A i \in Known :
           /\ Handled(i) <= Handled(i)'
           /\ Listening(c)' => Level(c, i)' = Level(c, i)
           /\ Ended(c, i) => Ended(c, i)' /\ made'[i] = made[i]
           /\ Followable(c, i) => Followable(c, i)'
  PROVE  ClientInv(c)'
<1>1. Greeted(c)'
  BY DEF ClientInv, Greeted, Shown
<1>2. ASSUME stream[c] # <<>>, NEW i \in Shown(c) PROVE Followed(c, i)' /\ Followable(c, i)'
  <2>1. i \in Known /\ i \in Ids /\ Followed(c, i) /\ Followable(c, i)
    BY <1>2, LineFacts DEF ClientInv, Greeted
  <2>2. Handled(i) \in Nat /\ Handled(i)' \in Nat
    <3>1. Handled(i) \in Nat
      BY <2>1, HandledInRange
    <3>2. Handled(i)' \in Nat
      BY <2>1, HandledInRangeThen
    <3>3. QED
      BY <3>1, <3>2
  <2>3. QED
    BY <2>1, <2>2, FollowedKept
<1>3. Shown(c)' = Shown(c)
  BY DEF Shown
<1>4. QED
  BY <1>1, <1>2, <1>3 DEF ClientInv

\* What is under way for the client stays, and so does whether it listens, unless it left.
LEMMA ClientIdles ==
  ASSUME LineInv, LineInv', NEW c \in Clients, ClientInv(c),
         Steady, Lasting, UNCHANGED sessions, stream'[c] = stream[c],
         Listening(c)' => Listening(c) /\ (Due(c)' <=> Due(c)),
         Due(c)' => Due(c) /\ msg' = msg
  PROVE  ClientInv(c)'
<1>1. Due(c)' => Due(c) /\ msg' = msg
  OBVIOUS
<1>2. Listening(c)' => (Due(c)' <=> Due(c))
  OBVIOUS
<1>3. CASE Due(c)' /\ msg'.kind = "hello"
  <2>1. stream'[c] = <<>> /\ msg' = Info("hello")'
    BY <1>1, <1>3, InfoSteady DEF ClientInv, Greeted
  <2>2. Greeted(c)'
    BY <1>3, <2>1 DEF Greeted
  <2>3. QED
    BY <2>1, <2>2 DEF ClientInv
<1>4. CASE ~(Due(c)' /\ msg'.kind = "hello")
  <2>1. Listening(c)' => stream[c] # <<>>
    BY <1>2, <1>4 DEF ClientInv, Greeted
  <2>2. ASSUME NEW i \in Known
        PROVE  /\ Handled(i) <= Handled(i)'
               /\ Listening(c)' => Level(c, i)' = Level(c, i)
               /\ Ended(c, i) => Ended(c, i)' /\ made'[i] = made[i]
               /\ Followable(c, i) => Followable(c, i)'
    <3>1. i \in Ids /\ Handled(i)' = Handled(i) /\ Handled(i) \in Nat
      BY LineFacts, HandledInRange DEF Steady
    <3>2. Over(i) => Over(i)' /\ made'[i] = made[i]
      BY <3>1 DEF Lasting, Over
    <3>3. ExitOf(i)' = ExitOf(i)
      BY DEF ExitOf
    <3>4. /\ Owed(c, i)' => Owed(c, i)
          /\ ExitDue(c, i)' => ExitDue(c, i)
          /\ Listening(c)' => (Owed(c, i)' <=> Owed(c, i)) /\ (ExitDue(c, i)' <=> ExitDue(c, i))
      BY <1>1, <1>2, <3>3 DEF Owed, ExitDue
    <3>5. Told(c, i)' <=> Told(c, i)
      BY DEF Told
    <3>6. Held(i)' <=> Held(i)
      BY DEF Held
    <3>7. Followable(c, i) => Followable(c, i)'
      BY <3>4, <3>5, <3>6 DEF Followable
    <3>8. Listening(c)' => Level(c, i)' = Level(c, i)
      BY <3>1, <3>4 DEF Level
    <3>9. Ended(c, i) => Ended(c, i)' /\ made'[i] = made[i]
      BY <3>2, <3>4 DEF Ended
    <3>10. QED
      BY <3>1, <3>7, <3>8, <3>9
  <2>3. stream'[c] = stream[c] /\ Known \subseteq Known'
    BY DEF Lasting
  <2>4. QED
    BY <1>4, <2>1, <2>2, <2>3, ClientKept
<1>5. QED
  BY <1>3, <1>4

\* The loop is between two events before the step; nothing is under way.
LEMMA ClientWaits ==
  ASSUME LineInv, LineInv', NEW c \in Clients, ClientInv(c), pc # "send",
         UNCHANGED stream, Lasting, Listening(c)' => Listening(c),
         ~(Due(c)' /\ msg'.kind = "hello"),
         \A i \in Known :
           /\ Handled(i) <= Handled(i)'
           /\ Listening(c)' => Level(c, i)' = Handled(i)
           /\ Over(i) => ~Owed(c, i)' /\ ~ExitDue(c, i)'
           /\ Listening(c)' /\ ExitDue(c, i)' => ~Held(i)'
           /\ Listening(c)' /\ ~ExitDue(c, i)' => (Held(i)' <=> Held(i))
           /\ ~Held(i) => ~Held(i)'
  PROVE  ClientInv(c)'
<1>1. ~Due(c)
  BY DEF Due
<1>2. Listening(c)' => stream[c] # <<>>
  BY <1>1 DEF ClientInv, Greeted
<1>3. ASSUME NEW i \in Known
      PROVE  /\ Handled(i) <= Handled(i)'
             /\ Listening(c)' => Level(c, i)' = Level(c, i)
             /\ Ended(c, i) => Ended(c, i)' /\ made'[i] = made[i]
             /\ Followable(c, i) => Followable(c, i)'
  <2>1. Level(c, i) = Handled(i) /\ ~ExitDue(c, i)
    BY <1>1 DEF Level, Owed, ExitDue
  <2>2. i \in Ids /\ (Over(i) => Over(i)' /\ made'[i] = made[i])
    BY LineFacts DEF Lasting, Over
  <2>3. Ended(c, i) => Ended(c, i)' /\ made'[i] = made[i]
    BY <2>2 DEF Ended
  <2>4. Told(c, i)' <=> Told(c, i)
    BY DEF Told
  <2>5. Followable(c, i) => Followable(c, i)'
    BY <2>1, <2>4 DEF Followable
  <2>6. QED
    BY <2>1, <2>3, <2>5
<1>4. stream'[c] = stream[c] /\ Known \subseteq Known'
  BY DEF Lasting
<1>5. QED
  BY <1>2, <1>3, <1>4, ClientKept

\* The loop has written to the client what it had for it, the hello or something else.
LEMMA ClientTold ==
  ASSUME LineInv, LineInv', NEW c \in Clients, ClientInv(c), Current,
         Steady, Lasting, UNCHANGED sessions, clients \subseteq Clients, UNCHANGED <<clients, conn, made>>,
         Listed(stream[c]), Due(c), c \in clients,
         stream'[c] = Append(stream[c], msg), ~Due(c)'
  PROVE  ClientInv(c)'
<1>1. Listening(c)
  BY DEF Listening, Due
<1>2. Known' = Known /\ \A i \in Known : Held(i)' <=> Held(i)
  BY DEF Known, Held
<1>3. stream'[c] # <<>>
  BY ListedAppend
<1>4. CASE msg.kind = "hello"
  <2>1. stream[c] = <<>> /\ msg = Info("hello")
    BY <1>4 DEF ClientInv, Greeted
  <2>2. stream'[c] = <<Info("hello")>> /\ DOMAIN stream'[c] = {1} /\ stream'[c][1] = Info("hello")
    BY <2>1
  <2>3. stream'[c][1].kind = "hello" /\ stream'[c][1].sessions = sessions /\ Shown(c)' = Known
    BY <2>2 DEF Info, Shown, Known
  <2>4. Greeted(c)'
    BY <1>2, <1>3, <2>3 DEF Greeted
  <2>5. \A i \in Known : Followed(c, i)'
    BY <2>1, FollowedFirst
  <2>6. ASSUME NEW i \in Known PROVE Followable(c, i)'
    <3>1. ~Told(c, i)'
      <4>1. stream'[c][1] # [kind |-> "exit", session |-> i]
        BY <2>3
      <4>2. QED
        BY <2>2, <4>1 DEF Told
    <3>2. ~ExitDue(c, i)'
      BY DEF ExitDue
    <3>3. stream'[c][1].sessions[i] = "Running" => Held(i)'
      BY <1>2, <2>3 DEF Held
    <3>4. QED
      BY <3>1, <3>2, <3>3 DEF Followable
  <2>7. QED
    BY <2>3, <2>4, <2>5, <2>6 DEF ClientInv
<1>5. CASE msg.kind # "hello"
  <2>1. stream[c] # <<>>
    BY <1>1, <1>5 DEF ClientInv, Greeted
  <2>2. PICK z \in Nat :
          /\ DOMAIN stream'[c] = 1..z + 1 /\ DOMAIN stream[c] = 1..z
          /\ stream'[c][z + 1] = msg /\ (\A k \in 1..z : stream'[c][k] = stream[c][k])
          /\ 1 \in 1..z
    <3>1. /\ Len(stream[c]) \in Nat /\ DOMAIN stream'[c] = 1..Len(stream[c]) + 1
          /\ DOMAIN stream[c] = 1..Len(stream[c]) /\ stream'[c][Len(stream[c]) + 1] = msg
          /\ \A k \in 1..Len(stream[c]) : stream'[c][k] = stream[c][k]
      BY ListedAppend
    <3>2. 1 \in 1..Len(stream[c])
      BY <2>1, <3>1 DEF Listed
    <3>3. QED
      BY <3>1, <3>2
  <2>3. stream'[c][1] = stream[c][1] /\ Shown(c)' = Shown(c)
    BY <2>2 DEF Shown
  <2>4. Greeted(c)'
    BY <1>2, <1>3, <2>1, <2>3 DEF Greeted, ClientInv
  <2>5. ASSUME NEW i \in Shown(c) PROVE Followed(c, i)' /\ Followable(c, i)'
    <3>1. i \in Known /\ i \in Ids /\ Followed(c, i) /\ Followable(c, i)
      BY <2>1, <2>5, LineFacts DEF ClientInv, Greeted
    <3>2. made'[i] = made[i] /\ (Over(i) => Over(i)')
      BY <3>1 DEF Lasting, Over
    <3>3. Followed(c, i)'
      BY <1>1, <2>1, <3>1, <3>2, FollowedOn
    <3>4. Told(c, i)' <=> Told(c, i) \/ ExitDue(c, i)
      BY <2>2 DEF Told, ExitDue, ExitOf
    <3>5. ~ExitDue(c, i)' /\ (Listening(c)' <=> Listening(c))
      BY DEF ExitDue, Listening
    <3>6. Followable(c, i)'
      BY <1>2, <2>3, <3>1, <3>4, <3>5 DEF Followable
    <3>7. QED
      BY <3>3, <3>6
  <2>6. QED
    BY <2>3, <2>4, <2>5 DEF ClientInv
<1>6. QED
  BY <1>4, <1>5

-----------------------------------------------------------------------------
(* The steps *)

\* A client's end of the socket opens, but not for one who is registered, or closes.
Connections ==
  /\ conn' \in [Clients -> {"none", "open", "closed"}]
  /\ \A c \in Clients : /\ conn'[c] = conn[c] \/ conn'[c] = "closed" \/ (conn[c] = "none" /\ conn'[c] = "open")
                        /\ conn[c] # "none" => conn'[c] # "none"

\* Whatever is not a step of the loop.
Elsewhere ==
  /\ LineInv' /\ Steady /\ Lasting
  /\ UNCHANGED <<sessions, clients, pc, msg, to, stream>>
  /\ Connections

LEMMA AgentElsewhere ==
  ASSUME LineInv, StreamsTyped, NEW i \in Ids, AgentStep(i)
  PROVE  Elsewhere
<1> DEFINE o == [kind |-> "Output", session |-> i, n |-> made[i] + 1]
           x == [kind |-> "Exit", session |-> i]
<1>0. UNCHANGED <<sessions, clients, pc, msg, to, stream, thread>> /\ Connections
  BY DEF AgentStep, AgentOutput, AgentEnds, LeaveDescendant, DescendantEnds, loopVars, clientVars,
         Connections, StreamsTyped
<1>1. thread' \in [Clients -> {"none", "reading", "done"}]
  BY <1>0 DEF LineInv, AgentsTyped, QueueTyped
<1>2. CASE AgentOutput(i)
  <2>1. made[i] + 1 \in 1..MaxChunks
    BY <1>2, LineFacts DEF AgentOutput
  <2>2. o \in Events /\ o \notin Creations
    BY <2>1 DEF Events, Creations
  <2>3. o.kind = "Output" /\ o.session = i
    OBVIOUS
  <2>4. /\ pump[i] = "pumping" /\ made[i] < MaxChunks /\ made' = [made EXCEPT ![i] = @ + 1]
        /\ queue' = Append(queue, o) /\ UNCHANGED pump
    BY <1>2 DEF AgentOutput
  <2>5. QED
    BY <1>0, <1>1, <2>2, <2>3, <2>4, LineAppends DEF Elsewhere
<1>3. CASE AgentEnds(i)
  <2>1. x \in Events /\ x \notin Creations
    BY DEF Events, Creations
  <2>2. x.kind = "Exit" /\ x.session = i
    OBVIOUS
  <2>3. /\ pump[i] = "pumping" /\ pump' = [pump EXCEPT ![i] = "done"]
        /\ queue' = Append(queue, x) /\ UNCHANGED made
    BY <1>3 DEF AgentEnds
  <2>4. QED
    BY <1>0, <1>1, <2>1, <2>2, <2>3, LineAppends DEF Elsewhere
<1>4. CASE LeaveDescendant(i) \/ DescendantEnds(i)
  <2>1. UNCHANGED <<queue, made, pump>>
    BY <1>4 DEF LeaveDescendant, DescendantEnds
  <2>2. QED
    BY <1>0, <2>1, LineRests DEF Elsewhere
<1>5. QED
  BY <1>2, <1>3, <1>4 DEF AgentStep

LEMMA ThreadElsewhere ==
  ASSUME LineInv, StreamsTyped, NEW c \in Clients, ThreadStep(c) \/ ClientCommand(c)
  PROVE  Elsewhere
<1>0. UNCHANGED <<sessions, clients, pc, msg, to, stream, made, pump>> /\ Connections
  BY DEF ThreadStep, Accept, ThreadEof, ClientCommand, agentVars, loopVars, clientVars, Connections, StreamsTyped
<1>1. thread' \in [Clients -> {"none", "reading", "done"}]
  BY DEF LineInv, AgentsTyped, QueueTyped, ThreadStep, Accept, ThreadEof, ClientCommand
<1>2. ASSUME NEW e \in Events, queue' = Append(queue, e), e.kind \notin {"Output", "Exit"},
             e \in Creations => Len(sessions) + Cardinality(Ordered) < MaxSessions
      PROVE  Elsewhere
  BY <1>0, <1>1, <1>2, LineAppends DEF Elsewhere
<1>3. CASE Accept(c)
  <2>1. Announces(c) \in Events /\ Announces(c) \notin Creations /\ Announces(c).kind \notin {"Output", "Exit"}
    BY DEF Announces, Events, Creations
  <2>2. queue' = Append(queue, Announces(c))
    BY <1>3 DEF Accept, Announces
  <2>3. QED
    BY <1>2, <2>1, <2>2
<1>4. CASE ThreadEof(c)
  <2>1. Revokes(c) \in Events /\ Revokes(c) \notin Creations /\ Revokes(c).kind \notin {"Output", "Exit"}
    BY DEF Revokes, Events, Creations
  <2>2. queue' = Append(queue, Revokes(c))
    BY <1>4 DEF ThreadEof, Revokes
  <2>3. QED
    BY <1>2, <2>1, <2>2
<1>5. CASE ClientCommand(c)
  <2>1. PICK cmd \in Commands :
          /\ cmd.kind = "create" => Len(sessions) + Cardinality(Ordered) < MaxSessions
          /\ queue' = Append(queue, [kind |-> "Command", client |-> c, cmd |-> cmd])
    BY <1>5 DEF ClientCommand
  <2> DEFINE e == [kind |-> "Command", client |-> c, cmd |-> cmd]
  <2>2. e \in Events /\ e.kind \notin {"Output", "Exit"} /\ e.cmd = cmd
    BY DEF Events
  <2>3. e \in Creations => cmd.kind = "create"
    BY <2>2 DEF Creations
  <2> HIDE DEF e
  <2>4. queue' = Append(queue, e)
    BY <2>1 DEF e
  <2>5. QED
    BY <1>2, <2>1, <2>2, <2>3, <2>4
<1>6. QED
  BY <1>3, <1>4, <1>5 DEF ThreadStep

LEMMA RestElsewhere ==
  ASSUME LineInv, StreamsTyped,
         \/ Sigterm \/ UNCHANGED vars
         \/ \E c \in Clients : ClientReads(c) \/ Connect(c) \/ AutoLeave(c) \/ Leave(c)
  PROVE  Elsewhere
<1>1. UNCHANGED <<queue, made, pump, sessions, thread, clients, pc, msg, to, stream>>
  BY DEF Sigterm, vars, ClientReads, Handshake, ClientRead, Connect, AutoLeave, Leave,
         agentVars, loopVars, clientVars
<1>2. Connections
  BY DEF Sigterm, vars, ClientReads, Handshake, ClientRead, Connect, AutoLeave, Leave,
         clientVars, Connections, StreamsTyped
<1>3. QED
  BY <1>1, <1>2, LineRests DEF Elsewhere

\* Nobody comes to listen by opening his end.
LEMMA NobodyNew ==
  ASSUME AnnouncedOnce, Connections, NEW c \in Clients, c \in clients
  PROVE  conn'[c] = "open" => conn[c] = "open"
  BY DEF AnnouncedOnce, Connections

LEMMA ElsewhereKeeps ==
  ASSUME LineInv, StreamInv, Elsewhere
  PROVE  /\ StreamsTyped' /\ Current'
         /\ \A c \in Clients : ClientInv(c)'
<1>1. StreamsTyped'
  BY DEF StreamInv, StreamsTyped, Elsewhere, Connections
<1>2. Current'
  <2>1. pc' = pc /\ msg' = msg
    BY DEF Elsewhere
  <2>2. ASSUME pc = "send", msg.kind = "output"
        PROVE  msg.session \in Ids /\ msg.n = Handled(msg.session)'
    <3>1. PICK i \in Ids : i = msg.session /\ msg.n = Handled(i)
      BY <2>2 DEF StreamInv, Current
    <3>2. msg.n = Handled(i)'
      BY <3>1 DEF Elsewhere, Steady
    <3>3. QED
      BY <2>1, <3>1, <3>2 DEF Handled
  <2>3. ASSUME pc = "send", msg.kind = "exit"
        PROVE  msg.session \in Known' /\ msg = ExitOf(msg.session) /\ Over(msg.session)'
    <3>1. PICK i \in Known : i = msg.session /\ msg = ExitOf(i) /\ Over(i)
      BY <2>3 DEF StreamInv, Current
    <3>2. i \in Known' /\ Over(i)'
      BY <3>1, LineFacts DEF Elsewhere, Lasting, Over
    <3>3. QED
      BY <2>1, <3>1, <3>2 DEF Over
  <2>4. QED
    BY <2>1, <2>2, <2>3 DEF Current, ExitOf
<1>3. ASSUME NEW c \in Clients PROVE ClientInv(c)'
  <2>1. Listening(c)' => Listening(c)
    BY NobodyNew DEF StreamInv, Elsewhere, Listening
  <2>2. Due(c)' => Due(c) /\ msg' = msg
    BY <2>1 DEF Due, Listening, StreamInv, StreamsTyped, Elsewhere
  <2>3. Listening(c)' => (Due(c)' <=> Due(c))
    BY <2>1 DEF Due, Listening, Elsewhere
  <2>4. stream'[c] = stream[c]
    BY DEF Elsewhere
  <2>5. QED
    BY <2>1, <2>2, <2>3, <2>4, ClientIdles DEF StreamInv, Elsewhere
<1>4. QED
  BY <1>1, <1>2, <1>3

ClientSide == StreamsTyped /\ Current /\ \A c \in Clients : ClientInv(c)

\* Between two events: the flag is looked at, or nothing comes; and after the last of them.
LEMMA PausesKeep ==
  ASSUME LineInv, StreamInv, Check \/ Timeout \/ DropSession \/ Stop
  PROVE  LineInv' /\ ClientSide'
<1>1. /\ UNCHANGED <<queue, made, pump, sessions, thread, clients, msg, to, stream>>
      /\ pc # "send" /\ pc' # "send"
  BY DEF Check, Timeout, DropSession, Stop, agentVars
<1>2. conn' \in [Clients -> {"none", "open", "closed"}] /\ \A c \in Clients : conn'[c] = "open" => conn[c] = "open"
  BY DEF Check, Timeout, DropSession, Stop, clientVars, StreamInv, StreamsTyped
<1>3. LineInv' /\ Steady /\ Lasting
  BY <1>1, LineRests
<1>4. StreamsTyped'
  BY <1>1, <1>2 DEF StreamInv, StreamsTyped
<1>5. Current'
  BY <1>1 DEF Current
<1>6. ASSUME NEW c \in Clients PROVE ClientInv(c)'
  <2>1. ~Due(c)' /\ (Listening(c)' => Listening(c))
    BY <1>1, <1>2 DEF Due, Listening
  <2>2. ASSUME NEW i \in Known
        PROVE  /\ Handled(i) <= Handled(i)'
               /\ Level(c, i)' = Handled(i)
               /\ ~Owed(c, i)' /\ ~ExitDue(c, i)'
               /\ Held(i)' <=> Held(i)
    <3>1. Handled(i)' = Handled(i) /\ Handled(i) \in Nat
      BY <1>3, LineFacts, HandledInRange DEF Steady
    <3>2. ~Owed(c, i)' /\ ~ExitDue(c, i)'
      BY <2>1 DEF Owed, ExitDue
    <3>3. QED
      BY <1>1, <3>1, <3>2 DEF Level, Held
  <2>3. QED
    BY <1>1, <1>3, <2>1, <2>2, ClientWaits DEF StreamInv
<1>7. QED
  BY <1>3, <1>4, <1>5, <1>6 DEF ClientSide

\* What an event does to the states of the sessions.
LEMMA HandlesHeld ==
  ASSUME LineInv, NEW h, Handles(h), NEW i \in Known
  PROVE  /\ h.kind = "Exit" /\ i = h.session => ~Held(i)'
         /\ ~(h.kind = "Exit" /\ i = h.session) => (Held(i)' <=> Held(i))
<1>1. CASE h.kind # "Exit" /\ h \notin Creations
  BY <1>1 DEF Handles, Held
<1>2. CASE h.kind = "Exit"
  <2>1. sessions' = [sessions EXCEPT ![h.session] = "Done"]
    BY <1>2 DEF Handles, Creations
  <2>2. QED
    BY <1>2, <2>1 DEF Held, Known
<1>3. CASE h \in Creations
  <2>1. PICK state \in AgentState : sessions' = Append(sessions, state)
    BY <1>3 DEF Handles, Creations, AgentState
  <2>2. sessions'[i] = sessions[i] /\ h.kind # "Exit"
    BY <1>3, <2>1, LineFacts DEF Creations
  <2>3. QED
    BY <2>2 DEF Held
<1>4. QED
  BY <1>1, <1>2, <1>3

\* An event is handled that adds no client: what is to be written about it goes to
\* those who listen, and it is news to all of them.
LEMMA HandlingKeeps ==
  ASSUME LineInv, StreamInv, pc = "recv", NEW h, Handles(h), NEW m, NEW S, Send(m, S),
         UNCHANGED <<stream, conn>>, S \subseteq clients', clients' \subseteq clients, m.kind # "hello",
         \/ h.kind = "Output" /\ m = [kind |-> "output", session |-> h.session, n |-> h.n] /\ S = clients
         \/ h.kind = "Exit" /\ m = ExitOf(h.session) /\ S = clients
         \/ h.kind \notin {"Output", "Exit"} /\ m.kind \notin {"output", "exit"}
  PROVE  LineInv' /\ ClientSide'
<1>1. /\ LineInv' /\ Lasting /\ h \in Events
      /\ IF h.kind = "Output" THEN NextHandled(h.session, h.n) ELSE Steady
      /\ h.kind \in {"Output", "Exit"} => h.session \in Known
      /\ h.kind = "Exit" => Over(h.session)'
  BY LineTakes
<1>2. /\ to' = S /\ pc' \in {"check", "send"}
      /\ pc' = "send" => msg' = m /\ S # {}
      /\ \A c \in S : pc' = "send"
  BY Sent
<1>3. StreamsTyped'
  BY <1>2 DEF StreamInv, StreamsTyped
<1>4. Current'
  <2>1. ASSUME pc' = "send", m.kind = "output" PROVE m.session \in Ids /\ msg'.n = Handled(msg.session)'
    <3>1. PICK i \in Known : i = h.session /\ m.session = i /\ m.n = h.n /\ h.kind = "Output"
      BY <1>1, <2>1 DEF ExitOf
    <3>2. m.n = Handled(i)' /\ i \in Ids /\ msg' = m
      BY <1>1, <1>2, <2>1, <3>1, LineFacts DEF NextHandled
    <3>3. QED
      BY <3>1, <3>2 DEF Handled
  <2>2. ASSUME pc' = "send", m.kind = "exit" PROVE m.session \in Known' /\ m = ExitOf(m.session) /\ Over(msg.session)'
    <3>1. PICK i \in Known : i = h.session /\ m = ExitOf(i) /\ h.kind = "Exit" /\ m.session = i
      BY <1>1, <2>2 DEF ExitOf
    <3>2. Over(i)' /\ i \in Known' /\ msg' = m
      BY <1>1, <1>2, <2>2, <3>1 DEF Lasting
    <3>3. QED
      BY <3>1, <3>2 DEF Over
  <2>3. QED
    BY <1>2, <2>1, <2>2 DEF Current, ExitOf
<1>5. ASSUME NEW c \in Clients PROVE ClientInv(c)'
  <2>1. Due(c)' <=> c \in S /\ conn[c] = "open"
    BY <1>2 DEF Due
  <2>2. Due(c)' => msg' = m
    BY <1>2 DEF Due
  <2>3. Listening(c)' => Listening(c)
    BY DEF Listening
  <2>4. S = clients => (Listening(c)' => Due(c)')
    BY <2>1, <2>3 DEF Listening
  <2>5. ASSUME NEW i \in Known
        PROVE  /\ Handled(i) <= Handled(i)'
               /\ Listening(c)' => Level(c, i)' = Handled(i)
               /\ Over(i) => ~Owed(c, i)' /\ ~ExitDue(c, i)'
               /\ Listening(c)' /\ ExitDue(c, i)' => ~Held(i)'
               /\ Listening(c)' /\ ~ExitDue(c, i)' => (Held(i)' <=> Held(i))
               /\ ~Held(i) => ~Held(i)'
    <3>0. i \in Ids /\ Handled(i) \in Nat
      BY LineFacts, HandledInRange
    <3>1. Over(i) => ~(h.kind \in {"Output", "Exit"} /\ h.session = i)
      <4>1. queue # <<>> /\ h = queue[1] /\ 1 \in DOMAIN queue
        BY LineFacts, Taken DEF Handles
      <4>2. QED
        BY <4>1 DEF Over, About
    <3>2. Owed(c, i)' => h.kind = "Output" /\ h.session = i
      BY <2>2 DEF Owed, ExitOf
    <3>3. ExitDue(c, i)' => h.kind = "Exit" /\ h.session = i
      BY <2>2 DEF ExitDue, ExitOf
    <3>4. h.kind = "Output" /\ h.session = i /\ Listening(c)' => Owed(c, i)'
      BY <2>2, <2>4 DEF Owed
    <3>5. h.kind = "Exit" /\ h.session = i /\ Listening(c)' => ExitDue(c, i)'
      BY <2>2, <2>4 DEF ExitDue, ExitOf
    <3>6. Handled(i)' = IF h.kind = "Output" /\ h.session = i THEN Handled(i) + 1 ELSE Handled(i)
      <4>1. CASE h.kind = "Output"
        BY <1>1, <3>0, <4>1 DEF NextHandled
      <4>2. CASE h.kind # "Output"
        BY <1>1, <3>0, <4>2 DEF Steady
      <4>3. QED
        BY <4>1, <4>2
    <3>7. Handled(i) <= Handled(i)' /\ (Listening(c)' => Level(c, i)' = Handled(i))
      <4>1. CASE h.kind = "Output" /\ h.session = i
        BY <3>0, <3>4, <3>6, <4>1 DEF Level
      <4>2. CASE ~(h.kind = "Output" /\ h.session = i)
        BY <3>0, <3>2, <3>6, <4>2 DEF Level
      <4>3. QED
        BY <4>1, <4>2
    <3>8. QED
      BY <3>1, <3>2, <3>3, <3>5, <3>7, HandlesHeld
  <2>6. ~(Due(c)' /\ msg'.kind = "hello")
    BY <2>2
  <2>7. QED
    BY <1>1, <2>3, <2>5, <2>6, ClientWaits DEF StreamInv
<1>6. QED
  BY <1>1, <1>3, <1>4, <1>5 DEF ClientSide

\* A client is greeted: everyone else's streams rest.
LEMMA GreetingKeeps ==
  ASSUME LineInv, StreamInv, HandleConnected
  PROVE  LineInv' /\ ClientSide'
<1> DEFINE h == Head(queue)
           m == Info("hello")
<1>0. /\ pc = "recv" /\ queue # <<>> /\ h.kind = "Connected" /\ queue' = Tail(queue)
      /\ UNCHANGED <<made, pump, sessions, thread, stream, conn>>
      /\ clients' = clients \cup {h.client} /\ Send(m, {h.client})
  BY DEF HandleConnected, Receive, agentVars, clientVars
<1>1. Handles(h)
  BY <1>0 DEF Handles, Creations
<1>2. LineInv' /\ Lasting /\ h \in Events /\ Steady
  BY <1>0, <1>1, LineTakes
<1>3. PICK g \in Clients : g = h.client /\ stream[g] = <<>>
  <2>1. h.client \in Clients
    BY <1>0, <1>2, EventFacts DEF Lifecycle
  <2>2. 1 \in DOMAIN queue /\ h = queue[1]
    BY <1>0, LineFacts, Taken
  <2>3. ConnectedAt(1, h.client)
    BY <1>0, <2>2 DEF ConnectedAt
  <2>4. QED
    BY <2>1, <2>2, <2>3 DEF StreamInv, AnnouncedOnce
<1>4. to' = {g} /\ pc' = "send" /\ msg' = m
  BY <1>0, <1>3, Sent
<1>5. m.kind = "hello" /\ m = Info("hello")'
  <2>1. m.kind = "hello"
    BY DEF Info
  <2>2. QED
    BY <1>0, <1>2, <2>1, InfoSteady
<1> HIDE DEF h, m
<1>6. StreamsTyped'
  BY <1>0, <1>3, <1>4 DEF StreamInv, StreamsTyped
<1>7. Current'
  BY <1>4, <1>5 DEF Current
<1>8. ClientInv(g)'
  <2>1. stream'[g] = <<>>
    BY <1>0, <1>3
  <2>2. Listening(g)' => Due(g)'
    BY <1>4 DEF Listening, Due
  <2>3. QED
    BY <1>4, <1>5, <2>1, <2>2 DEF ClientInv, Greeted
<1>9. ASSUME NEW c \in Clients, c # g PROVE ClientInv(c)'
  <2>1. ~Due(c)' /\ (Listening(c)' => Listening(c))
    BY <1>0, <1>3, <1>4, <1>9 DEF Due, Listening
  <2>2. ASSUME NEW i \in Known
        PROVE  /\ Handled(i) <= Handled(i)'
               /\ Level(c, i)' = Handled(i)
               /\ ~Owed(c, i)' /\ ~ExitDue(c, i)'
               /\ Held(i)' <=> Held(i)
    <3>1. Handled(i)' = Handled(i) /\ Handled(i) \in Nat
      BY <1>2, LineFacts, HandledInRange DEF Steady
    <3>2. ~Owed(c, i)' /\ ~ExitDue(c, i)'
      BY <2>1 DEF Owed, ExitDue
    <3>3. QED
      BY <1>0, <3>1, <3>2 DEF Level, Held
  <2>3. QED
    BY <1>0, <1>2, <2>1, <2>2, ClientWaits DEF StreamInv
<1>10. QED
  BY <1>2, <1>6, <1>7, <1>8, <1>9 DEF ClientSide

LEMMA HandlersKeep ==
  ASSUME LineInv, StreamInv,
         \/ HandleOutput \/ HandleExit \/ HandleDisconnected
         \/ HandleQuery \/ HandleCreate \/ HandleKill
  PROVE  LineInv' /\ ClientSide'
<1> DEFINE h == Head(queue)
<1>0. /\ pc = "recv" /\ queue # <<>> /\ queue' = Tail(queue)
      /\ UNCHANGED <<made, thread, stream, conn>>
  BY DEF HandleOutput, HandleExit, HandleDisconnected, HandleQuery, HandleCreate, HandleKill, CommandIs,
         Receive, agentVars, clientVars
<1>1. h \in Events
  BY <1>0, LineFacts, Taken
<1> HIDE DEF h
<1>2. CASE HandleOutput
  <2> DEFINE m == [kind |-> "output", session |-> h.session, n |-> h.n]
  <2>1. /\ h.kind = "Output" /\ UNCHANGED <<pump, sessions, clients>> /\ Send(m, clients)
    BY <1>2 DEF HandleOutput, Receive, agentVars, h
  <2>2. Handles(h)
    BY <1>0, <2>1 DEF Handles, Creations, h
  <2>3. QED
    BY <1>0, <2>1, <2>2, HandlingKeeps
<1>3. CASE HandleExit
  <2>1. /\ h.kind = "Exit" /\ UNCHANGED <<pump, clients>> /\ Send(ExitOf(h.session), clients)
        /\ sessions' = [sessions EXCEPT ![h.session] = "Done"]
    BY <1>3 DEF HandleExit, Receive, agentVars, h, ExitOf
  <2>2. Handles(h)
    BY <1>0, <2>1 DEF Handles, Creations, h
  <2>3. ExitOf(h.session).kind # "hello"
    BY DEF ExitOf
  <2>4. QED
    BY <1>0, <2>1, <2>2, <2>3, HandlingKeeps
<1>4. CASE HandleDisconnected
  <2>1. /\ h.kind = "Disconnected" /\ UNCHANGED <<pump, sessions>> /\ Send(NoMsg, {})
        /\ clients' \subseteq clients
    BY <1>4 DEF HandleDisconnected, Receive, agentVars, h
  <2>2. Handles(h)
    BY <1>0, <2>1 DEF Handles, Creations, h
  <2>3. QED
    BY <1>0, <2>1, <2>2, HandlingKeeps DEF NoMsg
<1>5. CASE HandleKill
  <2>1. /\ h.kind = "Command" /\ h.cmd.kind = "kill" /\ UNCHANGED <<pump, sessions, clients>> /\ Send(NoMsg, {})
    BY <1>5 DEF HandleKill, CommandIs, Receive, agentVars, h
  <2>2. Handles(h)
    BY <1>0, <2>1 DEF Handles, Creations, h
  <2>3. QED
    BY <1>0, <2>1, <2>2, HandlingKeeps DEF NoMsg
<1>6. CASE HandleQuery
  <2>1. /\ h.kind = "Command" /\ h.cmd.kind = "query" /\ UNCHANGED <<pump, sessions, clients>>
        /\ Send(Info("list"), Asker) /\ Asker \subseteq clients
    BY <1>6 DEF HandleQuery, CommandIs, Receive, agentVars, h, Asker
  <2>2. Handles(h)
    BY <1>0, <2>1 DEF Handles, Creations, h
  <2>3. Info("list").kind = "list"
    BY DEF Info
  <2>4. QED
    BY <1>0, <2>1, <2>2, <2>3, HandlingKeeps
<1>7. CASE HandleCreate
  <2>1. /\ h.kind = "Command" /\ h.cmd.kind = "create" /\ UNCHANGED clients /\ Asker \subseteq clients
    BY <1>7 DEF HandleCreate, CommandIs, Receive, h, Asker
  <2>2. PICK state \in {"Running", "Failed"} :
          /\ sessions' = Append(sessions, state)
          /\ pump' = [pump EXCEPT ![Len(sessions) + 1] = IF state = "Running" THEN "pumping" ELSE "done"]
          /\ Send([kind |-> "created", session |-> Len(sessions) + 1], Asker)
    BY <1>7 DEF HandleCreate
  <2>3. h \in Creations
    BY <1>1, <2>1 DEF Creations
  <2>4. Handles(h)
    BY <1>0, <2>2, <2>3 DEF Handles, h
  <2>5. QED
    BY <1>0, <2>1, <2>2, <2>4, HandlingKeeps
<1>8. QED
  BY <1>2, <1>3, <1>4, <1>5, <1>6, <1>7

\* The message is written to one more client, if he is still there.
LEMMA WriteKeeps ==
  ASSUME LineInv, StreamInv, NEW w \in Clients, WriteTo(w)
  PROVE  LineInv' /\ ClientSide'
<1>0. /\ pc = "send" /\ w \in to /\ Send(msg, to \ {w})
      /\ UNCHANGED <<queue, made, pump, sessions, thread, clients, conn>>
      /\ IF conn[w] = "open" THEN stream' = [stream EXCEPT ![w] = Append(@, msg)] ELSE UNCHANGED stream
  BY DEF WriteTo, agentVars, clientVars
<1>1. LineInv' /\ Steady /\ Lasting
  BY <1>0, LineRests
<1>2. /\ to' = to \ {w} /\ pc' \in {"check", "send"}
      /\ pc' = "send" => msg' = msg
      /\ \A c \in to \ {w} : pc' = "send"
  BY <1>0, Sent
<1>3. /\ stream = [c \in Clients |-> stream[c]] /\ clients \subseteq Clients /\ to \subseteq clients
      /\ \A c \in Clients : Listed(stream[c])
  BY DEF StreamInv, StreamsTyped
<1>4. /\ stream' = [c \in Clients |-> stream'[c]]
      /\ \A c \in Clients \ {w} : stream'[c] = stream[c]
      /\ conn[w] = "open" => stream'[w] = Append(stream[w], msg)
      /\ conn[w] # "open" => stream'[w] = stream[w]
  <2>1. CASE conn[w] = "open"
    BY <1>0, <1>3, <2>1
  <2>2. CASE conn[w] # "open"
    BY <1>0, <1>3, <2>2
  <2>3. QED
    BY <2>1, <2>2
<1>5. StreamsTyped'
  <2>1. ASSUME NEW c \in Clients PROVE Listed(stream'[c])
    <3>1. Listed(stream[c])
      BY <1>3
    <3>2. CASE c = w /\ conn[w] = "open"
      <4>1. stream'[c] = Append(stream[c], msg)
        BY <1>4, <3>2
      <4>2. Listed(Append(stream[c], msg))
        BY <3>1, ListedAppend
      <4>3. QED
        BY <4>1, <4>2
    <3>3. CASE ~(c = w /\ conn[w] = "open")
      BY <1>4, <3>1, <3>3
    <3>4. QED
      BY <3>2, <3>3
  <2>2. QED
    BY <1>0, <1>2, <1>4, <2>1 DEF StreamInv, StreamsTyped
<1>6. Current'
  <2>1. ASSUME pc' = "send", msg.kind = "output"
        PROVE  msg.session \in Ids /\ msg' = msg /\ msg'.n = Handled(msg.session)'
    <3>1. PICK i \in Ids : i = msg.session /\ msg.n = Handled(i)
      BY <1>0, <2>1 DEF StreamInv, Current
    <3>2. msg.n = Handled(i)' /\ msg' = msg
      BY <1>1, <1>2, <2>1, <3>1 DEF Steady
    <3>3. QED
      BY <3>1, <3>2 DEF Handled
  <2>2. ASSUME pc' = "send", msg.kind = "exit"
        PROVE  msg.session \in Known' /\ msg' = msg /\ msg = ExitOf(msg.session) /\ Over(msg.session)'
    <3>1. PICK i \in Known : i = msg.session /\ msg = ExitOf(i) /\ Over(i)
      BY <1>0, <2>2 DEF StreamInv, Current
    <3>2. i \in Known' /\ Over(i)' /\ msg' = msg
      BY <1>1, <1>2, <2>2, <3>1, LineFacts DEF Lasting, Over
    <3>3. QED
      BY <3>1, <3>2 DEF Over
  <2>3. QED
    BY <1>2, <2>1, <2>2 DEF Current, ExitOf
<1>7. ASSUME NEW c \in Clients PROVE ClientInv(c)'
  <2>1. CASE c = w /\ conn[w] = "open"
    <3>1. Due(c) /\ c \in clients /\ ~Due(c)'
      BY <1>0, <1>2, <1>3, <2>1 DEF Due
    <3>2. stream'[c] = Append(stream[c], msg)
      BY <1>4, <2>1
    <3>3. QED
      BY <1>0, <1>1, <1>3, <3>1, <3>2, ClientTold DEF StreamInv
  <2>2. CASE ~(c = w /\ conn[w] = "open")
    <3>1. stream'[c] = stream[c]
      BY <1>4, <2>2
    <3>2. /\ Listening(c)' => Listening(c) /\ (Due(c)' <=> Due(c))
          /\ Due(c)' => Due(c) /\ msg' = msg
      BY <1>0, <1>2, <2>2 DEF Due, Listening
    <3>3. QED
      BY <1>0, <1>1, <3>1, <3>2, ClientIdles DEF StreamInv
  <2>3. QED
    BY <2>1, <2>2
<1>8. QED
  BY <1>1, <1>5, <1>6, <1>7 DEF ClientSide

\* Of the connections, the threads and the writing.
Introductions ==
  \A c \in Clients :
    /\ conn[c] # "none" => conn'[c] # "none"
    /\ thread'[c] # "none" => thread[c] # "none" \/ conn[c] # "none"
    /\ stream'[c] = stream[c] \/ (c \in clients /\ UNCHANGED <<queue, thread, clients>>)

LEMMA Introduced ==
  ASSUME QueueTyped, StreamsTyped, [Next]_vars
  PROVE  Introductions
<1> USE DEF Introductions
<1>0. thread \in [Clients -> {"none", "reading", "done"}] /\ conn \in [Clients -> {"none", "open", "closed"}]
  BY DEF QueueTyped, StreamsTyped
<1>1. ASSUME UNCHANGED <<thread, stream>>, Connections PROVE Introductions
  BY <1>1 DEF Connections
<1>2. ASSUME NEW i \in Ids, AgentStep(i) PROVE Introductions
  BY <1>0, <1>2 DEF AgentStep, AgentOutput, AgentEnds, LeaveDescendant, DescendantEnds, clientVars
<1>3. ASSUME NEW c \in Clients, ThreadStep(c) \/ ClientCommand(c) PROVE Introductions
  BY <1>0, <1>3 DEF ThreadStep, Accept, ThreadEof, ClientCommand, clientVars
<1>4. ASSUME NEW c \in Clients, ClientReads(c) \/ Connect(c) \/ AutoLeave(c) \/ Leave(c) PROVE Introductions
  BY <1>0, <1>4 DEF ClientReads, Handshake, ClientRead, Connect, AutoLeave, Leave
<1>5. CASE Sigterm \/ UNCHANGED vars
  BY <1>0, <1>5 DEF Sigterm, vars, clientVars
<1>6. CASE Check \/ Timeout \/ DropSession \/ Stop
  BY <1>0, <1>6 DEF Check, Timeout, DropSession, Stop, clientVars
<1>7. CASE \/ HandleOutput \/ HandleExit \/ HandleConnected \/ HandleDisconnected
           \/ HandleQuery \/ HandleCreate \/ HandleKill
  BY <1>0, <1>7 DEF HandleOutput, HandleExit, HandleConnected, HandleDisconnected, HandleQuery, HandleCreate,
                    HandleKill, CommandIs, Receive, clientVars
<1>8. ASSUME NEW w \in Clients, WriteTo(w) PROVE Introductions
  BY <1>0, <1>8 DEF WriteTo, clientVars, StreamsTyped
<1>9. QED
  BY <1>2, <1>3, <1>4, <1>5, <1>6, <1>7, <1>8 DEF Next, LoopStep

LEMMA AnnouncedStep ==
  ASSUME QueueTyped, StreamsTyped, AnnouncedOnce, Introductions, Shape
  PROVE  AnnouncedOnce'
<1>n. PICK n \in Nat : n = Len(queue)
  BY DEF QueueTyped
<1>d. DOMAIN queue = 1..n
  BY <1>n DEF QueueTyped
<1>t. thread \in [Clients -> {"none", "reading", "done"}]
  BY DEF QueueTyped
<1>1. CASE Quiet
  BY <1>1 DEF Quiet, AnnouncedOnce, Introductions, ConnectedAt
<1>s. CASE ~Quiet
  <2>s. \A c \in Clients : stream'[c] = stream[c]
    BY <1>s DEF Quiet, Introductions
  <2>1. ASSUME NEW e \in Events, queue' = Append(queue, e), UNCHANGED clients,
               e.kind = "Connected" => thread[e.client] = "none" /\ thread'[e.client] # "none",
               \A c \in Clients : thread'[c] = "none" => thread[c] = "none"
        PROVE  AnnouncedOnce'
    <3>1. /\ DOMAIN queue' = 1..n + 1 /\ queue'[n + 1] = e
          /\ \A k \in 1..n : queue'[k] = queue[k]
      BY <1>n, <1>d, <2>1, Appended DEF QueueTyped
    <3>2. \A c \in Clients : \A k \in 1..n : ConnectedAt(k, c)' <=> ConnectedAt(k, c)
      BY <3>1 DEF ConnectedAt
    <3>3. \A c \in Clients : ConnectedAt(n + 1, c)' => e.kind = "Connected" /\ e.client = c
      BY <3>1 DEF ConnectedAt
    <3>4. QED
      BY <1>d, <2>s, <2>1, <3>1, <3>2, <3>3 DEF AnnouncedOnce, Introductions
  <2>2. CASE Feeds
    BY <2>1, <2>2 DEF Feeds, Lifecycle
  <2>3. ASSUME NEW a \in Clients, AcceptFeeds(a) PROVE AnnouncedOnce'
    <3>1. Announces(a) \in Events /\ Announces(a).kind = "Connected" /\ Announces(a).client = a
      BY DEF Announces, Events
    <3>2. /\ queue' = Append(queue, Announces(a)) /\ UNCHANGED clients
          /\ thread[a] = "none" /\ thread' = [thread EXCEPT ![a] = "reading"]
      BY <2>3 DEF AcceptFeeds
    <3>3. thread'[a] # "none" /\ \A c \in Clients : thread'[c] = "none" => thread[c] = "none"
      BY <1>t, <3>2
    <3>4. QED
      BY <2>1, <3>1, <3>2, <3>3
  <2>4. ASSUME NEW a \in Clients, EofFeeds(a) PROVE AnnouncedOnce'
    <3>1. Revokes(a) \in Events /\ Revokes(a).kind # "Connected"
      BY DEF Revokes, Events
    <3>2. /\ queue' = Append(queue, Revokes(a)) /\ UNCHANGED clients
          /\ thread' = [thread EXCEPT ![a] = "done"]
      BY <2>4 DEF EofFeeds
    <3>3. \A c \in Clients : thread'[c] = "none" => thread[c] = "none"
      BY <1>t, <3>2
    <3>4. QED
      BY <2>1, <3>1, <3>2, <3>3
  <2>5. CASE Takes
    <3>1. /\ DOMAIN queue' = 1..n - 1 /\ Head(queue) = queue[1] /\ 1 \in 1..n
          /\ \A k \in 1..n - 1 : queue'[k] = queue[k + 1] /\ k + 1 \in 1..n /\ k + 1 # 1
          /\ UNCHANGED thread
      BY <1>n, <1>d, <2>5, Taken DEF QueueTyped, Takes
    <3>2. \A c \in Clients : \A k \in 1..n - 1 : ConnectedAt(k, c)' <=> ConnectedAt(k + 1, c)
      BY <3>1 DEF ConnectedAt
    <3>3. \A c \in Clients : c \in clients' => c \in clients \/ ConnectedAt(1, c)
      BY <2>5, <3>1 DEF Takes, ConnectedAt
    <3>4. ASSUME NEW c \in Clients, thread'[c] = "none"
          PROVE  c \notin clients' /\ stream'[c] = <<>> /\ \A k \in DOMAIN queue' : ~ConnectedAt(k, c)'
      BY <1>d, <2>s, <3>1, <3>2, <3>3, <3>4 DEF AnnouncedOnce
    <3>5. ASSUME NEW c \in Clients, NEW k \in DOMAIN queue', ConnectedAt(k, c)'
          PROVE  /\ c \notin clients' /\ stream'[c] = <<>>
                 /\ \A j \in DOMAIN queue' : ConnectedAt(j, c)' => j = k
      <4>1. k \in 1..n - 1 /\ k + 1 \in 1..n /\ ConnectedAt(k + 1, c) /\ k + 1 # 1
        BY <3>1, <3>2, <3>5
      <4>2. /\ c \notin clients /\ stream[c] = <<>>
            /\ \A j \in 1..n : ConnectedAt(j, c) => j = k + 1
        BY <1>d, <4>1 DEF AnnouncedOnce
      <4>3. ~ConnectedAt(1, c)
        BY <3>1, <4>1, <4>2
      <4>4. \A j \in 1..n - 1 : ConnectedAt(j, c)' => j = k
        BY <3>1, <3>2, <4>1, <4>2
      <4>5. QED
        BY <2>s, <3>1, <3>3, <4>2, <4>3, <4>4
    <3>6. QED
      BY <3>1, <3>4, <3>5 DEF AnnouncedOnce, Introductions
  <2>6. QED
    BY <1>s, <2>2, <2>3, <2>4, <2>5 DEF Shape
<1>2. QED
  BY <1>1, <1>s

-----------------------------------------------------------------------------
(* Every step *)

LEMMA ServerInitially == Init => LineInv /\ StreamInv
<1> SUFFICES ASSUME Init PROVE LineInv /\ StreamInv
  OBVIOUS
<1>1. /\ queue = <<>> /\ DOMAIN queue = {} /\ clients = {} /\ to = {} /\ pc = "check"
      /\ made = [i \in Ids |-> 0] /\ conn = [c \in Clients |-> "none"]
      /\ thread = [c \in Clients |-> "none"] /\ stream = [c \in Clients |-> <<>>]
      /\ pump = [i \in Ids |-> IF i \in Known /\ Held(i) THEN "pumping" ELSE "done"]
      /\ sessions \in [1..InitialAgents -> {"Running", "Failed"}]
  BY DEF Init
<1>2. sessions \in Seq(AgentState) /\ Len(sessions) = InitialAgents
  BY <1>1, DaemonAssumption DEF AgentState
<1>3. AgentsTyped
  BY <1>1, <1>2, DaemonAssumption DEF AgentsTyped, QueueTyped
<1>4. Room
  <2>1. Ordered = {}
    BY <1>1 DEF Ordered
  <2>2. QED
    BY <1>2, <2>1, FS_EmptySet, DaemonAssumption DEF Room
<1>5. InLine
  <2> SUFFICES ASSUME NEW i \in Ids PROVE Lined(queue, i, 0)
    BY <1>1 DEF InLine
  <2>1. Waits(queue, i) = {}
    BY <1>1 DEF Waits
  <2>2. Before(queue, i, 0) = 0
    BY <2>1, FS_EmptySet DEF Before
  <2>3. QED
    BY <2>1, <2>2 DEF Lined
<1>6. LastOfThread /\ NotYet
  BY <1>1 DEF LastOfThread, NotYet, Over
<1>7. Listed(<<>>)
  <2>1. <<>> \in Seq({})
    OBVIOUS
  <2>2. QED
    BY <2>1, SeqIsListed
<1>8. StreamsTyped /\ AnnouncedOnce /\ Current
  BY <1>1, <1>7 DEF StreamsTyped, AnnouncedOnce, Current
<1>9. ASSUME NEW c \in Clients PROVE ClientInv(c)
  BY <1>1 DEF ClientInv, Greeted, Listening, Due
<1>10. QED
  BY <1>3, <1>4, <1>5, <1>6, <1>8, <1>9 DEF LineInv, StreamInv

LEMMA ServerStep == LineInv /\ StreamInv /\ [Next]_vars => LineInv' /\ StreamInv'
<1> SUFFICES ASSUME LineInv, StreamInv, [Next]_vars PROVE LineInv' /\ StreamInv'
  OBVIOUS
<1>0. QueueTyped /\ StreamsTyped /\ AnnouncedOnce
  BY DEF LineInv, AgentsTyped, StreamInv
<1>1. AnnouncedOnce'
  BY <1>0, Introduced, AnnouncedStep, StepShape
<1>2. Elsewhere => LineInv' /\ ClientSide'
  BY ElsewhereKeeps DEF ClientSide, Elsewhere
<1>3. ASSUME \E i \in Ids : AgentStep(i) PROVE LineInv' /\ ClientSide'
  BY <1>0, <1>2, <1>3, AgentElsewhere
<1>4. ASSUME \E c \in Clients : ThreadStep(c) \/ ClientCommand(c) PROVE LineInv' /\ ClientSide'
  BY <1>0, <1>2, <1>4, ThreadElsewhere
<1>5. ASSUME \/ Sigterm \/ UNCHANGED vars
             \/ \E c \in Clients : ClientReads(c) \/ Connect(c) \/ AutoLeave(c) \/ Leave(c)
      PROVE  LineInv' /\ ClientSide'
  BY <1>0, <1>2, <1>5, RestElsewhere
<1>6. ASSUME LoopStep PROVE LineInv' /\ ClientSide'
  BY <1>6, PausesKeep, HandlersKeep, GreetingKeeps, WriteKeeps DEF LoopStep
<1>7. LineInv' /\ ClientSide'
  BY <1>2, <1>3, <1>4, <1>5, <1>6 DEF Next
<1>8. QED
  BY <1>1, <1>7 DEF StreamInv, ClientSide

LEMMA ServerAlways == DaemonSpec => [](LineInv /\ StreamInv)
<1>1. QED
  BY ServerInitially, ServerStep, PTL DEF DaemonSpec

\* Every client is sent, of each session of its hello, the chunks that follow those made
\* before, one by one and none twice, and the exit last (one queue, one event thread, and
\* writes that block instead of skipping: run and broadcast).
THEOREM StreamsAreInOrder == DaemonSpec => []StreamInOrder
<1>1. LineInv /\ StreamInv => StreamInOrder
  <2> SUFFICES ASSUME LineInv, StreamInv, NEW c \in Clients, stream[c] # <<>>, NEW i \in Shown(c)
               PROVE  LET start == stream[c][1].after[i]
                      IN  /\ \A j, k \in OutputsAt(c, i) : j < k => stream[c][j].n < stream[c][k].n
                          /\ \E last \in start..made[i] :
                               /\ {stream[c][k].n : k \in OutputsAt(c, i)} = start + 1..last
                               /\ \A j \in DOMAIN stream[c] : stream[c][j] = [kind |-> "exit", session |-> i] =>
                                    /\ last = made[i]
                                    /\ \A k \in j + 1..Len(stream[c]) :
                                         stream[c][k].kind \in {"output", "exit"} => stream[c][k].session # i
    BY DEF StreamInOrder, Shown
  <2>1. Followed(c, i) /\ i \in Ids
    BY LineFacts DEF StreamInv, ClientInv, Greeted
  <2>2. Handled(i) \in 0..made[i] /\ made[i] \in Nat
    BY <2>1, HandledInRange
  <2>3. stream[c][1].after[i] \in Nat
    BY <2>1 DEF Followed
  <2>4. \A last \in stream[c][1].after[i]..Handled(i) : last \in stream[c][1].after[i]..made[i]
    BY <2>2, <2>3
  <2>5. QED
    BY <2>1, <2>4 DEF Followed, Chunks, ExitOf
<1>2. QED
  BY <1>1, ServerAlways, PTL

\* Whoever is registered and there has been greeted, and knows of each session that was
\* running then whether it still is, whenever the loop is between two events
\* (handle_client_connected, ChildExited).
THEOREM ViewsAreCurrent == DaemonSpec => []ViewIsCurrent
<1>1. LineInv /\ StreamInv => ViewIsCurrent
  <2> SUFFICES ASSUME LineInv, StreamInv, pc \in {"check", "recv"}, NEW c \in clients, conn[c] = "open"
               PROVE  /\ stream[c] # <<>> /\ stream[c][1].kind = "hello"
                      /\ \A i \in DOMAIN stream[c][1].sessions :
                           stream[c][1].sessions[i] = "Running" => (Told(c, i) <=> ~Held(i))
    BY DEF ViewIsCurrent
  <2>1. c \in Clients /\ Listening(c) /\ ~Due(c)
    BY DEF StreamInv, StreamsTyped, Listening, Due
  <2>2. stream[c] # <<>> /\ stream[c][1].kind = "hello"
    BY <2>1 DEF StreamInv, ClientInv, Greeted
  <2>3. \A i \in Shown(c) : Followable(c, i)
    BY <2>1, <2>2 DEF StreamInv, ClientInv
  <2>4. QED
    BY <2>1, <2>2, <2>3 DEF Followable, ExitDue, Shown
<1>2. QED
  BY <1>1, ServerAlways, PTL

=============================================================================
