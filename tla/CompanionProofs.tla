--------------------------- MODULE CompanionProofs ---------------------------
(***************************************************************************)
(* For any number of clients and snapshots and any capacity of the         *)
(* broadcast channel, what a client of the companion shows goes forward.   *)
(***************************************************************************)
EXTENDS Companion, TLAPS

Tasks == {"away", "connecting", "handshake", "greeting", "sending", "receiving", "gone"}
Unserved == {"away", "connecting"}
Ungreeted == Unserved \union {"handshake", "greeting"}
Numbers == Nat \union {Nothing}

CompanionTyped ==
  /\ sent \in Nat /\ taken \in Nat /\ latest \in Nat /\ cast \in Nat
  /\ task \in [Clients -> Tasks]
  /\ joined \in [Clients -> Nat] /\ next \in [Clients -> Nat]
  /\ carrying \in [Clients -> Numbers] /\ view \in [Clients -> Numbers]
  /\ shown \in [Clients -> {"nothing", "greeting", "broadcast"}]

\* The latest snapshot is kept before it is broadcast.
LatestFirst == cast <= latest /\ taken = latest

\* A subscription is at a number after those broadcast when it was made.
Subscribed(c) ==
  /\ joined[c] <= cast
  /\ task[c] \notin Unserved \union {"gone"} => joined[c] < next[c]

\* What was shown, by how far the conversation has come.
Shown(c) ==
  /\ task[c] \in Ungreeted => shown[c] = "nothing"
  /\ shown[c] = "nothing" => view[c] = Nothing
  /\ shown[c] = "broadcast" => view[c] < next[c]

\* What is being sent: the greeting, at least as new as the subscription, or a
\* broadcast, newer than the last one.
Carried(c) ==
  task[c] = "sending" => /\ joined[c] <= carrying[c]
                         /\ shown[c] # "nothing" => carrying[c] < next[c]
                         /\ shown[c] = "broadcast" => view[c] < carrying[c]

ForwardInv ==
  /\ CompanionTyped
  /\ LatestFirst
  /\ \A c \in Clients : Subscribed(c) /\ Shown(c) /\ Carried(c)

-----------------------------------------------------------------------------
(* What the steps do to one client *)

Still(c) ==
  /\ joined'[c] = joined[c] /\ next'[c] = next[c] /\ carrying'[c] = carrying[c]
  /\ view'[c] = view[c] /\ shown'[c] = shown[c]

\* The step leaves a client alone, but for a task that ends.
LeftAlone(c) == Still(c) /\ task'[c] \in {task[c], "gone"}

LEMMA AloneStays ==
  ASSUME ForwardInv, NEW c \in Clients, cast' \in Nat, cast <= cast', LeftAlone(c)
  PROVE  Subscribed(c)' /\ Shown(c)' /\ Carried(c)'
<1>1. joined[c] \in Nat /\ cast \in Nat
  BY DEF ForwardInv, CompanionTyped
<1>2. Subscribed(c) /\ Shown(c) /\ Carried(c)
  BY DEF ForwardInv
<1>3. joined'[c] <= cast'
  BY <1>1, <1>2 DEF LeftAlone, Still, Subscribed
<1> QED
  BY <1>2, <1>3 DEF LeftAlone, Still, Subscribed, Shown, Carried, Unserved, Ungreeted

\* An application's or server's step: no client but by the end of its task.
LEMMA ServerSteps ==
  ASSUME ForwardInv, CompanionTyped', LatestFirst', cast <= cast',
         \A c \in Clients : LeftAlone(c)
  PROVE  ForwardInv'
<1>1. cast' \in Nat
  BY DEF CompanionTyped
<1>2. \A c \in Clients : Subscribed(c)' /\ Shown(c)' /\ Carried(c)'
  BY <1>1, AloneStays
<1> QED
  BY <1>2 DEF ForwardInv

\* A step of one client's task.
LEMMA ClientSteps ==
  ASSUME ForwardInv, NEW c \in Clients, CompanionTyped', UNCHANGED <<taken, latest, cast>>,
         \A d \in Clients \ {c} : LeftAlone(d),
         Subscribed(c)', Shown(c)', Carried(c)'
  PROVE  ForwardInv'
<1>1. cast' \in Nat /\ cast <= cast'
  BY DEF CompanionTyped, ForwardInv
<1>2. LatestFirst'
  BY DEF ForwardInv, LatestFirst
<1>3. \A d \in Clients : Subscribed(d)' /\ Shown(d)' /\ Carried(d)'
  BY <1>1, AloneStays
<1> QED
  BY <1>2, <1>3 DEF ForwardInv

-----------------------------------------------------------------------------

LEMMA OldestTyped == ASSUME cast \in Nat PROVE Oldest \in Nat
BY CompanionAssumption DEF Oldest, Most

LEMMA ForwardInitially == CompanionInit => ForwardInv
BY DEF CompanionInit, ForwardInv, CompanionTyped, LatestFirst, Subscribed, Shown, Carried,
       Tasks, Unserved, Ungreeted, Numbers, Nothing

LEMMA ForwardStep == ForwardInv /\ [CompanionNext]_companionVars => ForwardInv'
<1> SUFFICES ASSUME ForwardInv, [CompanionNext]_companionVars
             PROVE  ForwardInv'
  OBVIOUS
<1> USE DEF Tasks, Numbers, Nothing
<1>0. CompanionTyped /\ LatestFirst
  BY DEF ForwardInv
<1>1. ASSUME Publish \/ AppEnds PROVE ForwardInv'
  <2>1. CompanionTyped' /\ LatestFirst' /\ cast <= cast' /\ \A c \in Clients : LeftAlone(c)
    BY <1>0, <1>1 DEF Publish, AppEnds, serverVars, clientVars, CompanionTyped, LatestFirst,
                      LeftAlone, Still
  <2> QED BY <2>1, ServerSteps
<1>2. ASSUME ServeNext PROVE ForwardInv'
  <2>1. CompanionTyped' /\ LatestFirst' /\ cast <= cast' /\ \A c \in Clients : LeftAlone(c)
    BY <1>0, <1>2 DEF ServeNext, Take, Broadcast, NoMoreUpdates, clientVars, CompanionTyped,
                      LatestFirst, LeftAlone, Still
  <2> QED BY <2>1, ServerSteps
<1>3. ASSUME AcceptFails \/ DropRuntime PROVE ForwardInv'
  <2>1. CompanionTyped' /\ LatestFirst' /\ cast <= cast' /\ \A c \in Clients : LeftAlone(c)
    BY <1>0, <1>3 DEF AcceptFails, DropRuntime, clientVars, CompanionTyped, LatestFirst,
                      LeftAlone, Still
  <2> QED BY <2>1, ServerSteps
<1>4. ASSUME NEW c \in Clients, Accept(c) PROVE ForwardInv'
  <2>1. CompanionTyped' /\ UNCHANGED <<taken, latest, cast>> /\ \A d \in Clients \ {c} : LeftAlone(d)
    BY <1>0, <1>4 DEF Accept, serverVars, CompanionTyped, LeftAlone, Still
  <2>2. Subscribed(c)' /\ Shown(c)' /\ Carried(c)'
    BY <1>0, <1>4 DEF Accept, serverVars, ForwardInv, CompanionTyped, Subscribed, Shown, Carried,
                      Unserved, Ungreeted
  <2> QED BY <2>1, <2>2, ClientSteps
<1>5. ASSUME NEW c \in Clients, Handshake(c) \/ Closed(c) \/ ClientConnects(c) \/ ClientLeaves(c)
      PROVE ForwardInv'
  <2>1. CompanionTyped' /\ UNCHANGED <<taken, latest, cast>> /\ \A d \in Clients \ {c} : LeftAlone(d)
    BY <1>0, <1>5 DEF Handshake, Closed, ClientConnects, ClientLeaves, serverVars, CompanionTyped,
                      LeftAlone, Still
  <2>2. Subscribed(c)' /\ Shown(c)' /\ Carried(c)'
    BY <1>0, <1>5 DEF Handshake, Closed, ClientConnects, ClientLeaves, serverVars, ForwardInv,
                      CompanionTyped, Subscribed, Shown, Carried, Unserved, Ungreeted
  <2> QED BY <2>1, <2>2, ClientSteps
<1>6. ASSUME NEW c \in Clients, ReadLatest(c) PROVE ForwardInv'
  <2>1. CompanionTyped' /\ UNCHANGED <<taken, latest, cast>> /\ \A d \in Clients \ {c} : LeftAlone(d)
    BY <1>0, <1>6 DEF ReadLatest, Greeting, serverVars, CompanionTyped, LeftAlone, Still
  <2>2. Subscribed(c)' /\ Shown(c)' /\ Carried(c)'
    BY <1>0, <1>6 DEF ReadLatest, Greeting, serverVars, ForwardInv, CompanionTyped, LatestFirst,
                      Subscribed, Shown, Carried, Unserved, Ungreeted
  <2> QED BY <2>1, <2>2, ClientSteps
<1>7. ASSUME NEW c \in Clients, Sent(c) PROVE ForwardInv'
  <2>1. CompanionTyped' /\ UNCHANGED <<taken, latest, cast>> /\ \A d \in Clients \ {c} : LeftAlone(d)
    BY <1>0, <1>7 DEF Sent, serverVars, CompanionTyped, LeftAlone, Still
  <2>2. Subscribed(c)' /\ Shown(c)' /\ Carried(c)'
    BY <1>0, <1>7 DEF Sent, serverVars, ForwardInv, CompanionTyped, Subscribed, Shown, Carried,
                      Unserved, Ungreeted
  <2> QED BY <2>1, <2>2, ClientSteps
<1>8. ASSUME NEW c \in Clients, Receive(c) PROVE ForwardInv'
  <2>0. Oldest \in Nat
    BY <1>0, OldestTyped DEF CompanionTyped
  <2>1. CompanionTyped' /\ UNCHANGED <<taken, latest, cast>> /\ \A d \in Clients \ {c} : LeftAlone(d)
    BY <1>0, <1>8, <2>0 DEF Receive, AfterLag, serverVars, CompanionTyped, LeftAlone, Still
  <2>2. Subscribed(c)' /\ Shown(c)' /\ Carried(c)'
    BY <1>0, <1>8, <2>0 DEF Receive, AfterLag, serverVars, ForwardInv, CompanionTyped, Subscribed,
                            Shown, Carried, Unserved, Ungreeted
  <2> QED BY <2>1, <2>2, ClientSteps
<1>9. ASSUME UNCHANGED companionVars PROVE ForwardInv'
  BY <1>9 DEF companionVars, serverVars, clientVars, ForwardInv, CompanionTyped, LatestFirst,
              Subscribed, Shown, Carried
<1> QED
  BY <1>1, <1>2, <1>3, <1>4, <1>5, <1>6, <1>7, <1>8, <1>9 DEF CompanionNext, HandlerNext

-----------------------------------------------------------------------------

\* One step shows a client nothing older than its subscription, and nothing
\* older than what it shows but for what follows the greeting.
LEMMA StepForward ==
  ASSUME ForwardInv, [CompanionNext]_companionVars, NEW c \in Clients, view'[c] # view[c]
  PROVE  view'[c] >= joined[c] /\ (view'[c] > view[c] \/ shown[c] = "greeting")
<1>1. \E d \in Clients : Sent(d)
  BY DEF CompanionNext, ServeNext, HandlerNext, Publish, AppEnds, Take, Broadcast, NoMoreUpdates,
         AcceptFails, DropRuntime, Accept, Handshake, ReadLatest, Receive, Closed, ClientConnects,
         ClientLeaves, companionVars, clientVars
<1>2. Sent(c)
  BY <1>1 DEF Sent, ForwardInv, CompanionTyped
<1>3. view'[c] = carrying[c] /\ task[c] = "sending"
  BY <1>2 DEF Sent, ForwardInv, CompanionTyped
<1>4. /\ joined[c] \in Nat /\ carrying[c] \in Numbers /\ view[c] \in Numbers
      /\ shown[c] \in {"nothing", "greeting", "broadcast"}
      /\ joined[c] <= carrying[c]
      /\ shown[c] = "nothing" => view[c] = Nothing
      /\ shown[c] = "broadcast" => view[c] < carrying[c]
  BY <1>3 DEF ForwardInv, CompanionTyped, Shown, Carried
<1> QED
  BY <1>3, <1>4 DEF Numbers, Nothing

\* For any clients, snapshots and capacity: a client is never shown what was
\* broadcast before its connection was accepted, and goes back once at most, right
\* after its greeting (serve, handle_connection).
THEOREM ClientsGoForward == CompanionSpec => ForwardAfterGreeting
<1>1. ForwardInv /\ [CompanionNext]_companionVars
        => [\A c \in Clients : view'[c] # view[c] =>
              /\ view'[c] >= joined[c]
              /\ view'[c] > view[c] \/ shown[c] = "greeting"]_companionVars
  BY StepForward
<1> QED
  BY <1>1, ForwardInitially, ForwardStep, PTL DEF CompanionSpec, ForwardAfterGreeting

=============================================================================
