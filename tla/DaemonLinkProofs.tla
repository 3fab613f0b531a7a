-------------------------- MODULE DaemonLinkProofs --------------------------
(***************************************************************************)
(* What is proved of DaemonLink, for any number of connections, panes,     *)
(* requests, breaks and frames: an acknowledged request was carried out,   *)
(* and a pane other than the first is fed its own session's output only.   *)
(***************************************************************************)
EXTENDS DaemonLink, TLAPS, FiniteSetTheorems, SequenceTheorems

Pieces == [id : 1..MaxRequests, ok : BOOLEAN, part : {1, 2}]
Updates == [kind : {"Data", "Event"}, pane : PaneIds, sid : PaneIds]
PaneRecord == [id : PaneIds, state : {"Running", "Done", "Failed"}, sid : PaneIds \union {None}]

\* The types of what the two properties depend on.
LinkTypeOK ==
  /\ requests \in Seq(Requests)
  /\ replies \in Seq(Pieces)
  /\ tail \in Pieces \union {None}
  /\ stream \in [Conns -> Seq(Frames)]
  /\ session_map \in [Conns -> SUBSET (PaneIds \X PaneIds)]
  /\ conns \in Nat
  /\ next_request_id \in Nat \ {0}
  /\ rpc \in Requests \union {None}
  /\ panes \in Seq(PaneRecord)
  /\ next_pane_id \in Nat \ {0}
  /\ bus \in Seq(Updates)

\* A reply that says ok, whole or in pieces, is of a request carried out on this
\* very connection.
OkMeansServed ==
  /\ acked \subseteq served
  /\ \A k \in 1..Len(replies) : replies[k].ok => replies[k].id \in served
  /\ (tail # None /\ tail.ok) => tail.id \in served

Opening(p) == rpc # None /\ rpc.type = "createOrAttach" /\ rpc.sid = p

\* Pane ids are handed out once, and an acknowledged session has its pane's id.
PanesAreKnown ==
  /\ \A p \in PaneIds : Opening(p) => p < next_pane_id
  /\ \A i \in 1..Len(panes) :
       /\ panes[i].id < next_pane_id
       /\ panes[i].sid \in {None, panes[i].id}
       /\ ~Opening(panes[i].id)
       /\ \A j \in 1..Len(panes) : panes[i].id = panes[j].id => i = j

\* The id p was a pane's, and is now at most that of a pane whose session is p.
Home(p) ==
  /\ p < next_pane_id /\ ~Opening(p)
  /\ \A i \in 1..Len(panes) : panes[i].id = p => panes[i].sid = p

\* What is registered is at home, and so is output on its way, unless it goes to
\* the first pane for want of an entry.
RoutesLeadHome ==
  /\ \A c \in Conns : \A r \in session_map[c] : r[1] = r[2] /\ Home(r[2])
  /\ \A k \in 1..Len(bus) : bus[k].kind = "Data" =>
       bus[k].pane = 0 \/ (bus[k].pane = bus[k].sid /\ Home(bus[k].pane))

LinkInv == LinkTypeOK /\ OkMeansServed /\ PanesAreKnown /\ RoutesLeadHome /\ misfed \subseteq {0}
-----------------------------------------------------------------------------
(* Sequences and sets *)

LEMMA AppendIs ==
  ASSUME NEW S, NEW q \in Seq(S), NEW e \in S
  PROVE  /\ Append(q, e) \in Seq(S)
         /\ Len(q) \in Nat /\ Len(Append(q, e)) = Len(q) + 1
         /\ Append(q, e)[Len(q) + 1] = e
         /\ \A i \in 1..Len(q) : Append(q, e)[i] = q[i]
  OBVIOUS

LEMMA TailIs ==
  ASSUME NEW S, NEW q \in Seq(S), q # <<>>
  PROVE  /\ Tail(q) \in Seq(S)
         /\ Len(q) \in Nat \ {0} /\ 1 \in 1..Len(q)
         /\ Head(q) = q[1] /\ Head(q) \in S
         /\ Len(Tail(q)) = Len(q) - 1
         /\ \A i \in 1..Len(Tail(q)) : i + 1 \in 1..Len(q) /\ Tail(q)[i] = q[i + 1]
  OBVIOUS

LEMMA ConcatIs ==
  ASSUME NEW S, NEW q \in Seq(S), NEW r \in Seq(S)
  PROVE  /\ q \o r \in Seq(S)
         /\ Len(q) \in Nat /\ Len(r) \in Nat /\ Len(q \o r) = Len(q) + Len(r)
         /\ \A k \in 1..Len(q \o r) : (q \o r)[k] = IF k <= Len(q) THEN q[k] ELSE r[k - Len(q)]
  OBVIOUS

\* Every element of a sequence with position n taken out is one of the sequence's,
\* and different positions are of different positions.
LEMMA RemoveAtIs ==
  ASSUME NEW S, NEW q \in Seq(S), NEW n \in 1..Len(q)
  PROVE  /\ RemoveAt(q, n) \in Seq(S)
         /\ \A i \in 1..Len(RemoveAt(q, n)) :
              /\ (IF i < n THEN i ELSE i + 1) \in 1..Len(q)
              /\ RemoveAt(q, n)[i] = q[IF i < n THEN i ELSE i + 1]
  <1> DEFINE before == SubSeq(q, 1, n - 1)
             after == SubSeq(q, n + 1, Len(q))
  <1>1. Len(q) \in Nat
    OBVIOUS
  <1>2. before \in Seq(S) /\ Len(before) = n - 1 /\ \A i \in 1..(n - 1) : before[i] = q[i]
    BY <1>1, SubSeqProperties
  <1>3. after \in Seq(S) /\ Len(after) = Len(q) - n /\ \A i \in 1..(Len(q) - n) : after[i] = q[n + i]
    BY <1>1, SubSeqProperties
  <1> HIDE DEF before, after
  <1>4. /\ before \o after \in Seq(S) /\ Len(before \o after) = Len(before) + Len(after)
        /\ \A i \in 1..(Len(before) + Len(after)) :
             (before \o after)[i] = IF i <= Len(before) THEN before[i] ELSE after[i - Len(before)]
    BY <1>2, <1>3, ConcatProperties
  <1>5. Len(before) + Len(after) = Len(q) - 1
    BY <1>1, <1>2, <1>3
  <1>6. \A i \in 1..(Len(q) - 1) : (before \o after)[i] = IF i < n THEN q[i] ELSE q[i + 1]
    BY <1>1, <1>2, <1>3, <1>4, <1>5
  <1>7. RemoveAt(q, n) = before \o after
    BY DEF RemoveAt, before, after
  <1> QED BY <1>1, <1>4, <1>5, <1>6, <1>7

\* SetToSeq lists a finite set.
LEMMA SetToSeqIs ==
  ASSUME NEW S, IsFiniteSet(S)
  PROVE  Cardinality(S) \in Nat /\ SetToSeq(S) \in [1..Cardinality(S) -> S]
  <1>1. Cardinality(S) \in Nat
    BY FS_CardinalityType
  <1>2. PICK f : f \in Bijection(1..Cardinality(S), S)
    BY FS_CountingElements, FS_NatBijection, FS_CardinalityType DEF ExistsBijection
  <1>3. f \in [1..Cardinality(S) -> S] /\ IsInjective(f)
    BY <1>2 DEF Bijection, Injection, IsInjective
  <1> QED BY <1>1, <1>3 DEF SetToSeq

-----------------------------------------------------------------------------
(* What the types say of the elements *)

LEMMA RecordFacts ==
  /\ \A r \in PaneRecord : r.id \in PaneIds /\ r.sid \in PaneIds \union {None}
  /\ \A u \in Updates : u.pane \in PaneIds /\ u.sid \in PaneIds
  /\ \A f \in Frames : f.sid \in PaneIds /\ f.ftype \in {"Data", "Event"}
  /\ \A q \in Requests : q.id \in 1..MaxRequests /\ q.sid \in PaneIds /\ q.type \in {"createOrAttach", "write"}
  <1> DEFINE P == PaneIds
  <1> HIDE DEF P
  <1>1. \A r \in [id : P, state : {"Running", "Done", "Failed"}, sid : P \union {None}] : r.id \in P /\ r.sid \in P \union {None}
    OBVIOUS
  <1>2. \A u \in [kind : {"Data", "Event"}, pane : P, sid : P] : u.pane \in P /\ u.sid \in P
    OBVIOUS
  <1>3. \A f \in [ftype : {"Data", "Event"}, sid : P] : f.sid \in P /\ f.ftype \in {"Data", "Event"}
    OBVIOUS
  <1>4. \A q \in [id : 1..MaxRequests, type : {"createOrAttach", "write"}, sid : P, sent : BOOLEAN] :
          q.id \in 1..MaxRequests /\ q.sid \in P /\ q.type \in {"createOrAttach", "write"}
    OBVIOUS
  <1> QED BY <1>1, <1>2, <1>3, <1>4 DEF P, PaneRecord, Updates, Frames, Requests

LEMMA Facts ==
  ASSUME LinkTypeOK
  PROVE  /\ Len(panes) \in Nat /\ Positions = 1..Len(panes)
         /\ \A i \in 1..Len(panes) :
              panes[i] \in PaneRecord /\ panes[i].id \in PaneIds /\ panes[i].sid \in PaneIds \union {None}
         /\ \A k \in 1..Len(bus) : bus[k] \in Updates /\ bus[k].pane \in PaneIds /\ bus[k].sid \in PaneIds
         /\ \A c \in Conns : \A r \in session_map[c] : r = <<r[1], r[2]>> /\ r[1] \in PaneIds /\ r[2] \in PaneIds
  <1>1. /\ panes \in Seq(PaneRecord) /\ bus \in Seq(Updates)
        /\ session_map \in [Conns -> SUBSET (PaneIds \X PaneIds)]
    BY DEF LinkTypeOK
  <1>2. /\ Len(panes) \in Nat /\ Positions = 1..Len(panes)
        /\ \A i \in 1..Len(panes) : panes[i] \in PaneRecord
        /\ \A k \in 1..Len(bus) : bus[k] \in Updates
    BY <1>1 DEF Positions
  <1>3. \A c \in Conns : \A r \in session_map[c] : r \in PaneIds \X PaneIds
    BY <1>1
  <1>4. \A r \in PaneIds \X PaneIds : r = <<r[1], r[2]>> /\ r[1] \in PaneIds /\ r[2] \in PaneIds
    OBVIOUS
  <1> QED BY <1>2, <1>3, <1>4, RecordFacts

-----------------------------------------------------------------------------
(* What a step may leave alone *)

LEMMA SameReplies ==
  ASSUME OkMeansServed, UNCHANGED <<acked, served, replies, tail>>
  PROVE  OkMeansServed'
  BY DEF OkMeansServed

LEMMA SameGrid ==
  ASSUME PanesAreKnown, UNCHANGED <<rpc, panes, next_pane_id>>
  PROVE  PanesAreKnown' /\ \A p \in PaneIds : Home(p) => Home(p)'
  BY DEF PanesAreKnown, Home, Opening

\* The map and the bus do not change and no id loses its home.
LEMMA SameRoutes ==
  ASSUME LinkTypeOK, RoutesLeadHome, UNCHANGED <<session_map, bus>>,
         \A p \in PaneIds : Home(p) => Home(p)'
  PROVE  RoutesLeadHome'
  <1>1. \A c \in Conns : \A r \in session_map[c] : r[2] \in PaneIds
    BY Facts
  <1>2. \A k \in 1..Len(bus) : bus[k].pane \in PaneIds
    BY Facts
  <1> QED BY <1>1, <1>2 DEF RoutesLeadHome

-----------------------------------------------------------------------------
(* The client's steps *)

\* Attach: nothing is left of the old connection, and the new map has the panes'
\* own entries.
LEMMA AttachKeeps ==
  ASSUME LinkInv, Attach, UNCHANGED <<rpc, paneVars, bus, misfed>>
  PROVE  LinkInv'
  <1> USE DEF LinkInv, Attach, paneVars
  <1>0. conns + 1 \in Conns /\ \A i \in 1..Len(panes) : panes[i] \in PaneRecord
    BY LinkAssumption DEF LinkTypeOK, Conns
  <1>1. \A r \in MapOfPanes : \E i \in 1..Len(panes) : r = <<panes[i].id, panes[i].id>> /\ panes[i].sid = panes[i].id
    BY <1>0, Facts DEF MapOfPanes, PanesAreKnown
  <1>2. LinkTypeOK'
    <2>1. MapOfPanes \subseteq PaneIds \X PaneIds
      BY <1>0, <1>1 DEF PaneRecord
    <2>2. session_map' \in [Conns -> SUBSET (PaneIds \X PaneIds)]
      BY <2>1 DEF LinkTypeOK
    <2> QED BY <2>2 DEF LinkTypeOK
  <1>3. OkMeansServed'
    BY DEF OkMeansServed
  <1>4. PanesAreKnown' /\ \A p \in PaneIds : Home(p) => Home(p)'
    BY SameGrid
  <1>5. \A r \in MapOfPanes : r[1] = r[2] /\ r[2] \in PaneIds /\ Home(r[2])
    BY <1>0, <1>1 DEF PanesAreKnown, Home, PaneRecord
  <1>6. RoutesLeadHome'
    <2>1. \A c \in Conns : session_map'[c] = IF c = conns + 1 THEN MapOfPanes ELSE session_map[c]
      BY DEF LinkTypeOK
    <2>2. \A c \in Conns : \A r \in session_map[c] : r[2] \in PaneIds
      BY Facts
    <2>3. \A c \in Conns : \A r \in session_map'[c] : r[1] = r[2] /\ Home(r[2])'
      BY <1>4, <1>5, <2>1, <2>2 DEF RoutesLeadHome
    <2>4. \A k \in 1..Len(bus) : bus[k].pane \in PaneIds
      BY Facts
    <2> QED BY <1>4, <2>3, <2>4 DEF RoutesLeadHome
  <1> QED BY <1>2, <1>3, <1>4, <1>6

\* Steps that only move the connection's state, or the daemon's.
LEMMA ElsewhereKeeps ==
  ASSUME LinkInv,
         UNCHANGED <<requests, replies, stream, session_map, conns, next_request_id, rpc, panes, next_pane_id,
                     bus, served, acked, misfed>>,
         tail' \in {tail, None}
  PROVE  LinkInv'
  <1> USE DEF LinkInv
  <1>1. LinkTypeOK'
    BY DEF LinkTypeOK
  <1>2. OkMeansServed'
    BY DEF OkMeansServed
  <1> QED BY <1>1, <1>2, SameGrid, SameRoutes

LEMMA ConnectKeeps ==
  ASSUME LinkInv, TryConnectDaemon \/ PumpDaemonReconnect
  PROVE  LinkInv'
  <1>1. \/ Attach
        \/ GoStandalone
        \/ UNCHANGED <<daemon, conns, conn_state, reader, stream, session_map, closed, controlVars, next_request_id, served, acked>>
    BY DEF TryConnectDaemon, PumpDaemonReconnect, TryConnect, RetryRefused
  <1>2. UNCHANGED <<rpc, paneVars, bus, misfed>>
    BY DEF TryConnectDaemon, PumpDaemonReconnect
  <1> QED BY <1>1, <1>2, AttachKeeps, ElsewhereKeeps DEF GoStandalone, controlVars, paneVars

\* A request is sent: of a new pane, whose id no pane ever had, or of a pane's session.
LEMMA SendKeeps ==
  ASSUME LinkInv, NEW type \in {"createOrAttach", "write"}, NEW sid \in PaneIds,
         Send(type, sid),
         \/ type = "write" /\ UNCHANGED next_pane_id
         \/ sid = next_pane_id /\ next_pane_id' = next_pane_id + 1
  PROVE  LinkInv'
  <1> USE DEF LinkInv, Send, streamVars, clientVars, history, daemonVars
  <1>1. rpc' \in Requests
    BY DEF LinkTypeOK, Requests
  <1>2. LinkTypeOK'
    <2>1. requests' \in Seq(Requests)
      BY <1>1, AppendIs DEF LinkTypeOK
    <2> QED BY <1>1, <2>1 DEF LinkTypeOK
  <1>3. OkMeansServed'
    BY SameReplies
  <1>4. \A p \in PaneIds : Opening(p)' => p = next_pane_id /\ next_pane_id' = next_pane_id + 1
    BY DEF Opening
  <1>5. \A p \in PaneIds : Home(p) => Home(p)'
    BY <1>4 DEF Home, LinkTypeOK, PaneIds
  <1>6. PanesAreKnown'
    <2>1. \A i \in 1..Len(panes) : panes[i].id \in PaneIds
      BY Facts
    <2> QED BY <1>4, <2>1 DEF PanesAreKnown, LinkTypeOK, PaneIds
  <1> QED BY <1>2, <1>3, <1>5, <1>6, SameRoutes

\* An rpc() returns: the pane it was for joins the grid, in the map if it was
\* acknowledged.
LEMMA FinishKeeps ==
  ASSUME LinkInv, NEW outcome, rpc # None, Finish(outcome),
         UNCHANGED <<requests, tail>>,
         replies' \in Seq(Pieces),
         \A k \in 1..Len(replies') : replies'[k].ok => replies'[k].id \in served,
         outcome = "Ok" => rpc.id \in served
  PROVE  LinkInv'
  <1> USE DEF LinkInv, Finish, history, streamVars, clientVars, paneVars
  <1>0. rpc \in Requests /\ rpc.sid \in PaneIds /\ None \notin PaneIds
    BY LinkAssumption DEF LinkTypeOK, Requests, PaneIds
  <1>1. OkMeansServed'
    BY DEF OkMeansServed
  <1>2. CASE rpc.type = "write" /\ UNCHANGED <<panes, session_map>>
    <2>1. LinkTypeOK'
      BY <1>2 DEF LinkTypeOK
    <2>2. \A p \in PaneIds : ~Opening(p)'
      BY DEF Opening
    <2>3. PanesAreKnown' /\ \A p \in PaneIds : Home(p) => Home(p)'
      <3>1. \A i \in 1..Len(panes) : panes[i].id \in PaneIds
        BY Facts
      <3> QED BY <1>2, <2>2, <3>1 DEF PanesAreKnown, Home
    <2> QED BY <1>1, <1>2, <2>1, <2>3, SameRoutes
  <1>3. ASSUME NEW new \in PaneRecord, new.id = rpc.sid, rpc.type = "createOrAttach",
               panes' = Append(panes, new),
               \/ new.sid = rpc.sid /\ session_map' = [session_map EXCEPT ![daemon] = @ \union {PaneEntry}]
               \/ new.sid = None /\ session_map' = session_map
        PROVE  LinkInv'
    <2>0. rpc' = None /\ UNCHANGED <<requests, tail, stream, conns, next_request_id, next_pane_id, bus, misfed>>
      OBVIOUS
    <2> HIDE DEF Finish
    <2>10. PICK p \in PaneIds : p = rpc.sid
      BY <1>0
    <2>1. /\ panes' \in Seq(PaneRecord) /\ Len(panes) \in Nat /\ Len(panes') = Len(panes) + 1
          /\ panes'[Len(panes) + 1] = new /\ \A i \in 1..Len(panes) : panes'[i] = panes[i]
      BY <1>3, AppendIs DEF LinkTypeOK
    <2>2. /\ Opening(rpc.sid) /\ rpc.sid < next_pane_id
          /\ \A i \in 1..Len(panes) : panes[i].id # rpc.sid /\ panes[i].id \in PaneIds
      BY <1>0, <1>3, Facts DEF Opening, PanesAreKnown
    <2>3. \A q : ~Opening(q)'
      BY <2>0 DEF Opening
    <2>4. \A q \in PaneIds : Home(q) => Home(q)'
      BY <1>3, <2>0, <2>1, <2>2, <2>3 DEF Home
    <2>5. new.sid = p => Home(p)'
      <3> SUFFICES ASSUME new.sid = p
                   PROVE  \A i \in 1..Len(panes') : panes'[i].id = p => panes'[i].sid = p
        BY <2>10, <2>0, <2>2, <2>3 DEF Home
      <3> QED BY <1>3, <2>10, <2>1, <2>2
    <2>6. PanesAreKnown'
      BY <1>0, <1>3, <2>0, <2>1, <2>2, <2>3 DEF PanesAreKnown
    <2>7. LinkTypeOK'
      <3>1. session_map' \in [Conns -> SUBSET (PaneIds \X PaneIds)]
        <4>1. session_map \in [Conns -> SUBSET (PaneIds \X PaneIds)] /\ PaneEntry \in PaneIds \X PaneIds
          BY <1>0 DEF LinkTypeOK, PaneEntry
        <4>2. [session_map EXCEPT ![daemon] = @ \union {PaneEntry}] \in [Conns -> SUBSET (PaneIds \X PaneIds)]
          BY ONLY <4>1
        <4> QED BY <1>3, <4>1, <4>2
      <3> QED BY <2>0, <2>1, <3>1 DEF LinkTypeOK
    <2>8. \A c \in Conns : \A r \in session_map'[c] :
            r \in session_map[c] \/ (new.sid = p /\ r[1] = p /\ r[2] = p)
      <3>1. \A c \in Conns : [session_map EXCEPT ![daemon] = @ \union {PaneEntry}][c]
                              \subseteq session_map[c] \union {PaneEntry}
        BY DEF LinkTypeOK
      <3>2. PaneEntry[1] = p /\ PaneEntry[2] = p
        BY <2>10 DEF PaneEntry
      <3> QED BY <2>10, <1>3, <3>1, <3>2
    <2>9. RoutesLeadHome'
      <3>1. \A c \in Conns : \A r \in session_map[c] : r[2] \in PaneIds
        BY Facts
      <3>2. ASSUME NEW c \in Conns, NEW r \in session_map'[c]
            PROVE  r[1] = r[2] /\ Home(r[2])'
        <4>1. CASE r \in session_map[c]
          <5>1. r[1] = r[2] /\ r[2] \in PaneIds /\ Home(r[2])
            BY <3>1, <4>1 DEF RoutesLeadHome
          <5> QED BY <2>4, <5>1
        <4>2. CASE new.sid = p /\ r[1] = p /\ r[2] = p
          BY <2>5, <4>2
        <4> QED BY <2>8, <4>1, <4>2
      <3>3. \A k \in 1..Len(bus) : bus[k].pane \in PaneIds
        BY Facts
      <3> QED BY <2>0, <2>4, <3>2, <3>3 DEF RoutesLeadHome
    <2> QED BY <1>1, <2>0, <2>6, <2>7, <2>9
  <1>4. CASE rpc.type = "createOrAttach"
    <2> DEFINE new == [id |-> rpc.sid, state |-> IF outcome = "Ok" THEN "Running" ELSE "Failed",
                       sid |-> IF outcome = "Ok" THEN rpc.sid ELSE None]
    <2>1. new \in PaneRecord /\ new.id = rpc.sid /\ new.sid = IF outcome = "Ok" THEN rpc.sid ELSE None
      BY <1>0 DEF PaneRecord
    <2>2. panes' = Append(panes, new)
      BY <1>4
    <2>3. \/ outcome = "Ok" /\ session_map' = [session_map EXCEPT ![daemon] = @ \union {PaneEntry}]
          \/ outcome # "Ok" /\ session_map' = session_map
      BY <1>4
    <2> HIDE DEF new, Finish
    <2> QED BY <1>3, <1>4, <2>1, <2>2, <2>3
  <1> QED BY <1>2, <1>4

\* A piece of a line is read: another request's is dropped when the line ends.
LEMMA ReadPieceKeeps ==
  ASSUME LinkInv, ReadPiece
  PROVE  LinkInv'
  <1> DEFINE piece == Head(replies)
  <1>1. /\ replies \in Seq(Pieces) /\ replies # <<>> /\ replies' = Tail(replies)
        /\ UNCHANGED <<requests, tail>> /\ rpc # None
    BY DEF ReadPiece, LinkInv, LinkTypeOK
  <1>2. /\ replies' \in Seq(Pieces)
        /\ \A k \in 1..Len(replies') : replies'[k].ok => replies'[k].id \in served
        /\ piece.ok => piece.id \in served
    BY <1>1, TailIs DEF LinkInv, OkMeansServed
  <1> HIDE DEF piece
  <1>3. CASE UNCHANGED <<daemonVars, closed, streamVars, session_map, clientVars, next_request_id, rpc, paneVars, bus, history>>
    <2> USE <1>3 DEF streamVars, clientVars, paneVars, history, LinkInv
    <2>1. LinkTypeOK'
      BY <1>1, <1>2 DEF LinkTypeOK
    <2>2. OkMeansServed'
      BY <1>1, <1>2 DEF OkMeansServed
    <2> QED BY <2>1, <2>2, SameGrid, SameRoutes
  <1>4. ASSUME NEW outcome, Finish(outcome), outcome = "Ok" => piece.ok /\ piece.id = rpc.id
        PROVE  LinkInv'
    BY <1>1, <1>2, <1>4, FinishKeeps
  <1>5. \/ UNCHANGED <<daemonVars, closed, streamVars, session_map, clientVars, next_request_id, rpc, paneVars, bus, history>>
        \/ \E outcome \in {"Ok", "SessionNotFound", "Protocol"} :
             Finish(outcome) /\ (outcome = "Ok" => piece.ok /\ piece.id = rpc.id)
    <2>1. CASE Matches(piece) /\ Finish(IF piece.ok THEN "Ok" ELSE "SessionNotFound")
      <3>1. CASE piece.ok
        BY <2>1, <3>1 DEF Matches
      <3>2. CASE ~piece.ok
        BY <2>1, <3>2
      <3> QED BY <3>1, <3>2
    <2> QED BY <2>1 DEF ReadPiece, piece
  <1> QED BY <1>3, <1>4, <1>5

\* An rpc() that fails acknowledges nothing.
LEMMA FailureKeeps ==
  ASSUME LinkInv, ControlFails \/ RpcTimeout
  PROVE  LinkInv'
  <1>1. \E outcome \in {"Io", "Disconnected"} : Finish(outcome)
    BY DEF ControlFails, RpcTimeout
  <1>2. rpc # None /\ UNCHANGED <<requests, replies, tail>>
    BY DEF ControlFails, RpcTimeout, controlVars
  <1>3. /\ replies' \in Seq(Pieces)
        /\ \A k \in 1..Len(replies') : replies'[k].ok => replies'[k].id \in served
    BY <1>2 DEF LinkInv, LinkTypeOK, OkMeansServed
  <1> QED BY <1>1, <1>2, <1>3, FinishKeeps

-----------------------------------------------------------------------------
(* The daemon's steps *)

LEMMA ServeKeeps ==
  ASSUME LinkInv, Serve
  PROVE  LinkInv'
  <1> USE DEF LinkInv
  <1>1. PICK ok \in BOOLEAN :
          LET req == Head(requests) IN
          /\ served' = IF ok THEN served \union {req.id} ELSE served
          /\ replies' = Append(replies, [id |-> req.id, ok |-> ok, part |-> 1])
          /\ tail' = [id |-> req.id, ok |-> ok, part |-> 2]
    BY DEF Serve
  <1>2. /\ requests # <<>> /\ requests' = Tail(requests)
        /\ UNCHANGED <<stream, session_map, conns, next_request_id, rpc, panes, next_pane_id, bus, acked, misfed>>
    BY DEF Serve, streamVars, clientVars, rpcVars, paneVars
  <1> DEFINE id == Head(requests).id
  <1>3. requests' \in Seq(Requests) /\ id \in 1..MaxRequests
    BY <1>2, TailIs, RecordFacts DEF LinkTypeOK
  <1> HIDE DEF id
  <1>4. [id |-> id, ok |-> ok, part |-> 1] \in Pieces /\ [id |-> id, ok |-> ok, part |-> 2] \in Pieces
    BY <1>3 DEF Pieces
  <1>5. /\ replies' \in Seq(Pieces) /\ Len(replies) \in Nat /\ Len(replies') = Len(replies) + 1
        /\ replies'[Len(replies) + 1] = [id |-> id, ok |-> ok, part |-> 1]
        /\ \A k \in 1..Len(replies) : replies'[k] = replies[k]
    BY <1>1, <1>4, AppendIs DEF LinkTypeOK, id
  <1>6. tail' = [id |-> id, ok |-> ok, part |-> 2] /\ served \subseteq served' /\ (ok => id \in served')
    BY <1>1 DEF id
  <1>7. LinkTypeOK'
    BY <1>2, <1>3, <1>4, <1>5, <1>6 DEF LinkTypeOK
  <1>8. OkMeansServed'
    BY <1>2, <1>5, <1>6 DEF OkMeansServed
  <1> QED BY <1>2, <1>7, <1>8, SameGrid, SameRoutes

LEMMA ServeRestKeeps ==
  ASSUME LinkInv, ServeRest
  PROVE  LinkInv'
  <1> USE DEF LinkInv, ServeRest, streamVars, clientVars, rpcVars, paneVars, history
  <1>1. tail \in Pieces
    BY DEF LinkTypeOK
  <1>2. /\ replies' \in Seq(Pieces) /\ Len(replies) \in Nat /\ Len(replies') = Len(replies) + 1
        /\ replies'[Len(replies) + 1] = tail
        /\ \A k \in 1..Len(replies) : replies'[k] = replies[k]
    BY <1>1, AppendIs DEF LinkTypeOK
  <1>3. LinkTypeOK'
    BY <1>2 DEF LinkTypeOK
  <1>4. OkMeansServed'
    BY <1>2 DEF OkMeansServed
  <1> QED BY <1>3, <1>4, SameGrid, SameRoutes

LEMMA EmitKeeps ==
  ASSUME LinkInv, NEW ftype \in {"Data", "Event"}, NEW sid \in PaneIds, Emit(ftype, sid)
  PROVE  LinkInv'
  <1> USE DEF LinkInv, Emit, controlVars, clientVars, rpcVars, paneVars, history
  <1> DEFINE frame == [ftype |-> ftype, sid |-> sid]
  <1>1. frame \in Frames
    BY DEF Frames
  <1>2. stream' \in [Conns -> Seq(Frames)]
    <2>1. \A c \in Conns : stream[c] \in Seq(Frames) /\ Append(stream[c], frame) \in Seq(Frames)
      BY <1>1, AppendIs DEF LinkTypeOK
    <2> HIDE DEF frame
    <2>2. stream' = [stream EXCEPT ![daemon] = Append(@, frame)]
      BY DEF frame
    <2> QED BY <2>1, <2>2 DEF LinkTypeOK
  <1>3. LinkTypeOK'
    BY <1>2 DEF LinkTypeOK
  <1> QED BY <1>3, SameReplies, SameGrid, SameRoutes

-----------------------------------------------------------------------------
(* The readers' steps and the bus *)

LEMMA PaneOfIs ==
  ASSUME LinkInv, NEW c \in Conns, NEW sid \in PaneIds
  PROVE  /\ PaneOf(c, sid) \in PaneIds
         /\ PaneOf(c, sid) = 0 \/ (PaneOf(c, sid) = sid /\ Home(sid))
  <1> DEFINE known == {p \in PaneIds : <<sid, p>> \in session_map[c]}
  <1>1. \A p \in known : p \in PaneIds /\ p = sid /\ Home(sid)
    BY DEF LinkInv, RoutesLeadHome
  <1>2. 0 \in PaneIds
    BY LinkAssumption DEF PaneIds
  <1>3. PaneOf(c, sid) = IF known = {} THEN 0 ELSE CHOOSE p \in known : TRUE
    BY DEF PaneOf
  <1>4. known # {} => (CHOOSE p \in known : TRUE) \in known
    OBVIOUS
  <1> HIDE DEF known
  <1> QED BY <1>1, <1>2, <1>3, <1>4

\* Updates that arrive: what is new is at home, or no output.
LEMMA ArrivalsKeep ==
  ASSUME LinkInv, bus' \in Seq(Updates), stream' \in [Conns -> Seq(Frames)],
         UNCHANGED <<requests, replies, tail, session_map, conns, next_request_id, rpc, panes, next_pane_id,
                     served, acked, misfed>>,
         \A k \in 1..Len(bus') :
           \/ \E m \in 1..Len(bus) : bus'[k] = bus[m]
           \/ bus'[k].kind = "Data" => bus'[k].pane = 0 \/ (bus'[k].pane = bus'[k].sid /\ Home(bus'[k].pane))
  PROVE  LinkInv'
  <1> USE DEF LinkInv
  <1>1. LinkTypeOK'
    BY DEF LinkTypeOK
  <1>2. PanesAreKnown' /\ \A p \in PaneIds : Home(p) => Home(p)'
    BY SameGrid
  <1>3. \A k \in 1..Len(bus') : bus'[k].kind = "Data" =>
          bus'[k].pane = 0 \/ (bus'[k].pane = bus'[k].sid /\ Home(bus'[k].pane))
    BY DEF RoutesLeadHome
  <1>4. \A k \in 1..Len(bus') : bus'[k].pane \in PaneIds
    <2>1. \A k \in 1..Len(bus') : bus'[k] \in Updates
      OBVIOUS
    <2> QED BY <2>1, RecordFacts
  <1>5. \A c \in Conns : \A r \in session_map[c] : r[2] \in PaneIds
    BY Facts
  <1>6. RoutesLeadHome'
    BY <1>2, <1>3, <1>4, <1>5 DEF RoutesLeadHome
  <1> QED BY <1>1, <1>2, <1>6, SameReplies

LEMMA ReadFrameKeeps ==
  ASSUME LinkInv, NEW c \in Conns, ReadFrame(c)
  PROVE  LinkInv'
  <1> DEFINE frame == Head(stream[c])
             update == [kind |-> frame.ftype, pane |-> PaneOf(c, frame.sid), sid |-> frame.sid]
  <1>1. stream[c] \in Seq(Frames) /\ stream[c] # <<>> /\ bus \in Seq(Updates)
    BY DEF LinkInv, LinkTypeOK, ReadFrame
  <1>2. frame \in Frames /\ frame.sid \in PaneIds /\ frame.ftype \in {"Data", "Event"}
    BY <1>1, TailIs, RecordFacts
  <1>3. /\ PaneOf(c, frame.sid) \in PaneIds
        /\ PaneOf(c, frame.sid) = 0 \/ (PaneOf(c, frame.sid) = frame.sid /\ Home(frame.sid))
    BY <1>2, PaneOfIs
  <1>4. bus' = Append(bus, update) /\ stream' = [stream EXCEPT ![c] = Tail(@)]
    BY DEF ReadFrame
  <1>5. stream' \in [Conns -> Seq(Frames)]
    BY <1>1, <1>4, TailIs DEF LinkInv, LinkTypeOK
  <1> HIDE DEF frame
  <1>6. update \in Updates
    BY <1>2, <1>3 DEF Updates
  <1>7. update.pane = 0 \/ (update.pane = update.sid /\ Home(update.pane))
    BY <1>3
  <1> HIDE DEF update
  <1>8. /\ bus' \in Seq(Updates) /\ Len(bus) \in Nat /\ Len(bus') = Len(bus) + 1
        /\ bus'[Len(bus) + 1] = update /\ \A k \in 1..Len(bus) : bus'[k] = bus[k]
    BY <1>1, <1>4, <1>6, AppendIs
  <1>9. \A k \in 1..Len(bus') : (\E m \in 1..Len(bus) : bus'[k] = bus[m]) \/ bus'[k] = update
    BY <1>8
  <1>10. \A k \in 1..Len(bus') :
           \/ \E m \in 1..Len(bus) : bus'[k] = bus[m]
           \/ bus'[k].kind = "Data" => bus'[k].pane = 0 \/ (bus'[k].pane = bus'[k].sid /\ Home(bus'[k].pane))
    BY <1>7, <1>9
  <1> QED BY <1>5, <1>8, <1>10, ArrivalsKeep DEF ReadFrame, controlVars, clientVars, rpcVars, paneVars, history

LEMMA StreamEndsKeeps ==
  ASSUME LinkInv, NEW c \in Conns, StreamEnds(c)
  PROVE  LinkInv'
  <1> DEFINE n == Cardinality(Lost(c))
             list == SetToSeq(Lost(c))
             exits == [k \in 1..n |-> [kind |-> "Event", pane |-> list[k], sid |-> list[k]]]
  <1>1. Lost(c) \subseteq PaneIds /\ IsFiniteSet(PaneIds)
    <2>1. Lost(c) \subseteq PaneIds
      BY Facts DEF LinkInv, Lost
    <2>2. IsFiniteSet(PaneIds)
      BY LinkAssumption, FS_Interval DEF PaneIds
    <2> QED BY <2>1, <2>2
  <1>2. n \in Nat /\ list \in [1..n -> Lost(c)]
    BY <1>1, FS_Subset, SetToSeqIs
  <1>3. bus' = bus \o exits /\ bus \in Seq(Updates)
    BY DEF StreamEnds, LinkInv, LinkTypeOK
  <1> HIDE DEF n, list
  <1>4. exits \in Seq(Updates) /\ Len(exits) = n /\ \A k \in 1..n : exits[k].kind = "Event"
    <2>1. \A k \in 1..n : list[k] \in PaneIds
      BY <1>1, <1>2
    <2>2. exits \in [1..n -> Updates]
      BY <2>1 DEF Updates
    <2> QED BY <1>2, <2>2
  <1> HIDE DEF exits
  <1>5. /\ bus' \in Seq(Updates) /\ Len(bus) \in Nat /\ Len(bus') = Len(bus) + n
        /\ \A k \in 1..Len(bus') : bus'[k] = IF k <= Len(bus) THEN bus[k] ELSE exits[k - Len(bus)]
    BY ONLY <1>3, <1>4, ConcatIs
  <1>6. ASSUME NEW k \in 1..Len(bus')
        PROVE  (\E m \in 1..Len(bus) : bus'[k] = bus[m]) \/ bus'[k].kind = "Event"
    BY <1>2, <1>4, <1>5
  <1>7. stream' \in [Conns -> Seq(Frames)]
    BY DEF StreamEnds, LinkInv, LinkTypeOK
  <1> QED BY <1>5, <1>6, <1>7, ArrivalsKeep
          DEF StreamEnds, controlVars, clientVars, rpcVars, paneVars, history

\* An update is applied: ids and sessions of panes stay, and a pane fed another
\* session's output is the first.
LEMMA ApplyUpdateKeeps ==
  ASSUME LinkInv, ApplyUpdate
  PROVE  LinkInv'
  <1> USE DEF LinkInv
  <1>1. /\ bus # <<>> /\ bus \in Seq(Updates) /\ bus' = Tail(bus) /\ panes \in Seq(PaneRecord)
        /\ UNCHANGED <<requests, replies, tail, stream, session_map, conns, next_request_id, rpc, next_pane_id,
                       served, acked>>
    BY DEF ApplyUpdate, LinkTypeOK, controlVars, streamVars, clientVars, rpcVars
  <1>2. /\ bus' \in Seq(Updates) /\ Head(bus) = bus[1] /\ 1 \in 1..Len(bus) /\ Head(bus) \in Updates
        /\ \A k \in 1..Len(bus') : k + 1 \in 1..Len(bus) /\ bus'[k] = bus[k + 1]
    BY <1>1, TailIs
  <1>3. /\ panes' \in Seq(PaneRecord) /\ Len(panes') = Len(panes)
        /\ \A i \in 1..Len(panes) : panes'[i].id = panes[i].id /\ panes'[i].sid = panes[i].sid
    <2>1. panes' = [i \in 1..Len(panes) |->
                      IF (/\ i \in {j \in Positions : panes[j].id = Head(bus).pane}
                          /\ Head(bus).kind = "Event" /\ panes[i].state = "Running")
                      THEN [panes[i] EXCEPT !.state = "Done"] ELSE panes[i]]
      BY <1>1 DEF ApplyUpdate, Positions
    <2>2. \A i \in 1..Len(panes) : /\ panes[i] \in PaneRecord
                                   /\ [panes[i] EXCEPT !.state = "Done"] \in PaneRecord
                                   /\ [panes[i] EXCEPT !.state = "Done"].id = panes[i].id
                                   /\ [panes[i] EXCEPT !.state = "Done"].sid = panes[i].sid
      <3>1. \A r \in PaneRecord : /\ [r EXCEPT !.state = "Done"] \in PaneRecord
                                  /\ [r EXCEPT !.state = "Done"].id = r.id
                                  /\ [r EXCEPT !.state = "Done"].sid = r.sid
        BY ONLY DEF PaneRecord
      <3> QED BY <3>1, Facts
    <2>3. \A i \in 1..Len(panes) : panes'[i] \in {panes[i], [panes[i] EXCEPT !.state = "Done"]}
      BY <2>1
    <2>4. panes' \in [1..Len(panes) -> PaneRecord] /\ Len(panes) \in Nat
      BY <1>1, <2>1, <2>2
    <2>5. panes' \in Seq(PaneRecord) /\ Len(panes') = Len(panes)
      BY <2>4
    <2>6. ASSUME NEW i \in 1..Len(panes)
          PROVE  panes'[i].id = panes[i].id /\ panes'[i].sid = panes[i].sid
      BY <2>2, <2>3
    <2> QED BY <2>5, <2>6
  <1>4. LinkTypeOK'
    BY <1>1, <1>2, <1>3 DEF LinkTypeOK
  <1>5. \A p \in PaneIds : Opening(p)' <=> Opening(p)
    BY <1>1 DEF Opening
  <1>6. \A p \in PaneIds : Home(p) => Home(p)'
    BY <1>1, <1>3, <1>5 DEF Home
  <1>7. PanesAreKnown'
    <2>1. \A i \in 1..Len(panes) : panes[i].id \in PaneIds
      BY Facts
    <2> QED BY <1>1, <1>3, <1>5, <2>1 DEF PanesAreKnown
  <1>8. RoutesLeadHome'
    <2>1. \A c \in Conns : \A r \in session_map[c] : r[2] \in PaneIds
      BY Facts
    <2>2. \A k \in 1..Len(bus') : bus'[k].pane \in PaneIds
      BY <1>2, Facts
    <2> QED BY <1>1, <1>2, <1>6, <2>1, <2>2 DEF RoutesLeadHome
  <1>9. misfed' \subseteq {0}
    <2> SUFFICES ASSUME NEW p \in misfed' PROVE p = 0
      OBVIOUS
    <2>1. CASE p \in misfed
      BY <2>1
    <2>2. CASE p \notin misfed
      <3>1. Head(bus).kind = "Data" /\ \E i \in Positions : panes[i].id = Head(bus).pane /\ panes[i].sid # Head(bus).sid
                                                            /\ p = panes[i].id
        BY <2>2 DEF ApplyUpdate
      <3>2. PICK i \in 1..Len(panes) : panes[i].id = bus[1].pane /\ panes[i].sid # bus[1].sid /\ p = panes[i].id
        BY <1>1, <1>2, <3>1 DEF Positions
      <3>3. bus[1].pane = 0 \/ (bus[1].pane = bus[1].sid /\ Home(bus[1].pane))
        BY <1>2, <3>1 DEF RoutesLeadHome
      <3> QED BY <3>2, <3>3 DEF Home
    <2> QED BY <2>1, <2>2
  <1> QED BY <1>1, <1>4, <1>7, <1>8, <1>9, SameReplies

\* A pane is closed: its id is never a pane's again.
LEMMA ClosePaneKeeps ==
  ASSUME LinkInv, NEW n \in Positions, ClosePane(n)
  PROVE  LinkInv'
  <1> USE DEF LinkInv, ClosePane, controlVars, streamVars, clientVars, rpcVars, history
  <1> DEFINE from(i) == IF i < n THEN i ELSE i + 1
  <1>1. panes \in Seq(PaneRecord) /\ n \in 1..Len(panes) /\ Len(panes) \in Nat
    BY DEF LinkTypeOK, Positions
  <1>2. panes' \in Seq(PaneRecord) /\ \A i \in 1..Len(panes') : from(i) \in 1..Len(panes) /\ panes'[i] = panes[from(i)]
    BY <1>1, RemoveAtIs
  <1>3. Len(panes') \in Nat /\ \A i, j \in 1..Len(panes') : from(i) = from(j) => i = j
    BY <1>1, <1>2
  <1> HIDE DEF from
  <1>4. LinkTypeOK'
    BY <1>2 DEF LinkTypeOK
  <1>5. \A p \in PaneIds : Opening(p)' <=> Opening(p)
    BY DEF Opening
  <1>6. \A p \in PaneIds : Home(p) => Home(p)'
    BY <1>2, <1>5 DEF Home
  <1>7. PanesAreKnown'
    <2>1. rpc' = rpc /\ next_pane_id' = next_pane_id /\ \A i \in 1..Len(panes) : panes[i].id \in PaneIds
      BY Facts
    <2> HIDE DEF ClosePane
    <2>2. \A p \in PaneIds : Opening(p)' => p < next_pane_id'
      BY <1>5, <2>1 DEF PanesAreKnown
    <2>3. ASSUME NEW i \in 1..Len(panes')
          PROVE  (panes[i].id < next_pane_id /\ panes[i].sid \in {None, panes[i].id} /\ ~Opening(panes[i].id))'
      <3>1. from(i) \in 1..Len(panes) /\ panes'[i] = panes[from(i)]
        BY <1>2
      <3>2. panes[from(i)].id < next_pane_id /\ panes[from(i)].sid \in {None, panes[from(i)].id}
            /\ ~Opening(panes[from(i)].id)
        BY <3>1 DEF PanesAreKnown
      <3> QED BY <2>1, <3>1, <3>2 DEF Opening
    <2>4. ASSUME NEW i \in 1..Len(panes'), NEW j \in 1..Len(panes'), panes'[i].id = panes'[j].id
          PROVE  i = j
      <3>1. from(i) \in 1..Len(panes) /\ from(j) \in 1..Len(panes) /\ panes[from(i)].id = panes[from(j)].id
        BY <1>2, <2>4
      <3> QED BY <1>3, <3>1 DEF PanesAreKnown
    <2> QED BY <2>2, <2>3, <2>4 DEF PanesAreKnown
  <1> QED BY <1>4, <1>6, <1>7, SameReplies, SameRoutes

-----------------------------------------------------------------------------
(* The theorems *)

LEMMA LinkInitially == LinkInit => LinkInv
  <1> SUFFICES ASSUME LinkInit PROVE LinkInv
    OBVIOUS
  <1> USE DEF LinkInit
  <1>0. 0 \in PaneIds /\ Len(panes) = 1 /\ panes[1] = [id |-> 0, state |-> "Running", sid |-> None]
    BY LinkAssumption DEF PaneIds
  <1>1. panes \in Seq(PaneRecord)
    BY <1>0 DEF PaneRecord
  <1>2. LinkTypeOK
    BY <1>1 DEF LinkTypeOK
  <1>3. OkMeansServed /\ PanesAreKnown /\ RoutesLeadHome
    BY <1>0 DEF OkMeansServed, PanesAreKnown, RoutesLeadHome, Opening
  <1> QED BY <1>2, <1>3 DEF LinkInv

LEMMA LinkStep == LinkInv /\ [LinkNext]_linkVars => LinkInv'
  <1> SUFFICES ASSUME LinkInv, [LinkNext]_linkVars PROVE LinkInv'
    OBVIOUS
  <1>1. CASE UNCHANGED linkVars
    BY <1>1, ElsewhereKeeps DEF linkVars, controlVars, streamVars, clientVars, rpcVars, paneVars, history
  <1>2. CASE RetryElapses \/ Break \/ Restart
    BY <1>2, ElsewhereKeeps DEF RetryElapses, Break, Restart, controlVars, streamVars, clientVars, rpcVars, paneVars, history
  <1>3. CASE SpawnOneDaemon
    BY <1>3, SendKeeps DEF SpawnOneDaemon
  <1>4. ASSUME NEW i \in Positions, SendToFocused(i) PROVE LinkInv'
    <2>1. panes[i].sid \in PaneIds
      BY <1>4, Facts DEF SendToFocused, LinkInv
    <2> QED BY <1>4, <2>1, SendKeeps DEF SendToFocused
  <1> QED BY <1>1, <1>2, <1>3, <1>4, ConnectKeeps, ReadPieceKeeps, FailureKeeps, ServeKeeps, ServeRestKeeps, EmitKeeps,
             ReadFrameKeeps, StreamEndsKeeps, ApplyUpdateKeeps, ClosePaneKeeps DEF LinkNext

LEMMA LinkAlways == LinkSpec => []LinkInv
  <1> QED BY LinkInitially, LinkStep, PTL DEF LinkSpec

\* rpc() never takes a late or broken reply for its own: what it returns Ok for
\* was carried out, for any number of requests, timeouts, breaks and reconnections
\* (orca_daemon.rs, rpc and read_ndjson_line).
THEOREM OkIsOfThisRequest == LinkSpec => []AckedWasServed
  <1>1. LinkInv => AckedWasServed
    BY DEF LinkInv, OkMeansServed, AckedWasServed
  <1> QED BY <1>1, LinkAlways, PTL

\* However panes are opened, closed and lost, output of a session is fed to no
\* pane but its own and the first (orca_daemon.rs, reader_loop; app.rs, idx_of_pane).
THEOREM OutputIsRouted == LinkSpec => []OutputGoesHome
  <1>1. LinkInv => OutputGoesHome
    BY DEF LinkInv, OutputGoesHome
  <1> QED BY <1>1, LinkAlways, PTL
=============================================================================
