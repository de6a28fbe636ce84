--------------------------- MODULE EpollSetProofs ---------------------------
(***************************************************************************)
(* Theorems about EpollSet, for any number of connections and descriptors. *)
(*                                                                         *)
(* What keeps the events of a batch current is that epoll_wait reports a   *)
(* descriptor once: an event that closes its descriptor is the only one    *)
(* about it, and a descriptor that is still to come in the batch is not    *)
(* closed, so that accept does not give it away.                           *)
(***************************************************************************)
EXTENDS EpollSet, FiniteSetTheorems, TLAPS

\* A batch of events: each is about a listening socket or about a descriptor with
\* a connection, and no two are about the same one.
Event == [socket : Listeners \cup Fds, error : BOOLEAN, conn : Conns \cup {None}]
EventsTypeOK == events \in Seq(Event)
EventsDistinct ==
    /\ \A j, k \in DOMAIN events : events[j].socket = events[k].socket => j = k
    /\ \A k \in DOMAIN events : events[k].socket \in Fds => events[k].conn # None

\* A connection waits at the port it was made to.
BacklogPorts == \A l \in Listeners : \A k \in DOMAIN backlog[l] : Port(backlog[l][k]) = l

EpollInv ==
    /\ TypeOK
    /\ EventsTypeOK
    /\ EventsDistinct
    /\ EventsCurrent
    /\ BacklogPorts
    /\ BacklogAccounted
    /\ InfosMatchSockets

-----------------------------------------------------------------------------
(***************************************************************************)
(* Sequences.                                                              *)
(***************************************************************************)

\* A sequence of the elements of a finite set, as SetToSeqs makes them, holds each
\* of them once.
LEMMA Permutation ==
    ASSUME NEW S, IsFiniteSet(S), NEW q \in SetToSeqs(S)
    PROVE  /\ q \in Seq(S)
           /\ \A j, k \in DOMAIN q : q[j] = q[k] => j = k
           /\ \A x \in S : \E k \in DOMAIN q : q[k] = x
<1> DEFINE D == 1 .. Cardinality(S)
<1>1. Cardinality(S) \in Nat
  BY FS_CardinalityType
<1>2. q \in [D -> S] /\ \A i, j \in D : i # j => q[i] # q[j]
  BY DEF SetToSeqs
<1>3. q \in Injection(D, S)
  BY <1>2 DEF Injection, IsInjective
<1>4. Cardinality(D) = Cardinality(S)
  BY <1>1, FS_Interval
<1>5. q \in Surjection(D, S)
  BY <1>3, <1>4, FS_Injection
<1> QED
  BY <1>1, <1>2, <1>5 DEF Surjection

\* The elements behind the head of a sequence.
LEMMA TailElements ==
    ASSUME NEW S, NEW q \in Seq(S), q # <<>>
    PROVE  /\ Tail(q) \in Seq(S) /\ Len(Tail(q)) = Len(q) - 1 /\ Len(q) \in Nat \ {0}
           /\ DOMAIN q = 1 .. Len(q) /\ DOMAIN Tail(q) = 1 .. (Len(q) - 1)
           /\ 1 \in DOMAIN q /\ Head(q) = q[1] /\ Head(q) \in S
           /\ \A k \in DOMAIN Tail(q) : k + 1 \in DOMAIN q /\ Tail(q)[k] = q[k + 1]
           /\ \A k \in DOMAIN q : k # 1 => k - 1 \in DOMAIN Tail(q) /\ Tail(q)[k - 1] = q[k]
<1>1. /\ Tail(q) \in Seq(S) /\ Len(Tail(q)) = Len(q) - 1 /\ Len(q) \in Nat \ {0}
      /\ DOMAIN q = 1 .. Len(q) /\ DOMAIN Tail(q) = 1 .. (Len(q) - 1)
      /\ 1 \in DOMAIN q /\ Head(q) = q[1] /\ Head(q) \in S
      /\ \A k \in DOMAIN Tail(q) : k + 1 \in DOMAIN q /\ Tail(q)[k] = q[k + 1]
  OBVIOUS
<1>2. ASSUME NEW k \in DOMAIN q, k # 1
      PROVE  k - 1 \in DOMAIN Tail(q) /\ Tail(q)[k - 1] = q[k]
  <2>1. k - 1 \in DOMAIN Tail(q) /\ (k - 1) + 1 = k
    BY <1>1, <1>2
  <2> QED
    BY <1>1, <2>1
<1> QED
  BY <1>1, <1>2

\* What appending does to the elements of a sequence.
LEMMA AppendElements ==
    ASSUME NEW S, NEW q \in Seq(S), NEW e \in S
    PROVE  /\ Append(q, e) \in Seq(S) /\ Len(Append(q, e)) = Len(q) + 1 /\ Len(q) \in Nat
           /\ DOMAIN q = 1 .. Len(q) /\ DOMAIN Append(q, e) = 1 .. (Len(q) + 1)
           /\ Append(q, e)[Len(q) + 1] = e
           /\ \A k \in DOMAIN q : Append(q, e)[k] = q[k]
  OBVIOUS

-----------------------------------------------------------------------------
(***************************************************************************)
(* What the parts of an action do.                                         *)
(***************************************************************************)

\* The next event is taken: the others are about other sockets.
LEMMA NextEventEffect ==
    ASSUME EpollInv, NEW s, NEW error, NextEvent(s, error)
    PROVE  /\ events' \in Seq(Event)
           /\ EventsDistinct'
           /\ \A k \in DOMAIN events' : \E j \in DOMAIN events : events'[k] = events[j]
           /\ \A k \in DOMAIN events' : events'[k].socket # s
           /\ s \in Listeners \cup Fds
           /\ \E j \in DOMAIN events : events[j].socket = s
           /\ \A l : l # s => (InEvents(l)' <=> InEvents(l))
           /\ ~InEvents(s)' /\ InEvents(s)
           /\ s \in Fds => opened[s] \in Conns
           /\ thread = "running"
<1>1. /\ events \in Seq(Event) /\ events # <<>> /\ events' = Tail(events)
      /\ s = Head(events).socket /\ thread = "running"
  BY DEF EpollInv, EventsTypeOK, NextEvent
<1>2. /\ events' \in Seq(Event)
      /\ 1 \in DOMAIN events /\ s = events[1].socket /\ events[1] \in Event
      /\ DOMAIN events = 1 .. Len(events) /\ Len(events) \in Nat \ {0}
      /\ DOMAIN events' = 1 .. (Len(events) - 1)
      /\ \A k \in DOMAIN events' : k + 1 \in DOMAIN events /\ events'[k] = events[k + 1]
      /\ \A k \in DOMAIN events : k # 1 => k - 1 \in DOMAIN events' /\ events'[k - 1] = events[k]
  BY <1>1, TailElements
<1>3. EventsDistinct
  BY DEF EpollInv
<1>4. EventsDistinct'
  <2>1. ASSUME NEW j \in DOMAIN events', NEW k \in DOMAIN events',
               events'[j].socket = events'[k].socket
        PROVE  j = k
    <3>1. j + 1 = k + 1
      BY <1>2, <1>3, <2>1 DEF EventsDistinct
    <3> QED
      BY <1>2, <3>1
  <2>2. \A k \in DOMAIN events' : events'[k].socket \in Fds => events'[k].conn # None
    BY <1>2, <1>3 DEF EventsDistinct
  <2> QED
    BY <2>1, <2>2 DEF EventsDistinct
<1>5. \A k \in DOMAIN events' : events'[k].socket # s
  <2> SUFFICES ASSUME NEW k \in DOMAIN events', events'[k].socket = s PROVE FALSE
    OBVIOUS
  <2>1. k + 1 = 1
    BY <1>2, <1>3 DEF EventsDistinct
  <2> QED
    BY <1>2, <2>1
<1>6. ASSUME NEW l, l # s PROVE InEvents(l)' <=> InEvents(l)
  BY <1>2, <1>6 DEF InEvents
<1>7. ~InEvents(s)' /\ InEvents(s)
  BY <1>2, <1>5 DEF InEvents
<1>8. s \in Listeners \cup Fds
  BY <1>2 DEF Event
<1>9. ASSUME s \in Fds PROVE opened[s] \in Conns
  <2>1. opened[s] = events[1].conn /\ events[1].conn # None
    BY <1>2, <1>3, <1>9 DEF EpollInv, EventsCurrent, EventsDistinct
  <2>2. events[1].conn \in Conns \cup {None}
    BY <1>2 DEF Event
  <2> QED
    BY <2>1, <2>2
<1>10. \A k \in DOMAIN events' : \E j \in DOMAIN events : events'[k] = events[j]
  BY <1>2
<1>11. \E j \in DOMAIN events : events[j].socket = s
  BY <1>2
<1> QED
  BY <1>1, <1>2, <1>4, <1>5, <1>6, <1>7, <1>8, <1>9, <1>10, <1>11

\* What there is to report is finite, so that a batch reports each of it once.
LEMMA ReadyFinite ==
    ASSUME EpollInv
    PROVE  IsFiniteSet(Ready)
<1> DEFINE Arrivals == {[socket |-> l, error |-> FALSE, conn |-> None] : l \in edge}
           Inputs == {[socket |-> f, error |-> (ended[opened[f]] = "reset"), conn |-> opened[f]] :
                        f \in ReadyConns}
           g == [l \in edge |-> [socket |-> l, error |-> FALSE, conn |-> None]]
           h == [f \in ReadyConns |->
                   [socket |-> f, error |-> (ended[opened[f]] = "reset"), conn |-> opened[f]]]
<1>1. IsFiniteSet(Listeners)
  <2>1. IsFiniteSet({"node"}) /\ Listeners = {"node"} \cup {"lan"} /\ IsFiniteSet({"lan"})
    BY FS_Singleton DEF Listeners
  <2> QED
    BY <2>1, FS_Union
<1>2. IsFiniteSet(edge)
  BY <1>1, FS_Subset DEF EpollInv, TypeOK
<1>3. IsFiniteSet(ReadyConns)
  <2>1. ReadyConns \subseteq Fds
    BY DEF EpollInv, TypeOK, ReadyConns
  <2> QED
    BY <2>1, FdsAssumption, FS_Subset
<1>4. g \in Surjection(edge, Arrivals)
  BY DEF Surjection
<1>5. h \in Surjection(ReadyConns, Inputs)
  BY DEF Surjection
<1>6. IsFiniteSet(Arrivals) /\ IsFiniteSet(Inputs)
  BY <1>2, <1>3, <1>4, <1>5, FS_Surjection
<1>7. Ready = Arrivals \cup Inputs
  BY DEF Ready
<1> QED
  BY <1>6, <1>7, FS_Union

-----------------------------------------------------------------------------
(***************************************************************************)
(* The invariant is inductive: one lemma per action.                       *)
(***************************************************************************)

\* Initially nothing is connected.
LEMMA EpollInit ==
    ASSUME Init
    PROVE  EpollInv
<1>1. events = <<>> /\ DOMAIN events = {}
  BY DEF Init
<1>2. /\ backlog = [l \in Listeners |-> <<>>]
      /\ \A l \in Listeners : backlog[l] = <<>> /\ Len(backlog[l]) = 0 /\ DOMAIN backlog[l] = {}
  BY DEF Init
<1>3. TypeOK
  BY <1>2 DEF Init, TypeOK
<1>4. EventsTypeOK /\ EventsDistinct /\ EventsCurrent
  BY <1>1 DEF EventsTypeOK, EventsDistinct, EventsCurrent
<1>5. BacklogPorts /\ BacklogAccounted
  BY <1>1, <1>2 DEF Init, BacklogPorts, BacklogAccounted, InEvents
<1>6. InfosMatchSockets
  <2>1. \A f \in Fds : opened[f] = None
    BY DEF Init
  <2>2. connectionsInfo = {} /\ None \notin NodeConns
    BY ConnsAssumption DEF Init, Conns
  <2> QED
    BY <2>1, <2>2 DEF InfosMatchSockets
<1> QED
  BY <1>3, <1>4, <1>5, <1>6 DEF EpollInv

\* A connection arrives at its port.
LEMMA ConnectInv ==
    ASSUME EpollInv, NEW c \in Conns, Connect(c)
    PROVE  EpollInv'
<1> DEFINE p == Port(c)
<1>1. /\ TypeOK /\ p \in Listeners
      /\ backlog' = [backlog EXCEPT ![p] = Append(backlog[p], c)]
      /\ edge' = edge \cup {p}
      /\ merged' = [merged EXCEPT ![p] = IF p \in edge THEN merged[p] + 1 ELSE merged[p]]
      /\ UNCHANGED <<opened, watched, input, ended, events, sockNodeRemote,
                     connectionsInfo, thread>>
  BY DEF EpollInv, Connect, threadVars, Port, Listeners
<1> HIDE DEF p
<1>2. /\ Append(backlog[p], c) \in Seq(Conns)
      /\ Len(Append(backlog[p], c)) = Len(backlog[p]) + 1
      /\ DOMAIN backlog[p] = 1 .. Len(backlog[p]) /\ Len(backlog[p]) \in Nat
      /\ DOMAIN Append(backlog[p], c) = 1 .. (Len(backlog[p]) + 1)
      /\ Append(backlog[p], c)[Len(backlog[p]) + 1] = c
      /\ \A k \in DOMAIN backlog[p] : Append(backlog[p], c)[k] = backlog[p][k]
  BY <1>1, AppendElements DEF TypeOK
<1>3. /\ backlog'[p] = Append(backlog[p], c)
      /\ \A l \in Listeners : l # p => backlog'[l] = backlog[l]
      /\ backlog' \in [Listeners -> Seq(Conns)]
  BY <1>1, <1>2 DEF TypeOK
<1>4. Pending \subseteq Pending'
  <2> SUFFICES ASSUME NEW d \in Pending PROVE d \in Pending'
    OBVIOUS
  <2>1. PICK k \in DOMAIN backlog[Port(d)] : backlog[Port(d)][k] = d
    BY DEF Pending
  <2>2. k \in DOMAIN backlog'[Port(d)] /\ backlog'[Port(d)][k] = d
    <3>1. CASE Port(d) = p
      BY <2>1, <3>1, <1>2, <1>3
    <3>2. CASE Port(d) # p
      BY <2>1, <3>2, <1>3 DEF Port, Listeners
    <3> QED
      BY <3>1, <3>2
  <2> QED
    BY <2>2 DEF Pending
<1>5. TypeOK'
  <2>1. merged' \in [Listeners -> Nat] /\ edge' \subseteq Listeners
    BY <1>1 DEF TypeOK
  <2>2. input' \subseteq Pending' \cup Open'
    BY <1>1, <1>4 DEF TypeOK, Open
  <2> QED
    BY <1>1, <1>3, <2>1, <2>2 DEF TypeOK
<1>6. BacklogPorts'
  <2> SUFFICES ASSUME NEW l \in Listeners, NEW k \in DOMAIN backlog'[l]
               PROVE  Port(backlog'[l][k]) = l
    BY DEF BacklogPorts
  <2>1. CASE l # p
    BY <2>1, <1>3 DEF EpollInv, BacklogPorts
  <2>2. CASE l = p /\ k = Len(backlog[p]) + 1
    BY <2>2, <1>2, <1>3 DEF p
  <2>3. CASE l = p /\ k # Len(backlog[p]) + 1
    <3>1. k \in DOMAIN backlog[p]
      BY <2>3, <1>2, <1>3
    <3> QED
      BY <2>3, <3>1, <1>2, <1>3 DEF EpollInv, BacklogPorts
  <2> QED
    BY <2>1, <2>2, <2>3
<1>7. BacklogAccounted'
  <2> SUFFICES ASSUME thread' = "running", NEW l \in Listeners
               PROVE  Len(backlog'[l]) = merged'[l] + (IF l \in edge' THEN 1 ELSE 0)
                                             + (IF InEvents(l)' THEN 1 ELSE 0)
    BY DEF BacklogAccounted
  <2>1. InEvents(l)' <=> InEvents(l)
    BY <1>1 DEF InEvents
  <2>2. /\ Len(backlog[l]) = merged[l] + (IF l \in edge THEN 1 ELSE 0)
                                      + (IF InEvents(l) THEN 1 ELSE 0)
        /\ merged[l] \in Nat
    BY <1>1 DEF EpollInv, BacklogAccounted, TypeOK
  <2>3. CASE l = p
    BY <2>1, <2>2, <2>3, <1>1, <1>2, <1>3 DEF TypeOK
  <2>4. CASE l # p
    BY <2>1, <2>2, <2>4, <1>1, <1>3 DEF TypeOK
  <2> QED
    BY <2>3, <2>4
<1>8. EventsTypeOK' /\ EventsDistinct' /\ EventsCurrent' /\ InfosMatchSockets'
  BY <1>1 DEF EpollInv, EventsTypeOK, EventsDistinct, EventsCurrent, InfosMatchSockets
<1> QED
  BY <1>5, <1>6, <1>7, <1>8 DEF EpollInv

\* The other steps of the peers change what is in a connection only.
LEMMA PeerStepInv ==
    ASSUME EpollInv,
           UNCHANGED <<backlog, edge, opened, watched, threadVars, merged>>,
           input' \subseteq Pending \cup Open,
           ended' \in [Conns -> {"no", "closed", "reset"}]
    PROVE  EpollInv'
<1>1. UNCHANGED <<backlog, edge, opened, watched, events, sockNodeRemote,
                  connectionsInfo, thread, merged>>
  BY DEF threadVars
<1>2. Pending' = Pending /\ Open' = Open
  BY <1>1 DEF Pending, Open
<1>3. TypeOK'
  BY <1>1, <1>2 DEF EpollInv, TypeOK
<1>4. EventsTypeOK' /\ EventsDistinct' /\ EventsCurrent' /\ InfosMatchSockets' /\ BacklogPorts'
  BY <1>1 DEF EpollInv, EventsTypeOK, EventsDistinct, EventsCurrent, InfosMatchSockets,
              BacklogPorts
<1>5. BacklogAccounted'
  BY <1>1 DEF EpollInv, BacklogAccounted, InEvents
<1> QED
  BY <1>3, <1>4, <1>5 DEF EpollInv

\* Every step of a peer preserves the invariant.
LEMMA PeersInv ==
    ASSUME EpollInv, Peers
    PROVE  EpollInv'
<1>1. PICK c \in Conns : Connect(c) \/ Send(c) \/ End(c, "closed") \/ End(c, "reset")
  BY DEF Peers
<1>2. CASE Connect(c)
  BY <1>2, ConnectInv
<1>3. CASE Send(c)
  BY <1>3, PeerStepInv DEF Send, EpollInv, TypeOK
<1>4. CASE End(c, "closed") \/ End(c, "reset")
  BY <1>4, PeerStepInv DEF End, EpollInv, TypeOK
<1> QED
  BY <1>1, <1>2, <1>3, <1>4

\* A batch is reported: each socket once, a descriptor with the connection behind it.
LEMMA EpollWaitInv ==
    ASSUME EpollInv, EpollWait
    PROVE  EpollInv'
<1>1. /\ thread = "running" /\ events = <<>> /\ events' \in SetToSeqs(Ready) /\ edge' = {}
      /\ UNCHANGED <<backlog, opened, watched, input, ended, sockNodeRemote,
                     connectionsInfo, thread, merged>>
      /\ TypeOK
  BY DEF EpollInv, EpollWait
<1>2. /\ events' \in Seq(Ready)
      /\ \A j, k \in DOMAIN events' : events'[j] = events'[k] => j = k
      /\ \A x \in Ready : \E k \in DOMAIN events' : events'[k] = x
  BY <1>1, ReadyFinite, Permutation
<1>3. \A k \in DOMAIN events' : events'[k] \in Ready
  BY <1>2
<1>4. /\ Listeners \cap Fds = {} /\ edge \subseteq Listeners /\ ReadyConns \subseteq Fds
      /\ \A f \in ReadyConns : opened[f] \in Conns
  BY <1>1, FdsAssumption DEF TypeOK, ReadyConns
<1>5. \A x \in Ready :
         /\ x \in Event
         /\ \/ /\ x.socket \in edge
               /\ x = [socket |-> x.socket, error |-> FALSE, conn |-> None]
            \/ /\ x.socket \in ReadyConns /\ x.conn = opened[x.socket]
               /\ x = [socket |-> x.socket, error |-> (ended[opened[x.socket]] = "reset"),
                       conn |-> opened[x.socket]]
  <2> SUFFICES ASSUME NEW x \in Ready
               PROVE  /\ x \in Event
                      /\ \/ /\ x.socket \in edge
                            /\ x = [socket |-> x.socket, error |-> FALSE, conn |-> None]
                         \/ /\ x.socket \in ReadyConns /\ x.conn = opened[x.socket]
                            /\ x = [socket |-> x.socket,
                                    error |-> (ended[opened[x.socket]] = "reset"),
                                    conn |-> opened[x.socket]]
    OBVIOUS
  <2>1. CASE \E l \in edge : x = [socket |-> l, error |-> FALSE, conn |-> None]
    BY <1>4, <2>1 DEF Event
  <2>2. CASE \E f \in ReadyConns :
               x = [socket |-> f, error |-> (ended[opened[f]] = "reset"), conn |-> opened[f]]
    <3>1. PICK f \in ReadyConns :
               x = [socket |-> f, error |-> (ended[opened[f]] = "reset"), conn |-> opened[f]]
      BY <2>2
    <3>2. f \in Listeners \cup Fds /\ opened[f] \in Conns \cup {None}
      BY <1>4
    <3>3. (ended[opened[f]] = "reset") \in BOOLEAN
      OBVIOUS
    <3>4. x \in Event
      BY <3>1, <3>2, <3>3 DEF Event
    <3>5. x.socket = f /\ x.conn = opened[f]
      BY <3>1
    <3> QED
      BY <3>1, <3>4, <3>5
  <2> QED
    BY <2>1, <2>2 DEF Ready
<1>6. \A x, y \in Ready : x.socket = y.socket => x = y
  <2> SUFFICES ASSUME NEW x \in Ready, NEW y \in Ready, x.socket = y.socket
               PROVE  x = y
    OBVIOUS
  <2>1. edge \cap ReadyConns = {}
    BY <1>4
  <2>2. CASE x.socket \in edge
    <3>1. x.socket \notin ReadyConns /\ y.socket \notin ReadyConns
      BY <2>1, <2>2
    <3> QED
      BY <1>5, <3>1
  <2>3. CASE x.socket \notin edge
    <3>1. /\ x = [socket |-> x.socket, error |-> (ended[opened[x.socket]] = "reset"),
                  conn |-> opened[x.socket]]
          /\ y = [socket |-> y.socket, error |-> (ended[opened[y.socket]] = "reset"),
                  conn |-> opened[y.socket]]
      BY <1>5, <2>3
    <3> QED
      BY <3>1
  <2> QED
    BY <2>2, <2>3
<1>7. \A x \in Ready : x.socket \in Fds => x.conn = opened[x.socket] /\ x.conn # None
  <2>1. None \notin Conns
    BY ConnsAssumption
  <2> QED
    BY <1>4, <1>5, <2>1
<1>8. Ready \subseteq Event
  BY <1>5
<1>9. EventsTypeOK'
  BY <1>2, <1>8 DEF EventsTypeOK
<1>10. EventsDistinct'
  BY <1>2, <1>3, <1>6, <1>7 DEF EventsDistinct
<1>11. EventsCurrent'
  BY <1>1, <1>3, <1>7 DEF EventsCurrent
<1>12. BacklogAccounted'
  <2> SUFFICES ASSUME NEW l \in Listeners
               PROVE  Len(backlog[l]) = merged[l] + (IF l \in edge' THEN 1 ELSE 0)
                                             + (IF InEvents(l)' THEN 1 ELSE 0)
    BY <1>1 DEF BacklogAccounted
  <2>1. ~InEvents(l)
    BY <1>1 DEF InEvents
  <2>2. InEvents(l)' <=> l \in edge
    <3>1. ASSUME l \in edge PROVE InEvents(l)'
      <4>1. [socket |-> l, error |-> FALSE, conn |-> None] \in Ready
        BY <3>1 DEF Ready
      <4> QED
        BY <1>2, <4>1 DEF InEvents
    <3>2. ASSUME InEvents(l)' PROVE l \in edge
      BY <1>3, <1>4, <1>5, <3>2 DEF InEvents
    <3> QED
      BY <3>1, <3>2
  <2>3. /\ Len(backlog[l]) = merged[l] + (IF l \in edge THEN 1 ELSE 0)
                                      + (IF InEvents(l) THEN 1 ELSE 0)
        /\ merged[l] \in Nat
    BY <1>1 DEF EpollInv, BacklogAccounted, TypeOK
  <2> QED
    BY <1>1, <2>1, <2>2, <2>3
<1>13. TypeOK'
  <2>1. Pending' = Pending /\ Open' = Open
    BY <1>1 DEF Pending, Open
  <2> QED
    BY <1>1, <2>1 DEF TypeOK
<1>14. BacklogPorts' /\ InfosMatchSockets'
  BY <1>1 DEF EpollInv, BacklogPorts, InfosMatchSockets
<1> QED
  BY <1>9, <1>10, <1>11, <1>12, <1>13, <1>14 DEF EpollInv

\* A step that processes an event about a connection leaves the ports alone.
LEMMA PortsUnaffected ==
    ASSUME EpollInv, NEW f \in Fds, NEW error, NextEvent(f, error),
           UNCHANGED <<backlog, edge, thread, merged>>
    PROVE  BacklogPorts' /\ BacklogAccounted' /\ Pending' = Pending
<1>1. \A l : l # f => (InEvents(l)' <=> InEvents(l))
  BY NextEventEffect
<1>2. \A l \in Listeners : InEvents(l)' <=> InEvents(l)
  BY <1>1, FdsAssumption
<1> QED
  BY <1>2 DEF EpollInv, BacklogPorts, BacklogAccounted, Pending

\* A descriptor is closed: no event that is left in the batch is about it.
LEMMA CloseInv ==
    ASSUME EpollInv, NEW f \in Fds, NEW error, NextEvent(f, error), Close1(f),
           UNCHANGED <<backlog, edge, ended, sockNodeRemote, thread, merged>>
    PROVE  EpollInv'
<1>1. /\ opened' = [opened EXCEPT ![f] = None]
      /\ watched' = watched \ {f}
      /\ input' = input \ {opened[f]}
      /\ connectionsInfo' = {i \in connectionsInfo : i.socket # f}
      /\ TypeOK /\ EventsCurrent /\ InfosMatchSockets
  BY DEF Close1, EpollInv
<1>2. /\ events' \in Seq(Event)
      /\ EventsDistinct'
      /\ \A k \in DOMAIN events' : \E j \in DOMAIN events : events'[k] = events[j]
      /\ \A k \in DOMAIN events' : events'[k].socket # f
  BY NextEventEffect
<1>3. BacklogPorts' /\ BacklogAccounted' /\ Pending' = Pending
  BY PortsUnaffected
<1>4. /\ opened'[f] = None /\ \A g \in Fds : g # f => opened'[g] = opened[g]
      /\ opened' \in [Fds -> Conns \cup {None}]
  BY <1>1 DEF TypeOK
<1>5. TypeOK'
  <2>1. input' \subseteq Pending' \cup Open'
    <3> SUFFICES ASSUME NEW c \in input, c # opened[f], c \in Open PROVE c \in Open'
      BY <1>1, <1>3 DEF TypeOK
    <3>1. PICK g \in Fds : opened[g] = c /\ c # None
      BY DEF Open
    <3> QED
      BY <1>4, <3>1 DEF Open
  <2>2. watched' \subseteq {g \in Fds : opened'[g] # None}
    BY <1>1, <1>4 DEF TypeOK
  <2> QED
    BY <1>1, <1>4, <2>1, <2>2 DEF TypeOK
<1>6. EventsCurrent'
  <2> SUFFICES ASSUME NEW k \in DOMAIN events', events'[k].socket \in Fds
               PROVE  opened'[events'[k].socket] = events'[k].conn
    BY DEF EventsCurrent
  <2>1. PICK j \in DOMAIN events : events'[k] = events[j]
    BY <1>2
  <2>2. opened[events[j].socket] = events[j].conn
    BY <1>1, <2>1 DEF EventsCurrent
  <2> QED
    BY <1>2, <1>4, <2>1, <2>2
<1>7. InfosMatchSockets'
  <2>1. connectionsInfo' =
          {[socket |-> g, conn |-> opened'[g]] : g \in {h \in Fds : opened'[h] # None}}
    BY <1>1, <1>4 DEF InfosMatchSockets
  <2>2. ASSUME thread' = "running", NEW g \in Fds, opened'[g] \in NodeConns
        PROVE  g \in watched'
    BY <1>1, <1>4, <2>2, ConnsAssumption DEF InfosMatchSockets, Conns
  <2> QED
    BY <2>1, <2>2 DEF InfosMatchSockets
<1> QED
  BY <1>2, <1>3, <1>5, <1>6, <1>7 DEF EpollInv, EventsTypeOK

\* What a connection sent is read.
LEMMA InputInv ==
    ASSUME EpollInv, NEW f \in Fds, HandleInput(f)
    PROVE  EpollInv'
<1>1. /\ NextEvent(f, FALSE) /\ input' = input \ {opened[f]}
      /\ UNCHANGED <<backlog, edge, opened, watched, ended, sockNodeRemote,
                     connectionsInfo, thread, merged>>
      /\ TypeOK /\ EventsCurrent /\ InfosMatchSockets
  BY DEF HandleInput, EpollInv
<1>2. /\ events' \in Seq(Event)
      /\ EventsDistinct'
      /\ \A k \in DOMAIN events' : \E j \in DOMAIN events : events'[k] = events[j]
  BY <1>1, NextEventEffect
<1>3. BacklogPorts' /\ BacklogAccounted' /\ Pending' = Pending
  BY <1>1, PortsUnaffected
<1>4. TypeOK'
  <2>1. Open' = Open
    BY <1>1 DEF Open
  <2> QED
    BY <1>1, <1>3, <2>1 DEF TypeOK
<1>5. EventsCurrent'
  BY <1>1, <1>2 DEF EventsCurrent
<1>6. InfosMatchSockets'
  BY <1>1 DEF InfosMatchSockets
<1> QED
  BY <1>2, <1>3, <1>4, <1>5, <1>6 DEF EpollInv, EventsTypeOK

\* accept1: the descriptor is a free one, so no event of the batch is about it.
\* What is left to say after it is which descriptors are watched.
LEMMA AcceptEffect ==
    ASSUME EpollInv, NEW l \in Listeners, NEW f \in Fds, NextEvent(l, FALSE), Accept1(l, f),
           UNCHANGED <<edge, input, ended, merged>>,
           watched \subseteq watched', watched' \subseteq watched \cup {f}
    PROVE  /\ EventsTypeOK' /\ EventsDistinct' /\ EventsCurrent'
           /\ BacklogPorts' /\ BacklogAccounted'
           /\ backlog' \in [Listeners -> Seq(Conns)]
           /\ opened' \in [Fds -> Conns \cup {None}]
           /\ watched' \subseteq {g \in Fds : opened'[g] # None}
           /\ input' \subseteq Pending' \cup Open'
           /\ connectionsInfo' =
                {[socket |-> g, conn |-> opened'[g]] : g \in {h \in Fds : opened'[h] # None}}
           /\ opened'[f] \in Conns /\ Port(opened'[f]) = l
           /\ \A g \in Fds : g # f => opened'[g] = opened[g]
<1> DEFINE c == Head(backlog[l])
<1>1. /\ backlog[l] # <<>> /\ opened[f] = None
      /\ backlog' = [backlog EXCEPT ![l] = Tail(backlog[l])]
      /\ opened' = [opened EXCEPT ![f] = c]
      /\ connectionsInfo' = connectionsInfo \cup {[socket |-> f, conn |-> c]}
      /\ TypeOK /\ EventsCurrent /\ EventsDistinct /\ InfosMatchSockets /\ BacklogPorts
      /\ backlog[l] \in Seq(Conns)
  BY DEF Accept1, EpollInv, TypeOK
<1>2. /\ events' \in Seq(Event)
      /\ EventsDistinct'
      /\ \A k \in DOMAIN events' : \E j \in DOMAIN events : events'[k] = events[j]
      /\ \A m : m # l => (InEvents(m)' <=> InEvents(m))
      /\ ~InEvents(l)' /\ InEvents(l)
      /\ thread = "running"
  BY NextEventEffect
<1>3. /\ Tail(backlog[l]) \in Seq(Conns) /\ Len(Tail(backlog[l])) = Len(backlog[l]) - 1
      /\ Len(backlog[l]) \in Nat \ {0}
      /\ 1 \in DOMAIN backlog[l] /\ c = backlog[l][1] /\ c \in Conns
      /\ \A k \in DOMAIN Tail(backlog[l]) :
            k + 1 \in DOMAIN backlog[l] /\ Tail(backlog[l])[k] = backlog[l][k + 1]
      /\ \A k \in DOMAIN backlog[l] :
            k # 1 => k - 1 \in DOMAIN Tail(backlog[l]) /\ Tail(backlog[l])[k - 1] = backlog[l][k]
  BY <1>1, TailElements
<1> HIDE DEF c
<1>4. /\ backlog'[l] = Tail(backlog[l])
      /\ \A m \in Listeners : m # l => backlog'[m] = backlog[m]
      /\ backlog' \in [Listeners -> Seq(Conns)]
  BY <1>1, <1>3 DEF TypeOK
<1>5. /\ opened'[f] = c /\ \A g \in Fds : g # f => opened'[g] = opened[g]
      /\ opened' \in [Fds -> Conns \cup {None}] /\ c # None
  BY <1>1, <1>3, ConnsAssumption DEF TypeOK
<1>6. Port(c) = l
  BY <1>1, <1>3 DEF BacklogPorts
<1>7. EventsCurrent'
  <2> SUFFICES ASSUME NEW k \in DOMAIN events', events'[k].socket \in Fds
               PROVE  opened'[events'[k].socket] = events'[k].conn
    BY DEF EventsCurrent
  <2>1. PICK j \in DOMAIN events : events'[k] = events[j]
    BY <1>2
  <2>2. opened[events[j].socket] = events[j].conn /\ events[j].conn # None
    BY <1>1, <2>1 DEF EventsCurrent, EventsDistinct
  <2> QED
    BY <1>1, <1>5, <2>1, <2>2
<1>8. BacklogPorts'
  <2> SUFFICES ASSUME NEW m \in Listeners, NEW k \in DOMAIN backlog'[m]
               PROVE  Port(backlog'[m][k]) = m
    BY DEF BacklogPorts
  <2>1. CASE m # l
    BY <2>1, <1>1, <1>4 DEF BacklogPorts
  <2>2. CASE m = l
    BY <2>2, <1>1, <1>3, <1>4 DEF BacklogPorts
  <2> QED
    BY <2>1, <2>2
<1>9. BacklogAccounted'
  <2> SUFFICES ASSUME NEW m \in Listeners
               PROVE  Len(backlog'[m]) = merged'[m] + (IF m \in edge' THEN 1 ELSE 0)
                                             + (IF InEvents(m)' THEN 1 ELSE 0)
    BY DEF BacklogAccounted
  <2>1. /\ Len(backlog[m]) = merged[m] + (IF m \in edge THEN 1 ELSE 0)
                                      + (IF InEvents(m) THEN 1 ELSE 0)
        /\ merged[m] \in Nat
    BY <1>1, <1>2 DEF EpollInv, BacklogAccounted, TypeOK
  <2>2. CASE m = l
    <3>1. Len(backlog'[m]) = Len(backlog[m]) - 1
      BY <2>2, <1>3, <1>4
    <3> QED
      BY <2>1, <2>2, <3>1, <1>2
  <2>3. CASE m # l
    BY <2>1, <2>3, <1>2, <1>4
  <2> QED
    BY <2>2, <2>3
<1>10. watched' \subseteq {g \in Fds : opened'[g] # None}
  BY <1>1, <1>5 DEF TypeOK
<1>11. input' \subseteq Pending' \cup Open'
  <2> SUFFICES ASSUME NEW d \in input PROVE d \in Pending' \cup Open'
    OBVIOUS
  <2>1. CASE d \in Open
    <3>1. PICK g \in Fds : opened[g] = d /\ d # None
      BY <2>1 DEF Open
    <3>2. opened'[g] = d
      BY <1>1, <1>5, <3>1
    <3> QED
      BY <3>1, <3>2 DEF Open
  <2>2. CASE d = c
    BY <2>2, <1>5 DEF Open
  <2>3. CASE d \in Pending /\ d # c
    <3>1. PICK k \in DOMAIN backlog[Port(d)] : backlog[Port(d)][k] = d
      BY <2>3 DEF Pending
    <3>2. CASE Port(d) = l
      <4>1. k - 1 \in DOMAIN backlog'[Port(d)] /\ backlog'[Port(d)][k - 1] = d
        BY <2>3, <3>1, <3>2, <1>3, <1>4
      <4> QED
        BY <2>3, <4>1 DEF Pending
    <3>3. CASE Port(d) # l
      <4>1. k \in DOMAIN backlog'[Port(d)] /\ backlog'[Port(d)][k] = d
        BY <3>1, <3>3, <1>4 DEF Port, Listeners
      <4> QED
        BY <2>3, <4>1 DEF Pending
    <3> QED
      BY <3>2, <3>3
  <2> QED
    BY <1>1, <2>1, <2>2, <2>3 DEF TypeOK
<1>12. connectionsInfo' =
         {[socket |-> g, conn |-> opened'[g]] : g \in {h \in Fds : opened'[h] # None}}
  BY <1>1, <1>5 DEF InfosMatchSockets
<1> QED
  BY <1>2, <1>3, <1>4, <1>5, <1>6, <1>7, <1>8, <1>9, <1>10, <1>11, <1>12 DEF EventsTypeOK

\* A node is accepted and watched.
LEMMA NodeInv ==
    ASSUME EpollInv, NEW f \in Fds, HandleNode(f)
    PROVE  EpollInv'
<1>1. /\ NextEvent("node", FALSE) /\ Accept1("node", f) /\ "node" \in Listeners
      /\ sockNodeRemote' = f /\ watched' = watched \cup {f}
      /\ UNCHANGED <<edge, input, ended, thread, merged>>
      /\ TypeOK /\ InfosMatchSockets
  BY DEF HandleNode, Listeners, EpollInv
<1>2. /\ EventsTypeOK' /\ EventsDistinct' /\ EventsCurrent'
      /\ BacklogPorts' /\ BacklogAccounted'
      /\ backlog' \in [Listeners -> Seq(Conns)]
      /\ opened' \in [Fds -> Conns \cup {None}]
      /\ watched' \subseteq {g \in Fds : opened'[g] # None}
      /\ input' \subseteq Pending' \cup Open'
      /\ connectionsInfo' =
           {[socket |-> g, conn |-> opened'[g]] : g \in {h \in Fds : opened'[h] # None}}
      /\ \A g \in Fds : g # f => opened'[g] = opened[g]
  BY <1>1, AcceptEffect
<1>3. TypeOK'
  BY <1>1, <1>2 DEF TypeOK
<1>4. InfosMatchSockets'
  BY <1>1, <1>2 DEF InfosMatchSockets
<1> QED
  BY <1>2, <1>3, <1>4 DEF EpollInv

\* A user on the LAN is accepted; whether it is watched depends on sockNodeRemote,
\* but it is not a node.
LEMMA LanInv ==
    ASSUME EpollInv, NEW f \in Fds, HandleLan(f)
    PROVE  EpollInv'
<1>1. /\ NextEvent("lan", FALSE) /\ Accept1("lan", f) /\ "lan" \in Listeners
      /\ watched \subseteq watched' /\ watched' \subseteq watched \cup {f}
      /\ UNCHANGED <<edge, input, ended, sockNodeRemote, merged>>
      /\ thread' \in {"exited", thread}
      /\ TypeOK /\ InfosMatchSockets
  BY DEF HandleLan, Listeners, EpollInv
<1>2. /\ EventsTypeOK' /\ EventsDistinct' /\ EventsCurrent'
      /\ BacklogPorts' /\ BacklogAccounted'
      /\ backlog' \in [Listeners -> Seq(Conns)]
      /\ opened' \in [Fds -> Conns \cup {None}]
      /\ watched' \subseteq {g \in Fds : opened'[g] # None}
      /\ input' \subseteq Pending' \cup Open'
      /\ connectionsInfo' =
           {[socket |-> g, conn |-> opened'[g]] : g \in {h \in Fds : opened'[h] # None}}
      /\ Port(opened'[f]) = "lan"
      /\ \A g \in Fds : g # f => opened'[g] = opened[g]
  BY <1>1, AcceptEffect
<1>3. TypeOK'
  BY <1>1, <1>2 DEF TypeOK
<1>4. InfosMatchSockets'
  <2>1. opened'[f] \notin NodeConns
    BY <1>2 DEF Port
  <2> QED
    BY <1>1, <1>2, <2>1 DEF InfosMatchSockets
<1> QED
  BY <1>2, <1>3, <1>4 DEF EpollInv

\* The thread exits without a descriptor.
LEMMA AcceptFailsInv ==
    ASSUME EpollInv, NEW l \in Listeners, AcceptFails(l)
    PROVE  EpollInv'
<1>1. /\ NextEvent(l, FALSE) /\ thread' = "exited"
      /\ UNCHANGED <<backlog, edge, opened, watched, input, ended, sockNodeRemote,
                     connectionsInfo, merged>>
      /\ TypeOK /\ EventsCurrent /\ InfosMatchSockets /\ BacklogPorts
  BY DEF AcceptFails, kernelVars, EpollInv
<1>2. /\ events' \in Seq(Event)
      /\ EventsDistinct'
      /\ \A k \in DOMAIN events' : \E j \in DOMAIN events : events'[k] = events[j]
  BY <1>1, NextEventEffect
<1>3. TypeOK'
  <2>1. Pending' = Pending /\ Open' = Open
    BY <1>1 DEF Pending, Open
  <2> QED
    BY <1>1, <2>1 DEF TypeOK
<1>4. EventsCurrent'
  BY <1>1, <1>2 DEF EventsCurrent
<1>5. BacklogPorts' /\ BacklogAccounted' /\ InfosMatchSockets'
  BY <1>1 DEF BacklogPorts, BacklogAccounted, InfosMatchSockets
<1> QED
  BY <1>2, <1>3, <1>4, <1>5 DEF EpollInv, EventsTypeOK

\* Nothing changes.
LEMMA StutterInv ==
    ASSUME EpollInv, UNCHANGED vars
    PROVE  EpollInv'
<1>1. UNCHANGED <<backlog, edge, opened, watched, input, ended, threadVars, merged>>
  BY DEF vars, kernelVars
<1> QED
  BY <1>1, PeerStepInv DEF EpollInv, TypeOK

\* Every step of the peers and of the thread preserves the invariant.
LEMMA EpollStep ==
    ASSUME EpollInv, [Next]_vars
    PROVE  EpollInv'
<1>1. CASE Peers
  BY <1>1, PeersInv
<1>2. CASE EpollWait
  BY <1>2, EpollWaitInv
<1>3. CASE \E f \in Fds : HandleError(f) \/ HandleEnd(f)
  BY <1>3, CloseInv DEF HandleError, HandleEnd
<1>4. CASE \E f \in Fds : HandleInput(f)
  BY <1>4, InputInv
<1>5. CASE \E f \in Fds : HandleNode(f)
  BY <1>5, NodeInv
<1>6. CASE \E f \in Fds : HandleLan(f)
  BY <1>6, LanInv
<1>7. CASE \E l \in Listeners : AcceptFails(l)
  BY <1>7, AcceptFailsInv
<1>8. CASE UNCHANGED vars
  BY <1>8, StutterInv
<1> QED
  BY <1>1, <1>2, <1>3, <1>4, <1>5, <1>6, <1>7, <1>8 DEF Next, Thread

-----------------------------------------------------------------------------
(***************************************************************************)
(* The theorems.                                                           *)
(***************************************************************************)

\* The inductive invariant holds of the epoll thread, whatever the peers do.
THEOREM EpollCorrect == Spec => []EpollInv
<1>1. Init => EpollInv
  BY EpollInit
<1>2. EpollInv /\ [Next]_vars => EpollInv'
  BY EpollStep
<1> QED
  BY <1>1, <1>2, PTL DEF Spec

\* The variables of the thread and of the kernel keep their types; what is read
\* or watched belongs to a connection that is there.
THEOREM EpollTypes == Spec => []TypeOK
<1>1. EpollInv => TypeOK
  BY DEF EpollInv
<1> QED
  BY <1>1, EpollCorrect, PTL

\* Each port's queue is one connection for an arrival that is to be reported, one
\* for an event to be processed and the ones whose arrival was merged: an event
\* always finds a connection to accept.
THEOREM BacklogCorrect == Spec => []BacklogAccounted
<1>1. EpollInv => BacklogAccounted
  BY DEF EpollInv
<1> QED
  BY <1>1, EpollCorrect, PTL

\* Each open connection has one connInfo and it is its own, and a node that is
\* connected is watched as long as the thread runs.
THEOREM InfosCorrect == Spec => []InfosMatchSockets
<1>1. EpollInv => InfosMatchSockets
  BY DEF EpollInv
<1> QED
  BY <1>1, EpollCorrect, PTL

\* No event of a batch is applied to a connection that got the descriptor later.
THEOREM BatchCurrent == Spec => []EventsCurrent
<1>1. EpollInv => EventsCurrent
  BY DEF EpollInv
<1> QED
  BY <1>1, EpollCorrect, PTL
=============================================================================
