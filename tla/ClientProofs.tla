---------------------------- MODULE ClientProofs ----------------------------
(***************************************************************************)
(* Proofs about the two programs on the other side of knotd's socket.      *)
(* InetBridge: the tables of the bridge stay exact, and replies go to the  *)
(* host they are for up to the reuse of a datagram socket's number, for    *)
(* any number of things, descriptors and messages under way.  Ktool: no    *)
(* call waits for an answer that somebody else has had, for any length of  *)
(* the schema and any number of messages.  The two share no variable; each *)
(* theorem is about the specification it names.                            *)
(***************************************************************************)
EXTENDS InetBridge, Ktool, TLAPS

-----------------------------------------------------------------------------
(* The bridge.                                                             *)

\* Least numbers.
WF == INSTANCE WellFoundedInduction

\* The lowest free descriptor is a free descriptor.
LEMMA MinIn ==
  ASSUME NEW S \in SUBSET Nat, S # {}
  PROVE  Min(S) \in S
<1>1. PICK x \in S : \A y \in S : ~(<<y, x>> \in WF!OpToRel(<, Nat))
  BY WF!WFMin, WF!NatLessThanWellFounded, Zenon
<1>2. ASSUME NEW y \in S PROVE x =< y
  <2>1. ~(<<y, x>> \in {ss \in Nat \X Nat : ss[1] < ss[2]})
    BY <1>1 DEF WF!OpToRel
  <2>2. <<y, x>> \in Nat \X Nat /\ <<y, x>>[1] = y /\ <<y, x>>[2] = x
    OBVIOUS
  <2>3. ~(y < x)
    BY <2>1, <2>2
  <2> QED
    BY <2>3
<1> QED
  BY <1>2 DEF Min

TableType ==
  /\ hash \in [Peer -> Sock \cup {NULL}]
  /\ addr \in [Peer -> Sender \cup {NULL}]
  /\ source \in [Sock -> Peer \cup {NULL}]
QueueType ==
  /\ uplink \in [Sock -> Seq(Thing)]
  /\ downlink \in [Sock -> Seq(Thing)]

\* The two tables are inverse to each other, and the address last heard of a peer is
\* an address of that peer.
Tables ==
  /\ TableType
  /\ \A s \in Sock : source[s] # NULL => hash[source[s]] = s
  /\ \A p \in Peer : hash[p] # NULL =>
       /\ source[hash[p]] = p
       /\ addr[p] \in Sender
       /\ PeerOf(addr[p]) = p

\* Whatever is on a socket, in either direction, is of the peer of the socket, unless
\* it has the number of a dead datagram socket; a socket that is closed holds nothing.
Carries(q, p) == \A i \in 1 .. Len(q) : PeerOf(q[i]) = p
Home ==
  /\ QueueType
  /\ \A s \in Sock : source[s] = NULL => uplink[s] = <<>> /\ downlink[s] = <<>>
  /\ \A s \in Sock \ dead : Carries(uplink[s], source[s]) /\ Carries(downlink[s], source[s])

\* An entry holds the number of the datagram socket of its family, or of a dead one;
\* the number of a datagram socket that is open is not that of a socket to knotd.
Datagram ==
  /\ cli_sock \in [Peer -> Sock \cup {NULL}]
  /\ udp \in [Family -> Sock \cup {NULL}]
  /\ \A p \in Peer : hash[p] # NULL => cli_sock[p] = udp[p[1]] \/ cli_sock[p] \in dead
  /\ \A f \in Family : udp[f] # NULL => source[udp[f]] = NULL
  /\ phase = "init" =>
       (\A s \in Sock : source[s] = NULL) /\ (\A f \in Family : udp[f] = NULL)

BridgeInv == Tables /\ Home /\ Datagram

\* Queues keep to their peer when a message of it is added or one is taken.
LEMMA CarriesAppend ==
  ASSUME NEW q \in Seq(Thing), NEW p, NEW t \in Thing, Carries(q, p), PeerOf(t) = p
  PROVE  Append(q, t) \in Seq(Thing) /\ Carries(Append(q, t), p)
BY DEF Carries

LEMMA CarriesTail ==
  ASSUME NEW q \in Seq(Thing), NEW p, q # <<>>, Carries(q, p)
  PROVE  Tail(q) \in Seq(Thing) /\ Carries(Tail(q), p)
BY DEF Carries

LEMMA CarriesEmpty ==
  ASSUME NEW p
  PROVE  <<>> \in Seq(Thing) /\ Carries(<<>>, p)
BY DEF Carries

\* A socket that is not open has nothing under way.
LEMMA ClosedIsEmpty ==
  ASSUME BridgeInv, NEW s \in Sock, source[s] = NULL
  PROVE  uplink[s] = <<>> /\ downlink[s] = <<>>
BY DEF BridgeInv, Home

\* A datagram finds the socket of its peer, or gets a free descriptor, and the tables
\* stay exact.
LEMMA UplinkPeerKeeps ==
  ASSUME BridgeInv, NEW t \in Sender, UplinkPeer(t)
  PROVE  /\ Tables'
         /\ phase = "running" /\ udp[t[1]] # NULL /\ UNCHANGED <<phase, udp, dead>> => Datagram'
         /\ SockOf(t) \in Sock
         /\ source'[SockOf(t)] = PeerOf(t)
         /\ \A s \in Sock : source'[s] = source[s] \/ source[s] = NULL
<1>1. PeerOf(t) \in Peer /\ PeerOf(t) # NULL /\ NULL \notin Sock
  BY BridgeAssumption DEF Peer
<1>2. CASE hash[PeerOf(t)] # NULL
  <2>1. Tables' /\ SockOf(t) \in Sock /\ source'[SockOf(t)] = PeerOf(t)
        /\ \A s \in Sock : source'[s] = source[s] \/ source[s] = NULL
    BY <1>1, <1>2 DEF BridgeInv, Tables, TableType, UplinkPeer, SockOf
  <2>2. UNCHANGED <<hash, cli_sock, source>>
    BY <1>2 DEF UplinkPeer, SockOf, BridgeInv, Tables, TableType
  <2>3. ASSUME phase = "running", UNCHANGED <<phase, udp, dead>> PROVE Datagram'
    BY <2>2, <2>3 DEF BridgeInv, Datagram
  <2> QED
    BY <2>1, <2>3
<1>3. CASE hash[PeerOf(t)] = NULL
  <2>1. Free(udp) \in SUBSET Nat /\ Free(udp) # {}
    BY <1>3, BridgeAssumption DEF UplinkPeer, CanConnect, Free, Sock
  <2>2. SockOf(t) \in Free(udp)
    BY <1>3, <2>1, MinIn DEF SockOf
  <2>3. SockOf(t) \in Sock /\ source[SockOf(t)] = NULL /\ \A f \in Family : udp[f] # SockOf(t)
    BY <2>2 DEF Open, Free
  <2> DEFINE n == SockOf(t)
  <2>4. /\ hash' = [hash EXCEPT ![PeerOf(t)] = n]
        /\ source' = [source EXCEPT ![n] = PeerOf(t)]
        /\ addr' = [addr EXCEPT ![PeerOf(t)] = t]
        /\ cli_sock' = [cli_sock EXCEPT ![PeerOf(t)] = udp[t[1]]]
    BY <1>3 DEF UplinkPeer
  <2> HIDE DEF n
  <2>5. TableType'
    BY <1>1, <2>3, <2>4 DEF BridgeInv, Tables, TableType, n
  <2>6. n \in Sock /\ source[n] = NULL /\ \A f \in Family : udp[f] # n
    BY <2>3 DEF n
  <2>7. ASSUME NEW s \in Sock, source'[s] # NULL PROVE hash'[source'[s]] = s
    BY <1>1, <1>3, <2>4, <2>6, <2>7 DEF BridgeInv, Tables, TableType
  <2>8. ASSUME NEW p \in Peer, hash'[p] # NULL
        PROVE  source'[hash'[p]] = p /\ addr'[p] \in Sender /\ PeerOf(addr'[p]) = p
    BY <1>1, <2>4, <2>6, <2>8, BridgeAssumption DEF BridgeInv, Tables, TableType
  <2>9. Tables'
    BY <2>5, <2>7, <2>8 DEF Tables
  <2>10. source'[n] = PeerOf(t) /\ \A s \in Sock : source'[s] = source[s] \/ source[s] = NULL
    BY <2>4, <2>6 DEF BridgeInv, Tables, TableType
  <2>11. ASSUME phase = "running", udp[t[1]] # NULL, UNCHANGED <<phase, udp, dead>>
         PROVE  Datagram'
    <3>1. t[1] \in Family /\ PeerOf(t)[1] = t[1]
      BY BridgeAssumption DEF Sender, Unknown, PeerOf
    <3>2. cli_sock' \in [Peer -> Sock \cup {NULL}]
      BY <1>1, <2>4, <3>1 DEF BridgeInv, Datagram
    <3>3. ASSUME NEW p \in Peer, hash'[p] # NULL
          PROVE  cli_sock'[p] = udp'[p[1]] \/ cli_sock'[p] \in dead'
      BY <1>1, <2>4, <2>11, <3>1, <3>3 DEF BridgeInv, Datagram, Tables, TableType
    <3>4. ASSUME NEW f \in Family, udp'[f] # NULL PROVE source'[udp'[f]] = NULL
      BY <2>4, <2>6, <2>11, <3>4 DEF BridgeInv, Datagram, Tables, TableType
    <3> QED
      BY <2>11, <3>2, <3>3, <3>4 DEF BridgeInv, Datagram
  <2> QED
    BY <2>3, <2>9, <2>10, <2>11 DEF n
<1> QED
  BY <1>2, <1>3

\* The invariant is kept by a change of the tables that gives new owners to closed
\* sockets only, if no message moves.
LEMMA SameQueues ==
  ASSUME BridgeInv, Tables', Datagram', UNCHANGED <<uplink, downlink>>, dead \subseteq dead',
         \A s \in Sock : source'[s] = source[s] \/ source[s] = NULL
  PROVE  BridgeInv'
<1>1. ASSUME NEW s \in Sock \ dead'
      PROVE  Carries(uplink'[s], source'[s]) /\ Carries(downlink'[s], source'[s])
  <2>1. CASE source'[s] = source[s]
    BY <2>1 DEF BridgeInv, Home
  <2>2. CASE source[s] = NULL
    BY <2>2, ClosedIsEmpty, CarriesEmpty
  <2> QED
    BY <2>1, <2>2
<1>2. ASSUME NEW s \in Sock, source'[s] = NULL PROVE uplink'[s] = <<>> /\ downlink'[s] = <<>>
  BY <1>2 DEF BridgeInv, Home
<1> QED
  BY <1>1, <1>2 DEF BridgeInv, Home, QueueType

\* A datagram keeps the invariant, whatever becomes of it (read_inet4_cb).
LEMMA DatagramKeeps ==
  ASSUME BridgeInv, NEW f \in Family,
         \/ \E t \in Thing : Forward(f, t) \/ WriteFails(f, t) \/ ConnectFails(f, t)
         \/ RecvFails(f)
         \/ ListenerDies(f)
  PROVE  BridgeInv'
<1> USE DEF peerVars, sockVars, udpVars
<1>1. ASSUME NEW t \in Sender, UplinkPeer(t), phase = "running", udp[t[1]] # NULL,
             UNCHANGED <<uplink, downlink, phase, udp, dead>>
      PROVE  BridgeInv'
  BY <1>1, UplinkPeerKeeps, SameQueues
<1>2. ASSUME UNCHANGED <<hash, addr, cli_sock, source, uplink, downlink, phase, udp, dead>>
      PROVE  BridgeInv'
  BY <1>2, SameQueues DEF BridgeInv, Tables, TableType, Datagram
<1>3. ASSUME NEW t \in Thing, Forward(f, t) PROVE BridgeInv'
  <2>1. t \in Sender /\ UplinkPeer(t)
    BY <1>3 DEF Forward, Sender
  <2>0. phase = "running" /\ udp[t[1]] # NULL /\ UNCHANGED <<phase, udp, dead>>
    BY <1>3 DEF Forward, Listening
  <2> DEFINE n == SockOf(t)
  <2>2. /\ Tables' /\ Datagram' /\ n \in Sock /\ source'[n] = PeerOf(t)
        /\ \A s \in Sock : source'[s] = source[s] \/ source[s] = NULL
    BY <2>0, <2>1, UplinkPeerKeeps
  <2>3. uplink' = [uplink EXCEPT ![n] = Append(uplink[n], t)] /\ UNCHANGED downlink
    BY <1>3 DEF Forward
  <2> HIDE DEF n
  <2>4. ASSUME NEW s \in Sock \ dead
        PROVE  Carries(uplink[s], source'[s]) /\ Carries(downlink[s], source'[s])
    <3>1. CASE source'[s] = source[s]
      BY <3>1 DEF BridgeInv, Home
    <3>2. CASE source[s] = NULL
      BY <3>2, ClosedIsEmpty, CarriesEmpty
    <3> QED
      BY <2>2, <3>1, <3>2
  <2>5. uplink[n] \in Seq(Thing)
    BY <2>2 DEF BridgeInv, Home, QueueType
  <2>6. /\ Append(uplink[n], t) \in Seq(Thing)
        /\ n \notin dead => Carries(Append(uplink[n], t), source'[n])
    BY <2>2, <2>4, <2>5, CarriesAppend
  <2>8. PeerOf(t) # NULL
    BY BridgeAssumption DEF Peer, Sender
  <2>9. ASSUME NEW s \in Sock, source'[s] = NULL PROVE uplink'[s] = <<>> /\ downlink'[s] = <<>>
    BY <2>2, <2>3, <2>8, <2>9 DEF BridgeInv, Home, QueueType
  <2>7. Home'
    BY <2>0, <2>2, <2>3, <2>4, <2>6, <2>9 DEF BridgeInv, Home, QueueType
  <2> QED
    BY <2>2, <2>7 DEF BridgeInv
<1>4. ASSUME NEW t \in Thing, WriteFails(f, t) PROVE BridgeInv'
  BY <1>1, <1>4 DEF WriteFails, Sender, Listening
<1>5. ASSUME NEW t \in Thing, ConnectFails(f, t) PROVE BridgeInv'
  BY <1>2, <1>5 DEF ConnectFails
<1>6. CASE RecvFails(f)
  <2>1. Unknown(f) \in Sender /\ Unknown(f)[1] = f
    BY DEF Sender, Unknown
  <2> QED
    BY <1>1, <1>6, <2>1 DEF RecvFails, Listening
<1>7. CASE ListenerDies(f)
  <2>1. Datagram'
    BY <1>7 DEF ListenerDies, BridgeInv, Datagram, Listening
  <2> QED
    BY <1>7, <2>1, SameQueues DEF ListenerDies, BridgeInv, Tables, TableType
<1> QED
  BY <1>3, <1>4, <1>5, <1>6, <1>7

\* The socket of an entry that a reply leaves by is the datagram socket of the family,
\* or has the number of a dead one.
LEMMA ThroughDead ==
  ASSUME BridgeInv, NEW s \in Open
  PROVE  Through(s) \in Open => Through(s) \in dead
<1>1. s \in Sock /\ source[s] \in Peer /\ hash[source[s]] # NULL
  BY BridgeAssumption DEF Open, BridgeInv, Tables, TableType
<1>2. source[s][1] \in Family
  BY <1>1, BridgeAssumption DEF Peer, Sender, Unknown, PeerOf
<1>3. PICK p \in Peer : p = source[s]
  BY <1>1
<1>4. Through(s) = udp[p[1]] \/ Through(s) \in dead
  BY <1>1, <1>3 DEF Through, BridgeInv, Datagram
<1>5. udp[p[1]] # NULL => source[udp[p[1]]] = NULL
  BY <1>2, <1>3 DEF BridgeInv, Datagram
<1> QED
  BY <1>4, <1>5, BridgeAssumption DEF Open

\* A reply or a hang-up keeps the invariant (downlink4_cb).
LEMMA DownlinkKeeps ==
  ASSUME BridgeInv, NEW f \in Family, NEW s \in Sock,
         DownlinkHungUp(f, s) \/ DownlinkReply(f, s)
  PROVE  BridgeInv'
<1> USE DEF udpVars, peerVars
<1>1. CASE DownlinkHungUp(f, s)
  <2>1. source[s] \in Peer /\ hash[source[s]] = s /\ s # NULL /\ NULL \notin Peer
    BY <1>1, BridgeAssumption DEF DownlinkHungUp, Open, BridgeInv, Tables, TableType
  <2>2. PICK p \in Peer : p = source[s]
    BY <2>1
  <2>3. /\ source' = [source EXCEPT ![s] = NULL]
        /\ hash' = [hash EXCEPT ![p] = NULL]
        /\ addr' = [addr EXCEPT ![p] = NULL]
        /\ cli_sock' = [cli_sock EXCEPT ![p] = NULL]
        /\ uplink' = [uplink EXCEPT ![s] = <<>>]
        /\ downlink' = [downlink EXCEPT ![s] = <<>>]
        /\ UNCHANGED <<phase, udp, dead>>
    BY <1>1, <2>2 DEF DownlinkHungUp, downlink4_destroy, Discard
  <2>4. Tables'
    BY <2>1, <2>2, <2>3 DEF BridgeInv, Tables, TableType
  <2>5. Home'
    BY <2>3, CarriesEmpty DEF BridgeInv, Home, QueueType, Tables, TableType
  <2>6. Datagram'
    BY <2>3 DEF BridgeInv, Datagram, Tables, TableType
  <2> QED
    BY <2>4, <2>5, <2>6 DEF BridgeInv
<1>2. CASE DownlinkReply(f, s)
  <2> USE DEF BridgeInv, Home, QueueType
  <2>1. /\ downlink[s] \in Seq(Thing) /\ downlink[s] # <<>> /\ source[s] # NULL
        /\ UNCHANGED <<hash, addr, cli_sock, source, phase, udp, dead>>
        /\ downlink' = [downlink EXCEPT ![s] = Tail(downlink[s])]
    BY <1>2 DEF DownlinkReply, Open
  <2>2. /\ Tail(downlink[s]) \in Seq(Thing) /\ Head(downlink[s]) \in Thing
        /\ s \notin dead => Carries(Tail(downlink[s]), source[s])
    BY <2>1, CarriesTail
  <2>3. downlink' \in [Sock -> Seq(Thing)]
    BY <2>1, <2>2
  <2>4. ASSUME NEW r \in Sock
        PROVE  /\ source[r] = NULL => downlink'[r] = <<>>
               /\ r \notin dead => Carries(downlink'[r], source[r])
    BY <2>1, <2>2
  <2>5. PICK d : d = Through(s)
    OBVIOUS
  <2>6. \/ UNCHANGED uplink
        \/ /\ d \in Open
           /\ uplink' = [uplink EXCEPT ![d] = Append(uplink[d], Head(downlink[s]))]
    BY <1>2, <2>5 DEF DownlinkReply
  <2>7. d \in Open => d \in dead /\ d \in Sock /\ source[d] # NULL
    BY <1>2, <2>5, ThroughDead DEF DownlinkReply, Open
  <2>8. uplink' \in [Sock -> Seq(Thing)]
    <3>1. ASSUME d \in Open PROVE Append(uplink[d], Head(downlink[s])) \in Seq(Thing)
      <4>1. uplink[d] \in Seq(Thing)
        BY <2>7, <3>1
      <4> QED
        BY <2>2, <4>1
    <3> QED
      BY <2>6, <3>1
  <2>9. ASSUME NEW r \in Sock
        PROVE  /\ source[r] = NULL => uplink'[r] = <<>>
               /\ r \notin dead => Carries(uplink'[r], source[r])
    BY <2>6, <2>7
  <2>10. Home'
    BY <2>1, <2>3, <2>4, <2>8, <2>9
  <2>11. Tables' /\ Datagram'
    BY <2>1 DEF Tables, TableType, Datagram
  <2> QED
    BY <2>10, <2>11
<1> QED
  BY <1>1, <1>2

\* knotd reads a message and may answer.
LEMMA HearKeeps ==
  ASSUME BridgeInv, NEW s \in Sock, NEW t \in Thing, Hear(s, t)
  PROVE  BridgeInv'
<1> USE DEF udpVars, peerVars
<1>1. /\ uplink[s] \in Seq(Thing) /\ uplink[s] # <<>> /\ Head(uplink[s]) = t
      /\ downlink[s] \in Seq(Thing) /\ source[s] # NULL
      /\ s \notin dead => Carries(uplink[s], source[s]) /\ Carries(downlink[s], source[s])
  BY DEF Hear, Open, BridgeInv, Home, QueueType
<1>2. s \notin dead => PeerOf(t) = source[s]
  BY <1>1 DEF Carries
<1>3. /\ Tail(uplink[s]) \in Seq(Thing)
      /\ s \notin dead => Carries(Tail(uplink[s]), source[s])
  BY <1>1, CarriesTail
<1>4. /\ Append(downlink[s], t) \in Seq(Thing)
      /\ s \notin dead => Carries(Append(downlink[s], t), source[s])
  BY <1>1, <1>2, CarriesAppend
<1>5. UNCHANGED <<hash, addr, cli_sock, source, phase, udp, dead>>
  BY DEF Hear
<1>6. Home'
  BY <1>1, <1>3, <1>4, <1>5 DEF Hear, BridgeInv, Home, QueueType
<1> QED
  BY <1>5, <1>6 DEF BridgeInv, Tables, TableType, Datagram

\* The start gives the datagram sockets free descriptors.
LEMMA StartKeeps ==
  ASSUME BridgeInv, StartFails \/ manager_start
  PROVE  BridgeInv'
<1> USE DEF peerVars, sockVars
<1>1. /\ phase = "init" /\ phase' # "init"
      /\ UNCHANGED <<dead, hash, addr, cli_sock, source, uplink, downlink>>
  BY DEF StartFails, manager_start
<1>2. udp \in [Family -> Sock \cup {NULL}] /\ Open = {} /\ \A f \in Family : udp[f] = NULL
  BY <1>1 DEF BridgeInv, Datagram, Open
<1>3. 1 \in Sock /\ 2 \in Sock /\ Sock \subseteq Nat /\ NULL \notin Sock
  BY BridgeAssumption DEF Sock
<1>4. ASSUME NEW u, NEW x \in Sock, x \in Free(u) PROVE Min(Free(u)) \in Sock
  <2>1. Free(u) \in SUBSET Nat /\ Free(u) \subseteq Sock
    BY <1>3 DEF Free
  <2> QED
    BY <1>4, <2>1, MinIn
<1>5. 1 \in Free(udp)
  BY <1>2, <1>3 DEF Free, Family
<1>6. Min(Free(udp)) \in Sock
  BY <1>3, <1>4, <1>5
<1>7. PICK u \in [Family -> Sock \cup {NULL}] : u = inet4_start(udp) /\ u[6] = NULL
  <2>1. PICK m \in Sock : m = Min(Free(udp))
    BY <1>6
  <2>2. inet4_start(udp) = [udp EXCEPT ![4] = m]
    BY <2>1 DEF inet4_start
  <2>3. [udp EXCEPT ![4] = m] \in [Family -> Sock \cup {NULL}] /\ [udp EXCEPT ![4] = m][6] = NULL
    BY <1>2, <2>1 DEF Family
  <2> QED
    BY <2>2, <2>3
<1>8. \E x \in Sock : x \in Free(u)
  <2>1. CASE u[4] = 1
    BY <1>2, <1>3, <1>7, <2>1 DEF Free, Family
  <2>2. CASE u[4] # 1
    BY <1>2, <1>3, <1>7, <2>2 DEF Free, Family
  <2> QED
    BY <2>1, <2>2
<1>9. Min(Free(u)) \in Sock
  BY <1>4, <1>8
<1>10. /\ inet6_start(u) \in [Family -> Sock \cup {NULL}]
       /\ inet4_stop(u) \in [Family -> Sock \cup {NULL}]
  BY <1>9 DEF inet6_start, inet4_stop
<1>11. udp' \in [Family -> Sock \cup {NULL}]
  BY <1>2, <1>7, <1>10 DEF StartFails, manager_start
<1>12. \A p \in Peer : hash[p] = NULL
  BY <1>1, BridgeAssumption DEF BridgeInv, Datagram, Tables, TableType
<1>13. \A g \in Family : udp'[g] # NULL => source'[udp'[g]] = NULL
  BY <1>1, <1>11 DEF BridgeInv, Datagram
<1>14. Datagram'
  BY <1>1, <1>11, <1>12, <1>13 DEF BridgeInv, Datagram
<1> QED
  BY <1>1, <1>14, SameQueues DEF BridgeInv, Tables, TableType

\* Every step of the bridge, of the things and of knotd keeps the invariant.
LEMMA NextBridgeInv ==
  ASSUME BridgeInv, [Next]_vars
  PROVE  BridgeInv'
<1> USE DEF peerVars, sockVars, udpVars
<1>1. ASSUME UNCHANGED <<hash, addr, cli_sock, source, uplink, downlink, phase, udp, dead>>
      PROVE  BridgeInv'
  BY <1>1, SameQueues DEF BridgeInv, Tables, TableType, Datagram
<1>2. CASE UNCHANGED vars
  BY <1>1, <1>2 DEF vars
<1>3. CASE StartFails \/ manager_start
  BY <1>3, StartKeeps
<1>a. CASE KnotdStarts
  BY <1>1, <1>a DEF KnotdStarts
<1>4. CASE manager_stop
  <2>1. Tables' /\ Home'
    BY <1>4, CarriesEmpty DEF manager_stop, CloseAll, BridgeInv, Tables, TableType, Home, QueueType
  <2>2. Datagram'
    BY <1>4 DEF manager_stop, CloseAll, inet4_stop, inet6_stop, BridgeInv, Datagram, Family
  <2> QED
    BY <2>1, <2>2 DEF BridgeInv
<1>5. CASE read_inet4_cb \/ read_inet6_cb
  BY <1>5, DatagramKeeps DEF read_inet4_cb, read_inet6_cb, Family
<1>6. CASE downlink4_cb \/ downlink6_cb
  BY <1>6, DownlinkKeeps DEF downlink4_cb, downlink6_cb, Family
<1>7. ASSUME NEW t \in Thing, Speak(t) \/ Send(t) PROVE BridgeInv'
  BY <1>1, <1>7 DEF Speak, Send
<1>8. ASSUME NEW t \in Thing, NEW s \in Sock, Hear(s, t) PROVE BridgeInv'
  BY <1>8, HearKeeps
<1>9. ASSUME NEW s \in Sock, Close(s) PROVE BridgeInv'
  <2>1. UNCHANGED <<hash, addr, cli_sock, source, phase, udp, dead>>
    BY <1>9 DEF Close
  <2>2. Home'
    BY <1>9, <2>1, CarriesEmpty DEF Close, BridgeInv, Home, QueueType
  <2> QED
    BY <2>1, <2>2 DEF BridgeInv, Tables, TableType, Datagram
<1>10. CASE KnotdStops
  <2>1. UNCHANGED <<hash, addr, cli_sock, source, phase, udp, dead>>
    BY <1>10 DEF KnotdStops
  <2>2. Home'
    BY <1>10, <2>1, CarriesEmpty DEF KnotdStops, BridgeInv, Home, QueueType
  <2> QED
    BY <2>1, <2>2 DEF BridgeInv, Tables, TableType, Datagram
<1> QED
  BY <1>2, <1>3, <1>a, <1>4, <1>5, <1>6, <1>7, <1>8, <1>9, <1>10 DEF Next

\* The invariant holds at the start.
LEMMA InitBridgeInv == Init => BridgeInv
BY CarriesEmpty DEF Init, BridgeInv, Tables, TableType, Home, QueueType, Datagram

\* The tables and the sources of the bridge are inverse to each other in every order
\* of datagrams, hang-ups, restarts of knotd and reuses of descriptors.
THEOREM TablesCorrect == Spec => []TablesExact
<1>1. BridgeInv => TablesExact
  BY DEF BridgeInv, Tables, TableType, TablesExact, Open
<1>2. BridgeInv /\ [Next]_vars => BridgeInv'
  BY NextBridgeInv
<1> QED
  BY <1>1, <1>2, InitBridgeInv, PTL DEF Spec

\* A message and the reply to it stay on the socket of one host, and the reply is sent
\* to that host; only a socket that took the number of a dead datagram socket may carry
\* others, and only such a one may be what a reply leaves by.
THEOREM RepliesCorrect == Spec => []RepliesStayHome
<1>1. BridgeInv => RepliesStayHome
  <2> SUFFICES ASSUME BridgeInv, NEW s \in Open
               PROVE  /\ Through(s) \notin Open \ dead
                      /\ s \notin dead => \A t \in ToSet(uplink[s]) \cup ToSet(downlink[s]) :
                                            PeerOf(Destination(s)) = PeerOf(t)
    BY DEF RepliesStayHome
  <2>1. s \in Sock /\ source[s] # NULL /\ source[s] \in Peer
    BY DEF Open, BridgeInv, Tables, TableType
  <2>2. PeerOf(Destination(s)) = source[s]
    BY <2>1, BridgeAssumption DEF Destination, BridgeInv, Tables
  <2>3. ASSUME s \notin dead, NEW t \in ToSet(uplink[s]) \cup ToSet(downlink[s])
        PROVE  PeerOf(t) = source[s]
    <3>1. ASSUME NEW q \in Seq(Thing), Carries(q, source[s]), t \in ToSet(q)
          PROVE  PeerOf(t) = source[s]
      BY <3>1 DEF ToSet, Carries
    <3> QED
      BY <2>1, <2>3, <3>1 DEF BridgeInv, Home, QueueType
  <2>4. Through(s) \notin Open \ dead
    BY ThroughDead
  <2> QED
    BY <2>2, <2>3, <2>4
<1>2. BridgeInv /\ [Next]_vars => BridgeInv'
  BY NextBridgeInv
<1> QED
  BY <1>1, <1>2, InitBridgeInv, PTL DEF Spec

-----------------------------------------------------------------------------
(* The command line tool.                                                  *)

\* What is under way between the tool and knotd, and that a blocked call is not alone.
MessageType == up \in Seq(Request \cup Response) /\ down \in Seq(Answer \cup Push)

KtoolInv == MessageType /\ BlockedIsAnswered

\* Facts about queues: every entry is in the set of the messages.
LEMMA InToSet ==
  ASSUME NEW S, NEW q \in Seq(S), NEW i \in 1 .. Len(q)
  PROVE  q[i] \in ToSet(q)
BY DEF ToSet

\* What is in a queue after a message was added to it or taken from it.
LEMMA ToSetAppend ==
  ASSUME NEW S, NEW q \in Seq(S), NEW m \in S
  PROVE  Append(q, m) \in Seq(S) /\ ToSet(Append(q, m)) = ToSet(q) \cup {m}
<1>1. Append(q, m) \in Seq(S) /\ Len(Append(q, m)) = Len(q) + 1
  OBVIOUS
<1>2. ASSUME NEW x \in ToSet(Append(q, m)) PROVE x \in ToSet(q) \cup {m}
  BY <1>1, <1>2 DEF ToSet
<1>3. ASSUME NEW x \in ToSet(q) PROVE x \in ToSet(Append(q, m))
  <2>1. PICK i \in 1 .. Len(q) : q[i] = x
    BY <1>3 DEF ToSet
  <2>2. i \in 1 .. Len(Append(q, m)) /\ Append(q, m)[i] = x
    BY <1>1, <2>1
  <2> QED
    BY <1>1, <2>2 DEF ToSet
<1>4. m \in ToSet(Append(q, m))
  <2>1. Len(q) + 1 \in 1 .. Len(Append(q, m)) /\ Append(q, m)[Len(q) + 1] = m
    BY <1>1
  <2> QED
    BY <1>1, <2>1 DEF ToSet
<1> QED
  BY <1>1, <1>2, <1>3, <1>4

LEMMA ToSetTail ==
  ASSUME NEW S, NEW q \in Seq(S), q # <<>>
  PROVE  /\ Tail(q) \in Seq(S)
         /\ Head(q) \in S
         /\ ToSet(q) = {Head(q)} \cup ToSet(Tail(q))
<1>1. Tail(q) \in Seq(S) /\ Len(Tail(q)) = Len(q) - 1 /\ Len(q) \in Nat \ {0} /\ Head(q) = q[1]
  OBVIOUS
<1>2. \A i \in 1 .. Len(q) - 1 : Tail(q)[i] = q[i + 1]
  OBVIOUS
<1>3. ASSUME NEW x \in ToSet(q) PROVE x \in {Head(q)} \cup ToSet(Tail(q))
  <2>1. PICK i \in 1 .. Len(q) : q[i] = x
    BY <1>3 DEF ToSet
  <2>2. CASE i = 1
    BY <1>1, <2>1, <2>2
  <2>3. CASE i # 1
    <3>1. i - 1 \in 1 .. Len(Tail(q)) /\ Tail(q)[i - 1] = x
      BY <1>1, <1>2, <2>1, <2>3
    <3>2. Tail(q)[i - 1] \in ToSet(Tail(q))
      BY <1>1, <3>1, InToSet
    <3> QED
      BY <3>1, <3>2
  <2> QED
    BY <2>2, <2>3
<1>4. ASSUME NEW x \in ToSet(Tail(q)) PROVE x \in ToSet(q)
  <2>1. PICK i \in 1 .. Len(q) - 1 : Tail(q)[i] = x
    BY <1>1, <1>4 DEF ToSet
  <2>2. i + 1 \in 1 .. Len(q) /\ q[i + 1] = x
    BY <1>1, <1>2, <2>1
  <2> QED
    BY <2>2 DEF ToSet
<1>5. Head(q) \in ToSet(q)
  BY <1>1 DEF ToSet
<1> QED
  BY <1>1, <1>3, <1>4, <1>5

\* A call that blocks has written its request (Ask).
LEMMA AskKeeps ==
  ASSUME KtoolInv, NEW l \in Blocked, NEW f \in Label \ Blocked, Ask(l, f),
         UNCHANGED <<down, hup>>
  PROVE  KtoolInv'
<1>1. Asked[l] \in Request
  BY DEF Blocked, Asked, Request
<1>2. CASE hup /\ pc' = f /\ UNCHANGED up
  BY <1>2 DEF KtoolInv, MessageType, BlockedIsAnswered
<1>3. CASE up' = Append(up, Asked[l])
  <2>1. up' \in Seq(Request \cup Response) /\ ToSet(up') = ToSet(up) \cup {Asked[l]}
    BY <1>1, <1>3, ToSetAppend DEF KtoolInv, MessageType
  <2> QED
    BY <1>1, <2>1 DEF KtoolInv, MessageType, BlockedIsAnswered
<1> QED
  BY <1>2, <1>3 DEF Ask, Goto

\* The invariant is kept where nothing is blocked afterwards.
LEMMA FreeKeeps ==
  ASSUME MessageType', pc' \notin Blocked
  PROVE  KtoolInv'
BY DEF KtoolInv, BlockedIsAnswered

\* Labels at which nothing waits.
LEMMA FreeLabels == {"start", "command", "send", "loop", "spin", "exit"} \subseteq Label \ Blocked
BY DEF Label, Blocked, Asked

\* A call that is answered is not followed by another in the same step.
LEMMA AfterFree ==
  ASSUME NEW l, NEW f \in BOOLEAN
  PROVE  After(l, f) \in Label \ Blocked
BY FreeLabels DEF After

\* send_schema keeps the types of the queue.
LEMMA SchemaType ==
  ASSUME up \in Seq(Request \cup Response), SendSchema
  PROVE  up' \in Seq(Request \cup Response)
<1>1. CASE UNCHANGED up
  BY <1>1
<1>2. CASE up' = up \o [i \in 1 .. SchemaLen |-> "schema"]
  <2>1. [i \in 1 .. SchemaLen |-> "schema"] \in Seq(Request \cup Response)
    BY KtoolAssumption DEF Request
  <2>2. ASSUME NEW q \in Seq(Request \cup Response) PROVE up \o q \in Seq(Request \cup Response)
    OBVIOUS
  <2> QED
    BY <1>2, <2>1, <2>2, Zenon
<1> QED
  BY <1>1, <1>2 DEF SendSchema

\* knotd's answer to a request takes the place of the request.
LEMMA ServeKeeps ==
  ASSUME KtoolInv, Serve
  PROVE  KtoolInv'
<1>1. /\ up' = Tail(up)
      /\ up' \in Seq(Request \cup Response)
      /\ Head(up) \in Request \cup Response
      /\ ToSet(up) = {Head(up)} \cup ToSet(up')
  BY ToSetTail DEF KtoolInv, MessageType, Serve
<1>2. CASE Head(up) \in Request
  <2>1. PICK a \in Answer : down' = Append(down, a)
    BY <1>2 DEF Serve
  <2>2. down' \in Seq(Answer \cup Push) /\ ToSet(down') = ToSet(down) \cup {a}
    BY <2>1, ToSetAppend DEF KtoolInv, MessageType
  <2> QED
    BY <1>1, <2>2 DEF KtoolInv, MessageType, BlockedIsAnswered
<1>3. CASE Head(up) \notin Request
  <2>1. UNCHANGED <<pc, hup, down>>
    BY <1>3 DEF Serve, toolVars
  <2>2. ToSet(up) \cap Request = ToSet(up') \cap Request
    BY <1>1, <1>3
  <2> QED
    BY <1>1, <2>1, <2>2 DEF KtoolInv, MessageType, BlockedIsAnswered
<1> QED
  BY <1>2, <1>3

\* proto_receive and what it calls.
LEMMA ReceiveKeeps ==
  ASSUME KtoolInv, ProtoReceive
  PROVE  KtoolInv'
<1>1. pc = "loop" /\ pc \notin Blocked /\ "loop_data" \in Blocked
  BY FreeLabels DEF ProtoReceive, Blocked, Asked
<1>2. down' \in Seq(Answer \cup Push)
  BY ToSetTail DEF ProtoReceive, KtoolInv, MessageType
<1>3. ASSUME up' \in Seq(Request \cup Response), UNCHANGED pc PROVE KtoolInv'
  BY <1>1, <1>2, <1>3, FreeKeeps DEF MessageType
<1>4. ASSUME NEW m \in Response, up' = Append(up, m) PROVE up' \in Seq(Request \cup Response)
  BY <1>4, ToSetAppend DEF KtoolInv, MessageType
<1>5. CASE SetData \/ SetConfig
  BY <1>3, <1>4, <1>5 DEF SetData, SetConfig, Response
<1>6. CASE GetData
  <2>1. CASE UNCHANGED <<up, pc, err>>
    BY <1>3, <2>1 DEF KtoolInv, MessageType
  <2>2. CASE WriteKnotData("loop_data")
    <3>1. CASE hup /\ pc' = "loop" /\ UNCHANGED up
      BY <1>1, <1>3, <3>1 DEF KtoolInv, MessageType
    <3>2. CASE up' = Append(up, "data")
      <4>1. up' \in Seq(Request \cup Response) /\ ToSet(up') = ToSet(up) \cup {"data"}
        BY <3>2, ToSetAppend DEF KtoolInv, MessageType, Request
      <4> QED
        BY <1>2, <4>1 DEF KtoolInv, MessageType, BlockedIsAnswered, Request
    <3> QED
      BY <2>2, <3>1, <3>2 DEF WriteKnotData, Ask, Asked, Goto
  <2> QED
    BY <1>6, <2>1, <2>2 DEF GetData
<1>7. CASE UNCHANGED <<up, pc, err, timers>>
  BY <1>3, <1>7 DEF KtoolInv, MessageType
<1> QED
  BY <1>5, <1>6, <1>7 DEF ProtoReceive

\* Every step of the tool and of knotd keeps the invariant.
LEMMA NextKtoolInv ==
  ASSUME KtoolInv, [KtoolNext]_ktoolVars
  PROVE  KtoolInv'
<1> USE FreeLabels DEF UnchangedPeer
<1>1. MessageType /\ {"add", "auth", "enroll", "data", "remove", "loop_data"} \subseteq Blocked
  BY DEF KtoolInv, Blocked, Asked
<1>2. CASE UNCHANGED ktoolVars
  BY <1>2 DEF ktoolVars, toolVars, KtoolInv, MessageType, BlockedIsAnswered
<1>3. ASSUME UNCHANGED <<up, down>>, pc' \in Label \ Blocked PROVE KtoolInv'
  BY <1>1, <1>3, FreeKeeps DEF MessageType
<1>4. CASE Start
  BY <1>1, <1>3, <1>4, AskKeeps DEF Start, Goto
<1>5. CASE NoConnection \/ Quit
  BY <1>3, <1>5 DEF NoConnection, Quit, Goto
<1>6. CASE RunCommand
  <2>1. CASE Authenticate
    BY <1>1, <1>6, <2>1, AskKeeps DEF RunCommand, Authenticate
  <2>2. CASE Ask("enroll", "exit")
    BY <1>1, <1>6, <2>2, AskKeeps DEF RunCommand
  <2>3. CASE pc' \in {"send", "exit", "loop"} /\ UNCHANGED up
    BY <1>3, <1>6, <2>3 DEF RunCommand
  <2> QED
    BY <1>6, <2>1, <2>2, <2>3 DEF RunCommand, Goto
<1>7. CASE CmdSchema
  <2>1. pc' \in {"exit", "loop"} /\ UNCHANGED down
    BY <1>7 DEF CmdSchema, Goto
  <2>2. up' \in Seq(Request \cup Response)
    BY <1>1, <1>7, SchemaType DEF CmdSchema, MessageType
  <2> QED
    BY <1>1, <2>1, <2>2, FreeKeeps DEF MessageType
<1>8. CASE CmdData
  <2>1. CASE WriteKnotData("data")
    BY <1>1, <1>8, <2>1, AskKeeps DEF CmdData, WriteKnotData
  <2>2. CASE pc' \in {"exit", "loop"} /\ UNCHANGED up
    BY <1>3, <1>8, <2>2 DEF CmdData
  <2> QED
    BY <1>8, <2>1, <2>2 DEF CmdData, Goto
<1>9. CASE CmdUnregister
  BY <1>1, <1>9, AskKeeps DEF CmdUnregister
<1>10. CASE Take
  <2>1. down' \in Seq(Answer \cup Push) /\ UNCHANGED up
    BY <1>1, <1>10, ToSetTail DEF Take, MessageType
  <2>2. pc' \in Label \ Blocked
    BY <1>10, AfterFree DEF Take, Goto
  <2> QED
    BY <1>1, <2>1, <2>2, FreeKeeps DEF MessageType
<1>11. CASE Lost
  BY <1>3, <1>11, AfterFree DEF Lost, Goto
<1>12. CASE SendConfig
  <2>1. CASE UNCHANGED <<up, pc, err>>
    BY <1>3, <1>12, <2>1 DEF SendConfig
  <2>2. CASE WriteKnotData("loop_data")
    BY <1>1, <1>12, <2>2, AskKeeps DEF SendConfig, WriteKnotData
  <2> QED
    BY <1>12, <2>1, <2>2 DEF SendConfig
<1>13. CASE PushMessage
  <2>1. PICK m \in Push : down' = Append(down, m)
    BY <1>13 DEF PushMessage
  <2>2. down' \in Seq(Answer \cup Push) /\ ToSet(down') = ToSet(down) \cup {m}
    BY <1>1, <2>1, ToSetAppend DEF MessageType
  <2> QED
    BY <1>13, <2>2 DEF PushMessage, toolVars, KtoolInv, MessageType, BlockedIsAnswered
<1>14. CASE HangUp
  BY <1>14 DEF HangUp, toolVars, KtoolInv, MessageType, BlockedIsAnswered
<1> QED
  BY <1>2, <1>4, <1>5, <1>6, <1>7, <1>8, <1>9, <1>10, <1>11, <1>12, <1>13, <1>14,
     ServeKeeps, ReceiveKeeps DEF KtoolNext

\* Whatever the command line and whatever knotd sends, a call of ktool that waits on a
\* connection that is up has its request or some answer under way.
THEOREM BlockedAnswered == KtoolSpec => []BlockedIsAnswered
<1>1. KtoolInit => KtoolInv
  BY DEF KtoolInit, KtoolInv, MessageType, BlockedIsAnswered, Blocked, Asked
<1>2. KtoolInv /\ [KtoolNext]_ktoolVars => KtoolInv'
  BY NextKtoolInv
<1>3. KtoolInv => BlockedIsAnswered
  BY DEF KtoolInv
<1> QED
  BY <1>1, <1>2, <1>3, PTL DEF KtoolSpec
=============================================================================
