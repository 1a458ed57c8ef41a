---------------------------- MODULE InetBridge -----------------------------
(***************************************************************************)
(* The border router (inetbr): things that speak UDP over IPv4 or IPv6 are *)
(* handed to knotd over one unix socket per address.  inet4.c and inet6.c  *)
(* are the same program twice; here the family is a parameter.  The hash   *)
(* table is keyed by the address of the host alone, and what knotd writes  *)
(* goes to the port of that host that was heard last, through the datagram *)
(* socket whose number the entry of the host holds.                        *)
(*                                                                         *)
(* A message is the thing that sent it, a reply the thing it is for.       *)
(***************************************************************************)
EXTENDS Naturals, SequencesExt

CONSTANTS
  Thing,     \* <<family, host, port>> of the things
  Patient,   \* things that send a message until knotd has had it
  MaxSock,   \* bound: descriptors, of the datagram sockets and to knotd
  MaxQueue,  \* bound: messages under way in one direction of one socket
  Faulty,    \* families whose recvfrom may fail
  Zeroed,    \* the address and the port of a zeroed sockaddr
  NULL

Family == {4, 6}
Sock == 1 .. MaxSock

\* recvfrom gives the address of a thing, or leaves it zeroed
Unknown(f) == <<f, Zeroed, Zeroed>>
Sender == Thing \cup {Unknown(f) : f \in Family}
PeerOf(t) == <<t[1], t[2]>>
Peer == {PeerOf(t) : t \in Sender}

ASSUME BridgeAssumption ==
  /\ \A t \in Thing : t[1] \in Family
  /\ Patient \subseteq Thing
  /\ MaxSock \in Nat \ {0, 1}
  /\ MaxQueue \in Nat \ {0}
  /\ Faulty \subseteq Family
  /\ NULL \notin Sock
  /\ NULL \notin Peer

VARIABLES
  phase,      \* of main: "init", "running" or "exited"
  udp,        \* the datagram socket of a family, NULL if it is not open
  dead,       \* history: descriptors of datagram sockets that were closed on an error
  hash,       \* inet_hash4 and inet_hash6: the socket of a peer, or NULL
  addr,       \* watch->addr of a peer
  cli_sock,   \* watch->cli_sock of a peer
  source,     \* the peer in the user data of the glib source of a socket
  ended,      \* sockets whose other end knotd has closed
  accepting,  \* does knotd listen on its unix socket?
  rx,         \* datagrams that wait in the two sockets
  uplink,     \* messages on their way to knotd, per socket
  downlink,   \* replies on their way from knotd, per socket
  waiting     \* patient things with a message knotd has not had yet

peerVars == <<hash, addr, cli_sock, source>>
udpVars == <<udp, dead>>
sockVars == <<ended, uplink, downlink>>
vars == <<phase, udpVars, peerVars, accepting, rx, sockVars, waiting>>

\* the sockets to knotd, the families that are listened to, and the descriptors that
\* are not in use when u are the datagram sockets
Open == {s \in Sock : source[s] # NULL}
Listening == {f \in Family : udp[f] # NULL}
Free(u) == Sock \ (Open \cup {u[f] : f \in Family})

TypeOK ==
  /\ phase \in {"init", "running", "exited"}
  /\ udp \in [Family -> Sock \cup {NULL}]
  /\ dead \subseteq Sock
  /\ hash \in [Peer -> Sock \cup {NULL}]
  /\ addr \in [Peer -> Sender \cup {NULL}]
  /\ cli_sock \in [Peer -> Sock \cup {NULL}]
  /\ source \in [Sock -> Peer \cup {NULL}]
  /\ ended \subseteq Sock
  /\ accepting \in BOOLEAN
  /\ rx \subseteq Thing
  /\ uplink \in [Sock -> Seq(Thing)]
  /\ downlink \in [Sock -> Seq(Thing)]
  /\ waiting \subseteq Patient

Init ==
  /\ phase = "init"
  /\ udp = [f \in Family |-> NULL]
  /\ dead = {}
  /\ hash = [p \in Peer |-> NULL]
  /\ addr = [p \in Peer |-> NULL]
  /\ cli_sock = [p \in Peer |-> NULL]
  /\ source = [s \in Sock |-> NULL]
  /\ ended = {}
  /\ accepting = TRUE
  /\ rx = {}
  /\ uplink = [s \in Sock |-> <<>>]
  /\ downlink = [s \in Sock |-> <<>>]
  /\ waiting = {}

-----------------------------------------------------------------------------
(* Replies (downlink4_cb).                                                 *)

\* Mutant: the entry of the peer stays in the table.
downlink4_destroy_Kept(s) ==
  /\ source' = [source EXCEPT ![s] = NULL]
  /\ UNCHANGED <<hash, addr, cli_sock>>

\* downlink4_destroy, the destroy callback of the source of s
downlink4_destroy(s) ==
  /\ source' = [source EXCEPT ![s] = NULL]
  /\ hash' = [hash EXCEPT ![source[s]] = NULL]
  /\ addr' = [addr EXCEPT ![source[s]] = NULL]
  /\ cli_sock' = [cli_sock EXCEPT ![source[s]] = NULL]

\* the channel of s closes its socket: what it still holds is gone
Discard(s) ==
  /\ ended' = ended \ {s}
  /\ uplink' = [uplink EXCEPT ![s] = <<>>]
  /\ downlink' = [downlink EXCEPT ![s] = <<>>]

\* A hang-up: replies that are not read yet are lost.
DownlinkHungUp(f, s) ==
  /\ phase = "running"
  /\ s \in Open \cap ended
  /\ source[s][1] = f
  /\ downlink4_destroy(s)
  /\ Discard(s)
  /\ UNCHANGED <<phase, udpVars, accepting, rx, waiting>>

\* the address a reply that came in on s is sent to, and the descriptor it is sent with
Destination(s) == addr[source[s]]
Through(s) == cli_sock[source[s]]

(***************************************************************************)
(* A reply is read and sent, or sendto fails.  When the datagram socket    *)
(* was closed and its number is that of a socket to knotd now, sendto      *)
(* leaves the address aside (SOCK_SEQPACKET) and writes to that one.       *)
(***************************************************************************)
DownlinkReply(f, s) ==
  /\ phase = "running"
  /\ s \in Open \ ended
  /\ source[s][1] = f
  /\ downlink[s] # <<>>
  /\ downlink' = [downlink EXCEPT ![s] = Tail(@)]
  /\ uplink' = IF Through(s) \in Open \ ended /\ Len(uplink[Through(s)]) < MaxQueue
               THEN [uplink EXCEPT ![Through(s)] = Append(@, Head(downlink[s]))]
               ELSE uplink
  /\ UNCHANGED <<phase, udpVars, peerVars, accepting, rx, ended, waiting>>

-----------------------------------------------------------------------------
(* Datagrams (read_inet4_cb).                                              *)

\* unix_connect fails: knotd does not listen, or descriptors have run out
CanConnect == accepting /\ Free(udp) # {}

\* the socket of the peer of t, made if there is none; the kernel hands out the
\* lowest free descriptor
SockOf(t) == IF hash[PeerOf(t)] # NULL THEN hash[PeerOf(t)] ELSE Min(Free(udp))

\* lookup or connect, and the address of the last datagram
UplinkPeer(t) ==
  /\ hash[PeerOf(t)] # NULL \/ CanConnect
  /\ hash' = [hash EXCEPT ![PeerOf(t)] = SockOf(t)]
  /\ source' = IF hash[PeerOf(t)] # NULL THEN source
               ELSE [source EXCEPT ![SockOf(t)] = PeerOf(t)]
  /\ addr' = [addr EXCEPT ![PeerOf(t)] = t]
  /\ cli_sock' = IF hash[PeerOf(t)] # NULL THEN cli_sock
                 ELSE [cli_sock EXCEPT ![PeerOf(t)] = udp[t[1]]]

\* The datagram of t is written to the socket of its peer.
Forward(f, t) ==
  /\ phase = "running" /\ f \in Listening
  /\ t \in rx /\ t[1] = f
  /\ UplinkPeer(t)
  /\ SockOf(t) \notin ended
  /\ Len(uplink[SockOf(t)]) < MaxQueue
  /\ uplink' = [uplink EXCEPT ![SockOf(t)] = Append(@, t)]
  /\ rx' = rx \ {t}
  /\ UNCHANGED <<phase, udpVars, accepting, ended, downlink, waiting>>

\* The connection is dying: the address is taken, the datagram is lost.
WriteFails(f, t) ==
  /\ phase = "running" /\ f \in Listening
  /\ t \in rx /\ t[1] = f
  /\ hash[PeerOf(t)] \in ended
  /\ UplinkPeer(t)
  /\ rx' = rx \ {t}
  /\ UNCHANGED <<phase, udpVars, accepting, sockVars, waiting>>

\* The datagram of a new peer is dropped because there is no connection.
ConnectFails(f, t) ==
  /\ phase = "running" /\ f \in Listening
  /\ t \in rx /\ t[1] = f
  /\ hash[PeerOf(t)] = NULL /\ ~CanConnect
  /\ rx' = rx \ {t}
  /\ UNCHANGED <<phase, udpVars, peerVars, accepting, sockVars, waiting>>

\* recvfrom fails, which is not checked: the peer is the zeroed address, and
\* nothing is written
RecvFails(f) ==
  /\ phase = "running" /\ f \in Listening \cap Faulty
  /\ UplinkPeer(Unknown(f))
  /\ UNCHANGED <<phase, udpVars, accepting, rx, sockVars, waiting>>

\* An error of the socket ends the watch, and closes it with its channel.
ListenerDies(f) ==
  /\ phase = "running" /\ f \in Listening \cap Faulty
  /\ udp' = [udp EXCEPT ![f] = NULL]
  /\ dead' = dead \cup {udp[f]}
  /\ UNCHANGED <<phase, peerVars, accepting, rx, sockVars, waiting>>

read_inet4_cb ==
  \/ \E t \in Thing : Forward(4, t) \/ WriteFails(4, t) \/ ConnectFails(4, t)
  \/ RecvFails(4)
  \/ ListenerDies(4)

read_inet6_cb ==
  \/ \E t \in Thing : Forward(6, t) \/ WriteFails(6, t) \/ ConnectFails(6, t)
  \/ RecvFails(6)
  \/ ListenerDies(6)

downlink4_cb == \E s \in Sock : DownlinkHungUp(4, s) \/ DownlinkReply(4, s)
downlink6_cb == \E s \in Sock : DownlinkHungUp(6, s) \/ DownlinkReply(6, s)

-----------------------------------------------------------------------------
(* Start and stop.                                                         *)

\* the two families are started and stopped one after the other
inet4_start(u) == [u EXCEPT ![4] = Min(Free(u))]
inet6_start(u) == [u EXCEPT ![6] = Min(Free(u))]
inet4_stop(u) == [u EXCEPT ![4] = NULL]
inet6_stop(u) == [u EXCEPT ![6] = NULL]

manager_start ==
  /\ phase = "init"
  /\ phase' = "running"
  /\ udp' = inet6_start(inet4_start(udp))
  /\ UNCHANGED <<dead, peerVars, accepting, rx, sockVars, waiting>>

\* manager_start when inet4_start or inet6_start fails
StartFails ==
  /\ phase = "init"
  /\ phase' = "exited"
  /\ udp' \in {udp, inet4_stop(inet4_start(udp))}
  /\ UNCHANGED <<dead, peerVars, accepting, rx, sockVars, waiting>>

\* remove_downlink4_source for all peers: the first removal ends the iteration of
\* the table, and the end of the process closes the sockets that are left
CloseAll ==
  /\ hash' = [p \in Peer |-> NULL]
  /\ addr' = [p \in Peer |-> NULL]
  /\ cli_sock' = [p \in Peer |-> NULL]
  /\ source' = [s \in Sock |-> NULL]
  /\ ended' = {}
  /\ uplink' = [s \in Sock |-> <<>>]
  /\ downlink' = [s \in Sock |-> <<>>]

\* manager_stop and the end of main
manager_stop ==
  /\ phase = "running"
  /\ phase' = "exited"
  /\ udp' = inet6_stop(inet4_stop(udp))
  /\ rx' = {}
  /\ CloseAll
  /\ UNCHANGED <<dead, accepting, waiting>>

-----------------------------------------------------------------------------
(* Things and knotd.                                                       *)

\* A patient thing has a message.
Speak(t) ==
  /\ phase = "running"
  /\ t \in Patient \ waiting
  /\ waiting' = waiting \cup {t}
  /\ UNCHANGED <<phase, udpVars, peerVars, accepting, rx, sockVars>>

\* It is sent until then; the other things send what they like.
Send(t) ==
  /\ phase = "running"
  /\ t \in Patient => t \in waiting
  /\ t \notin rx
  /\ rx' = rx \cup {t}
  /\ UNCHANGED <<phase, udpVars, peerVars, accepting, sockVars, waiting>>

\* A datagram of t would get through now.
Reachable(t) ==
  IF hash[PeerOf(t)] = NULL THEN CanConnect
  ELSE /\ hash[PeerOf(t)] \notin ended
       /\ Len(uplink[hash[PeerOf(t)]]) < MaxQueue

\* knotd reads a message of t from s, and may answer; a reply that strayed there is
\* no message of t
Hear(s, t) ==
  /\ phase = "running"
  /\ s \in Open \ ended
  /\ uplink[s] # <<>> /\ Head(uplink[s]) = t
  /\ uplink' = [uplink EXCEPT ![s] = Tail(@)]
  /\ \/ UNCHANGED downlink
     \/ /\ Len(downlink[s]) < MaxQueue
        /\ downlink' = [downlink EXCEPT ![s] = Append(@, t)]
  /\ waiting' = IF source[s] = PeerOf(t) THEN waiting \ {t} ELSE waiting
  /\ UNCHANGED <<phase, udpVars, peerVars, accepting, rx, ended>>

\* knotd ends the connection of a session, unread messages are lost
Close(s) ==
  /\ phase = "running"
  /\ s \in Open \ ended
  /\ ended' = ended \cup {s}
  /\ uplink' = [uplink EXCEPT ![s] = <<>>]
  /\ UNCHANGED <<phase, udpVars, peerVars, accepting, rx, downlink, waiting>>

\* knotd stops
KnotdStops ==
  /\ phase = "running" /\ accepting
  /\ accepting' = FALSE
  /\ ended' = Open
  /\ uplink' = [s \in Sock |-> <<>>]
  /\ UNCHANGED <<phase, udpVars, peerVars, rx, downlink, waiting>>

KnotdStarts ==
  /\ phase = "running" /\ ~accepting
  /\ accepting' = TRUE
  /\ UNCHANGED <<phase, udpVars, peerVars, rx, sockVars, waiting>>

Next ==
  \/ StartFails \/ manager_start \/ manager_stop
  \/ read_inet4_cb \/ read_inet6_cb
  \/ downlink4_cb \/ downlink6_cb
  \/ \E t \in Thing : Speak(t) \/ Send(t) \/ \E s \in Sock : Hear(s, t)
  \/ \E s \in Sock : Close(s)
  \/ KnotdStops \/ KnotdStarts

(***************************************************************************)
(* The main loop serves a hang-up, and knotd is started again.  Of what a  *)
(* thing sends for ever not all is sent, and not all is read, just while   *)
(* its connection is gone; of what reaches knotd for ever some is read.    *)
(***************************************************************************)
Fairness ==
  /\ \A s \in Sock : /\ WF_vars(DownlinkHungUp(4, s) \/ DownlinkHungUp(6, s))
                     /\ WF_vars(\E t \in Thing : Hear(s, t))
  /\ WF_vars(KnotdStarts)
  /\ \A t \in Patient : /\ SF_vars(Send(t) /\ Reachable(t))
                        /\ SF_vars(Forward(t[1], t))
                        /\ SF_vars(\E s \in Sock : Hear(s, t))

Spec == Init /\ [][Next]_vars /\ Fairness

-----------------------------------------------------------------------------
(* Properties.                                                             *)

\* While the bridge runs the tables and the sources are inverse to each other:
\* every open socket is the one socket of the peer its callback looks up, in the
\* order of hang-ups, datagrams and reuses of a descriptor that may come
\* (downlink4_destroy, read_inet4_cb).
TablesExact ==
  phase = "running" =>
    /\ \A s \in Open : hash[source[s]] = s
    /\ \A p \in Peer : hash[p] # NULL => source[hash[p]] = p

\* A message is on the socket of the host that sent it, and the reply to it goes
\* back to that host; only a socket to knotd that got the number of a datagram
\* socket that was closed may carry replies of other hosts, and no reply leaves by a
\* socket to knotd with another number (downlink4_cb, watch->cli_sock).
RepliesStayHome ==
  phase = "running" =>
    \A s \in Open :
      /\ Through(s) \notin Open \ dead
      /\ s \notin dead => \A t \in ToSet(uplink[s]) \cup ToSet(downlink[s]) :
                           PeerOf(Destination(s)) = PeerOf(t)

\* A thing that keeps sending is heard, over however many restarts of knotd and
\* ends of its connection, unless the bridge has stopped listening, as long as
\* descriptors do not run out (the instance has one for every peer).
ThingHeard ==
  \A t \in Patient :
    t \in waiting ~> (t \notin waiting \/ t[1] \notin Listening)

=============================================================================
