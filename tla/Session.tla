------------------------------ MODULE Session ------------------------------
(***************************************************************************)
(* src/session.c: the session of a connected thing.  A session has two     *)
(* event sources, the node channel (the thing) and the proto channel (the  *)
(* cloud), each holding a reference to it, and is in session_list while    *)
(* its node channel exists.  The proto channel is dropped when the cloud   *)
(* hangs up and made again for the next message of the thing.              *)
(*                                                                         *)
(* Of ell the model assumes what the comments of session.c say: a hang-up  *)
(* runs the disconnect handler of the channel and then its destroy         *)
(* callback; l_io_destroy runs the destroy callback only.                  *)
(***************************************************************************)
EXTENDS Integers

CONSTANTS
  Session,    \* addresses of struct session
  NULL,
  Gone,       \* a node channel that hung up and left its destroy timeout behind
  Driver,     \* "ws": proto_ops->close gives the connection up; "http": it does nothing
  DataErrors, \* may a thing make its read handler fail?
  CloudFails, \* may the cloud hang up, or refuse a connection?
  Stops       \* may the daemon be stopped?

ASSUME SessionAssumption ==
  /\ NULL \notin Session /\ Gone \notin Session /\ Gone # NULL
  /\ Driver \in {"ws", "http"}
  /\ {DataErrors, CloudFails, Stops} \subseteq BOOLEAN

VARIABLES
  refs,          \* session->refs; 0 when the address is free
  node_channel,  \* is session->node_channel set?
  proto_channel, \* is session->proto_channel set?
  nodeIo,        \* does the l_io of the node channel exist?
  protoIo,       \* the l_io of the proto channel
  listening,     \* does the node channel still have its read handler?
  session_list,
  timer,         \* whose node channel the destroy timeout is for
  destroying,    \* static bool of on_node_channel_data_error
  running

vars == <<refs, node_channel, proto_channel, nodeIo, protoIo, listening,
          session_list, timer, destroying, running>>

TypeOK ==
  /\ refs \in [Session -> Nat]
  /\ node_channel \in [Session -> BOOLEAN]
  /\ proto_channel \in [Session -> BOOLEAN]
  /\ nodeIo \in [Session -> BOOLEAN]
  /\ protoIo \in [Session -> {"none", "up", "closed"}]
  /\ listening \in [Session -> BOOLEAN]
  /\ session_list \subseteq Session
  /\ timer \in Session \cup {NULL, Gone}
  /\ destroying \in BOOLEAN
  /\ running \in BOOLEAN

Init ==
  /\ refs = [x \in Session |-> 0]
  /\ node_channel = [x \in Session |-> FALSE]
  /\ proto_channel = [x \in Session |-> FALSE]
  /\ nodeIo = [x \in Session |-> FALSE]
  /\ protoIo = [x \in Session |-> "none"]
  /\ listening = [x \in Session |-> FALSE]
  /\ session_list = {}
  /\ timer = NULL
  /\ destroying = FALSE
  /\ running = TRUE

-----------------------------------------------------------------------------

\* session_unref, the memory being free at 0
Unref(x) == [refs EXCEPT ![x] = @ - 1]

\* connect_proto -> create_proto_channel, for a session whose counter is n
ConnectProto(x, n) ==
  /\ proto_channel' = [proto_channel EXCEPT ![x] = TRUE]
  /\ protoIo' = [protoIo EXCEPT ![x] = "up"]
  /\ refs' = [refs EXCEPT ![x] = n + 1]

\* session_create for an accepted thing.  When the cloud refuses the connection
\* the new session is freed again and the socket closed: no change.
SessionCreate(x) ==
  /\ running
  /\ refs[x] = 0
  /\ ConnectProto(x, 1)
  /\ node_channel' = [node_channel EXCEPT ![x] = TRUE]
  /\ nodeIo' = [nodeIo EXCEPT ![x] = TRUE]
  /\ listening' = [listening EXCEPT ![x] = TRUE]
  /\ session_list' = session_list \cup {x}
  /\ UNCHANGED <<timer, destroying, running>>

\* on_node_channel_data, for a message that is processed: the cloud connection is
\* made again if it was lost
NodeData(x) ==
  /\ running
  /\ nodeIo[x] /\ listening[x]
  /\ ~proto_channel[x]
  /\ ConnectProto(x, refs[x])
  /\ UNCHANGED <<node_channel, nodeIo, listening, session_list, timer,
                 destroying, running>>

\* on_node_channel_data returning false, through on_node_channel_data_error: recv
\* failed, the cloud cannot be reached again, or msg_process rejected the PDU
\* (after the connection to the cloud was made again if need be)
NodeDataError(x) ==
  /\ running
  /\ nodeIo[x] /\ listening[x]
  /\ \/ DataErrors /\ UNCHANGED <<refs, proto_channel, protoIo>>
     \/ CloudFails /\ ~proto_channel[x] /\ UNCHANGED <<refs, proto_channel, protoIo>>
     \/ DataErrors /\ ~proto_channel[x] /\ ConnectProto(x, refs[x])
  /\ listening' = [listening EXCEPT ![x] = FALSE]
  /\ timer' = IF destroying THEN timer ELSE x
  /\ destroying' = TRUE
  /\ UNCHANGED <<node_channel, nodeIo, session_list, running>>

\* Mutant: the reference is not dropped.
NodeDestroyed_NoUnref(x) ==
  /\ nodeIo' = [nodeIo EXCEPT ![x] = FALSE]
  /\ listening' = [listening EXCEPT ![x] = FALSE]
  /\ session_list' = session_list \ {x}
  /\ refs' = refs

\* Mutant: the session stays in the list.
NodeDestroyed_Listed(x) ==
  /\ nodeIo' = [nodeIo EXCEPT ![x] = FALSE]
  /\ listening' = [listening EXCEPT ![x] = FALSE]
  /\ session_list' = session_list
  /\ refs' = Unref(x)

\* on_node_channel_destroyed: for a hang-up as for l_io_destroy
NodeDestroyed(x) ==
  /\ nodeIo' = [nodeIo EXCEPT ![x] = FALSE]
  /\ listening' = [listening EXCEPT ![x] = FALSE]
  /\ session_list' = session_list \ {x}
  /\ refs' = Unref(x)

\* on_node_channel_destroy_timeout: the channel is destroyed on this side.  Of one that
\* hung up before ell has run the callbacks, and l_io_destroy only frees it.
DestroyTimeout ==
  /\ running
  /\ \/ timer \in Session /\ NodeDestroyed(timer)
     \/ timer = Gone /\ UNCHANGED <<nodeIo, listening, session_list, refs>>
  /\ timer' = NULL
  /\ UNCHANGED <<node_channel, proto_channel, protoIo, destroying, running>>

\* disconnect_proto: "Channel cleanup will be held at disconnect callback"
DisconnectProto(x) ==
  protoIo' = IF proto_channel[x] /\ Driver = "ws"
             THEN [protoIo EXCEPT ![x] = "closed"] ELSE protoIo

\* The thing hangs up: on_node_channel_disconnected, then the destroy callback.
\* A destroy timeout that is pending for this channel stays armed.
NodeHangUp(x) ==
  /\ running
  /\ nodeIo[x]
  /\ DisconnectProto(x)
  /\ node_channel' = [node_channel EXCEPT ![x] = FALSE]
  /\ NodeDestroyed(x)
  /\ timer' = IF timer = x THEN Gone ELSE timer
  /\ UNCHANGED <<proto_channel, destroying, running>>

\* The hang-up of the proto channel: on_proto_channel_disconnected leaves the thing
\* connected, on_proto_channel_destroyed drops the reference.
ProtoHungUp(x) ==
  /\ running
  /\ proto_channel' = [proto_channel EXCEPT ![x] = FALSE]
  /\ protoIo' = [protoIo EXCEPT ![x] = "none"]
  /\ refs' = Unref(x)
  /\ UNCHANGED <<node_channel, nodeIo, listening, session_list, timer,
                 destroying, running>>

\* ... because the cloud hung up, or because it ends a connection that ws_close gave
\* up and that gets no more pings.
CloudHangUp(x) == CloudFails /\ protoIo[x] = "up" /\ ProtoHungUp(x)
ProtoClosed(x) == protoIo[x] = "closed" /\ ProtoHungUp(x)

\* session_destroy_all, from manager_stop: the main loop has ended
SessionDestroyAll ==
  /\ running
  /\ Stops
  /\ running' = FALSE
  /\ nodeIo' = [x \in Session |-> nodeIo[x] /\ x \notin session_list]
  /\ listening' = [x \in Session |-> listening[x] /\ x \notin session_list]
  /\ refs' = [x \in Session |-> IF x \in session_list THEN refs[x] - 1 ELSE refs[x]]
  /\ session_list' = {}
  /\ UNCHANGED <<node_channel, proto_channel, protoIo, timer, destroying>>

-----------------------------------------------------------------------------

Next ==
  \/ \E x \in Session : \/ SessionCreate(x)
                        \/ NodeData(x)
                        \/ NodeDataError(x)
                        \/ NodeHangUp(x)
                        \/ CloudHangUp(x)
                        \/ ProtoClosed(x)
  \/ DestroyTimeout
  \/ SessionDestroyAll

Spec == Init /\ [][Next]_vars

-----------------------------------------------------------------------------
(* Properties.                                                             *)

B(b) == IF b THEN 1 ELSE 0

\* A session is freed exactly when its last event source is gone, in whatever
\* order thing and cloud hang up and however often the cloud is connected again.
RefsExact ==
  \A x \in Session : refs[x] = B(nodeIo[x]) + B(protoIo[x] # "none")

\* session_destroy_all destroys the node channel of every session in the list: the
\* sessions in it exist and their channel has not been destroyed before.  The
\* proto channel a message is handed to on_data with exists.
PointersLive ==
  /\ \A x \in session_list : nodeIo[x] /\ node_channel[x]
  /\ \A x \in Session : nodeIo[x] => x \in session_list
  /\ \A x \in Session : proto_channel[x] <=> protoIo[x] # "none"

=============================================================================
