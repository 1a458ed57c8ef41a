------------------------------- MODULE Trust -------------------------------
(***************************************************************************)
(* The life cycle of the credentials kept by src/msg.c: struct trust, the  *)
(* trust_map that maps the socket of a connected thing to its trust, and   *)
(* the three holders of a reference to a trust: the map entry, the l_io    *)
(* that waits for the thing to hang up (node channel), and the watch on    *)
(* the device in the cloud.                                                *)
(*                                                                         *)
(* A thing registers, authenticates, sends its schema, unregisters and     *)
(* hangs up; the cloud answers or fails each request.  The daemon is       *)
(* single threaded: one handler is one step.  What can interleave is       *)
(* which thing's event is served next, the order of the hang-up handlers   *)
(* of one socket, and the driver dropping a watch.                         *)
(*                                                                         *)
(* The driver is the contract src/msg.c expects of struct proto_ops, as    *)
(* proto-http.c keeps it: a request that returns 0 took effect, one that   *)
(* fails may or may not have, and every watch has a record of its own.     *)
(***************************************************************************)
EXTENDS Integers

CONSTANTS
  Socket,     \* descriptors of accepted things
  TrustId,    \* addresses of struct trust
  DeviceId,   \* the 64-bit ids things register with
  PeerPid,    \* what SO_PEERCRED reports: 0 for a TCP peer
  INT32_MAX,  \* the pid remembered for a peer without one
  Uuid,       \* device names the cloud can give out
  Foreign,    \* devices the cloud knew, with a schema, before this daemon ran
  NULL,       \* the null pointer
  Env         \* behaviours of the environment included: see EnvKinds

(***************************************************************************)
(* "switch": a thing registers under another id on a connection that has   *)
(* a trust already.  "data_error": a thing sends a PDU that msg_process    *)
(* rejects.  "stop": the daemon is stopped while things are connected.     *)
(***************************************************************************)
EnvKinds == {"switch", "data_error", "stop"}

ASSUME TrustAssumption ==
  /\ Socket # {}
  /\ Uuid # {}
  /\ DeviceId \subseteq Nat
  /\ INT32_MAX \in Nat
  /\ PeerPid \subseteq 0 .. (INT32_MAX - 1)
  /\ Foreign \subseteq Uuid
  /\ NULL \notin TrustId \cup Uuid \cup Socket
  /\ Env \subseteq EnvKinds

VARIABLES
  conn,       \* state of the connection behind each socket number
  peer,       \* pid of the peer of each connection
  refs,       \* trust->refs; 0 when the address is free
  info,       \* the fields of the trust, and the socket of its node channel
  chan,       \* its node channel
  watch,      \* is its proto_watch alive?
  trust_map,  \* socket -> trust
  hungup,     \* node channels whose hang-up the main loop has not served yet
  cloud,      \* state of each device in the cloud
  schemaful,  \* devices whose record in the cloud has a schema
  complete,   \* devices whose thing was seen using its credentials
  failed,     \* devices left behind because a cloud request failed
  given,      \* the last register answer on each connection
  running     \* between msg_start and msg_stop

vars == <<conn, peer, refs, info, chan, watch, trust_map, hungup,
          cloud, schemaful, complete, failed, given, running>>

cloudVars == <<cloud, schemaful, complete, failed>>
trustVars == <<refs, info, chan, watch, trust_map>>

ConnState == {"free", "open", "deaf", "hungup"}
ChanState == {"none", "live", "stale"}

Info == [id : Nat, pid : Nat, rollback : BOOLEAN, uuid : Uuid, node : Socket]
Answer == [id : DeviceId, uuid : Uuid]

TypeOK ==
  /\ conn \in [Socket -> ConnState]
  /\ peer \in [Socket -> PeerPid]
  /\ refs \in [TrustId -> Int]
  /\ info \in [TrustId -> Info]
  /\ chan \in [TrustId -> ChanState]
  /\ watch \in [TrustId -> BOOLEAN]
  /\ trust_map \in [Socket -> TrustId \cup {NULL}]
  /\ hungup \subseteq TrustId
  /\ cloud \in [Uuid -> {"unused", "present", "removed"}]
  /\ schemaful \subseteq Uuid
  /\ complete \subseteq Uuid
  /\ failed \subseteq Uuid
  /\ given \in [Socket -> Answer \cup {NULL}]
  /\ running \in BOOLEAN

\* the fields of an address never used: no handler reads them
Blank == [id |-> 0, pid |-> 0, rollback |-> FALSE,
          uuid |-> CHOOSE u \in Uuid : TRUE,
          node |-> CHOOSE s \in Socket : TRUE]

Init ==
  /\ conn = [s \in Socket |-> "free"]
  /\ peer \in [Socket -> PeerPid]
  /\ refs = [t \in TrustId |-> 0]
  /\ info = [t \in TrustId |-> Blank]
  /\ chan = [t \in TrustId |-> "none"]
  /\ watch = [t \in TrustId |-> FALSE]
  /\ trust_map = [s \in Socket |-> NULL]
  /\ hungup = {}
  /\ cloud = [u \in Uuid |-> IF u \in Foreign THEN "present" ELSE "unused"]
  /\ schemaful = Foreign
  /\ complete = {}
  /\ failed = {}
  /\ given = [s \in Socket |-> NULL]
  /\ running = TRUE

-----------------------------------------------------------------------------
(* References.                                                             *)

\* trust_unref: the references r with one fewer on trust t
Unref(r, t) == [r EXCEPT ![t] = @ - 1]

\* trust_map_remove: the references r once the entry of socket s, if any, is
\* dropped from the map
RemoveEntry(r, s) ==
  IF trust_map[s] = NULL THEN r ELSE Unref(r, trust_map[s])

\* Mutant: create_device_watch forgets trust_ref.
CreateRefs_NoWatchRef(r, t) == [r EXCEPT ![t] = 2]

\* trust_new, then trust_ref by create_node_channel and create_device_watch
CreateRefs(r, t) == [r EXCEPT ![t] = 3]

\* trust_create, with trust_map_replace in it: t is a free address
trust_create(s, t, u, id, pid, rollback) ==
  /\ refs[t] = 0
  /\ refs' = CreateRefs(RemoveEntry(refs, s), t)
  /\ info' = [info EXCEPT ![t] = [id |-> id, pid |-> pid,
                                  rollback |-> rollback,
                                  uuid |-> u, node |-> s]]
  /\ chan' = [chan EXCEPT ![t] = "live"]
  /\ watch' = [watch EXCEPT ![t] = TRUE]
  /\ trust_map' = [trust_map EXCEPT ![s] = t]

-----------------------------------------------------------------------------
(* Connections.  Accepting a thing is session.c's; what msg.c sees of it   *)
(* is a socket number and the credentials of the peer.                     *)

Accept(s) ==
  /\ running
  /\ conn[s] = "free"
  /\ \E p \in PeerPid : peer' = [peer EXCEPT ![s] = p]
  /\ conn' = [conn EXCEPT ![s] = "open"]
  /\ given' = [given EXCEPT ![s] = NULL]
  /\ UNCHANGED <<refs, info, chan, watch, trust_map, hungup, cloudVars, running>>

\* A PDU msg_process answers with -EINVAL: session.c stops reading the socket.
DataError(s) ==
  /\ running
  /\ "data_error" \in Env
  /\ conn[s] = "open"
  /\ conn' = [conn EXCEPT ![s] = "deaf"]
  /\ UNCHANGED <<peer, trustVars, hungup, cloudVars, given, running>>

\* One second later session.c destroys its own channel of the socket, which
\* closes the descriptor.  The node channels of msg.c are not told.
DestroyChannel(s) ==
  /\ running
  /\ conn[s] = "deaf"
  /\ conn' = [conn EXCEPT ![s] = "free"]
  /\ chan' = [t \in TrustId |-> IF chan[t] = "live" /\ info[t].node = s
                                THEN "stale" ELSE chan[t]]
  /\ UNCHANGED <<peer, refs, info, watch, trust_map, hungup, cloudVars,
                 given, running>>

\* Mutant: create_node_channel sets no disconnect handler.
HangUp_NoHandler(s) ==
  /\ running
  /\ conn[s] \in {"open", "deaf"}
  /\ conn' = [conn EXCEPT ![s] = "hungup"]
  /\ UNCHANGED <<peer, trustVars, hungup, cloudVars, given, running>>

\* The thing disconnects: the handler of every node channel of the socket is due.
HangUp(s) ==
  /\ running
  /\ conn[s] \in {"open", "deaf"}
  /\ conn' = [conn EXCEPT ![s] = "hungup"]
  /\ hungup' = hungup \cup
                 {t \in TrustId : chan[t] = "live" /\ info[t].node = s}
  /\ UNCHANGED <<peer, trustVars, cloudVars, given, running>>

\* The number is free for another connection once every handler has run.
Closed(s) ==
  /\ running
  /\ conn[s] = "hungup"
  /\ \A t \in hungup : info[t].node # s
  /\ conn' = [conn EXCEPT ![s] = "free"]
  /\ UNCHANGED <<peer, trustVars, hungup, cloudVars, given, running>>

-----------------------------------------------------------------------------
(* Requests of a thing.                                                    *)

\* Is the request a retransmission of the one the trust was made for?
Retransmission(s, id) ==
  /\ trust_map[s] # NULL
  /\ info[trust_map[s]].id = id
  /\ info[trust_map[s]].pid = peer[s]

\* Mutant: the pid of the peer is never remembered.
StoredPid_Never(s) == INT32_MAX

\* the pid a registered trust remembers: cred.pid ? : INT32_MAX
StoredPid(s) == IF peer[s] = 0 THEN INT32_MAX ELSE peer[s]

RegisterGuard(s, id) ==
  /\ running
  /\ conn[s] = "open"
  /\ trust_map[s] # NULL /\ "switch" \notin Env => info[trust_map[s]].id = id

\* msg_register of a device already added: the same uuid and token again
RegisterAgain(s, id) ==
  /\ RegisterGuard(s, id)
  /\ Retransmission(s, id)
  /\ given' = [given EXCEPT ![s] = [id |-> id,
                                    uuid |-> info[trust_map[s]].uuid]]
  /\ UNCHANGED <<conn, peer, trustVars, hungup, cloudVars, running>>

\* msg_register when proto_mknode fails, having created the device or not, or
\* creates it and proto_signin fails: nothing on this side remembers it
RegisterFails(s, id) ==
  /\ RegisterGuard(s, id)
  /\ ~Retransmission(s, id)
  /\ \E u \in Uuid :
       /\ cloud[u] = "unused"
       /\ cloud' = [cloud EXCEPT ![u] = "present"]
       /\ failed' = failed \cup {u}
  /\ UNCHANGED <<conn, peer, trustVars, hungup, schemaful, complete, given,
                 running>>

\* msg_register of a new device
Register(s, id) ==
  /\ RegisterGuard(s, id)
  /\ ~Retransmission(s, id)
  /\ \E t \in TrustId, u \in Uuid :
       /\ cloud[u] = "unused"
       /\ cloud' = [cloud EXCEPT ![u] = "present"]
       /\ trust_create(s, t, u, id, StoredPid(s), TRUE)
       /\ given' = [given EXCEPT ![s] = [id |-> id, uuid |-> u]]
  /\ UNCHANGED <<conn, peer, hungup, schemaful, complete, failed, running>>

\* parse_device_schema of the record signin returns: is there a schema?
HasSchema(u) == u \in schemaful

\* Mutant: an authenticated trust is given the pid -1.
Authenticate_NegativePid(s, u) ==
  /\ running
  /\ conn[s] = "open"
  /\ trust_map[s] = NULL
  /\ cloud[u] = "present"
  /\ HasSchema(u)
  /\ \E t \in TrustId : trust_create(s, t, u, 0, -1, FALSE)
  /\ UNCHANGED <<conn, peer, hungup, cloudVars, given, running>>

\* msg_auth: refused by the cloud, or answered KNOT_SCHEMA_EMPTY, it changes
\* nothing, and neither does it when the socket has a trust
Authenticate(s, u) ==
  /\ running
  /\ conn[s] = "open"
  /\ trust_map[s] = NULL
  /\ cloud[u] = "present"
  /\ HasSchema(u)
  /\ \E t \in TrustId : trust_create(s, t, u, 0, 0, FALSE)
  /\ UNCHANGED <<conn, peer, hungup, cloudVars, given, running>>

\* msg_schema: the registration is complete.  KNOT_MSG_SCHEMA_END (eof) also
\* uploads schema_tmp, which no code allocates: the schema in the cloud becomes
\* the empty list, whether the answer reports success or not
Schema(s, eof) ==
  /\ running
  /\ conn[s] = "open"
  /\ trust_map[s] # NULL
  /\ LET t == trust_map[s] IN
       /\ info' = [info EXCEPT ![t].rollback = FALSE]
       /\ complete' = complete \cup {info[t].uuid}
       /\ \/ schemaful' = schemaful
          \/ eof /\ schemaful' = schemaful \ {info[t].uuid}
  /\ UNCHANGED <<conn, peer, refs, chan, watch, trust_map, hungup, cloud,
                 failed, given, running>>

\* msg_unregister, when proto_rmnode succeeds
Unregister(s) ==
  /\ running
  /\ conn[s] = "open"
  /\ trust_map[s] # NULL
  /\ cloud[info[trust_map[s]].uuid] = "present"
  /\ cloud' = [cloud EXCEPT ![info[trust_map[s]].uuid] = "removed"]
  /\ refs' = RemoveEntry(refs, s)
  /\ trust_map' = [trust_map EXCEPT ![s] = NULL]
  /\ given' = [given EXCEPT ![s] = NULL]
  /\ UNCHANGED <<conn, peer, info, chan, watch, hungup, schemaful, complete,
                 failed, running>>

\* Mutant: the trust is dropped although the device is still there.
UnregisterFails_Drops(s) ==
  /\ running
  /\ conn[s] = "open"
  /\ trust_map[s] # NULL
  /\ refs' = RemoveEntry(refs, s)
  /\ trust_map' = [trust_map EXCEPT ![s] = NULL]
  /\ UNCHANGED <<conn, peer, info, chan, watch, hungup, cloudVars, given,
                 running>>

\* msg_unregister, when proto_rmnode fails after the cloud removed the device:
\* the trust stays (a failure without effect changes nothing)
UnregisterFails(s) ==
  /\ running
  /\ conn[s] = "open"
  /\ trust_map[s] # NULL
  /\ cloud[info[trust_map[s]].uuid] = "present"
  /\ cloud' = [cloud EXCEPT ![info[trust_map[s]].uuid] = "removed"]
  /\ UNCHANGED <<conn, peer, trustVars, hungup, schemaful, complete, failed,
                 given, running>>

-----------------------------------------------------------------------------
(* Events of the main loop.                                                *)

\* on_device_watch_destroyed: the driver drops the watch of t because the
\* connection to the cloud it was made on is gone
WatchDestroyed(t) ==
  /\ running
  /\ watch[t]
  /\ watch' = [watch EXCEPT ![t] = FALSE]
  /\ refs' = Unref(refs, t)
  /\ UNCHANGED <<conn, peer, info, chan, trust_map, hungup, cloudVars, given,
                 running>>

\* The map entry, the watch and the references r once on_node_channel_disconnected
\* has run for the socket s; m is the trust it finds in the map
DisconnectRefs(r, m) ==
  IF m = NULL THEN r
  ELSE IF watch[m] THEN Unref(Unref(r, m), m) ELSE Unref(r, m)

\* Mutant: nothing is rolled back.
Rollback_Skipped(m) == UNCHANGED <<cloud, failed>>

\* Zombie device: registration not complete.  The request may succeed, or fail
\* with or without the device being removed.
Rollback(m) ==
  IF m # NULL /\ info[m].rollback /\ cloud[info[m].uuid] = "present"
  THEN LET u == info[m].uuid IN
         \/ cloud' = [cloud EXCEPT ![u] = "removed"] /\ failed' = failed
         \/ cloud' = cloud /\ failed' = failed \cup {u}
  ELSE UNCHANGED <<cloud, failed>>

\* on_node_channel_disconnected then on_node_channel_destroyed, for the node
\* channel of t.  The trust is looked up by socket: it need not be t.
NodeDisconnected(t) ==
  /\ running
  /\ t \in hungup
  /\ LET s == info[t].node
         m == trust_map[s]
     IN /\ Rollback(m)
        /\ trust_map' = [trust_map EXCEPT ![s] = NULL]
        /\ watch' = [x \in TrustId |-> watch[x] /\ x # m]
        /\ refs' = Unref(DisconnectRefs(refs, m), t)
  /\ chan' = [chan EXCEPT ![t] = "none"]
  /\ hungup' = hungup \ {t}
  /\ UNCHANGED <<conn, peer, info, schemaful, complete, given, running>>

\* msg_stop: every entry of the map is dropped and the main loop ends
msg_stop ==
  /\ running
  /\ "stop" \in Env
  /\ running' = FALSE
  /\ refs' = [t \in TrustId |->
                IF \E s \in Socket : trust_map[s] = t THEN refs[t] - 1
                                                      ELSE refs[t]]
  /\ trust_map' = [s \in Socket |-> NULL]
  /\ UNCHANGED <<conn, peer, info, chan, watch, hungup, cloudVars, given>>

-----------------------------------------------------------------------------

ThingRequest(s) ==
  \/ \E id \in DeviceId : RegisterAgain(s, id) \/ RegisterFails(s, id)
                          \/ Register(s, id)
  \/ \E u \in Uuid : Authenticate(s, u)
  \/ \E eof \in BOOLEAN : Schema(s, eof)
  \/ Unregister(s)
  \/ UnregisterFails(s)

Connection(s) ==
  Accept(s) \/ DataError(s) \/ DestroyChannel(s) \/ HangUp(s) \/ Closed(s)

Next ==
  \/ \E s \in Socket : Connection(s) \/ ThingRequest(s)
  \/ \E t \in TrustId : WatchDestroyed(t) \/ NodeDisconnected(t)
  \/ msg_stop

\* The main loop serves a hang-up that epoll reported: it is level triggered
\* and no handler blocks for ever.
Fairness ==
  /\ \A t \in TrustId : WF_vars(NodeDisconnected(t))
  /\ \A s \in Socket : WF_vars(Closed(s))

Spec == Init /\ [][Next]_vars /\ Fairness

-----------------------------------------------------------------------------
(* Properties.                                                             *)

B(b) == IF b THEN 1 ELSE 0

Mapped(t) == \E s \in Socket : trust_map[s] = t

\* The counter of a trust is exactly the number of its holders (map entry, node
\* channel, watch), whatever the order in which trust_map_remove, async_stop and
\* the destroy callbacks run: trust_unref never frees a trust somebody still
\* points to, and never forgets to free one.
RefsExact ==
  \A t \in TrustId :
    refs[t] = B(Mapped(t)) + B(chan[t] # "none") + B(watch[t])

\* What RefsExact needs to be inductive.  A mapped trust knows the socket it is
\* mapped at, so two sockets never share one; its node channel, and that of
\* every hang-up to be served, exists.
MapStructure ==
  /\ \A s \in Socket : trust_map[s] # NULL =>
       /\ info[trust_map[s]].node = s
       /\ chan[trust_map[s]] # "none"
  /\ \A t \in hungup : chan[t] # "none"

\* on_node_channel_disconnected goes on using the trust after msg_unregister has
\* dropped it from the map: some other holder keeps every mapped trust alive.
MapEntryIsKept ==
  \A s \in Socket : trust_map[s] # NULL => refs[trust_map[s]] >= 2

\* "Maps sockets to sessions: online devices only": the trust found for a socket
\* was made on the connection that is behind the socket now.
OnlineOnly ==
  \A s \in Socket :
    trust_map[s] # NULL => conn[s] # "free" /\ chan[trust_map[s]] = "live"

\* "Remove from cloud if true": a device registered here whose thing was never
\* seen using its credentials is in the cloud only as long as the connection
\* that can still complete or roll back the registration, unless a request to
\* the cloud failed.
NoZombies ==
  \A u \in Uuid \ (Foreign \cup complete \cup failed) :
    cloud[u] = "present" =>
      \E s \in Socket : /\ trust_map[s] # NULL
                        /\ info[trust_map[s]].uuid = u
                        /\ info[trust_map[s]].rollback

\* The only watch that receives updates of a device the cloud has is the one of
\* the trust mapped at its socket: on_device_changed hands the update to the
\* trust it finds there.
WatchFeedsOwner ==
  \A t \in TrustId :
    watch[t] /\ cloud[info[t].uuid] = "present" =>
      trust_map[info[t].node] = t

\* "If this device was previously added we just send the uuid/token again": two
\* register answers in a row on one connection for one id are the same, if the
\* peer has a pid (the one stored for a TCP peer never equals the one it has).
SameCredentials ==
  [][\A s \in Socket :
       /\ peer[s] # 0
       /\ given[s] # NULL
       /\ given'[s] # NULL
       /\ given'[s].id = given[s].id
       => given'[s].uuid = given[s].uuid]_vars

\* The credentials of a thing that hung up are revoked.
CredentialsRevoked ==
  \A s \in Socket :
    (conn[s] = "hungup" /\ trust_map[s] # NULL) ~> (trust_map[s] = NULL)

\* The device whose credentials the thing behind a socket has
Owner == [s \in Socket |->
            IF trust_map[s] = NULL THEN NULL ELSE info[trust_map[s]].uuid]

\* Sockets whose thing hangs up at the cost of its device
Pending == {s \in Socket : trust_map[s] # NULL /\ info[trust_map[s]].rollback}

C == INSTANCE Credentials WITH
       line <- [s \in Socket |-> IF conn[s] = "deaf" THEN "open" ELSE conn[s]],
       owner <- Owner,
       pending <- Pending

\* "Maps sockets to sessions: online devices only": all that counters, channels,
\* watches and their callbacks do is give a connection the credentials of one
\* device, when it registers or logs in, and revoke them when it unregisters or
\* hangs up; no other step, of this or another thing, changes whose credentials a
\* connection has.
ImplementsCredentials == C!Spec
=============================================================================
