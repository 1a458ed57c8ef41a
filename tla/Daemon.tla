------------------------------ MODULE Daemon -------------------------------
(***************************************************************************)
(* The daemon as main.c and manager.c run it: start of the parts in order, *)
(* with the cloud driver proto.c selects and the access technologies       *)
(* node.c can open, the main loop, and the stop.  In the main loop a thing *)
(* is accepted and gets a connection to the cloud, msg.c watches its       *)
(* device there, the thing goes, and the cloud ends connections, in any    *)
(* order: msg.c may watch a second device on a connection (when a thing    *)
(* registers or authenticates again), and the connection of a thing that   *)
(* goes may be closed before its watch is stopped (msg.c and session.c     *)
(* each have an l_io of their own on the thing's descriptor).              *)
(***************************************************************************)
EXTENDS ProtoHttp, WsWatch

CONSTANT NodeDriver  \* the access technologies of node.c

Driver == {"http", "ws"}

ASSUME DaemonAssumption ==
  /\ MaxTimeouts \in Nat
  /\ Wide \in BOOLEAN
  /\ NULL \notin Watch \cup Conn \cup Driver
  /\ Conn \cap Watch = {}

VARIABLES
  phase,    \* of main: "init", "running" or "exited"
  proto,    \* the selected driver (proto.c), NULL if there is none
  servers,  \* access technologies with an accept channel
  used,     \* sockets to the cloud made so far
  inuse,    \* sockets that are the proto channel of a session
  held      \* watches msg.c has not stopped

mainVars == <<phase, proto, servers>>
vars == <<ioVars, httpVars, wsVars, mainVars, used, inuse, held>>

TypeOK ==
  /\ life \in [Watch -> Life]
  /\ of \in [Watch -> Conn \cup {NULL}]
  /\ pio \subseteq Watch
  /\ wid \in [Watch -> Watch \cup {NULL}]
  /\ up \subseteq Conn
  /\ last \in {"quiet", "async", "stop", "told"} \X (Watch \cup {NULL})
  /\ mishap \subseteq Mishap
  /\ timeouts \in [TimeoutId -> Watch \cup {NULL}]
  /\ armed \subseteq TimeoutId
  /\ tid \in [Watch -> TimeoutId \cup {NULL}]
  /\ next_timeout_id \in 1 .. MaxTimeouts + 1
  /\ wstable \subseteq Conn
  /\ slot \in [Conn -> Watch \cup {NULL}]
  /\ phase \in {"init", "running", "exited"}
  /\ proto \in Driver \cup {NULL}
  /\ servers \subseteq NodeDriver
  /\ used \subseteq Conn
  /\ inuse \subseteq used
  /\ held \subseteq Watch

Init ==
  /\ life = [w \in Watch |-> "off"]
  /\ of = [w \in Watch |-> NULL]
  /\ pio = {}
  /\ wid = [w \in Watch |-> NULL]
  /\ up = {}
  /\ last = Quiet
  /\ mishap = {}
  /\ HttpInit
  /\ WsInit
  /\ phase = "init"
  /\ proto = NULL
  /\ servers = {}
  /\ used = {}
  /\ inuse = {}
  /\ held = {}

-----------------------------------------------------------------------------
(* Start and stop.                                                         *)

\* node_start: technologies that cannot be probed or opened are skipped
node_start == servers' \in SUBSET NodeDriver

\* node_stop, with destroy_all_accept_channels
node_stop == servers' = {}

\* proto_start fails: the name in the settings is unknown, or the host is
ProtoStartFails ==
  /\ proto' \in {NULL, "http"}
  /\ phase' = "exited"
  /\ UNCHANGED servers

\* manager_start, and main when it fails
ManagerStartFails ==
  /\ phase = "init"
  /\ ProtoStartFails
  /\ UNCHANGED <<ioVars, httpVars, wsVars, used, inuse, held>>

\* manager_start up to proxy_start, whose result it returns: when that is an
\* error main exits without manager_stop
ManagerStart ==
  /\ phase = "init"
  /\ proto' \in Driver
  /\ node_start
  /\ phase' \in {"running", "exited"}
  /\ UNCHANGED <<ioVars, httpVars, wsVars, used, inuse, held>>

\* proto_stop
proto_stop ==
  /\ IF proto = "http" THEN http_remove ELSE ws_remove
  /\ proto' = NULL

\* main after the main loop has ended, or when it cannot detach: manager_stop
\* (sessions and trusts are stopped in Session and Trust)
ManagerStop ==
  /\ phase = "running"
  /\ phase' = "exited"
  /\ node_stop
  /\ proto_stop
  /\ last' = Quiet
  /\ UNCHANGED <<of, pio, wid, up, mishap, httpVars, wsVars, used, inuse, held>>

-----------------------------------------------------------------------------
(* The main loop: things and their sessions.                               *)

\* connect of the driver, when it succeeds
Connect(c) ==
  /\ c \notin used
  /\ used' = used \cup {c}
  /\ inuse' = inuse \cup {c}
  /\ \/ proto = "http" /\ http_connect(c) /\ UNCHANGED wsVars
     \/ proto = "ws" /\ ws_connect(c) /\ UNCHANGED slot
  /\ last' = Quiet
  /\ UNCHANGED <<life, of, pio, wid, mishap, httpVars, mainVars, held>>

\* on_accept, try_accept, on_accepted_cb: a thing whose session cannot be created
\* is closed again
Accept(d, c) == phase = "running" /\ d \in servers /\ Connect(c)

\* on_node_channel_data when the proto channel was lost: session.c connects again
Reconnect(c) == phase = "running" /\ used # {} /\ Connect(c)

\* on_proto_channel_disconnected of session.c
SessionHungUp(c) ==
  /\ phase = "running"
  /\ c \in inuse \ up
  /\ inuse' = inuse \ {c}
  /\ last' = Quiet
  /\ UNCHANGED <<life, of, pio, wid, up, mishap, httpVars, wsVars, mainVars, used, held>>

\* disconnect_proto of session.c: close of the driver (http_close does nothing)
Close(c) ==
  /\ phase = "running"
  /\ c \in inuse
  /\ inuse' = inuse \ {c}
  /\ IF proto = "ws" THEN ws_close(c) ELSE UNCHANGED <<wstable, mishap>>
  /\ last' = Quiet
  /\ UNCHANGED <<life, of, pio, wid, up, httpVars, slot, mainVars, used, held>>

-----------------------------------------------------------------------------
(* The main loop: watches.                                                 *)

\* create_device_watch of msg.c
Async(w, c) ==
  /\ phase = "running"
  /\ c \in inuse
  /\ life[w] = "off"
  /\ w \notin pio
  /\ held' = held \cup {w}
  /\ \/ proto = "http" /\ http_async(w, c) /\ UNCHANGED wsVars
     \/ proto = "ws" /\ ws_async(w, c) /\ UNCHANGED httpVars
  /\ UNCHANGED <<mainVars, used, inuse>>

\* remove_device_watch of msg.c, for the watch of a trust: async_stop of the driver
StopId(w) ==
  \/ proto = "http" /\ http_async_stop(w) /\ UNCHANGED wsVars
  \/ proto = "ws" /\ ws_async_stop(w) /\ UNCHANGED httpVars

\* l_io_destroy of an l_io that hung up before frees it, without a callback
StopHungUp ==
  /\ last' = Quiet
  /\ UNCHANGED <<life, of, pio, wid, up, mishap, httpVars, wsVars>>

AsyncStop(w) ==
  /\ phase = "running"
  /\ life[w] = "on"
  /\ w \in held
  /\ held' = held \ {w}
  /\ wid[w] # NULL
  /\ \/ wid[w] \in pio /\ StopId(wid[w])
     \/ wid[w] \notin pio /\ StopHungUp
  /\ UNCHANGED <<mainVars, used, inuse>>

\* the same with an id that lost bits, or is an error: l_io_destroy of an address
\* at which there is no l_io ends the daemon
AsyncStopLost(w) ==
  /\ phase = "running"
  /\ life[w] = "on"
  /\ w \in held
  /\ held' = held \ {w}
  /\ wid[w] = NULL
  /\ phase' = "exited"
  /\ last' = Quiet
  /\ mishap' = mishap \cup {"wide"}
  /\ UNCHANGED <<life, of, pio, wid, up, httpVars, wsVars, proto, servers, used, inuse>>

\* The main loop serves the hang-up of the l_io of w.
WatchHungUp(w) ==
  /\ phase = "running"
  /\ \/ proto = "http" /\ http_hung_up(w) /\ UNCHANGED wsVars
     \/ proto = "ws" /\ ws_hung_up(w) /\ UNCHANGED httpVars
  /\ UNCHANGED <<mainVars, used, inuse, held>>

Poll(i) ==
  /\ phase = "running"
  /\ proto = "http"
  /\ proto_poll(i)
  /\ UNCHANGED <<wsVars, mainVars, used, inuse, held>>

Config(c) ==
  /\ phase = "running"
  /\ proto = "ws"
  /\ ws_config(c)
  /\ UNCHANGED <<httpVars, mainVars, used, inuse, held>>

\* The cloud ends a connection.
CloudHangUp(c) ==
  /\ phase = "running"
  /\ c \in up
  /\ up' = up \ {c}
  /\ last' = Quiet
  /\ UNCHANGED <<life, of, pio, wid, mishap, httpVars, wsVars, mainVars, used, inuse, held>>

Next ==
  \/ ManagerStartFails
  \/ ManagerStart
  \/ ManagerStop
  \/ \E c \in Conn : \/ \E d \in NodeDriver : Accept(d, c)
                     \/ Reconnect(c)
                     \/ SessionHungUp(c)
                     \/ Close(c)
                     \/ Config(c)
                     \/ CloudHangUp(c)
                     \/ \E w \in Watch : Async(w, c)
  \/ \E w \in Watch : AsyncStop(w) \/ AsyncStopLost(w) \/ WatchHungUp(w)
  \/ \E i \in TimeoutId : Poll(i)

\* The main loop serves a hang-up that epoll reported.
Fairness == \A w \in Watch : WF_vars(WatchHungUp(w))

Spec == Init /\ [][Next]_vars /\ Fairness

-----------------------------------------------------------------------------
(* Properties.                                                             *)

W == INSTANCE Watch WITH ended <- phase = "exited", void <- mishap # {}

\* A driver keeps the contract of Watch: whatever the order of stops, hang-ups,
\* polls and the end of the daemon, a destroy callback is called once, for the
\* watch that was stopped or whose connection ended and for no other, and no
\* watch is told of changes before or after its time.  The contract ends when a
\* websocket gets a second watch or is closed with one, or a stop is given an id
\* that lost bits.
ImplementsWatch == W!Spec

\* A watch whose connection ended is given back to msg.c, which waits for it to
\* drop the last reference to the trust, as long as the contract has not ended.
HangUpReported ==
  \A w \in Watch :
    (life[w] = "on" /\ of[w] \notin up) ~> (life[w] # "on" \/ phase = "exited" \/ mishap # {})

=============================================================================
