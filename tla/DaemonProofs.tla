---------------------------- MODULE DaemonProofs ---------------------------
(***************************************************************************)
(* Both cloud drivers keep the contract of Watch, for any number of        *)
(* watches, connections, timeouts and access technologies, until a mishap; *)
(* and which mishaps there can be.                                         *)
(***************************************************************************)
EXTENDS Daemon, TLAPS

\* A watch exists exactly as long as its l_io, an id names the l_io of its watch or
\* none, and sockets are made once.
IoInv ==
  /\ \A w \in Watch : life[w] \in {"off", "on"}
  /\ pio = {w \in Watch : life[w] = "on"}
  /\ \A w \in Watch : wid[w] \in {w, NULL}
  /\ up \subseteq used

\* http: the id of a watch and the watch of a timeout are inverse to each other,
\* only a timeout that exists can expire, and an id is not used before its turn.
HttpInv ==
  /\ \A w \in Watch : life[w] = "on" => tid[w] \in TimeoutId /\ timeouts[tid[w]] = w
  /\ \A i \in TimeoutId :
       timeouts[i] # NULL =>
         life[timeouts[i]] = "on" /\ tid[timeouts[i]] = i /\ i < next_timeout_id
  /\ \A i \in armed : timeouts[i] # NULL

\* websockets: the slot of a socket holds the one watch on it.
WsInv ==
  /\ \A w \in Watch : life[w] = "on" => of[w] \in wstable /\ slot[of[w]] = w
  /\ \A c \in Conn : slot[c] # NULL => life[slot[c]] = "on" /\ of[slot[c]] = c

\* What a step of the main loop has to keep until a mishap.
MainInv == IoInv /\ (proto = "http" => HttpInv) /\ (proto = "ws" => WsInv)

\* Nothing exists before the start; after the exit nothing happens any more.
DaemonInv ==
  /\ TypeOK
  /\ phase = "init" =>
       /\ last = Quiet
       /\ up = {}
       /\ pio = {}
       /\ \A w \in Watch : life[w] = "off" /\ wid[w] = NULL
       /\ \A i \in TimeoutId : timeouts[i] = NULL
       /\ armed = {}
       /\ \A c \in Conn : slot[c] = NULL
  /\ phase = "running" /\ mishap = {} => MainInv

\* What may be the last thing between msg.c and a driver.
Last == {"quiet", "async", "stop", "told"} \X (Watch \cup {NULL})

\* The daemon starts with nothing, and so with the invariant.
LEMMA InitDaemonInv == Init => DaemonInv
<1> SUFFICES ASSUME Init PROVE DaemonInv
  OBVIOUS
<1>1. next_timeout_id \in 1 .. MaxTimeouts + 1
  BY DaemonAssumption DEF Init, HttpInit
<1>2. last \in Last
  BY DEF Init, Quiet, Last
<1>3. TypeOK
  BY <1>1, <1>2 DEF Init, TypeOK, HttpInit, WsInit, Life, TimeoutId, Last, Mishap
<1> QED
  BY <1>3 DEF Init, DaemonInv, HttpInit, WsInit

\* The steps of a destroy callback keep the types.
LEMMA IoDestroyedType ==
  ASSUME TypeOK, NEW w \in Watch,
         \/ http_io_destroyed(w) /\ UNCHANGED wsVars
         \/ ws_io_destroyed(w) /\ UNCHANGED httpVars
  PROVE  /\ life' \in [Watch -> Life]
         /\ timeouts' \in [TimeoutId -> Watch \cup {NULL}]
         /\ armed' \subseteq TimeoutId
         /\ slot' \in [Conn -> Watch \cup {NULL}]
         /\ pio' \subseteq Watch
         /\ UNCHANGED <<of, wid, up, mishap, tid, next_timeout_id, wstable>>
<1>1. CASE http_io_destroyed(w) /\ UNCHANGED wsVars
  <2>1. PICK i : i = tid[w]
    OBVIOUS
  <2>2. remove_timeout(i)
    BY <1>1, <2>1 DEF http_io_destroyed
  <2>3. life' \in [Watch -> Life]
    BY <2>2 DEF remove_timeout, Callback, TypeOK, Life
  <2>4. timeouts' \in [TimeoutId -> Watch \cup {NULL}] /\ armed' \subseteq TimeoutId
    BY <2>2 DEF remove_timeout, TypeOK
  <2> QED
    BY <1>1, <2>3, <2>4 DEF http_io_destroyed, wsVars, TypeOK
<1>2. CASE ws_io_destroyed(w) /\ UNCHANGED httpVars
  <2>1. life' \in [Watch -> Life]
    BY <1>2 DEF ws_io_destroyed, on_proto_destroyed, Callback, WildCallback, TypeOK, Life
  <2>2. slot' \in [Conn -> Watch \cup {NULL}]
    BY <1>2 DEF ws_io_destroyed, on_proto_destroyed, TypeOK
  <2> QED
    BY <1>2, <2>1, <2>2 DEF ws_io_destroyed, httpVars, TypeOK
<1> QED
  BY <1>1, <1>2

\* Every step of the daemon keeps the types.
LEMMA NextTypeOK ==
  ASSUME TypeOK, [Next]_vars
  PROVE  TypeOK'
<1>1. Quiet \in Last /\ \A w \in Watch : <<"stop", w>> \in Last /\ <<"told", w>> \in Last
                                          /\ <<"async", w>> \in Last
  BY DEF Quiet, Last
<1>2. CASE UNCHANGED vars
  BY <1>2 DEF vars, ioVars, httpVars, wsVars, mainVars, TypeOK
<1>3. CASE ManagerStartFails
  BY <1>3 DEF ManagerStartFails, ProtoStartFails, TypeOK, Driver, ioVars, httpVars, wsVars
<1>4. CASE ManagerStart
  BY <1>4 DEF ManagerStart, node_start, TypeOK, Driver, ioVars, httpVars, wsVars
<1>5. CASE ManagerStop
  <2>1. life' \in [Watch -> Life]
    BY <1>5 DEF ManagerStop, proto_stop, http_remove, ws_remove, TypeOK, Life
  <2> QED
    BY <1>1, <1>5, <2>1 DEF ManagerStop, proto_stop, node_stop, TypeOK, httpVars, wsVars, Last
<1>6. ASSUME NEW c \in Conn, Connect(c), phase = "running" PROVE TypeOK'
  BY <1>1, <1>6 DEF Connect, http_connect, ws_connect, mainVars, httpVars, wsVars, TypeOK, Last
<1>7. ASSUME NEW c \in Conn, SessionHungUp(c) \/ CloudHangUp(c) PROVE TypeOK'
  BY <1>1, <1>7 DEF SessionHungUp, CloudHangUp, mainVars, httpVars, wsVars, TypeOK, Last
<1>8. ASSUME NEW c \in Conn, Close(c) PROVE TypeOK'
  <2>1. mishap' \subseteq Mishap /\ wstable' \subseteq Conn
    BY <1>8 DEF Close, ws_close, TypeOK, Mishap
  <2> QED
    BY <1>1, <1>8, <2>1 DEF Close, mainVars, httpVars, TypeOK, Last
<1>9. ASSUME NEW c \in Conn, Config(c) PROVE TypeOK'
  <2>1. slot[c] \in Watch
    BY <1>9 DEF Config, ws_config, TypeOK
  <2> QED
    BY <1>1, <1>9, <2>1 DEF Config, ws_config, mainVars, httpVars, wsVars, TypeOK, Last
<1>10. ASSUME NEW w \in Watch, NEW c \in Conn, Async(w, c) PROVE TypeOK'
  <2>0. last' = <<"async", w>> /\ life' = [life EXCEPT ![w] = "on"]
        /\ of' = [of EXCEPT ![w] = c] /\ UNCHANGED up
    BY <1>10 DEF Async, http_async, ws_async
  <2>1. last' \in Last /\ life' \in [Watch -> Life] /\ of' \in [Watch -> Conn \cup {NULL}]
        /\ UNCHANGED up
    BY <1>1, <2>0 DEF TypeOK, Life
  <2>2. wid' \in [Watch -> Watch \cup {NULL}]
    BY <1>10 DEF Async, http_async, ws_async, L_PTR_TO_UINT, TypeOK
  <2>3. CASE proto = "http" /\ http_async(w, c) /\ UNCHANGED wsVars
    <3>1. next_timeout_id' \in 1 .. MaxTimeouts + 1
      BY <2>3, DaemonAssumption DEF http_async, create_timeout, TypeOK, TimeoutId
    <3>2. timeouts' \in [TimeoutId -> Watch \cup {NULL}] /\ armed' \subseteq TimeoutId
      BY <2>3 DEF http_async, create_timeout, TypeOK
    <3>3. tid' \in [Watch -> TimeoutId \cup {NULL}]
      BY <2>3 DEF http_async, create_timeout, TypeOK
    <3> QED
      BY <1>10, <2>1, <2>2, <2>3, <3>1, <3>2, <3>3
         DEF Async, http_async, wsVars, mainVars, TypeOK, Last
  <2>4. CASE proto = "ws" /\ ws_async(w, c) /\ UNCHANGED httpVars
    <3>1. slot' \in [Conn -> Watch \cup {NULL}] /\ pio' \subseteq Watch /\ mishap' \subseteq Mishap
      BY <2>4 DEF ws_async, TypeOK, Mishap
    <3> QED
      BY <1>10, <2>1, <2>2, <2>4, <3>1 DEF Async, ws_async, httpVars, mainVars, TypeOK, Last
  <2> QED
    BY <1>10, <2>3, <2>4 DEF Async
<1>11. ASSUME NEW w \in Watch, AsyncStop(w) PROVE TypeOK'
  <2>1. PICK v \in Watch : v = wid[w]
    BY <1>11 DEF AsyncStop, TypeOK
  <2>2. CASE StopId(v)
    <3>1. last' \in Last
      BY <1>1, <2>2 DEF StopId, http_async_stop, ws_async_stop
    <3>2. \/ http_io_destroyed(v) /\ UNCHANGED wsVars
          \/ ws_io_destroyed(v) /\ UNCHANGED httpVars
      BY <2>2 DEF StopId, http_async_stop, ws_async_stop
    <3> QED
      BY <1>11, <3>1, <3>2, IoDestroyedType DEF AsyncStop, mainVars, TypeOK, Last
  <2>3. CASE StopHungUp
    BY <1>1, <1>11, <2>3 DEF StopHungUp, AsyncStop, mainVars, httpVars, wsVars, TypeOK, Last
  <2> QED
    BY <1>11, <2>1, <2>2, <2>3 DEF AsyncStop
<1>12. ASSUME NEW w \in Watch, AsyncStopLost(w) PROVE TypeOK'
  BY <1>1, <1>12 DEF AsyncStopLost, httpVars, wsVars, TypeOK, Last, Mishap
<1>13. ASSUME NEW w \in Watch, WatchHungUp(w) PROVE TypeOK'
  <2>1. last' \in Last
    BY <1>1, <1>13 DEF WatchHungUp, http_hung_up, ws_hung_up
  <2>2. \/ http_io_destroyed(w) /\ UNCHANGED wsVars
        \/ ws_io_destroyed(w) /\ UNCHANGED httpVars
    BY <1>13 DEF WatchHungUp, http_hung_up, ws_hung_up
  <2> QED
    BY <1>13, <2>1, <2>2, IoDestroyedType DEF WatchHungUp, mainVars, TypeOK, Last
<1>14. ASSUME NEW i \in TimeoutId, Poll(i) PROVE TypeOK'
  <2>1. timeouts[i] \in Watch \cup {NULL}
    BY DEF TypeOK
  <2>2. <<"told", timeouts[i]>> \in Last
    BY <2>1 DEF Last
  <2>3. last' \in Last
    BY <1>1, <1>14, <2>2 DEF Poll, proto_poll
  <2> QED
    BY <1>14, <2>3 DEF Poll, proto_poll, mainVars, wsVars, TypeOK, Last
<1> QED
  BY <1>2, <1>3, <1>4, <1>5, <1>6, <1>7, <1>8, <1>9, <1>10, <1>11, <1>12, <1>13, <1>14
     DEF Next, Accept, Reconnect

\* A mishap is never forgotten.
LEMMA MishapStays ==
  ASSUME TypeOK, [Next]_vars
  PROVE  mishap \subseteq mishap'
<1>1. ASSUME NEW w \in Watch, AsyncStop(w) PROVE UNCHANGED mishap
  BY <1>1 DEF AsyncStop, StopId, StopHungUp, http_async_stop, ws_async_stop, http_io_destroyed,
              ws_io_destroyed
<1>2. ASSUME NEW w \in Watch, WatchHungUp(w) PROVE UNCHANGED mishap
  BY <1>2 DEF WatchHungUp, http_hung_up, ws_hung_up, http_io_destroyed, ws_io_destroyed
<1>3. ASSUME NEW w \in Watch, NEW c \in Conn, Async(w, c) PROVE mishap \subseteq mishap'
  BY <1>3 DEF Async, http_async, ws_async
<1>4. ASSUME NEW c \in Conn, Close(c) PROVE mishap \subseteq mishap'
  BY <1>4 DEF Close, ws_close
<1> QED
  BY <1>1, <1>2, <1>3, <1>4
     DEF Next, vars, ioVars, ManagerStartFails, ManagerStart, ManagerStop, Accept, Reconnect,
         Connect, SessionHungUp, Config, ws_config, CloudHangUp, AsyncStopLost, Poll, proto_poll

\* create_device_watch keeps the invariant: the id of the new poll was never used, and
\* if the slot of the new watch is not empty this is a mishap.
LEMMA AsyncKeeps ==
  ASSUME DaemonInv, NEW w \in Watch, NEW c \in Conn, Async(w, c), mishap = {}, mishap' = {},
         proto = "ws" => c \in wstable
  PROVE  MainInv'
<1> USE DEF Async, DaemonInv, mainVars, MainInv
<1>1. TypeOK /\ IoInv /\ w \notin pio /\ life[w] = "off" /\ phase = "running"
      /\ inuse \subseteq used /\ c \in inuse /\ w # NULL
  BY DaemonAssumption DEF TypeOK
<1>2. CASE proto = "http" /\ http_async(w, c) /\ UNCHANGED wsVars
  <2> USE <1>1, <1>2 DEF http_async, create_timeout, wsVars
  <2>1. IoInv'
    BY DEF IoInv, TypeOK, L_PTR_TO_UINT
  <2>2. next_timeout_id \in Int /\ TimeoutId \subseteq Int /\ HttpInv
    BY DEF TypeOK, TimeoutId
  <2>3. timeouts[next_timeout_id] = NULL
    BY <2>2 DEF HttpInv, TypeOK
  <2>4. ASSUME NEW i \in TimeoutId, timeouts'[i] # NULL
        PROVE  life'[timeouts'[i]] = "on" /\ tid'[timeouts'[i]] = i /\ i < next_timeout_id'
    BY <2>2, <2>3, <2>4, DaemonAssumption DEF HttpInv, TypeOK
  <2>5. ASSUME NEW v \in Watch, life'[v] = "on"
        PROVE  tid'[v] \in TimeoutId /\ timeouts'[tid'[v]] = v
    BY <2>2, <2>3, <2>5, DaemonAssumption DEF HttpInv, TypeOK
  <2>6. \A i \in armed' : timeouts'[i] # NULL
    BY <2>2, DaemonAssumption DEF HttpInv, TypeOK
  <2>7. HttpInv'
    BY <2>4, <2>5, <2>6 DEF HttpInv
  <2> QED
    BY <2>1, <2>7
<1>3. CASE proto = "ws" /\ ws_async(w, c) /\ UNCHANGED httpVars
  <2> USE <1>1, <1>3 DEF ws_async, httpVars
  <2>1. IoInv'
    BY DEF IoInv, TypeOK, L_PTR_TO_UINT
  <2>2. WsInv /\ slot[c] = NULL
    OBVIOUS
  <2>3. WsInv'
    BY <2>2, DaemonAssumption DEF WsInv, TypeOK
  <2> QED
    BY <2>1, <2>3
<1> QED
  BY <1>2, <1>3

\* The destroy callback of an l_io takes the watch of that l_io and no other.
LEMMA IoDestroyed ==
  ASSUME DaemonInv, phase = "running", mishap = {}, NEW w \in Watch, w \in pio,
         \/ proto = "http" /\ http_io_destroyed(w)
         \/ proto = "ws" /\ ws_io_destroyed(w)
  PROVE  life[w] = "on" /\ life' = [life EXCEPT ![w] = "off"]
<1>1. TypeOK /\ IoInv /\ life[w] = "on" /\ w # NULL
  BY DaemonAssumption DEF DaemonInv, MainInv, IoInv
<1>2. CASE proto = "http" /\ http_io_destroyed(w)
  BY <1>1, <1>2 DEF DaemonInv, MainInv, HttpInv, http_io_destroyed, remove_timeout, Callback, TypeOK
<1>3. CASE proto = "ws" /\ ws_io_destroyed(w)
  BY <1>1, <1>3 DEF DaemonInv, MainInv, WsInv, ws_io_destroyed, on_proto_destroyed, Callback, TypeOK
<1> QED
  BY <1>2, <1>3

\* The end of a watch, by async_stop or by a hang-up, keeps the invariant.
LEMMA IoDestroyedKeeps ==
  ASSUME DaemonInv, phase = "running", mishap = {}, NEW w \in Watch, w \in pio,
         \/ proto = "http" /\ http_io_destroyed(w) /\ UNCHANGED wsVars
         \/ proto = "ws" /\ ws_io_destroyed(w) /\ UNCHANGED httpVars,
         UNCHANGED <<mainVars, used>>
  PROVE  MainInv'
<1>1. life[w] = "on" /\ life' = [life EXCEPT ![w] = "off"]
  BY IoDestroyed
<1>3. TypeOK /\ IoInv
  BY DEF DaemonInv, MainInv
<1>4. pio' = pio \ {w} /\ UNCHANGED <<of, up, wid>>
  BY DEF http_io_destroyed, ws_io_destroyed
<1>5. IoInv'
  BY <1>1, <1>3, <1>4 DEF IoInv, TypeOK
<1>6. CASE proto = "http" /\ http_io_destroyed(w) /\ UNCHANGED wsVars
  <2>1. HttpInv /\ tid[w] \in TimeoutId /\ timeouts[tid[w]] = w /\ w # NULL
    BY <1>1, <1>6, DaemonAssumption DEF DaemonInv, MainInv, HttpInv
  <2>2. timeouts' = [timeouts EXCEPT ![tid[w]] = NULL] /\ UNCHANGED <<tid, next_timeout_id>>
        /\ armed' = armed \ {tid[w]}
    BY <1>6, <2>1 DEF http_io_destroyed, remove_timeout
  <2>4. HttpInv'
    BY <1>1, <1>3, <2>1, <2>2, DaemonAssumption DEF HttpInv, TypeOK
  <2> QED
    BY <1>5, <1>6, <2>4 DEF MainInv, mainVars
<1>7. CASE proto = "ws" /\ ws_io_destroyed(w) /\ UNCHANGED httpVars
  <2>1. WsInv /\ of[w] \in Conn /\ slot[of[w]] = w
    BY <1>1, <1>3, <1>7 DEF DaemonInv, MainInv, WsInv, TypeOK
  <2>2. slot' = [slot EXCEPT ![of[w]] = NULL] /\ UNCHANGED wstable
    BY <1>7 DEF ws_io_destroyed, on_proto_destroyed
  <2>4. WsInv'
    BY <1>1, <1>3, <1>4, <2>1, <2>2, DaemonAssumption DEF WsInv, TypeOK
  <2> QED
    BY <1>5, <1>7, <2>4 DEF MainInv, mainVars
<1> QED
  BY <1>6, <1>7

\* Every step of the daemon keeps the invariant.
LEMMA NextDaemonInv ==
  ASSUME DaemonInv, [Next]_vars,
         phase = "running" /\ proto = "ws" => inuse \subseteq wstable
  PROVE  DaemonInv'
<1>1. TypeOK /\ TypeOK' /\ mishap \subseteq mishap'
  BY NextTypeOK, MishapStays DEF DaemonInv
<1>2. ASSUME phase' = "running", mishap' = {} => MainInv' PROVE DaemonInv'
  BY <1>1, <1>2 DEF DaemonInv
<1>3. ASSUME phase' = "exited" PROVE DaemonInv'
  BY <1>1, <1>3 DEF DaemonInv
<1>4. ASSUME phase = "running", mishap' = {} PROVE mishap = {} /\ MainInv
  BY <1>1, <1>4 DEF DaemonInv
<1>5. CASE UNCHANGED vars
  BY <1>1, <1>5 DEF vars, ioVars, httpVars, wsVars, mainVars, DaemonInv, MainInv, IoInv,
                    HttpInv, WsInv
<1>6. CASE ManagerStartFails
  BY <1>3, <1>6 DEF ManagerStartFails, ProtoStartFails
<1>7. CASE ManagerStart
  <2>1. phase = "init" /\ UNCHANGED <<ioVars, httpVars, wsVars, used>>
        /\ phase' \in {"running", "exited"}
    BY <1>7 DEF ManagerStart
  <2>2. MainInv'
    BY <1>1, <2>1 DEF DaemonInv, MainInv, IoInv, HttpInv, WsInv, ioVars, httpVars, wsVars, TypeOK
  <2> QED
    BY <1>2, <1>3, <2>1, <2>2
<1>8. CASE ManagerStop
  BY <1>3, <1>8 DEF ManagerStop
<1>9. ASSUME NEW c \in Conn, phase = "running", Connect(c) PROVE DaemonInv'
  <2>1. ASSUME mishap' = {} PROVE MainInv'
    BY <1>1, <1>4, <1>9, <2>1 DEF Connect, http_connect, ws_connect, mainVars, httpVars, wsVars,
                             MainInv, IoInv, HttpInv, WsInv, TypeOK
  <2> QED
    BY <1>2, <1>9, <2>1 DEF Connect, mainVars
<1>10. ASSUME NEW c \in Conn, SessionHungUp(c) \/ Close(c) \/ Config(c) \/ CloudHangUp(c)
       PROVE  DaemonInv'
  <2> USE <1>10 DEF SessionHungUp, Close, Config, CloudHangUp, mainVars
  <2>1. phase = "running" /\ phase' = "running"
    OBVIOUS
  <2>2. UNCHANGED <<life, of, pio, wid, httpVars, slot, used, proto>> /\ up' \subseteq up
    BY DEF ws_config, ws_close, wsVars
  <2>3. ASSUME mishap' = {} PROVE IoInv' /\ (proto' = "http" => HttpInv')
    BY <1>1, <1>4, <2>1, <2>2, <2>3 DEF MainInv, IoInv, HttpInv, TypeOK, httpVars
  <2>4. ASSUME mishap' = {}, proto = "ws", NEW w \in Watch, life[w] = "on"
        PROVE  of[w] \in wstable'
    <3>1. of[w] \in wstable /\ slot[of[w]] = w /\ w # NULL
      BY <1>4, <2>1, <2>4, DaemonAssumption DEF MainInv, WsInv
    <3> QED
      BY <2>4, <3>1 DEF ws_close, ws_config, wsVars
  <2>5. ASSUME mishap' = {}, proto' = "ws" PROVE WsInv'
    BY <1>1, <1>4, <2>1, <2>2, <2>4, <2>5 DEF MainInv, WsInv, TypeOK
  <2> QED
    BY <1>2, <2>1, <2>3, <2>5 DEF MainInv
<1>11. ASSUME NEW w \in Watch, NEW c \in Conn, Async(w, c) PROVE DaemonInv'
  <2>1. proto = "ws" => c \in wstable
    BY <1>11 DEF Async
  <2> QED
    BY <1>2, <1>4, <1>11, <2>1, AsyncKeeps DEF Async, mainVars
<1>12. ASSUME NEW w \in Watch, AsyncStop(w) PROVE DaemonInv'
  <2>1. phase = "running" /\ phase' = "running" /\ UNCHANGED <<mainVars, used>> /\ life[w] = "on"
    BY <1>12 DEF AsyncStop, mainVars
  <2>2. ASSUME mishap' = {} PROVE MainInv'
    <3>1. mishap = {} /\ w \in pio /\ wid[w] = w
      BY <1>4, <1>12, <2>1, <2>2 DEF AsyncStop, MainInv, IoInv
    <3>2. StopId(w)
      BY <1>12, <3>1 DEF AsyncStop
    <3>3. \/ proto = "http" /\ http_io_destroyed(w) /\ UNCHANGED wsVars
          \/ proto = "ws" /\ ws_io_destroyed(w) /\ UNCHANGED httpVars
      BY <3>2 DEF StopId, http_async_stop, ws_async_stop
    <3> QED
      BY <2>1, <3>1, <3>3, IoDestroyedKeeps
  <2> QED
    BY <1>2, <2>1, <2>2
<1>13. ASSUME NEW w \in Watch, AsyncStopLost(w) PROVE DaemonInv'
  BY <1>3, <1>13 DEF AsyncStopLost
<1>14. ASSUME NEW w \in Watch, WatchHungUp(w) PROVE DaemonInv'
  <2>1. w \in pio /\ phase = "running" /\ phase' = "running" /\ UNCHANGED <<mainVars, used>>
    BY <1>14 DEF WatchHungUp, http_hung_up, ws_hung_up, Due, mainVars
  <2>2. \/ proto = "http" /\ http_io_destroyed(w) /\ UNCHANGED wsVars
        \/ proto = "ws" /\ ws_io_destroyed(w) /\ UNCHANGED httpVars
    BY <1>14 DEF WatchHungUp, http_hung_up, ws_hung_up
  <2>3. ASSUME mishap' = {} PROVE MainInv'
    BY <1>4, <2>1, <2>2, <2>3, IoDestroyedKeeps
  <2> QED
    BY <1>2, <2>1, <2>3
<1>15. ASSUME NEW i \in TimeoutId, Poll(i) PROVE DaemonInv'
  <2>1. phase = "running" /\ phase' = "running"
    BY <1>15 DEF Poll, mainVars
  <2>2. ASSUME mishap' = {} PROVE MainInv'
    BY <1>1, <1>4, <1>15, <2>1, <2>2
       DEF Poll, proto_poll, mainVars, MainInv, IoInv, HttpInv, WsInv, wsVars, TypeOK
  <2> QED
    BY <1>2, <2>1, <2>2
<1> QED
  BY <1>5, <1>6, <1>7, <1>8, <1>9, <1>10, <1>11, <1>12, <1>13, <1>14, <1>15
     DEF Next, Accept, Reconnect

\* The contract ends in named ways only: with the http driver by an id that lost bits,
\* and on a build where an unsigned int holds an address by no id at all (ws_async
\* never gives msg.c an error for an id).
ContractEnds ==
  /\ proto = "http" => mishap \subseteq {"wide"}
  /\ ~Wide => "wide" \notin mishap

\* ContractEnds, made inductive: the proto channel of a session has session data, and
\* the ids msg.c holds are good ones.
EndsInv ==
  /\ ContractEnds
  /\ phase = "init" => inuse = {} /\ mishap = {}
  /\ phase = "running" /\ proto = "ws" => inuse \subseteq wstable
  /\ ~Wide => \A w \in held : wid[w] # NULL

\* Every step of the daemon keeps EndsInv.
LEMMA NextEndsInv ==
  ASSUME TypeOK, EndsInv, [Next]_vars
  PROVE  EndsInv'
<1> USE DEF EndsInv, ContractEnds
<1>1. CASE UNCHANGED vars
  BY <1>1 DEF vars, ioVars, wsVars, mainVars
<1>2. CASE ManagerStartFails
  BY <1>2 DEF ManagerStartFails, ProtoStartFails, ioVars
<1>3. CASE ManagerStart
  <2>1. inuse' = {} /\ mishap' = {} /\ UNCHANGED <<wid, held>>
        /\ phase' \in {"running", "exited"}
    BY <1>3 DEF ManagerStart, ioVars
  <2> QED
    BY <2>1
<1>4. CASE ManagerStop
  BY <1>4, DaemonAssumption DEF ManagerStop, proto_stop, Driver
<1>5. ASSUME NEW c \in Conn, phase = "running", Connect(c) PROVE EndsInv'
  BY <1>5 DEF Connect, ws_connect, mainVars
<1>6. ASSUME NEW c \in Conn, SessionHungUp(c) \/ CloudHangUp(c) \/ Config(c) PROVE EndsInv'
  BY <1>6 DEF SessionHungUp, CloudHangUp, Config, ws_config, mainVars, wsVars
<1>7. ASSUME NEW c \in Conn, Close(c) PROVE EndsInv'
  BY <1>7 DEF Close, ws_close, mainVars
<1>8. ASSUME NEW w \in Watch, NEW c \in Conn, Async(w, c) PROVE EndsInv'
  <2>1. proto = "ws" => c \in wstable
    BY <1>8 DEF Async
  <2>2. ~Wide => wid' = [wid EXCEPT ![w] = w] /\ w # NULL
    BY <1>8, <2>1, DaemonAssumption DEF Async, http_async, ws_async, L_PTR_TO_UINT
  <2>3. ~Wide => \A v \in held' : wid'[v] # NULL
    BY <1>8, <2>2 DEF Async, TypeOK
  <2>4. mishap' \subseteq mishap \cup {"second"} /\ (proto = "http" => mishap' = mishap)
    BY <1>8 DEF Async, http_async, ws_async
  <2>5. UNCHANGED <<mainVars, inuse>> /\ (proto = "ws" => UNCHANGED wstable) /\ phase = "running"
    BY <1>8 DEF Async, ws_async
  <2> QED
    BY <2>3, <2>4, <2>5 DEF mainVars
<1>9. ASSUME NEW w \in Watch, AsyncStop(w) \/ WatchHungUp(w) PROVE EndsInv'
  <2>1. UNCHANGED <<mainVars, inuse, wid, wstable, mishap>> /\ held' \subseteq held
    BY <1>9 DEF AsyncStop, StopId, StopHungUp, WatchHungUp, http_async_stop, ws_async_stop,
                http_hung_up, ws_hung_up, http_io_destroyed, ws_io_destroyed, wsVars
  <2> QED
    BY <2>1 DEF mainVars
<1>10. ASSUME NEW w \in Watch, AsyncStopLost(w) PROVE EndsInv'
  BY <1>10 DEF AsyncStopLost
<1>11. ASSUME NEW i \in TimeoutId, Poll(i) PROVE EndsInv'
  BY <1>11 DEF Poll, proto_poll, mainVars, wsVars
<1> QED
  BY <1>1, <1>2, <1>3, <1>4, <1>5, <1>6, <1>7, <1>8, <1>9, <1>10, <1>11
     DEF Next, Accept, Reconnect

\* Only a transfer that succeeded makes http_fetch return 0.
LEMMA FetchDone ==
  ASSUME NEW o \in Outcome, http_fetch(o) = 0
  PROVE  o.done
BY DEF Outcome, http_fetch, fetch_url, EIO

\* Every step of the daemon is a step of the contract, or none.
LEMMA NextWatch ==
  ASSUME DaemonInv, [Next]_vars
  PROVE  [W!Next]_(W!vars)
<1>0. ASSUME mishap' # {} PROVE W!Next
  <2>1. (mishap # {})' = TRUE
    BY <1>0
  <2> QED
    BY <2>1 DEF W!Next
<1>a. SUFFICES ASSUME mishap' = {} PROVE W!Promised \/ UNCHANGED W!vars
  <2>1. ASSUME mishap' = {} PROVE mishap = {}
    BY <2>1, MishapStays DEF DaemonInv
  <2>2. CASE mishap' = {} /\ W!Promised
    <3>1. ~(mishap # {}) /\ (mishap # {})' = FALSE
      BY <2>1, <2>2
    <3> QED
      BY <2>2, <3>1 DEF W!Next
  <2>3. CASE mishap' = {} /\ UNCHANGED W!vars
    BY <2>3
  <2> QED
    BY <1>0, <1>a, <2>2, <2>3
<1> USE DEF W!Promised
<1>1. TypeOK /\ (phase = "running" => MainInv) /\ Quiet = W!Quiet /\ mishap = {}
  <2>1. mishap = {}
    BY <1>a, MishapStays DEF DaemonInv
  <2> QED
    BY <2>1 DEF DaemonInv, Quiet, W!Quiet
<1>2. ASSUME last' = Quiet, UNCHANGED <<life, of, up>>, phase # "exited", phase' # "exited"
      PROVE  W!Promised
  BY <1>1, <1>2 DEF W!Internal
<1>3. CASE UNCHANGED vars
  <2>1. UNCHANGED <<life, of, up, last, phase, mishap>>
    BY <1>3 DEF vars, ioVars, mainVars
  <2>2. UNCHANGED (phase = "exited") /\ UNCHANGED (mishap # {})
    BY <2>1
  <2> QED
    BY <2>1, <2>2 DEF W!vars
<1>4. ASSUME NEW D \in SUBSET {w \in Watch : life[w] = "on"},
             life' = [w \in Watch |-> IF w \in D THEN "off" ELSE life[w]],
             last' = Quiet, UNCHANGED <<of, up>>, phase # "exited", phase' = "exited"
      PROVE  W!Promised
  BY <1>1, <1>4 DEF W!End
<1>5. ASSUME UNCHANGED life, last' = Quiet, UNCHANGED <<of, up>>, phase # "exited",
              phase' = "exited"
       PROVE  W!Promised
  <2> DEFINE D == {}
  <2>1. life' = [w \in Watch |-> IF w \in D THEN "off" ELSE life[w]]
    BY <1>1, <1>5 DEF TypeOK
  <2>2. D \in SUBSET {w \in Watch : life[w] = "on"}
    OBVIOUS
  <2> HIDE DEF D
  <2> QED
    BY <1>4, <1>5, <2>1, <2>2
<1>6. CASE ManagerStartFails \/ ManagerStart
  <2>1. phase = "init" /\ last = Quiet /\ UNCHANGED <<life, of, up, last>>
        /\ phase' \in {"running", "exited"}
    BY <1>6 DEF ManagerStartFails, ProtoStartFails, ManagerStart, DaemonInv, ioVars
  <2> QED
    BY <1>2, <1>5, <2>1
<1>7. CASE ManagerStop
  <2> USE <1>7 DEF ManagerStop
  <2>1. CASE proto = "http"
    <3> DEFINE D == {w \in Watch : \E i \in TimeoutId : timeouts[i] = w}
    <3>1. \A w \in D : life[w] = "on"
      BY <1>1, <2>1, DaemonAssumption DEF MainInv, HttpInv
    <3>2. life' = [w \in Watch |-> IF w \in D THEN "off" ELSE life[w]]
      BY <2>1, <3>1 DEF proto_stop, http_remove
    <3> QED
      BY <1>4, <3>1, <3>2
  <2>2. CASE proto # "http"
    BY <1>5, <2>2 DEF proto_stop, ws_remove
  <2> QED
    BY <2>1, <2>2
<1>8. ASSUME NEW c \in Conn, phase = "running", Connect(c) PROVE W!Promised
  <2>1. c \notin up /\ up' = up \cup {c}
    BY <1>1, <1>8 DEF Connect, http_connect, ws_connect, MainInv, IoInv
  <2>2. W!Connect(c)
    BY <1>1, <1>8, <2>1 DEF Connect, mainVars, W!Connect
  <2> QED
    BY <1>8, <2>2
<1>9. ASSUME NEW c \in Conn, SessionHungUp(c) \/ Close(c) PROVE W!Promised
  BY <1>2, <1>9 DEF SessionHungUp, Close, mainVars
<1>10. ASSUME NEW c \in Conn, CloudHangUp(c) PROVE W!Promised
  <2>1. W!HangUp(c)
    BY <1>1, <1>10 DEF CloudHangUp, mainVars, W!HangUp
  <2> QED
    BY <1>10, <2>1 DEF CloudHangUp
<1>11. ASSUME NEW c \in Conn, Config(c) PROVE W!Promised
  <2>1. phase = "running" /\ slot[c] \in Watch /\ life[slot[c]] = "on" /\ of[slot[c]] = c
    BY <1>1, <1>11 DEF Config, ws_config, MainInv, WsInv, TypeOK
  <2>2. W!Notify(slot[c])
    BY <1>11, <2>1 DEF Config, ws_config, mainVars, W!Notify
  <2> QED
    BY <2>1, <2>2
<1>12. ASSUME NEW w \in Watch, NEW c \in Conn, Async(w, c) PROVE W!Promised
  <2>1. W!Async(w, c)
    BY <1>12 DEF Async, http_async, ws_async, mainVars, W!Async
  <2> QED
    BY <1>12, <2>1 DEF Async
<1>13. ASSUME NEW w \in Watch, AsyncStop(w) PROVE W!Promised
  <2>1. phase = "running" /\ w \in pio /\ wid[w] = w /\ UNCHANGED phase
    BY <1>1, <1>13 DEF AsyncStop, MainInv, IoInv, mainVars
  <2>2. StopId(w)
    BY <1>13, <2>1 DEF AsyncStop
  <2>3. \/ proto = "http" /\ http_io_destroyed(w)
        \/ proto = "ws" /\ ws_io_destroyed(w)
    BY <2>2 DEF StopId, http_async_stop, ws_async_stop
  <2>4. life[w] = "on" /\ life' = [life EXCEPT ![w] = "off"]
    BY <1>1, <2>1, <2>3, IoDestroyed
  <2>5. UNCHANGED <<of, up>> /\ last' = <<"stop", w>>
    BY <2>2 DEF StopId, http_async_stop, ws_async_stop, http_io_destroyed, ws_io_destroyed
  <2>6. W!Stop(w)
    BY <2>1, <2>4, <2>5 DEF W!Stop, W!Destroyed
  <2> QED
    BY <2>1, <2>6
<1>16. ASSUME NEW w \in Watch, AsyncStopLost(w) PROVE W!Promised
  BY <1>a, <1>16 DEF AsyncStopLost
<1>14. ASSUME NEW w \in Watch, WatchHungUp(w) PROVE W!Promised
  <2>1. life[w] = "on" /\ life' = [life EXCEPT ![w] = "off"]
    BY <1>1, <1>14, IoDestroyed DEF WatchHungUp, http_hung_up, ws_hung_up, Due
  <2>2. W!Drop(w)
    BY <1>1, <1>14, <2>1 DEF WatchHungUp, http_hung_up, ws_hung_up, http_io_destroyed,
                             ws_io_destroyed, Due, mainVars, W!Drop, W!Destroyed
  <2> QED
    BY <1>14, <2>2 DEF WatchHungUp
<1>15. ASSUME NEW i \in TimeoutId, Poll(i) PROVE W!Promised
  <2>1. timeouts[i] \in Watch /\ life[timeouts[i]] = "on" /\ phase = "running"
    BY <1>1, <1>15 DEF Poll, proto_poll, MainInv, HttpInv, TypeOK
  <2>2. UNCHANGED <<life, of, up, phase>>
    BY <1>15 DEF Poll, proto_poll, mainVars
  <2>3. PICK o \in Outcome :
          /\ o.done => of[timeouts[i]] \in up
          /\ last' = IF http_fetch(o) = 0 THEN <<"told", timeouts[i]>> ELSE Quiet
    BY <1>15 DEF Poll, proto_poll
  <2>4. CASE http_fetch(o) = 0
    <3>1. W!Notify(timeouts[i])
      BY <2>1, <2>2, <2>3, <2>4, FetchDone DEF W!Notify
    <3> QED
      BY <2>1, <3>1
  <2>5. CASE http_fetch(o) # 0
    BY <1>2, <2>1, <2>2, <2>3, <2>5
  <2> QED
    BY <2>4, <2>5
<1> QED
  BY <1>3, <1>6, <1>7, <1>8, <1>9, <1>10, <1>11, <1>12, <1>13, <1>14, <1>15,
     <1>16 DEF Next, Accept, Reconnect

\* The initial states, for both invariants.
LEMMA InitInv == Init => DaemonInv /\ EndsInv
<1>1. Init => EndsInv
  BY DEF Init, EndsInv, ContractEnds
<1> QED
  BY <1>1, InitDaemonInv

\* Both invariants hold in every state.
LEMMA BothInv == Spec => [](DaemonInv /\ EndsInv)
<1>1. DaemonInv /\ EndsInv /\ [Next]_vars => (DaemonInv /\ EndsInv)'
  <2> SUFFICES ASSUME DaemonInv, EndsInv, [Next]_vars PROVE DaemonInv' /\ EndsInv'
    OBVIOUS
  <2>1. DaemonInv'
    BY NextDaemonInv DEF EndsInv
  <2>2. EndsInv'
    BY NextEndsInv DEF DaemonInv
  <2> QED
    BY <2>1, <2>2
<1> QED
  BY <1>1, InitInv, PTL DEF Spec

\* Both drivers implement the contract msg.c relies on, for every set of watches and
\* connections and however they are used, up to the first mishap.
THEOREM WatchContract == Spec => ImplementsWatch
<1>1. Init => W!Init
  BY DEF Init, W!Init, Quiet, W!Quiet
<1>2. DaemonInv /\ [Next]_vars => [W!Next]_(W!vars)
  BY NextWatch
<1>3. DaemonInv /\ EndsInv => DaemonInv
  OBVIOUS
<1> QED
  BY <1>1, <1>2, <1>3, BothInv, PTL DEF Spec, ImplementsWatch, W!Spec

\* The http driver keeps the contract for good unless addresses are wider than an
\* unsigned int, and a websocket is never watched without session data, so that no
\* watch has an error for an id.
THEOREM ContractEndsOnlySo == Spec => []ContractEnds
<1>1. DaemonInv /\ EndsInv => ContractEnds
  BY DEF EndsInv
<1> QED
  BY <1>1, BothInv, PTL
=============================================================================
