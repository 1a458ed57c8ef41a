----------------------------- MODULE ProtoHttp -----------------------------
(***************************************************************************)
(* src/proto-http.c: a watch is a timeout that fetches the device, known   *)
(* by an id, and an l_io on the socket of the session whose destroy        *)
(* callback removes the timeout of that id.  A timeout of ell expires once *)
(* unless it is set again, and proto_poll does not set it.  Requests are   *)
(* transfers of libcurl that block the daemon, and keep no state.          *)
(***************************************************************************)
EXTENDS ProtoIo

CONSTANT MaxTimeouts  \* bound: calls of http_async

VARIABLES
  timeouts,         \* id -> the watch whose to_fetch the timeout has
  armed,            \* ids of the timeouts that have not expired
  tid,              \* the id the l_io of a watch hands to its destroy callback
  next_timeout_id

httpVars == <<timeouts, armed, tid, next_timeout_id>>

TimeoutId == 1 .. MaxTimeouts

HttpInit ==
  /\ timeouts = [i \in TimeoutId |-> NULL]
  /\ armed = {}
  /\ tid = [w \in Watch |-> NULL]
  /\ next_timeout_id = 1

-----------------------------------------------------------------------------
(* Requests.                                                               *)

EPERM == 1
ENOENT == 2
EIO == 5
EINVAL == 22

(***************************************************************************)
(* What becomes of a transfer: it fails in libcurl, or ends with a status  *)
(* and a body, which is the record of one device or something else.        *)
(***************************************************************************)
Outcome == [done : BOOLEAN, status : {200, 201, 401, 403, 404, 500},
            body : {"device", "other"}]

http2errno(status) ==
  CASE status \in {200, 201} -> 0
    [] status \in {401, 403} -> -EPERM
    [] status = 404 -> -ENOENT
    [] OTHER -> -EIO

fetch_url(o) == IF o.done THEN http2errno(o.status) ELSE -EIO

\* is the body an object whose "devices" is an array of one?
check_json(o) == IF o.body = "device" THEN 0 ELSE -1

\* http_fetch (http_signin does the same)
http_fetch(o) ==
  IF fetch_url(o) < 0 THEN fetch_url(o)
  ELSE IF check_json(o) < 0 THEN -EINVAL ELSE 0

-----------------------------------------------------------------------------
(* Watches.                                                                *)

\* create_timeout
create_timeout(w) ==
  /\ next_timeout_id \in TimeoutId
  /\ next_timeout_id' = next_timeout_id + 1
  /\ timeouts' = [timeouts EXCEPT ![next_timeout_id] = w]
  /\ armed' = armed \cup {next_timeout_id}

\* Mutant: the timeout stays in the map.
remove_timeout_Kept(i) ==
  IF timeouts[i] = NULL THEN UNCHANGED <<timeouts, armed, life>>
  ELSE UNCHANGED <<timeouts, armed>> /\ Callback(timeouts[i])

\* Mutant: the destroy callback of the timeout is not called.
remove_timeout_Silent(i) ==
  IF timeouts[i] = NULL THEN UNCHANGED <<timeouts, armed, life>>
  ELSE /\ timeouts' = [timeouts EXCEPT ![i] = NULL]
       /\ armed' = armed \ {i}
       /\ UNCHANGED life

\* remove_timeout, with the destroy callback of the timeout in it
\* (on_proto_poll_destroyed)
remove_timeout(i) ==
  IF timeouts[i] = NULL THEN UNCHANGED <<timeouts, armed, life>>
  ELSE /\ timeouts' = [timeouts EXCEPT ![i] = NULL]
       /\ armed' = armed \ {i}
       /\ Callback(timeouts[i])

\* http_connect, when it succeeds
http_connect(c) == up' = up \cup {c}

http_async(w, c) ==
  /\ create_timeout(w)
  /\ tid' = [tid EXCEPT ![w] = next_timeout_id]
  /\ pio' = pio \cup {w}
  /\ \E id \in L_PTR_TO_UINT(w) : wid' = [wid EXCEPT ![w] = id]
  /\ of' = [of EXCEPT ![w] = c]
  /\ life' = [life EXCEPT ![w] = "on"]
  /\ last' = <<"async", w>>
  /\ UNCHANGED <<up, mishap>>

\* the destroy callback of the l_io of w: on_proto_destroyed
http_io_destroyed(w) ==
  /\ remove_timeout(tid[w])
  /\ pio' = pio \ {w}
  /\ UNCHANGED <<of, wid, up, mishap, tid, next_timeout_id>>

\* http_async_stop, with an id that names the l_io of w
http_async_stop(w) == http_io_destroyed(w) /\ last' = <<"stop", w>>

http_hung_up(w) == Due(w) /\ http_io_destroyed(w) /\ last' = Quiet

\* proto_poll, once: no transfer succeeds on a socket the cloud has ended
proto_poll(i) ==
  /\ i \in armed
  /\ armed' = armed \ {i}
  /\ \E o \in Outcome :
       /\ o.done => of[timeouts[i]] \in up
       /\ last' = IF http_fetch(o) = 0 THEN <<"told", timeouts[i]>> ELSE Quiet
  /\ UNCHANGED <<life, of, pio, wid, up, mishap, timeouts, tid, next_timeout_id>>

\* http_remove: the destroy callback of every timeout runs
http_remove ==
  life' = [w \in Watch |-> IF \E i \in TimeoutId : timeouts[i] = w
                           THEN IF life[w] = "on" THEN "off" ELSE "twice"
                           ELSE life[w]]
=============================================================================
