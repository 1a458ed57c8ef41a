------------------------------ MODULE WsWatch ------------------------------
(***************************************************************************)
(* src/proto-ws.c: watches over websockets.  A socket has one slot for a   *)
(* watch, in its per session data (psd->data), and every call of ws_async  *)
(* makes an l_io whose destroy callback empties that slot.  ws_close frees *)
(* the per session data, and the l_io keeps its pointer into it.           *)
(***************************************************************************)
EXTENDS ProtoIo

VARIABLES
  wstable,  \* sockets with per session data
  slot      \* psd->data: the watch of each socket, or NULL

wsVars == <<wstable, slot>>

WsInit ==
  /\ wstable = {}
  /\ slot = [c \in Conn |-> NULL]

ws_connect(c) ==
  /\ up' = up \cup {c}
  /\ wstable' = wstable \cup {c}

\* ws_async: the slot is taken whether it is empty or not; for a socket that is not
\* in the table the id is -EINVAL, which names no l_io
ws_async(w, c) ==
  /\ IF c \in wstable
     THEN /\ slot' = [slot EXCEPT ![c] = w]
          /\ pio' = pio \cup {w}
          /\ \E id \in L_PTR_TO_UINT(w) : wid' = [wid EXCEPT ![w] = id]
          /\ mishap' = mishap \cup IF slot[c] = NULL THEN {} ELSE {"second"}
     ELSE /\ wid' = [wid EXCEPT ![w] = NULL]
          /\ UNCHANGED <<slot, pio, mishap>>
  /\ of' = [of EXCEPT ![w] = c]
  /\ life' = [life EXCEPT ![w] = "on"]
  /\ last' = <<"async", w>>
  /\ UNCHANGED <<up, wstable>>

\* on_proto_destroyed of the l_io of w: whatever watch is in the slot by now, of
\* per session data that may be gone
on_proto_destroyed(w) ==
  /\ slot' = [slot EXCEPT ![of[w]] = NULL]
  /\ IF of[w] \notin wstable THEN WildCallback(w)
     ELSE IF slot[of[w]] = NULL THEN UNCHANGED life
     ELSE Callback(slot[of[w]])

ws_io_destroyed(w) ==
  /\ on_proto_destroyed(w)
  /\ pio' = pio \ {w}
  /\ UNCHANGED <<of, wid, up, mishap, wstable>>

\* ws_async_stop, with an id that names the l_io of w
ws_async_stop(w) == ws_io_destroyed(w) /\ last' = <<"stop", w>>

ws_hung_up(w) == Due(w) /\ ws_io_destroyed(w) /\ last' = Quiet

\* handle_cloud_response of a CONFIG_MSG that came in on c, in lws_service of any
\* request
ws_config(c) ==
  /\ c \in up \cap wstable
  /\ slot[c] # NULL
  /\ last' = <<"told", slot[c]>>
  /\ UNCHANGED <<life, of, pio, wid, up, mishap, wsVars>>

\* ws_close: the watch in the per session data is not looked at, and the connection
\* stays until the cloud ends it
ws_close(c) ==
  /\ wstable' = wstable \ {c}
  /\ mishap' = mishap \cup IF slot[c] = NULL THEN {} ELSE {"closed"}

\* ws_remove: the destroy callbacks are not called
ws_remove == UNCHANGED life
=============================================================================
