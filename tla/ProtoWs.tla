------------------------------ MODULE ProtoWs ------------------------------
(***************************************************************************)
(* src/proto-ws.c: requests to the cloud over websockets.  msg.c expects   *)
(* blocking calls; the driver gets them from an event library by serving   *)
(* events until a global flag says that the answer is there.  What belongs *)
(* to the request in progress (psd, got_response, connection_error, ready) *)
(* is global, whereas every served event may be one of another connection. *)
(*                                                                         *)
(* An attempt to connect number n makes the per session data n, the        *)
(* websocket n and, if it succeeds, the descriptor n.  A request is a      *)
(* serial number, and so is its answer; 0 is a ping.  Using freed memory,  *)
(* or a null pointer, sets fault and ends the behaviour.  Events are only  *)
(* served inside a call, or by the timer, which fires once.                *)
(***************************************************************************)
EXTENDS Naturals, Sequences

CONSTANTS
  MaxConnects,  \* bound: attempts to connect
  MaxRequests,  \* bound: requests
  Env           \* behaviours of the environment included: see EnvKinds

(***************************************************************************)
(* "refuse": the cloud may refuse a connection.  "write_error": lws may    *)
(* fail to write.  "server_closes": the cloud may end a connection.        *)
(* "hangup": a thing may go, and its connection be given up.  "rejects":   *)
(* the cloud may answer a sign in with notReady.  "pushes": the cloud may  *)
(* send a message nobody asked for.                                        *)
(***************************************************************************)
EnvKinds ==
  {"refuse", "write_error", "server_closes", "hangup", "rejects", "pushes"}

ASSUME WsAssumption ==
  /\ MaxConnects \in Nat \ {0}
  /\ MaxRequests \in Nat
  /\ Env \subseteq EnvKinds

Conn == 1 .. MaxConnects
Serial == 0 .. MaxRequests
Other == MaxRequests + 1   \* the text of a message that answers no request
Text == Serial \cup {Other}

NULL == 0   \* the null pointer, no answer, no request in progress

VARIABLES
  conn_index,  \* static int conn_index
  wsis,        \* the list of websockets
  wstable,     \* descriptor -> per session data
  index,       \* psd->index
  json,        \* psd->json: the last answer stored
  buffer,      \* psd->buffer: the message to be written
  alloc,       \* per session data not freed
  psd,         \* the global pointer
  flags,       \* connected, client_connection_error, connection_error, ready, got_response
  op,          \* the call of the driver that is serving events
  timer,       \* static struct l_timeout *timeout, still to fire
  want,        \* websockets with lws_callback_on_writable pending
  link,        \* state of each websocket
  inbox,       \* messages of the cloud on their way to each websocket
  serial,      \* requests made
  last,        \* the last request that returned
  fault,       \* see FaultKinds
  mishaps      \* history: see MishapKinds

tables == <<conn_index, wsis, wstable, index>>
vars == <<tables, json, buffer, alloc, psd, flags, op, timer, want, link, inbox,
          serial, last, fault, mishaps>>

Flag == {"connected", "client_connection_error", "connection_error", "ready",
         "got_response"}
\* "identity" and "signin" are the two requests of ws_signin: the second one is
\* its call of ws_device.  "device" is a call of ws_device by msg.c.
Kind == {"mknode", "rmnode", "device", "identity", "signin", "data", "update"}
Message == [type : {"identify", "ready", "notReady", "config", "other"}]
             \cup [type : {"ack"}, serial : Serial]
Idle == [kind |-> "idle"]
Timeout == [kind |-> "timeout"]
\* The use of session data that was freed ("dangling"), of a websocket that lws
\* freed ("freed") or of a null pointer.
FaultKinds == {"none", "dangling", "freed", "null"}
(***************************************************************************)
(* "refused": an attempt to connect ended without entering the list.       *)
(* "crossed": a message of one connection was written while a call served  *)
(* another one.  "pushed": a message nobody asked for was taken for an     *)
(* answer.                                                                 *)
(***************************************************************************)
MishapKinds == {"refused", "crossed", "pushed"}
Call == {Idle, Timeout} \cup [kind : Kind \cup {"connect", "close"}, sock : Conn, serial : Serial]

TypeOK ==
  /\ conn_index \in 0 .. MaxConnects
  /\ wsis \in Seq(Conn)
  /\ wstable \in [Conn -> Conn \cup {NULL}]
  /\ index \in [Conn -> 0 .. MaxConnects - 1]
  /\ json \in [Conn -> Text]
  /\ buffer \in [Conn -> [kind : Kind \cup {"ping"}, serial : Serial]]
  /\ alloc \subseteq Conn
  /\ psd \in Conn \cup {NULL}
  /\ flags \subseteq Flag
  /\ op \in Call
  /\ timer \in BOOLEAN
  /\ want \subseteq Conn
  /\ link \in [Conn -> {"none", "connecting", "open", "closed"}]
  /\ inbox \in [Conn -> Seq(Message)]
  /\ serial \in Serial
  /\ last \in [kind : Kind \cup {"none"}, ok : BOOLEAN, serial : Serial, got : Text]
  /\ fault \in FaultKinds
  /\ mishaps \subseteq MishapKinds

Ping == [kind |-> "ping", serial |-> 0]

Init ==
  /\ conn_index = 0
  /\ wsis = <<>>
  /\ wstable = [n \in Conn |-> NULL]
  /\ index = [n \in Conn |-> 0]
  /\ json = [n \in Conn |-> NULL]
  /\ buffer = [n \in Conn |-> Ping]
  /\ alloc = {}
  /\ psd = NULL
  /\ flags = {}
  /\ op = Idle
  /\ timer = TRUE
  /\ want = {}
  /\ link = [n \in Conn |-> "none"]
  /\ inbox = [n \in Conn |-> <<>>]
  /\ serial = 0
  /\ last = [kind |-> "none", ok |-> TRUE, serial |-> 0, got |-> 0]
  /\ fault = "none"
  /\ mishaps = {}

\* No fault so far: every action has it as a guard.
Running == fault = "none"

\* queue_at(wsis, p->index): the websocket, or NULL
QueueAt(p) == IF index[p] < Len(wsis) THEN wsis[index[p] + 1] ELSE NULL

\* lws_callback_on_writable: lws frees a websocket when its connection ends, and
\* wsis keeps the pointer
OnWritable(ws) ==
  \/ /\ ws = NULL
     /\ fault' = "null"
     /\ want' = want
  \/ /\ ws # NULL
     /\ link[ws] = "closed"
     /\ fault' = "freed"
     /\ want' = want
  \/ /\ ws # NULL
     /\ link[ws] # "closed"
     /\ want' = want \cup {ws}
     /\ fault' = fault

Deliver(n, m) == inbox' = [inbox EXCEPT ![n] = Append(@, m)]

-----------------------------------------------------------------------------
(* Connections.                                                            *)

ConnectFlags == {"connected", "client_connection_error", "connection_error",
                 "got_response"}

\* A connection may be lost, given up or refused, as k says.  Bound: none is after
\* a message nobody asked for was taken for an answer.
Loses(k) == k \in Env /\ "pushed" \notin mishaps

\* ws_connect up to its loop
WsConnect ==
  /\ Running
  /\ op = Idle
  /\ conn_index < MaxConnects
  /\ LET n == conn_index + 1 IN
       /\ psd' = n
       /\ alloc' = alloc \cup {n}
       /\ index' = [index EXCEPT ![n] = conn_index]
       /\ link' = [link EXCEPT ![n] = "connecting"]
       /\ op' = [kind |-> "connect", sock |-> n, serial |-> 0]
  /\ conn_index' = conn_index + 1
  /\ flags' = flags \ ConnectFlags
  /\ UNCHANGED <<wsis, wstable, json, buffer, timer, want, inbox, serial, last,
                 fault, mishaps>>

\* The cloud accepts and asks who it is, or refuses the connection.
CloudAnswersConnect(n) ==
  /\ Running
  /\ op # Idle
  /\ link[n] = "connecting"
  /\ \/ /\ link' = [link EXCEPT ![n] = "open"]
        /\ Deliver(n, [type |-> "identify"])
        /\ flags' = flags
     \/ /\ Loses("refuse")
        /\ link' = [link EXCEPT ![n] = "closed"]
        /\ inbox' = inbox
        /\ flags' = flags \cup {"client_connection_error"}
  /\ UNCHANGED <<tables, json, buffer, alloc, psd, op, timer, want, serial,
                 last, fault, mishaps>>

\* the rest of ws_connect: what goes into the table is the global psd
WsConnected ==
  /\ Running
  /\ op.kind = "connect"
  /\ flags \cap {"connected", "client_connection_error"} # {}
  /\ IF "client_connection_error" \in flags
     THEN /\ alloc' = alloc \ {psd}
          /\ mishaps' = mishaps \cup {"refused"}
          /\ UNCHANGED <<wsis, wstable, flags>>
     ELSE /\ wsis' = Append(wsis, op.sock)
          /\ wstable' = [wstable EXCEPT ![op.sock] = psd]
          /\ flags' = flags \ ConnectFlags
          /\ UNCHANGED <<alloc, mishaps>>
  /\ op' = Idle
  /\ UNCHANGED <<conn_index, index, json, buffer, psd, timer, want, link, inbox,
                 serial, last, fault>>

\* ws_close up to its round of events: the buffer will be written once more
WsClose(n) ==
  LET p == wstable[n] IN
  /\ Running
  /\ Loses("hangup")
  /\ op = Idle
  /\ p # NULL
  /\ psd' = p
  /\ OnWritable(QueueAt(p))
  /\ op' = [kind |-> "close", sock |-> n, serial |-> 0]
  /\ UNCHANGED <<tables, json, buffer, alloc, flags, timer, link, inbox, serial,
                 last, mishaps>>

\* Mutant: queue_remove takes the websocket out of the list.
WsClosed_Unlisted ==
  /\ Running
  /\ op.kind = "close"
  /\ wstable' = [wstable EXCEPT ![op.sock] = NULL]
  /\ wsis' = SelectSeq(wsis, LAMBDA n : n # op.sock)
  /\ alloc' = alloc \ {psd}
  /\ op' = Idle
  /\ UNCHANGED <<conn_index, index, json, buffer, psd, flags, timer, want, link,
                 inbox, serial, last, fault, mishaps>>

\* the rest of ws_close: queue_remove leaves the list alone, the session data is
\* freed, and psd still points to it
WsClosed ==
  /\ Running
  /\ op.kind = "close"
  /\ wstable' = [wstable EXCEPT ![op.sock] = NULL]
  /\ alloc' = alloc \ {psd}
  /\ op' = Idle
  /\ UNCHANGED <<conn_index, wsis, index, json, buffer, psd, flags, timer, want,
                 link, inbox, serial, last, fault, mishaps>>

\* The cloud ends a connection: LWS_CALLBACK_CLOSED does nothing, and lws frees the
\* websocket.
ServerCloses(n) ==
  /\ Running
  /\ op # Idle
  /\ Loses("server_closes")
  /\ link[n] = "open"
  /\ link' = [link EXCEPT ![n] = "closed"]
  /\ inbox' = [inbox EXCEPT ![n] = <<>>]
  /\ want' = want \ {n}
  /\ UNCHANGED <<tables, json, buffer, alloc, psd, flags, op, timer, serial, last,
                 fault, mishaps>>

-----------------------------------------------------------------------------
(* Requests.                                                               *)

\* the flags a call resets on its way out
Cleared(kind) ==
  {"connection_error"}
    \cup (IF kind \in {"identity", "signin"} THEN {"ready"} ELSE {})
    \cup (IF kind = "identity" THEN {} ELSE {"got_response"})

\* The common start of ws_mknode, ws_rmnode, ws_device, ws_signin, ws_data and
\* ws_update.  An index with nothing behind it is answered with -EBADF.
Start(kind, n) ==
  LET p == wstable[n] IN
  /\ p # NULL
  /\ psd' = p
  /\ serial' = serial + 1
  /\ IF QueueAt(p) = NULL
     THEN /\ last' = [kind |-> kind, ok |-> FALSE, serial |-> serial + 1, got |-> NULL]
          /\ flags' = flags \ Cleared(kind)
          /\ op' = Idle
          /\ UNCHANGED <<buffer, want, fault>>
     ELSE /\ buffer' = [buffer EXCEPT ![p] = [kind |-> kind, serial |-> serial + 1]]
          /\ OnWritable(QueueAt(p))
          /\ op' = [kind |-> kind, sock |-> n, serial |-> serial + 1]
          /\ UNCHANGED <<flags, last>>
  /\ UNCHANGED <<tables, json, alloc, timer, link, inbox, mishaps>>

\* A call of msg.c.  Signing in takes two requests.
Request(kind, n) ==
  /\ Running
  /\ op = Idle
  /\ kind # "signin"
  /\ serial + (IF kind = "identity" THEN 2 ELSE 1) <= MaxRequests
  /\ Start(kind, n)

\* Mutant: got_response is not reset.
Return_KeepsFlag(ok, got) ==
  /\ last' = [kind |-> op.kind, ok |-> ok, serial |-> op.serial, got |-> got]
  /\ flags' = flags
  /\ op' = Idle

\* What every call returns through
Return(ok, got) ==
  /\ last' = [kind |-> op.kind, ok |-> ok, serial |-> op.serial, got |-> got]
  /\ flags' = flags \ Cleared(op.kind)
  /\ op' = Idle

\* handle_response: reads psd->json, whatever it is an answer to
HandleResponse ==
  IF psd \notin alloc
  THEN fault' = "dangling" /\ UNCHANGED <<last, flags, op>>
  ELSE IF json[psd] = NULL
       THEN fault' = "null" /\ UNCHANGED <<last, flags, op>>
       ELSE fault' = fault /\ Return(TRUE, json[psd])

Answered == flags \cap {"got_response", "connection_error"} # {}

\* ws_mknode and ws_rmnode: the error of a failed connection is overwritten
NodeReturns ==
  /\ Running
  /\ op.kind \in {"mknode", "rmnode"}
  /\ Answered
  /\ HandleResponse
  /\ UNCHANGED <<tables, json, buffer, alloc, psd, timer, want, link, inbox,
                 serial, mishaps>>

\* ws_device, and so the second half of ws_signin
DeviceReturns ==
  /\ Running
  /\ op.kind \in {"device", "signin"}
  /\ Answered
  /\ IF "connection_error" \in flags THEN Return(FALSE, NULL) /\ fault' = fault
                                     ELSE HandleResponse
  /\ UNCHANGED <<tables, json, buffer, alloc, psd, timer, want, link, inbox,
                 serial, mishaps>>

\* ws_data answers 0 even when the connection failed
DataReturns ==
  /\ Running
  /\ op.kind = "data"
  /\ Answered
  /\ Return(TRUE, NULL)
  /\ UNCHANGED <<tables, json, buffer, alloc, psd, timer, want, link, inbox,
                 serial, fault, mishaps>>

\* ws_update serves events once and does not wait for an answer
UpdateReturns ==
  /\ Running
  /\ op.kind = "update"
  /\ Return("connection_error" \notin flags, NULL)
  /\ UNCHANGED <<tables, json, buffer, alloc, psd, timer, want, link, inbox,
                 serial, fault, mishaps>>

\* Mutant: only success ends the loop of ws_signin.
SigninReturns_ReadyOnly ==
  /\ Running
  /\ op.kind = "identity"
  /\ "ready" \in flags
  /\ Start("signin", op.sock)

\* ws_signin: refused, or followed by ws_device
SigninReturns ==
  /\ Running
  /\ op.kind = "identity"
  /\ \/ /\ "connection_error" \in flags
        /\ Return(FALSE, NULL)
        /\ UNCHANGED <<tables, json, buffer, alloc, psd, timer, want, link,
                       inbox, serial, fault, mishaps>>
     \/ /\ "connection_error" \notin flags
        /\ "ready" \in flags
        /\ Start("signin", op.sock)

\* timeout_ws: an l_timeout fires once, and nothing arms it again
TimeoutWs ==
  /\ Running
  /\ op = Idle
  /\ timer
  /\ timer' = FALSE
  /\ op' = Timeout
  /\ UNCHANGED <<tables, json, buffer, alloc, psd, flags, want, link, inbox,
                 serial, last, fault, mishaps>>

\* send_ping: whether the interval of ten seconds is over is left open
SendPing(n) ==
  LET p == wstable[n] IN
  /\ Running
  /\ op = Timeout
  /\ p # NULL
  /\ buffer' = [buffer EXCEPT ![p] = Ping]
  /\ OnWritable(QueueAt(p))
  /\ UNCHANGED <<tables, json, alloc, psd, flags, op, timer, link, inbox, serial,
                 last, mishaps>>

TimeoutReturns ==
  /\ Running
  /\ op = Timeout
  /\ op' = Idle
  /\ UNCHANGED <<tables, json, buffer, alloc, psd, flags, timer, want, link,
                 inbox, serial, last, fault, mishaps>>

-----------------------------------------------------------------------------
(* Events, served by whatever call is in lws_service.                      *)

\* what the cloud answers to a message it is sent
Answers(m) ==
  IF m.kind \in {"mknode", "rmnode", "device", "signin", "data"}
  THEN {<<[type |-> "ack", serial |-> m.serial]>>}
  ELSE IF m.kind = "identity"
  THEN {<<[type |-> "ready"]>>} \cup
       {<<[type |-> "notReady"]>> : e \in Env \cap {"rejects"}}
  ELSE IF m.kind = "update" THEN {<<[type |-> "config"]>>}
  ELSE {<<>>}

\* The cloud sends a message of its own.  Bounds: one is read in all, and only while
\* no connection has been lost or given up.
Push(n) ==
  /\ Running
  /\ op # Idle
  /\ "pushes" \in Env
  /\ "pushed" \notin mishaps
  /\ link[n] = "open"
  /\ alloc = 1 .. conn_index
  /\ \A k \in Conn : /\ link[k] # "closed"
                     /\ \A i \in DOMAIN inbox[k] : inbox[k][i].type # "other"
  /\ Deliver(n, [type |-> "other"])
  /\ UNCHANGED <<tables, json, buffer, alloc, psd, flags, op, timer, want, link,
                 serial, last, fault, mishaps>>

\* LWS_CALLBACK_CLIENT_WRITEABLE: touches psd, then makes it the session data of
\* the websocket that became writable, and writes its buffer.  After a failed write
\* the callback answers -1, and lws closes the connection.
Writeable(n) ==
  /\ Running
  /\ op # Idle
  /\ n \in want
  /\ link[n] = "open"
  /\ want' = want \ {n}
  /\ psd' = wstable[n]
  /\ mishaps' = mishaps \cup
                  {k \in {"crossed"} : op # Timeout /\ n # op.sock}
  /\ IF psd \notin alloc
     THEN fault' = "dangling" /\ UNCHANGED <<flags, inbox, link>>
     ELSE IF wstable[n] = NULL
     THEN fault' = "null" /\ UNCHANGED <<flags, inbox, link>>
     ELSE /\ fault' = fault
          /\ \/ /\ \E a \in Answers(buffer[wstable[n]]) :
                     inbox' = [inbox EXCEPT ![n] = @ \o a]
                /\ UNCHANGED <<flags, link>>
             \/ /\ Loses("write_error")
                /\ flags' = flags \cup {"connection_error"}
                /\ link' = [link EXCEPT ![n] = "closed"]
                /\ inbox' = [inbox EXCEPT ![n] = <<>>]
  /\ UNCHANGED <<tables, json, buffer, alloc, op, timer, serial, last>>

\* handle_cloud_response: whatever is not one of the four messages it knows is taken
\* for an answer and stored in psd, whichever connection it came from
HandleCloudResponse(n) ==
  LET m == Head(inbox[n]) IN
  /\ Running
  /\ op # Idle
  /\ inbox[n] # <<>>
  /\ inbox' = [inbox EXCEPT ![n] = Tail(@)]
  /\ \/ /\ m.type = "identify"
        /\ flags' = flags \cup {"connected"}
        /\ UNCHANGED <<json, fault>>
     \/ /\ m.type = "ready"
        /\ flags' = flags \cup {"ready"}
        /\ UNCHANGED <<json, fault>>
     \/ /\ m.type = "notReady"
        /\ flags' = flags \cup {"connection_error", "client_connection_error"}
        /\ UNCHANGED <<json, fault>>
     \/ /\ m.type = "config"   \* watch_cb of the connection
        /\ UNCHANGED <<flags, json, fault>>
     \/ /\ m.type \in {"ack", "other"}
        /\ IF psd \notin alloc
           THEN fault' = "dangling" /\ UNCHANGED <<flags, json>>
           ELSE /\ json' = [json EXCEPT ![psd] =
                              IF m.type = "ack" THEN m.serial ELSE Other]
                /\ flags' = flags \cup {"got_response"}
                /\ fault' = fault
  /\ mishaps' = mishaps \cup {k \in {"pushed"} : m.type = "other"}
  /\ UNCHANGED <<tables, buffer, alloc, psd, op, timer, want, link, serial, last>>

-----------------------------------------------------------------------------

Next ==
  \/ WsConnect \/ WsConnected \/ WsClosed \/ TimeoutWs \/ TimeoutReturns
  \/ \E n \in Conn :
       \/ CloudAnswersConnect(n) \/ WsClose(n) \/ ServerCloses(n)
       \/ SendPing(n) \/ Push(n) \/ Writeable(n) \/ HandleCloudResponse(n)
       \/ \E kind \in Kind : Request(kind, n)
  \/ NodeReturns \/ DeviceReturns \/ DataReturns \/ UpdateReturns
  \/ SigninReturns

\* The loops serve events until they end; the cloud answers a connect, and
\* whatever it is sent, as long as the connection lasts.
Fairness ==
  /\ WF_vars(WsConnected) /\ WF_vars(WsClosed) /\ WF_vars(TimeoutReturns)
  /\ WF_vars(NodeReturns) /\ WF_vars(DeviceReturns) /\ WF_vars(DataReturns)
  /\ WF_vars(UpdateReturns) /\ WF_vars(SigninReturns)
  /\ \A n \in Conn : /\ WF_vars(CloudAnswersConnect(n))
                     /\ WF_vars(Writeable(n))
                     /\ WF_vars(HandleCloudResponse(n))

Spec == Init /\ [][Next]_vars /\ Fairness

-----------------------------------------------------------------------------
(* Properties.                                                             *)

\* "The relationships are: fd <-> psd->index <-> wsi (wsis at psd->index)": the
\* session data found for a descriptor is its own, and leads to its websocket.
FdIndexWsi ==
  \A n \in Conn : wstable[n] # NULL => wstable[n] = n /\ QueueAt(wstable[n]) = n

\* The relationships hold, whichever connections end and in whatever order, as
\* long as none was refused and no write of one connection was served in a call
\* about another.
IndexFindsWs == mishaps \subseteq {"pushed"} => FdIndexWsi

\* The global flags and psd->json do not carry an answer from one request to the
\* next, nor from one connection to another: a request that hands out an answer
\* hands out its own.  This is said of connections none of which was refused, lost
\* or given up, while no write of another connection was served in a call and the
\* cloud sent nothing but answers and CONFIG messages: after any of these the code
\* may hand out another answer.
AnswerIsMine ==
  /\ mishaps \cap {"crossed", "pushed"} = {}
  /\ alloc = 1 .. conn_index
  /\ \A n \in Conn : link[n] # "closed"
  /\ last.ok
  /\ last.kind \in {"mknode", "rmnode", "device", "signin"}
  => last.got = last.serial

\* "keeps the context 'alive' until server responds or an error occurs": every
\* call of the driver returns, as long as the connection it uses lasts.
RequestReturns ==
  (op # Idle) ~>
    \/ op = Idle
    \/ fault # "none"
    \/ \E n \in Conn : link[n] = "closed" /\ op # Timeout
                         /\ n \in {op.sock, wstable[op.sock]}
=============================================================================
