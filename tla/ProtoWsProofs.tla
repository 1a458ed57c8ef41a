---------------------------- MODULE ProtoWsProofs ----------------------------
(***************************************************************************)
(* Proofs about ProtoWs, for any number of connections and requests and    *)
(* any environment.                                                        *)
(***************************************************************************)
EXTENDS ProtoWs, SequenceTheorems, TLAPS

\* The requests that wait for an acknowledgement.
Waits == {"mknode", "rmnode", "device", "signin", "data"}

-----------------------------------------------------------------------------
(* The invariants.                                                         *)

\* A second request of ws_signin is within the bound.
SerialInv == op.kind = "identity" => serial < MaxRequests

TypeInv == TypeOK /\ SerialInv

\* Descriptors, indexes and websockets while nothing was refused or crossed: they
\* are numbered alike, and a call that serves events has its own session in psd.
TablesInv ==
  /\ Len(wsis) = IF op.kind = "connect" THEN conn_index - 1 ELSE conn_index
  /\ \A i \in 1 .. Len(wsis) : wsis[i] = i
  /\ \A n \in 1 .. conn_index : index[n] = n - 1
  /\ \A n \in Conn : wstable[n] # NULL => wstable[n] = n /\ n <= Len(wsis)
  /\ op.kind = "connect" => op.sock = conn_index
  /\ op.kind \notin {"idle", "timeout", "connect"} => wstable[op.sock] # NULL
  /\ Running /\ op.kind \notin {"idle", "timeout"} => psd = op.sock
IndexInv == mishaps \subseteq {"pushed"} => TablesInv

\* The session data of a refused connection is gone.
RefusedInv ==
  "refused" \in mishaps /\ "crossed" \notin mishaps
    => \E k \in 1 .. conn_index : k \notin alloc

\* Nothing is known of a connection before the attempt to make it.
FreshInv ==
  /\ alloc \subseteq 1 .. conn_index
  /\ \A n \in Conn : n > conn_index => link[n] = "none"

\* No connection was refused, lost or given up, none written for another, and no
\* message nobody asked for was taken for an answer.
Clean ==
  /\ mishaps \cap {"crossed", "pushed"} = {}
  /\ alloc = 1 .. conn_index
  /\ \A n \in Conn : link[n] # "closed"

IsAnswer(m) == m.type \in {"ack", "ready", "notReady"}
NoAnswer(q) == \A i \in DOMAIN q : ~IsAnswer(q[i])

\* m answers the request of call o, and it is the only answer in q.
AnswersCall(o, m) ==
  IF o.kind = "identity" THEN m.type \in {"ready", "notReady"}
                         ELSE m.type = "ack" /\ m.serial = o.serial
OneAnswer(o, q) ==
  \E i \in DOMAIN q : /\ AnswersCall(o, q[i])
                      /\ \A j \in DOMAIN q : j # i => ~IsAnswer(q[j])

\* Nothing that is still to be written on n will be answered.
Quiet(n) == NoAnswer(inbox[n]) /\ (n \in want => buffer[n].kind \in {"ping", "update"})

Unflagged ==
  /\ "got_response" \notin flags /\ "connection_error" \notin flags
  /\ "ready" \in flags => op.kind = "signin"

\* The three states of a request: to be written, answered by the cloud, answered.
Asked(n) ==
  /\ n \in want /\ buffer[n].kind = op.kind /\ buffer[n].serial = op.serial
  /\ NoAnswer(inbox[n]) /\ Unflagged
Coming(n) == n \notin want /\ OneAnswer(op, inbox[n]) /\ Unflagged
Arrived(n) ==
  /\ n \notin want /\ NoAnswer(inbox[n])
  /\ IF op.kind = "identity"
     THEN "got_response" \notin flags /\ flags \cap {"ready", "connection_error"} # {}
     ELSE /\ "got_response" \in flags /\ "connection_error" \notin flags
          /\ json[n] = op.serial
          /\ "ready" \in flags => op.kind = "signin"

CallInv ==
  /\ op.kind \in {"idle", "timeout", "connect", "update"} => Unflagged /\ \A n \in Conn : Quiet(n)
  /\ op.kind \in Waits \cup {"identity"} =>
       /\ \A n \in Conn : n # op.sock => Quiet(n)
       /\ Asked(op.sock) \/ Coming(op.sock) \/ Arrived(op.sock)

LastInv ==
  last.ok /\ last.kind \in {"mknode", "rmnode", "device", "signin"}
    => last.got = last.serial

AnswerInv == Clean => LastInv /\ (Running => CallInv)

WsInv == TypeInv /\ IndexInv /\ RefusedInv /\ FreshInv /\ AnswerInv

-----------------------------------------------------------------------------
(* Types.                                                                  *)

Buffer == [kind : Kind \cup {"ping"}, serial : Serial]
Last == [kind : Kind \cup {"none"}, ok : BOOLEAN, serial : Serial, got : Text]
InOp == [kind : Kind \cup {"connect", "close"}, sock : Conn, serial : Serial]

\* Kinds of numbers.
LEMMA Numbers ==
  /\ MaxConnects \in Nat /\ MaxRequests \in Nat /\ 0 \in Serial
  /\ \A n \in Conn : n \in Nat /\ n # NULL
  /\ Conn \subseteq Nat /\ Serial \subseteq Nat
  /\ Serial \subseteq Text /\ Other \in Text /\ NULL \in Text
BY WsAssumption DEF Conn, Serial, Text, NULL

\* The driver is idle or in a call.
LEMMA OpIs ==
  ASSUME TypeOK
  PROVE  op = Idle \/ op = Timeout \/ op \in InOp
BY DEF TypeOK, Call, InOp

\* A call other than Idle names its connection and its request.
LEMMA OpFields ==
  ASSUME TypeOK, op.kind \notin {"idle", "timeout"}
  PROVE  /\ op \in InOp
         /\ op.kind \in Kind \cup {"connect", "close"}
         /\ op.sock \in Conn /\ op.serial \in Serial
<1>1. op # Idle /\ op # Timeout
  BY DEF Idle, Timeout
<1>2. op \in InOp
  BY <1>1, OpIs
<1> QED
  BY <1>2 DEF InOp

\* queue_at finds a websocket of the list or nothing.
LEMMA QueueAtType ==
  ASSUME TypeOK, NEW p \in Conn
  PROVE  QueueAt(p) \in Conn \cup {NULL}
<1>1. index[p] \in Nat /\ Len(wsis) \in Nat /\ wsis \in Seq(Conn)
  BY LenProperties DEF TypeOK
<1>2. CASE index[p] < Len(wsis)
  <2>1. index[p] + 1 \in 1 .. Len(wsis)
    BY <1>1, <1>2
  <2>2. wsis[index[p] + 1] \in Conn
    BY <1>1, <2>1, ElementOfSeq
  <2> QED
    BY <1>2, <2>2 DEF QueueAt
<1>3. CASE ~(index[p] < Len(wsis))
  BY <1>3 DEF QueueAt
<1> QED
  BY <1>2, <1>3

\* A websocket is to be written, or its use is a fault.
LEMMA OnWritableTypes ==
  ASSUME TypeOK, NEW ws \in Conn \cup {NULL}, OnWritable(ws)
  PROVE  /\ want' \subseteq Conn /\ fault' \in FaultKinds
         /\ Running' => want' = want \cup {ws} /\ ws # NULL
BY DEF OnWritable, TypeOK, FaultKinds, Running

\* What a call leaves behind on its way out.
LEMMA ReturnTypes ==
  ASSUME TypeOK, NEW ok \in BOOLEAN, NEW got \in Text, Return(ok, got),
         op.kind \in Kind
  PROVE  last' \in Last /\ flags' \subseteq Flag /\ op' = Idle
<1>1. op.serial \in Serial
  BY OpFields DEF Kind
<1>2. last' = [kind |-> op.kind, ok |-> ok, serial |-> op.serial, got |-> got]
  BY DEF Return
<1>3. last' \in Last
  BY <1>1, <1>2 DEF Last
<1> QED
  BY <1>3 DEF Return, TypeOK

\* The same through handle_response.
LEMMA HandleResponseTypes ==
  ASSUME TypeOK, HandleResponse, op.kind \in Kind
  PROVE  /\ last' \in Last /\ flags' \subseteq Flag
         /\ fault' \in FaultKinds
         /\ op' = op \/ op' = Idle
<1>1. CASE UNCHANGED <<last, flags, op>> /\ fault' \in {"dangling", "null"}
  BY <1>1 DEF TypeOK, Last, FaultKinds
<1>2. CASE psd \in alloc /\ fault' = fault /\ Return(TRUE, json[psd])
  <2>1. json[psd] \in Text
    BY <1>2 DEF TypeOK
  <2> QED
    BY <1>2, <2>1, ReturnTypes DEF TypeOK
<1> QED
  BY <1>1, <1>2 DEF HandleResponse

\* A call that begins keeps the types.
LEMMA StartTypes ==
  ASSUME TypeOK, NEW kind \in Kind, NEW n \in Conn, Start(kind, n),
         serial < MaxRequests
  PROVE  /\ TypeOK' /\ serial' = serial + 1
         /\ op' = Idle \/ op'.kind = kind
<1> DEFINE p == wstable[n]
<1>1. p \in Conn /\ serial + 1 \in Serial /\ NULL \in Serial
  <2>1. p # NULL /\ p \in Conn \cup {NULL}
    BY DEF Start, TypeOK
  <2>2. MaxRequests \in Nat /\ serial \in Serial
    BY WsAssumption DEF TypeOK
  <2>3. serial + 1 \in Serial /\ NULL \in Serial
    BY <2>2 DEF Serial, NULL
  <2> QED
    BY <2>1, <2>3
<1>2. psd' = p /\ serial' = serial + 1
      /\ UNCHANGED <<tables, json, alloc, timer, link, inbox, mishaps>>
  BY DEF Start
<1>3. CASE QueueAt(p) = NULL
  <2>1. last' = [kind |-> kind, ok |-> FALSE, serial |-> serial + 1, got |-> NULL]
    BY <1>3 DEF Start
  <2>2. last' \in Last
    BY <1>1, <2>1, Numbers DEF Last
  <2>3. flags' \subseteq Flag /\ op' = Idle /\ UNCHANGED <<buffer, want, fault>>
    BY <1>3 DEF Start, TypeOK
  <2> QED
    BY <1>1, <1>2, <2>2, <2>3 DEF TypeOK, tables, Call, Last
<1>4. CASE QueueAt(p) # NULL
  <2>1. QueueAt(p) \in Conn
    BY <1>1, <1>4, QueueAtType
  <2>2. /\ buffer' = [buffer EXCEPT ![p] = [kind |-> kind, serial |-> serial + 1]]
        /\ OnWritable(QueueAt(p))
        /\ op' = [kind |-> kind, sock |-> n, serial |-> serial + 1]
        /\ UNCHANGED <<flags, last>>
    BY <1>4 DEF Start
  <2>3. [kind |-> kind, serial |-> serial + 1] \in Buffer
    BY <1>1 DEF Buffer
  <2>4. buffer' \in [Conn -> Buffer]
    BY <1>1, <2>2, <2>3 DEF TypeOK, Buffer
  <2>5. op' \in InOp /\ op'.kind = kind
    BY <1>1, <2>2 DEF InOp
  <2>6. want' \subseteq Conn /\ fault' \in FaultKinds
    BY <2>1, <2>2, OnWritableTypes
  <2> QED
    BY <1>1, <1>2, <2>2, <2>4, <2>5, <2>6 DEF TypeOK, tables, Call, Buffer, InOp
<1> QED
  BY <1>3, <1>4

\* The first state has its types.
LEMMA InitTypeInv == Init => TypeInv
<1> SUFFICES ASSUME Init PROVE TypeInv
  OBVIOUS
<1>0. 0 \in Serial /\ NULL \in Serial /\ 0 \in 0 .. MaxConnects - 1
  BY WsAssumption DEF Serial, NULL
<1>1. Ping \in Buffer
  BY <1>0 DEF Ping, Buffer
<1>2. last \in Last
  BY <1>0, Numbers DEF Init, Last
<1>3. wsis \in Seq(Conn) /\ \A n \in Conn : inbox[n] \in Seq(Message)
  BY EmptySeq DEF Init
<1>4. inbox \in [Conn -> Seq(Message)]
  BY <1>3 DEF Init
<1>5. conn_index \in 0 .. MaxConnects /\ serial \in Serial
  BY <1>0, WsAssumption DEF Init
<1>6. op \in Call /\ SerialInv
  BY DEF Init, Call, Idle, SerialInv
<1>7. buffer \in [Conn -> Buffer]
  BY <1>1 DEF Init
<1>8. json \in [Conn -> Text] /\ fault \in FaultKinds
  BY Numbers DEF Init, FaultKinds
<1> QED
  BY <1>0, <1>2, <1>3, <1>4, <1>5, <1>6, <1>7, <1>8 DEF Init, TypeInv, TypeOK, Last, Buffer

\* The messages of the cloud.
LEMMA CloudMessages ==
  /\ \A t \in {"identify", "ready", "notReady", "config", "other"} : [type |-> t] \in Message
  /\ \A r \in Serial : [type |-> "ack", serial |-> r] \in Message
BY DEF Message

\* What the cloud answers to a written buffer: nothing to a ping, and otherwise one
\* message, which says what was asked.
LEMMA AnswersTo ==
  ASSUME NEW b \in Buffer, NEW q \in Seq(Message), NEW a \in Answers(b)
  PROVE  /\ q \o a \in Seq(Message)
         /\ b.kind = "ping" => q \o a = q
         /\ b.kind # "ping" => \E m \in Message :
              /\ q \o a = Append(q, m)
              /\ b.kind = "update" => m.type = "config"
              /\ b.kind = "identity" => m.type \in {"ready", "notReady"}
              /\ b.kind \in Waits => m.type = "ack" /\ m.serial = b.serial
<1>0. b.kind \in Kind \cup {"ping"} /\ b.serial \in Serial
  BY DEF Buffer
<1>1. CASE b.kind = "ping"
  <2>1. a = <<>>
    BY <1>1 DEF Answers
  <2> QED
    BY <1>1, <2>1, ConcatEmptySeq
<1>2. CASE b.kind # "ping"
  <2>1. PICK m \in Message :
          /\ a = <<m>>
          /\ b.kind = "update" => m.type = "config"
          /\ b.kind = "identity" => m.type \in {"ready", "notReady"}
          /\ b.kind \in Waits => m.type = "ack" /\ m.serial = b.serial
    <3>1. CASE b.kind \in Waits
      <4> DEFINE m == [type |-> "ack", serial |-> b.serial]
      <4>1. a = <<m>>
        BY <3>1 DEF Answers, Waits
      <4>2. m \in Message /\ m.type = "ack" /\ m.serial = b.serial
        BY <1>0, CloudMessages
      <4> HIDE DEF m
      <4> QED
        BY <3>1, <4>1, <4>2 DEF Waits
    <3>2. CASE b.kind = "identity"
      <4>1. \E t \in {"ready", "notReady"} : a = <<[type |-> t]>>
        BY <3>2 DEF Answers
      <4>2. PICK m \in Message : a = <<m>> /\ m.type \in {"ready", "notReady"}
        BY <4>1, CloudMessages
      <4> QED
        BY <3>2, <4>2 DEF Waits
    <3>3. CASE b.kind = "update"
      <4> DEFINE m == [type |-> "config"]
      <4>1. a = <<m>>
        BY <3>3 DEF Answers
      <4>2. m \in Message /\ m.type = "config"
        BY CloudMessages
      <4> HIDE DEF m
      <4> QED
        BY <3>3, <4>1, <4>2 DEF Waits
    <3> QED
      BY <1>0, <1>2, <3>1, <3>2, <3>3 DEF Kind, Waits
  <2>2. q \o a = Append(q, m)
    BY <2>1, AppendIsConcat
  <2>3. q \o a \in Seq(Message)
    BY <2>2, AppendProperties
  <2> QED
    BY <1>2, <2>1, <2>2, <2>3
<1> QED
  BY <1>1, <1>2

\* Every step keeps the types and the bound on requests.
LEMMA NextTypeInv ==
  ASSUME TypeInv, [Next]_vars
  PROVE  TypeInv'
<1>0. TypeOK /\ SerialInv
  BY DEF TypeInv
<1>1. CASE UNCHANGED vars
  BY <1>0, <1>1 DEF vars, tables, TypeInv, TypeOK, SerialInv
<1>2. CASE WsConnect
  <2> DEFINE n == conn_index + 1
  <2>1. n \in Conn /\ conn_index \in 0 .. MaxConnects - 1
    BY <1>0, <1>2, WsAssumption DEF WsConnect, TypeOK, Conn
  <2>2. op' = [kind |-> "connect", sock |-> n, serial |-> 0] /\ op' \in InOp
    BY <1>2, <2>1, Numbers DEF WsConnect, InOp
  <2>3. /\ conn_index' \in 0 .. MaxConnects /\ psd' \in Conn
        /\ alloc' \subseteq Conn /\ flags' \subseteq Flag
    BY <1>0, <1>2, <2>1, WsAssumption DEF WsConnect, TypeOK
  <2>4. index' \in [Conn -> 0 .. MaxConnects - 1]
    BY <1>0, <1>2, <2>1 DEF WsConnect, TypeOK
  <2>5. link' \in [Conn -> {"none", "connecting", "open", "closed"}]
    BY <1>0, <1>2, <2>1 DEF WsConnect, TypeOK
  <2>6. UNCHANGED <<wsis, wstable, json, buffer, timer, want, inbox, serial, last, fault,
                    mishaps>>
    BY <1>2 DEF WsConnect
  <2>7. op'.kind # "identity"
    BY <2>2
  <2> QED
    BY <1>0, <2>2, <2>3, <2>4, <2>5, <2>6, <2>7 DEF TypeInv, TypeOK, SerialInv, Call, InOp
<1>3. ASSUME NEW n \in Conn, CloudAnswersConnect(n) PROVE TypeInv'
  <2>1. inbox' \in [Conn -> Seq(Message)]
    <3>1. [type |-> "identify"] \in Message
      BY CloudMessages
    <3>2. Append(inbox[n], [type |-> "identify"]) \in Seq(Message)
      BY <1>0, <3>1, AppendProperties DEF TypeOK
    <3> QED
      BY <1>0, <1>3, <3>2 DEF CloudAnswersConnect, Deliver, TypeOK
  <2>2. flags' \subseteq Flag
    BY <1>0, <1>3 DEF CloudAnswersConnect, TypeOK, Flag
  <2>3. link' \in [Conn -> {"none", "connecting", "open", "closed"}]
    BY <1>0, <1>3 DEF CloudAnswersConnect, TypeOK
  <2> QED
    BY <1>0, <1>3, <2>1, <2>2, <2>3
       DEF CloudAnswersConnect, tables, TypeInv, TypeOK, SerialInv
<1>4. CASE WsConnected
  <2>1. op.sock \in Conn
    BY <1>0, <1>4, OpFields DEF WsConnected
  <2>2. wsis' \in Seq(Conn)
    <3>1. Append(wsis, op.sock) \in Seq(Conn)
      BY <1>0, <2>1, AppendProperties DEF TypeOK
    <3> QED
      BY <1>0, <1>4, <3>1 DEF WsConnected, TypeOK
  <2>3. /\ wstable' \in [Conn -> Conn \cup {NULL}]
        /\ flags' \subseteq Flag /\ alloc' \subseteq Conn
    BY <1>0, <1>4, <2>1 DEF WsConnected, TypeOK
  <2>4. op' \in Call /\ op'.kind # "identity"
    BY <1>4 DEF WsConnected, Call, Idle
  <2>5. mishaps' \subseteq MishapKinds
    BY <1>0, <1>4 DEF WsConnected, TypeOK, MishapKinds
  <2> QED
    BY <1>0, <1>4, <2>2, <2>3, <2>4, <2>5 DEF WsConnected, TypeInv, TypeOK, SerialInv
<1>5. ASSUME NEW n \in Conn, WsClose(n) PROVE TypeInv'
  <2> DEFINE p == wstable[n]
  <2>1. p \in Conn /\ QueueAt(p) \in Conn \cup {NULL}
    BY <1>0, <1>5, QueueAtType DEF WsClose, TypeOK
  <2>2. psd' \in Conn /\ want' \subseteq Conn /\ fault' \in FaultKinds
    BY <1>0, <1>5, <2>1, OnWritableTypes DEF WsClose
  <2>3. op' \in Call /\ op'.kind # "identity"
    <3> DEFINE o == [kind |-> "close", sock |-> n, serial |-> 0]
    <3>1. o \in InOp /\ o.kind # "identity"
      BY Numbers DEF InOp
    <3>2. op' \in {Idle, o}
      BY <1>5 DEF WsClose
    <3>3. Idle.kind # "identity"
      BY DEF Idle
    <3> HIDE DEF o
    <3> QED
      BY <3>1, <3>2, <3>3 DEF Call, InOp
  <2> QED
    BY <1>0, <1>5, <2>2, <2>3 DEF WsClose, tables, TypeInv, TypeOK, SerialInv
<1>6. CASE WsClosed
  <2>1. op.sock \in Conn
    BY <1>0, <1>6, OpFields DEF WsClosed
  <2>2. wstable' \in [Conn -> Conn \cup {NULL}] /\ alloc' \subseteq Conn
    BY <1>0, <1>6, <2>1 DEF WsClosed, TypeOK
  <2>3. op' \in Call /\ op'.kind # "identity"
    BY <1>6 DEF WsClosed, Call, Idle
  <2> QED
    BY <1>0, <1>6, <2>2, <2>3 DEF WsClosed, TypeInv, TypeOK, SerialInv
<1>7. ASSUME NEW n \in Conn, ServerCloses(n) PROVE TypeInv'
  <2>1. inbox' \in [Conn -> Seq(Message)]
    BY <1>0, <1>7, EmptySeq DEF ServerCloses, TypeOK
  <2> QED
    BY <1>0, <1>7, <2>1 DEF ServerCloses, tables, TypeInv, TypeOK, SerialInv
<1>8. ASSUME NEW n \in Conn, SendPing(n) PROVE TypeInv'
  <2> DEFINE p == wstable[n]
  <2>1. p \in Conn /\ QueueAt(p) \in Conn \cup {NULL}
    BY <1>0, <1>8, QueueAtType DEF SendPing, TypeOK
  <2>2. Ping \in Buffer
    BY Numbers DEF Ping, Buffer
  <2>3. buffer' \in [Conn -> Buffer]
    BY <1>0, <1>8, <2>1, <2>2 DEF SendPing, TypeOK, Buffer
  <2>4. want' \subseteq Conn /\ fault' \in FaultKinds
    BY <1>0, <1>8, <2>1, OnWritableTypes DEF SendPing
  <2> QED
    BY <1>0, <1>8, <2>3, <2>4 DEF SendPing, tables, TypeInv, TypeOK, SerialInv, Buffer
<1>9. ASSUME NEW n \in Conn, Writeable(n) PROVE TypeInv'
  <2>1. inbox' \in [Conn -> Seq(Message)]
    <3>1. CASE inbox' = inbox
      BY <1>0, <3>1 DEF TypeOK
    <3>2. CASE inbox' = [inbox EXCEPT ![n] = <<>>]
      BY <1>0, <3>2, EmptySeq DEF TypeOK
    <3>3. ASSUME wstable[n] # NULL, NEW a \in Answers(buffer[wstable[n]]),
                 inbox' = [inbox EXCEPT ![n] = @ \o a]
          PROVE  inbox' \in [Conn -> Seq(Message)]
      <4>1. buffer[wstable[n]] \in Buffer /\ inbox[n] \in Seq(Message)
        BY <1>0, <3>3 DEF TypeOK, Buffer
      <4>2. inbox[n] \o a \in Seq(Message)
        BY <3>3, <4>1, AnswersTo
      <4> QED
        BY <1>0, <3>3, <4>2 DEF TypeOK
    <3> QED
      BY <1>9, <3>1, <3>2, <3>3 DEF Writeable
  <2>2. flags' \subseteq Flag /\ fault' \in FaultKinds
    BY <1>0, <1>9 DEF Writeable, TypeOK, Flag, FaultKinds
  <2>3. /\ link' \in [Conn -> {"none", "connecting", "open", "closed"}]
        /\ want' \subseteq Conn /\ psd' \in Conn \cup {NULL}
    BY <1>0, <1>9 DEF Writeable, TypeOK
  <2>4. mishaps' \subseteq MishapKinds
    BY <1>0, <1>9 DEF Writeable, TypeOK, MishapKinds
  <2> QED
    BY <1>0, <1>9, <2>1, <2>2, <2>3, <2>4 DEF Writeable, tables, TypeInv, TypeOK, SerialInv
<1>10. ASSUME NEW n \in Conn, HandleCloudResponse(n) PROVE TypeInv'
  <2>1. Head(inbox[n]) \in Message /\ Tail(inbox[n]) \in Seq(Message)
    BY <1>0, <1>10, HeadTailProperties DEF HandleCloudResponse, TypeOK
  <2>2. inbox' \in [Conn -> Seq(Message)]
    BY <1>0, <1>10, <2>1 DEF HandleCloudResponse, TypeOK
  <2>3. flags' \subseteq Flag /\ fault' \in FaultKinds
    BY <1>0, <1>10 DEF HandleCloudResponse, TypeOK, Flag, FaultKinds
  <2>4. json' \in [Conn -> Text]
    <3>1. PICK m \in Message : m = Head(inbox[n])
      BY <2>1
    <3>2. (IF m.type = "ack" THEN m.serial ELSE Other) \in Text
      BY Numbers DEF Message
    <3>3. json' = json \/ \E t \in Text : json' = [json EXCEPT ![psd] = t]
      BY <1>10, <3>1, <3>2 DEF HandleCloudResponse
    <3> QED
      BY <1>0, <3>3 DEF TypeOK
  <2>5. mishaps' \subseteq MishapKinds
    BY <1>0, <1>10 DEF HandleCloudResponse, TypeOK, MishapKinds
  <2> QED
    BY <1>0, <1>10, <2>2, <2>3, <2>4, <2>5
       DEF HandleCloudResponse, tables, TypeInv, TypeOK, SerialInv
<1>11. ASSUME NEW n \in Conn, NEW kind \in Kind, Request(kind, n) PROVE TypeInv'
  <2>1. /\ serial \in Nat /\ serial < MaxRequests
        /\ kind = "identity" => serial + 1 < MaxRequests
    BY <1>0, <1>11, Numbers DEF Request, TypeOK
  <2>2. TypeOK' /\ serial' = serial + 1 /\ (op' = Idle \/ op'.kind = kind)
    BY <1>0, <1>11, <2>1, StartTypes DEF Request
  <2>3. Idle.kind # "identity"
    BY DEF Idle
  <2> QED
    BY <2>1, <2>2, <2>3 DEF TypeInv, SerialInv
<1>12. CASE NodeReturns
  <2>1. op.kind \in Kind /\ op.kind # "identity"
    BY <1>12 DEF NodeReturns, Kind
  <2>2. /\ last' \in Last /\ flags' \subseteq Flag
        /\ fault' \in FaultKinds /\ (op' = op \/ op' = Idle)
    BY <1>0, <1>12, <2>1, HandleResponseTypes DEF NodeReturns
  <2>3. op' \in Call /\ op'.kind # "identity"
    BY <1>0, <2>1, <2>2 DEF TypeOK, Call, Idle
  <2> QED
    BY <1>0, <1>12, <2>2, <2>3 DEF NodeReturns, tables, TypeInv, TypeOK, SerialInv, Last
<1>13. CASE DeviceReturns
  <2>1. op.kind \in Kind /\ op.kind # "identity" /\ NULL \in Text
    BY <1>13, Numbers DEF DeviceReturns, Kind, NULL
  <2>2. /\ last' \in Last /\ flags' \subseteq Flag
        /\ fault' \in FaultKinds /\ (op' = op \/ op' = Idle)
    <3>1. CASE Return(FALSE, NULL) /\ fault' = fault
      BY <1>0, <2>1, <3>1, ReturnTypes DEF TypeOK
    <3>2. CASE HandleResponse
      BY <1>0, <2>1, <3>2, HandleResponseTypes
    <3> QED
      BY <1>13, <3>1, <3>2 DEF DeviceReturns
  <2>3. op' \in Call /\ op'.kind # "identity"
    BY <1>0, <2>1, <2>2 DEF TypeOK, Call, Idle
  <2> QED
    BY <1>0, <1>13, <2>2, <2>3 DEF DeviceReturns, tables, TypeInv, TypeOK, SerialInv, Last
<1>14. CASE DataReturns \/ UpdateReturns
  <2>1. op.kind \in Kind /\ NULL \in Text
    BY <1>14, Numbers DEF DataReturns, UpdateReturns, Kind, NULL
  <2>2. PICK ok \in BOOLEAN : Return(ok, NULL)
    BY <1>14 DEF DataReturns, UpdateReturns
  <2>3. last' \in Last /\ flags' \subseteq Flag /\ op' = Idle
    BY <1>0, <2>1, <2>2, ReturnTypes
  <2>4. op' \in Call /\ op'.kind # "identity"
    BY <2>3 DEF Call, Idle
  <2> QED
    BY <1>0, <1>14, <2>3, <2>4
       DEF DataReturns, UpdateReturns, tables, TypeInv, TypeOK, SerialInv, Last
<1>15. CASE SigninReturns
  <2>1. /\ op.kind \in Kind /\ op.sock \in Conn /\ NULL \in Text
        /\ serial < MaxRequests /\ "signin" \in Kind
    BY <1>0, <1>15, Numbers, OpFields DEF SigninReturns, Kind, NULL, SerialInv
  <2>2. CASE Start("signin", op.sock)
    <3>1. TypeOK' /\ (op' = Idle \/ op'.kind = "signin")
      BY <1>0, <2>1, <2>2, StartTypes
    <3> QED
      BY <3>1 DEF TypeInv, SerialInv, Idle
  <2>3. CASE /\ Return(FALSE, NULL)
             /\ UNCHANGED <<tables, json, buffer, alloc, psd, timer, want, link, inbox,
                            serial, fault, mishaps>>
    <3>1. last' \in Last /\ flags' \subseteq Flag /\ op' = Idle
      BY <1>0, <2>1, <2>3, ReturnTypes
    <3>2. op' \in Call /\ op'.kind # "identity"
      BY <3>1 DEF Call, Idle
    <3> QED
      BY <1>0, <2>3, <3>1, <3>2 DEF tables, TypeInv, TypeOK, SerialInv, Last
  <2> QED
    BY <1>15, <2>2, <2>3 DEF SigninReturns
<1>16. CASE TimeoutWs \/ TimeoutReturns
  <2>1. op' \in {Idle, Timeout} /\ timer' \in BOOLEAN
    BY <1>0, <1>16 DEF TimeoutWs, TimeoutReturns, TypeOK
  <2>2. op' \in Call /\ op'.kind # "identity"
    BY <2>1 DEF Call, Idle, Timeout
  <2>3. UNCHANGED <<tables, json, buffer, alloc, psd, flags, want, link, inbox, serial,
                    last, fault, mishaps>>
    BY <1>16 DEF TimeoutWs, TimeoutReturns
  <2> QED
    BY <1>0, <2>1, <2>2, <2>3 DEF tables, TypeInv, TypeOK, SerialInv
<1>17. ASSUME NEW n \in Conn, Push(n) PROVE TypeInv'
  <2>1. PICK m \in Message : m = [type |-> "other"]
    BY CloudMessages
  <2>2. inbox' = [inbox EXCEPT ![n] = Append(@, m)]
    BY <1>17, <2>1 DEF Push, Deliver
  <2>3. Append(inbox[n], m) \in Seq(Message)
    BY <1>0, AppendProperties DEF TypeOK
  <2>4. inbox' \in [Conn -> Seq(Message)]
    BY <1>0, <2>2, <2>3 DEF TypeOK
  <2> QED
    BY <1>0, <1>17, <2>4 DEF Push, tables, TypeInv, TypeOK, SerialInv
<1> QED
  BY <1>1, <1>2, <1>3, <1>4, <1>5, <1>6, <1>7, <1>8, <1>9, <1>10, <1>11, <1>12,
     <1>13, <1>14, <1>15, <1>16, <1>17 DEF Next

-----------------------------------------------------------------------------
(* Descriptors, indexes and websockets.                                    *)

\* A descriptor in use leads to its own websocket.
LEMMA FindsOwn ==
  ASSUME TypeOK, TablesInv, NEW n \in Conn, wstable[n] # NULL
  PROVE  wstable[n] = n /\ QueueAt(n) = n /\ n \in 1 .. conn_index
<1>1. /\ wstable[n] = n /\ n <= Len(wsis) /\ n \in Nat \ {0} /\ Len(wsis) \in Nat
      /\ conn_index \in Nat /\ Len(wsis) <= conn_index
  <2>1. wstable[n] = n /\ n <= Len(wsis)
    BY DEF TablesInv
  <2>2. Len(wsis) \in Nat /\ conn_index \in Nat /\ n \in Nat /\ n # 0
    BY LenProperties, Numbers DEF TypeOK, NULL
  <2>3. Len(wsis) <= conn_index
    BY <2>2 DEF TablesInv
  <2> QED
    BY <2>1, <2>2, <2>3
<1>2. n \in 1 .. conn_index /\ n \in 1 .. Len(wsis)
  BY <1>1
<1>3. index[n] = n - 1 /\ wsis[n] = n
  BY <1>2 DEF TablesInv
<1>4. index[n] < Len(wsis) /\ index[n] + 1 = n
  BY <1>1, <1>3
<1> QED
  BY <1>1, <1>2, <1>3, <1>4 DEF QueueAt

\* A call that begins, on a connection whose tables are in order.
LEMMA StartFinds ==
  ASSUME TypeOK, TablesInv, NEW kind \in Kind, NEW n \in Conn, Start(kind, n)
  PROVE  /\ wstable[n] = n /\ psd' = n
         /\ buffer' = [buffer EXCEPT ![n] = [kind |-> kind, serial |-> serial + 1]]
         /\ Running' => want' = want \cup {n}
         /\ op' = [kind |-> kind, sock |-> n, serial |-> serial + 1]
         /\ UNCHANGED <<flags, last>>
<1>1. wstable[n] = n /\ QueueAt(n) = n /\ n # NULL
  BY FindsOwn, Numbers DEF Start
<1>2. OnWritable(n)
  BY <1>1 DEF Start
<1>3. Running' => want' = want \cup {n}
  BY <1>2, OnWritableTypes
<1> QED
  BY <1>1, <1>3 DEF Start

\* Steps that leave the tables alone.
LEMMA TablesKept ==
  ASSUME TablesInv, UNCHANGED tables,
         op'.kind = "connect" <=> op.kind = "connect",
         op'.kind = "connect" => op'.sock = conn_index,
         op'.kind \notin {"idle", "timeout", "connect"} => wstable[op'.sock] # NULL,
         Running' /\ op'.kind \notin {"idle", "timeout"} => psd' = op'.sock
  PROVE  TablesInv'
BY DEF TablesInv, tables

\* Every step keeps the tables in order, or is a mishap.
LEMMA NextIndexInv ==
  ASSUME TypeInv, IndexInv, [Next]_vars
  PROVE  IndexInv'
<1>0. TypeOK
  BY DEF TypeInv
<1>a. mishaps \subseteq mishaps'
  BY DEF Next, vars, WsConnect, WsConnected, WsClosed, CloudAnswersConnect, WsClose,
         ServerCloses, SendPing, Writeable, HandleCloudResponse, Request, Start,
         NodeReturns, DeviceReturns, DataReturns, UpdateReturns, SigninReturns,
         TimeoutWs, TimeoutReturns, Push
<1> SUFFICES ASSUME mishaps' \subseteq {"pushed"} PROVE TablesInv'
  BY DEF IndexInv
<1>b. TablesInv
  BY <1>a DEF IndexInv
<1>1. CASE UNCHANGED <<tables, op, psd, fault>>
  BY <1>b, <1>1, TablesKept DEF TablesInv, Running
<1>2. CASE op' = Idle /\ UNCHANGED tables /\ op.kind # "connect"
  <2>1. op'.kind = "idle"
    BY <1>2 DEF Idle
  <2> QED
    BY <1>b, <1>2, <2>1, TablesKept
<1>3. CASE WsConnect
  <2> DEFINE n == conn_index + 1
  <2>1. /\ op' = [kind |-> "connect", sock |-> n, serial |-> 0]
        /\ psd' = n /\ conn_index' = n /\ wsis' = wsis /\ wstable' = wstable
        /\ index' = [index EXCEPT ![n] = conn_index]
        /\ op.kind = "idle"
    BY <1>3 DEF WsConnect, Idle
  <2>2. n \in Conn /\ conn_index \in Nat
    BY <1>0, <1>3, WsAssumption DEF WsConnect, TypeOK, Conn
  <2>3. op'.kind = "connect" /\ op'.sock = n
    BY <2>1
  <2>4. \A k \in 1 .. n : index'[k] = k - 1
    <3>1. n \in Nat /\ n = conn_index + 1
      BY <2>2
    <3>2. index'[n] = n - 1 /\ \A k \in Conn : k # n => index'[k] = index[k]
      BY <1>0, <2>1, <2>2 DEF TypeOK
    <3>3. \A k \in 1 .. conn_index : index[k] = k - 1
      BY <1>b DEF TablesInv
    <3>4. \A k \in 1 .. n : k \in Conn
      BY <2>2, WsAssumption DEF Conn
    <3> QED
      BY <2>2, <3>1, <3>2, <3>3, <3>4
  <2>5. Len(wsis) = n - 1
    BY <1>b, <2>1, <2>2 DEF TablesInv
  <2> QED
    BY <1>b, <2>1, <2>3, <2>4, <2>5 DEF TablesInv
<1>4. CASE WsConnected
  <2>1. /\ "client_connection_error" \notin flags
        /\ wsis' = Append(wsis, op.sock)
        /\ wstable' = [wstable EXCEPT ![op.sock] = psd]
        /\ op' = Idle /\ UNCHANGED <<conn_index, index>> /\ op.kind = "connect"
        /\ Running
    BY <1>4 DEF WsConnected
  <2>2. op.sock = conn_index /\ psd = op.sock /\ Len(wsis) = conn_index - 1
    BY <1>b, <2>1 DEF TablesInv, Idle
  <2>3. op.sock \in Conn /\ wsis \in Seq(Conn) /\ conn_index \in Nat \ {0}
    BY <1>0, <2>1, <2>2, OpFields, Numbers DEF TypeOK, NULL
  <2>4. /\ Len(wsis') = conn_index
        /\ \A i \in 1 .. Len(wsis) : wsis'[i] = wsis[i]
        /\ wsis'[conn_index] = conn_index
    BY <2>1, <2>2, <2>3, AppendProperties
  <2>5. \A i \in 1 .. Len(wsis') : wsis'[i] = i
    BY <1>b, <2>2, <2>3, <2>4 DEF TablesInv
  <2>6. \A n \in Conn : wstable'[n] # NULL => wstable'[n] = n /\ n <= Len(wsis')
    <3> SUFFICES ASSUME NEW n \in Conn, wstable'[n] # NULL
                 PROVE  wstable'[n] = n /\ n <= Len(wsis')
      OBVIOUS
    <3>1. CASE n = conn_index
      BY <1>0, <2>1, <2>2, <2>3, <2>4, <3>1 DEF TypeOK
    <3>2. CASE n # conn_index
      <4>1. wstable'[n] = wstable[n]
        BY <1>0, <2>1, <2>2, <3>2 DEF TypeOK
      <4>2. n <= Len(wsis) /\ wstable[n] = n
        BY <1>b, <4>1 DEF TablesInv
      <4>3. n <= Len(wsis')
        BY <2>2, <2>3, <2>4, <4>2, Numbers
      <4> QED
        BY <4>1, <4>2, <4>3
    <3> QED
      BY <3>1, <3>2
  <2>7. op'.kind = "idle"
    BY <2>1 DEF Idle
  <2> QED
    BY <1>b, <2>1, <2>4, <2>5, <2>6, <2>7 DEF TablesInv
<1>5. ASSUME NEW n \in Conn, WsClose(n) PROVE TablesInv'
  <2>1. /\ wstable[n] = n /\ QueueAt(n) = n /\ n # NULL
    BY <1>0, <1>5, <1>b, FindsOwn, Numbers DEF WsClose
  <2>2. /\ op' = [kind |-> "close", sock |-> n, serial |-> 0] /\ psd' = n
        /\ UNCHANGED tables /\ op.kind = "idle"
    BY <1>5, <2>1 DEF WsClose, Idle
  <2>3. op'.kind = "close" /\ op'.sock = n
    BY <2>2
  <2> QED
    BY <1>b, <2>1, <2>2, <2>3, TablesKept
<1>6. CASE WsClosed
  <2>1. /\ wstable' = [wstable EXCEPT ![op.sock] = NULL]
        /\ op' = Idle /\ UNCHANGED <<conn_index, wsis, index>> /\ op.kind = "close"
    BY <1>6 DEF WsClosed
  <2>2. \A n \in Conn : wstable'[n] # NULL => wstable'[n] = wstable[n]
    BY <1>0, <2>1 DEF TypeOK
  <2>3. op'.kind = "idle"
    BY <2>1 DEF Idle
  <2> QED
    BY <1>b, <2>1, <2>2, <2>3 DEF TablesInv
<1>7. ASSUME NEW n \in Conn, NEW kind \in Kind, Start(kind, n), op.kind # "connect"
      PROVE  TablesInv'
  <2>1. /\ wstable[n] = n /\ psd' = n
        /\ op' = [kind |-> kind, sock |-> n, serial |-> serial + 1]
    BY <1>0, <1>b, <1>7, StartFinds
  <2>2. op'.kind = kind /\ op'.sock = n /\ kind # "connect" /\ n # NULL
    BY <2>1, Numbers DEF Kind
  <2>3. UNCHANGED tables
    BY <1>7 DEF Start
  <2> QED
    BY <1>b, <1>7, <2>1, <2>2, <2>3, TablesKept
<1>8. ASSUME NEW n \in Conn, Writeable(n) PROVE TablesInv'
  <2>1. /\ UNCHANGED <<tables, op>> /\ psd' = wstable[n] /\ fault = "none"
        /\ fault' = "none" => wstable[n] # NULL
        /\ op.kind # "timeout" => n = op.sock
    BY <1>8 DEF Writeable, Running, Timeout
  <2>2. Running' /\ op'.kind \notin {"idle", "timeout"} => psd' = op'.sock
    BY <1>b, <2>1 DEF Running, TablesInv
  <2> QED
    BY <1>b, <2>1, <2>2, TablesKept DEF TablesInv
<1>9. ASSUME NEW n \in Conn, SendPing(n) PROVE TablesInv'
  <2>1. UNCHANGED <<tables, op, psd>> /\ op.kind = "timeout"
    BY <1>9 DEF SendPing, Timeout
  <2> QED
    BY <1>b, <2>1, TablesKept DEF TablesInv
<1>10. ASSUME NEW n \in Conn, HandleCloudResponse(n) PROVE TablesInv'
  <2>1. UNCHANGED <<tables, op, psd>> /\ Running
    BY <1>10 DEF HandleCloudResponse
  <2> QED
    BY <1>b, <2>1, TablesKept DEF TablesInv
<1>11. ASSUME NEW n \in Conn, CloudAnswersConnect(n) \/ ServerCloses(n) PROVE TablesInv'
  BY <1>1, <1>11 DEF CloudAnswersConnect, ServerCloses
<1>12. ASSUME HandleResponse, UNCHANGED <<tables, psd>>, op.kind # "connect", Running
       PROVE  TablesInv'
  <2>1. op' = op \/ op' = Idle
    BY <1>12 DEF HandleResponse, Return
  <2>2. CASE op' = op
    BY <1>b, <1>12, <2>2, TablesKept DEF TablesInv
  <2> QED
    BY <1>2, <1>12, <2>1, <2>2
<1>13. CASE NodeReturns
  BY <1>12, <1>13 DEF NodeReturns
<1>14. CASE DeviceReturns
  <2>1. op.kind # "connect" /\ UNCHANGED <<tables, psd>> /\ Running
        /\ (HandleResponse \/ op' = Idle)
    BY <1>14 DEF DeviceReturns, Return
  <2> QED
    BY <1>2, <1>12, <2>1
<1>15. CASE DataReturns \/ UpdateReturns
  <2>1. op.kind # "connect" /\ UNCHANGED tables /\ op' = Idle
    BY <1>15 DEF DataReturns, UpdateReturns, Return
  <2> QED
    BY <1>2, <2>1
<1>16. CASE SigninReturns
  <2>1. op.kind # "connect" /\ op.sock \in Conn /\ "signin" \in Kind
    BY <1>0, <1>16, OpFields DEF SigninReturns, Kind
  <2>2. (op' = Idle /\ UNCHANGED tables) \/ Start("signin", op.sock)
    BY <1>16 DEF SigninReturns, Return
  <2> QED
    BY <1>2, <1>7, <2>1, <2>2
<1>17. ASSUME NEW n \in Conn, NEW kind \in Kind, Request(kind, n) PROVE TablesInv'
  <2>1. Start(kind, n) /\ op.kind # "connect"
    BY <1>17 DEF Request, Idle
  <2> QED
    BY <1>7, <2>1
<1>18. CASE UNCHANGED vars
  BY <1>1, <1>18 DEF vars
<1>19. CASE TimeoutWs \/ TimeoutReturns
  <2>1. /\ UNCHANGED <<tables, psd>> /\ op.kind \in {"idle", "timeout"}
        /\ op'.kind \in {"idle", "timeout"}
    BY <1>19 DEF TimeoutWs, TimeoutReturns, Idle, Timeout
  <2> QED
    BY <1>b, <2>1, TablesKept
<1>20. ASSUME NEW n \in Conn, Push(n) PROVE TablesInv'
  BY <1>1, <1>20 DEF Push
<1> QED
  BY <1>3, <1>4, <1>5, <1>6, <1>8, <1>9, <1>10, <1>11, <1>13, <1>14, <1>15, <1>16,
     <1>17, <1>18, <1>19, <1>20 DEF Next

\* "fd <-> psd->index <-> wsi" holds for every number of connections, whichever end
\* and in whatever order, as long as none was refused and none was written for
\* another.
THEOREM IndexFindsItsWebsocket == Spec => []IndexFindsWs
<1> DEFINE Inv == TypeInv /\ IndexInv
<1>1. Init => Inv
  <2> SUFFICES ASSUME Init PROVE TablesInv
    BY InitTypeInv DEF IndexInv
  <2>1. op.kind = "idle" /\ op = Idle /\ Len(wsis) = 0
    BY DEF Init, Idle
  <2> QED
    BY <2>1 DEF Init, TablesInv
<1>2. Inv /\ [Next]_vars => Inv'
  BY NextTypeInv, NextIndexInv
<1>3. Inv => IndexFindsWs
  <2> SUFFICES ASSUME Inv, mishaps \subseteq {"pushed"}, NEW n \in Conn, wstable[n] # NULL
               PROVE  wstable[n] = n /\ QueueAt(wstable[n]) = n
    BY DEF IndexFindsWs, FdIndexWsi
  <2>1. wstable[n] = n /\ QueueAt(n) = n
    BY FindsOwn DEF TypeInv, IndexInv
  <2> QED
    BY <2>1
<1> QED
  BY <1>1, <1>2, <1>3, PTL DEF Spec

-----------------------------------------------------------------------------
(* What is clean now was clean before.                                     *)

\* A connection that was not tried stays unknown.
LEMMA NextFreshInv ==
  ASSUME TypeInv, FreshInv, [Next]_vars
  PROVE  FreshInv'
<1>0. TypeOK /\ conn_index \in Nat
  BY DEF TypeInv, TypeOK
<1>1. CASE WsConnect
  <2> DEFINE n == conn_index + 1
  <2>1. /\ conn_index' = n /\ alloc' = alloc \cup {n}
        /\ link' = [link EXCEPT ![n] = "connecting"]
    BY <1>1 DEF WsConnect
  <2>2. alloc' \subseteq 1 .. conn_index'
    BY <1>0, <2>1 DEF FreshInv
  <2>3. \A k \in Conn : k > conn_index' => k > conn_index /\ link'[k] = link[k]
    BY <1>0, <2>1, Numbers DEF TypeOK
  <2> QED
    BY <2>2, <2>3 DEF FreshInv
<1>2. CASE alloc' \subseteq alloc /\ UNCHANGED <<conn_index, link>>
  BY <1>2 DEF FreshInv
<1>3. ASSUME NEW n \in Conn, link[n] # "none", UNCHANGED <<conn_index, alloc>>,
             link' = link \/ \E s : link' = [link EXCEPT ![n] = s]
      PROVE  FreshInv'
  BY <1>0, <1>3 DEF FreshInv, TypeOK
<1>4. ASSUME NEW n \in Conn,
             CloudAnswersConnect(n) \/ ServerCloses(n) \/ Writeable(n)
      PROVE  FreshInv'
  <2>1. /\ link[n] # "none" /\ UNCHANGED <<conn_index, alloc>>
        /\ link' = link \/ \E s : link' = [link EXCEPT ![n] = s]
    BY <1>4 DEF CloudAnswersConnect, ServerCloses, Writeable, tables
  <2> QED
    BY <1>3, <2>1
<1>5. CASE WsConnected \/ WsClosed
  BY <1>2, <1>5 DEF WsConnected, WsClosed
<1>6. ASSUME NEW n \in Conn, WsClose(n) \/ SendPing(n) \/ HandleCloudResponse(n) \/ Push(n)
      PROVE  FreshInv'
  BY <1>2, <1>6 DEF WsClose, SendPing, HandleCloudResponse, Push, tables
<1>7. ASSUME NEW n \in Conn, NEW kind \in Kind, Request(kind, n) PROVE FreshInv'
  BY <1>2, <1>7 DEF Request, Start, tables
<1>8. CASE NodeReturns \/ DeviceReturns \/ DataReturns \/ UpdateReturns \/ SigninReturns
  BY <1>2, <1>8 DEF NodeReturns, DeviceReturns, DataReturns, UpdateReturns,
                    SigninReturns, Start, tables
<1>9. CASE UNCHANGED vars \/ TimeoutWs \/ TimeoutReturns
  BY <1>2, <1>9 DEF vars, TimeoutWs, TimeoutReturns, tables
<1> QED
  BY <1>1, <1>4, <1>5, <1>6, <1>7, <1>8, <1>9 DEF Next

\* Session data is made with a new number and never again.
LEMMA AllocGrows ==
  ASSUME TypeInv, [Next]_vars
  PROVE  /\ conn_index <= conn_index'
         /\ alloc' \subseteq alloc \/ (WsConnect /\ alloc' = alloc \cup {conn_index + 1})
         /\ mishaps' \subseteq mishaps \cup {"crossed", "pushed"}
              \/ (WsConnected /\ alloc' = alloc \ {psd} /\ mishaps' = mishaps \cup {"refused"})
         /\ mishaps \subseteq mishaps'
<1>0. conn_index \in Nat
  BY DEF TypeInv, TypeOK
<1>1. CASE WsConnect
  BY <1>0, <1>1 DEF WsConnect
<1>2. CASE WsConnected
  BY <1>0, <1>2 DEF WsConnected
<1>3. CASE /\ conn_index' = conn_index /\ alloc' \subseteq alloc
           /\ mishaps \subseteq mishaps' /\ mishaps' \subseteq mishaps \cup {"crossed", "pushed"}
  BY <1>0, <1>3
<1>4. CASE WsClosed
  BY <1>3, <1>4 DEF WsClosed
<1>5. ASSUME NEW n \in Conn,
             \/ CloudAnswersConnect(n) \/ WsClose(n) \/ ServerCloses(n)
             \/ SendPing(n) \/ Push(n)
      PROVE  conn_index' = conn_index /\ alloc' = alloc /\ mishaps' = mishaps
  BY <1>5 DEF CloudAnswersConnect, WsClose, ServerCloses, SendPing, Push, tables
<1>6. ASSUME NEW n \in Conn, Writeable(n) \/ HandleCloudResponse(n)
      PROVE  /\ conn_index' = conn_index /\ alloc' = alloc
             /\ mishaps \subseteq mishaps' /\ mishaps' \subseteq mishaps \cup {"crossed", "pushed"}
  BY <1>6 DEF Writeable, HandleCloudResponse, tables
<1>7. ASSUME NEW n \in Conn, NEW kind \in Kind, Request(kind, n)
      PROVE  conn_index' = conn_index /\ alloc' = alloc /\ mishaps' = mishaps
  BY <1>7 DEF Request, Start, tables
<1>8. CASE NodeReturns \/ DeviceReturns \/ DataReturns \/ UpdateReturns \/ SigninReturns
  BY <1>3, <1>8 DEF NodeReturns, DeviceReturns, DataReturns, UpdateReturns,
                    SigninReturns, Start, tables
<1>9. CASE UNCHANGED vars \/ TimeoutWs \/ TimeoutReturns
  BY <1>3, <1>9 DEF vars, TimeoutWs, TimeoutReturns, tables
<1> QED
  BY <1>1, <1>2, <1>3, <1>4, <1>5, <1>6, <1>7, <1>8, <1>9 DEF Next

\* A refusal takes the session data of the connection in progress away for good.
LEMMA NextRefusedInv ==
  ASSUME TypeInv, IndexInv, RefusedInv, [Next]_vars
  PROVE  RefusedInv'
<1> SUFFICES ASSUME "refused" \in mishaps', "crossed" \notin mishaps'
             PROVE  \E k \in 1 .. conn_index' : k \notin alloc'
  BY DEF RefusedInv
<1>0. /\ TypeOK /\ conn_index \in Nat /\ conn_index' \in Nat
      /\ "crossed" \notin mishaps /\ mishaps \subseteq {"refused", "crossed", "pushed"}
      /\ conn_index <= conn_index'
  <2>1. TypeOK /\ TypeOK'
    BY NextTypeInv DEF TypeInv
  <2>2. conn_index \in Nat /\ conn_index' \in Nat /\ mishaps \subseteq MishapKinds
    BY <2>1 DEF TypeOK
  <2>3. mishaps \subseteq mishaps' /\ conn_index <= conn_index'
    BY AllocGrows
  <2> QED
    BY <2>1, <2>2, <2>3 DEF MishapKinds
<1>1. CASE "refused" \in mishaps
  <2>1. PICK k \in 1 .. conn_index : k \notin alloc
    BY <1>0, <1>1 DEF RefusedInv
  <2>2. k \in 1 .. conn_index' /\ k # conn_index + 1
    BY <1>0
  <2>3. k \notin alloc'
    BY <2>1, <2>2, AllocGrows
  <2> QED
    BY <2>2, <2>3
<1>2. CASE "refused" \notin mishaps
  <2>1. mishaps \subseteq {"pushed"} /\ WsConnected /\ alloc' = alloc \ {psd}
    BY <1>0, <1>2, AllocGrows
  <2>2. TablesInv /\ op.kind = "connect" /\ Running /\ conn_index' = conn_index
    BY <2>1 DEF IndexInv, WsConnected
  <2>3. psd = op.sock /\ op.sock = conn_index
    BY <2>2 DEF TablesInv, Idle
  <2>4. conn_index \in Conn
    BY <1>0, <2>2, <2>3, OpFields
  <2>5. psd \in 1 .. conn_index' /\ psd \notin alloc'
    BY <1>0, <2>1, <2>2, <2>3, <2>4, Numbers DEF NULL
  <2> QED
    BY <2>5
<1> QED
  BY <1>1, <1>2

\* While everything is clean the tables are in order.
LEMMA CleanTables ==
  ASSUME TypeInv, IndexInv, RefusedInv, Clean
  PROVE  mishaps = {} /\ TablesInv
<1>1. "refused" \notin mishaps
  BY DEF RefusedInv, Clean
<1>2. mishaps = {}
  BY <1>1 DEF Clean, TypeInv, TypeOK, MishapKinds
<1> QED
  BY <1>2 DEF IndexInv

\* A lost connection is never found again.
LEMMA ClosedStays ==
  ASSUME TypeInv, FreshInv, [Next]_vars, NEW n \in Conn, link[n] = "closed"
  PROVE  link'[n] = "closed"
<1>0. TypeOK /\ conn_index \in Nat /\ n \in Nat /\ ~(n > conn_index)
  <2>1. TypeOK /\ n \in Nat
    BY Numbers DEF TypeInv
  <2>2. conn_index \in Nat
    BY <2>1 DEF TypeOK
  <2> QED
    BY <2>1, <2>2 DEF FreshInv
<1>1. CASE WsConnect
  <2>1. n # conn_index + 1
    BY <1>0
  <2> QED
    BY <1>0, <1>1, <2>1 DEF WsConnect, TypeOK
<1>2. ASSUME NEW k \in Conn,
             CloudAnswersConnect(k) \/ ServerCloses(k) \/ Writeable(k)
      PROVE  link'[n] = "closed"
  <2>1. /\ link[k] # "closed"
        /\ link' = link \/ \E s : link' = [link EXCEPT ![k] = s]
    BY <1>2 DEF CloudAnswersConnect, ServerCloses, Writeable
  <2> QED
    BY <1>0, <2>1 DEF TypeOK
<1>3. CASE WsConnected \/ WsClosed
  BY <1>3 DEF WsConnected, WsClosed
<1>4. ASSUME NEW k \in Conn, WsClose(k) \/ SendPing(k) \/ HandleCloudResponse(k) \/ Push(k)
      PROVE  link' = link
  BY <1>4 DEF WsClose, SendPing, HandleCloudResponse, Push
<1>5. ASSUME NEW k \in Conn, NEW kind \in Kind, Request(kind, k) PROVE link' = link
  BY <1>5 DEF Request, Start
<1>6. CASE NodeReturns \/ DeviceReturns \/ DataReturns \/ UpdateReturns \/ SigninReturns
  BY <1>6 DEF NodeReturns, DeviceReturns, DataReturns, UpdateReturns, SigninReturns, Start
<1>7. CASE UNCHANGED vars \/ TimeoutWs \/ TimeoutReturns
  BY <1>7 DEF vars, TimeoutWs, TimeoutReturns
<1> QED
  BY <1>1, <1>2, <1>3, <1>4, <1>5, <1>6, <1>7 DEF Next

\* A step never makes clean what was not.
LEMMA CleanBefore ==
  ASSUME TypeInv, FreshInv, [Next]_vars, Clean'
  PROVE  Clean
<1>0. conn_index \in Nat /\ alloc \subseteq 1 .. conn_index
  BY DEF TypeInv, TypeOK, FreshInv
<1>1. mishaps \cap {"crossed", "pushed"} = {}
  BY AllocGrows DEF Clean
<1>2. \A n \in Conn : link[n] # "closed"
  BY ClosedStays DEF Clean
<1>3. alloc = 1 .. conn_index
  <2>1. CASE WsConnect
    <3>1. conn_index' = conn_index + 1 /\ alloc' = alloc \cup {conn_index + 1}
      BY <2>1 DEF WsConnect
    <3>2. alloc \cup {conn_index + 1} = 1 .. conn_index + 1
      BY <3>1 DEF Clean
    <3>3. ASSUME NEW x \in 1 .. conn_index PROVE x \in alloc
      <4>1. x \in 1 .. conn_index + 1 /\ x # conn_index + 1
        BY <1>0
      <4> QED
        BY <3>2, <4>1
    <3> QED
      BY <1>0, <3>3
  <2>2. CASE alloc' \subseteq alloc /\ conn_index <= conn_index'
    <3>1. conn_index' \in Nat
      BY NextTypeInv DEF TypeInv, TypeOK
    <3>2. 1 .. conn_index \subseteq 1 .. conn_index'
      BY <1>0, <2>2, <3>1
    <3>3. 1 .. conn_index' = alloc'
      BY DEF Clean
    <3>4. 1 .. conn_index \subseteq alloc
      BY <2>2, <3>2, <3>3
    <3> QED
      BY <1>0, <3>4
  <2> QED
    BY <2>1, <2>2, AllocGrows
<1> QED
  BY <1>1, <1>2, <1>3 DEF Clean

-----------------------------------------------------------------------------
(* Requests and their answers.                                             *)

\* An answer is expected of one call, and recognised as an answer.
LEMMA AppendAnswer ==
  ASSUME NEW q \in Seq(Message), NEW m \in Message, NEW o
  PROVE  /\ NoAnswer(q) /\ ~IsAnswer(m) => NoAnswer(Append(q, m))
         /\ NoAnswer(q) /\ AnswersCall(o, m) => OneAnswer(o, Append(q, m))
         /\ OneAnswer(o, q) /\ ~IsAnswer(m) => OneAnswer(o, Append(q, m))
<1>1. /\ DOMAIN Append(q, m) = 1 .. Len(q) + 1 /\ DOMAIN q = 1 .. Len(q)
      /\ Len(q) \in Nat
      /\ \A i \in 1 .. Len(q) : Append(q, m)[i] = q[i]
      /\ Append(q, m)[Len(q) + 1] = m
  BY AppendProperties, LenProperties
<1>2. ASSUME NoAnswer(q), ~IsAnswer(m) PROVE NoAnswer(Append(q, m))
  BY <1>1, <1>2 DEF NoAnswer
<1>3. ASSUME NoAnswer(q), AnswersCall(o, m) PROVE OneAnswer(o, Append(q, m))
  <2>1. Len(q) + 1 \in DOMAIN Append(q, m) /\ AnswersCall(o, Append(q, m)[Len(q) + 1])
    BY <1>1, <1>3
  <2>2. \A j \in DOMAIN Append(q, m) : j # Len(q) + 1 => ~IsAnswer(Append(q, m)[j])
    BY <1>1, <1>3 DEF NoAnswer
  <2> QED
    BY <2>1, <2>2 DEF OneAnswer
<1>4. ASSUME OneAnswer(o, q), ~IsAnswer(m) PROVE OneAnswer(o, Append(q, m))
  <2>1. PICK i \in DOMAIN q : /\ AnswersCall(o, q[i])
                              /\ \A j \in DOMAIN q : j # i => ~IsAnswer(q[j])
    BY <1>4 DEF OneAnswer
  <2>2. i \in DOMAIN Append(q, m) /\ AnswersCall(o, Append(q, m)[i])
    <3>1. i \in DOMAIN Append(q, m) /\ Append(q, m)[i] = q[i]
      BY <1>1
    <3> QED
      BY <2>1, <3>1
  <2>3. \A j \in DOMAIN Append(q, m) : j # i => ~IsAnswer(Append(q, m)[j])
    BY <1>1, <1>4, <2>1
  <2> QED
    BY <2>2, <2>3 DEF OneAnswer
<1> QED
  BY <1>2, <1>3, <1>4

\* Reading the head of an inbox.
LEMMA TailAnswer ==
  ASSUME NEW q \in Seq(Message), q # <<>>, NEW o
  PROVE  /\ NoAnswer(q) => NoAnswer(Tail(q)) /\ ~IsAnswer(Head(q))
         /\ OneAnswer(o, q) /\ ~IsAnswer(Head(q)) => OneAnswer(o, Tail(q))
         /\ OneAnswer(o, q) /\ IsAnswer(Head(q)) => AnswersCall(o, Head(q)) /\ NoAnswer(Tail(q))
<1>1. /\ Len(q) \in Nat \ {0} /\ DOMAIN q = 1 .. Len(q)
      /\ Head(q) = q[1]
      /\ DOMAIN Tail(q) = 1 .. Len(q) - 1
      /\ \A i \in 1 .. Len(q) - 1 : Tail(q)[i] = q[i + 1]
  BY HeadTailProperties, EmptySeq, LenProperties
<1>2. ASSUME NoAnswer(q) PROVE NoAnswer(Tail(q)) /\ ~IsAnswer(Head(q))
  BY <1>1, <1>2 DEF NoAnswer
<1>a. \A m : AnswersCall(o, m) => IsAnswer(m)
  BY DEF AnswersCall, IsAnswer
<1>3. ASSUME OneAnswer(o, q)
      PROVE  /\ ~IsAnswer(Head(q)) => OneAnswer(o, Tail(q))
             /\ IsAnswer(Head(q)) => AnswersCall(o, Head(q)) /\ NoAnswer(Tail(q))
  <2>1. PICK i \in DOMAIN q : /\ AnswersCall(o, q[i])
                              /\ \A j \in DOMAIN q : j # i => ~IsAnswer(q[j])
    BY <1>3 DEF OneAnswer
  <2>2. CASE i = 1
    <3>1. AnswersCall(o, Head(q)) /\ IsAnswer(Head(q))
      BY <1>1, <1>a, <2>1, <2>2
    <3>2. NoAnswer(Tail(q))
      BY <1>1, <2>1, <2>2 DEF NoAnswer
    <3> QED
      BY <3>1, <3>2
  <2>3. CASE i # 1
    <3>1. ~IsAnswer(Head(q))
      BY <1>1, <2>1, <2>3
    <3>2. i - 1 \in DOMAIN Tail(q) /\ Tail(q)[i - 1] = q[i]
      BY <1>1, <2>3
    <3>3. ASSUME NEW j \in DOMAIN Tail(q), j # i - 1 PROVE ~IsAnswer(Tail(q)[j])
      <4>1. j + 1 \in DOMAIN q /\ j + 1 # i /\ Tail(q)[j] = q[j + 1]
        BY <1>1, <3>3
      <4> QED
        BY <2>1, <4>1
    <3>4. OneAnswer(o, Tail(q))
      BY <2>1, <3>2, <3>3 DEF OneAnswer
    <3> QED
      BY <3>1, <3>4
  <2> QED
    BY <2>2, <2>3
<1> QED
  BY <1>2, <1>3

\* The kinds of a call, when nothing, something that is not answered, or a request
\* is in progress.
LEMMA KindsOfCall ==
  ASSUME TypeOK
  PROVE  \/ op.kind \in {"idle", "timeout", "connect", "update"}
         \/ op.kind \in Waits \cup {"identity"}
         \/ op.kind = "close"
<1>1. CASE op = Idle \/ op = Timeout
  BY <1>1 DEF Idle, Timeout
<1>2. CASE op \in InOp
  BY <1>2 DEF InOp, Kind, Waits
<1> QED
  BY <1>1, <1>2, OpIs

\* A request that has been answered returns, and the driver is at rest.
LEMMA ReturnRests ==
  ASSUME TypeOK, CallInv, NEW ok, NEW got, Return(ok, got),
         UNCHANGED <<buffer, want, inbox>>,
         \/ op.kind = "update"
         \/ op.kind \in Waits \cup {"identity"} /\ Arrived(op.sock)
  PROVE  CallInv'
<1>1. flags' = flags \ Cleared(op.kind) /\ op' = Idle /\ op'.kind = "idle"
  BY DEF Return, Idle
<1>2. \A n \in Conn : Quiet(n)
  BY DEF CallInv, Arrived, Quiet, Waits
<1>3. \A n \in Conn : Quiet(n)'
  BY <1>2 DEF Quiet
<1>4. Unflagged'
  <2>1. CASE op.kind = "update"
    BY <1>1, <2>1 DEF CallInv, Unflagged
  <2>2. CASE op.kind = "identity" /\ Arrived(op.sock)
    BY <1>1, <2>2 DEF Arrived, Unflagged, Cleared
  <2>3. CASE op.kind \in Waits /\ Arrived(op.sock)
    BY <1>1, <2>3 DEF Arrived, Unflagged, Cleared, Waits
  <2> QED
    BY <2>1, <2>2, <2>3
<1> QED
  BY <1>1, <1>3, <1>4 DEF CallInv, Waits

\* A request that begins is written next, on a driver at rest or one that has been
\* told that it is signed in.
LEMMA StartAsks ==
  ASSUME TypeOK, TablesInv, CallInv, NEW kind \in Kind, NEW n \in Conn, Start(kind, n),
         \/ op = Idle /\ kind # "signin"
         \/ /\ op.kind = "identity" /\ Arrived(n) /\ n = op.sock
            /\ kind = "signin" /\ "connection_error" \notin flags
  PROVE  last' = last /\ (Running' => CallInv')
<1>0. last' = last
  BY StartFinds
<1> SUFFICES ASSUME Running' PROVE CallInv'
  BY <1>0
<1>1. /\ buffer' = [buffer EXCEPT ![n] = [kind |-> kind, serial |-> serial + 1]]
      /\ want' = want \cup {n}
      /\ op' = [kind |-> kind, sock |-> n, serial |-> serial + 1]
      /\ UNCHANGED <<flags, last>>
  BY StartFinds
<1>2. inbox' = inbox
  BY DEF Start
<1>3. op'.kind = kind /\ op'.sock = n /\ op'.serial = serial + 1
  BY <1>1
<1>4. buffer'[n].kind = kind /\ buffer'[n].serial = serial + 1 /\ n \in want'
  BY <1>1 DEF TypeOK
<1>5. \A k \in Conn : k # n => buffer'[k] = buffer[k] /\ (k \in want' => k \in want)
  BY <1>1 DEF TypeOK
<1>6. \A k \in Conn : Quiet(k)
  <2>1. Idle.kind = "idle"
    BY DEF Idle
  <2> QED
    BY <2>1 DEF CallInv, Arrived, Quiet, Waits
<1>7. \A k \in Conn : k # n => Quiet(k)'
  BY <1>2, <1>5, <1>6 DEF Quiet
<1>8. Unflagged'
  <2>1. Idle.kind = "idle"
    BY DEF Idle
  <2>2. CASE op = Idle
    BY <1>1, <2>1, <2>2 DEF CallInv, Unflagged
  <2>3. CASE op.kind = "identity" /\ Arrived(n) /\ kind = "signin"
             /\ "connection_error" \notin flags
    BY <1>1, <1>3, <2>3 DEF Arrived, Unflagged
  <2> QED
    BY <2>2, <2>3
<1>9. NoAnswer(inbox'[n])
  BY <1>2, <1>6 DEF Quiet
<1>10. CASE kind = "update"
  <2>1. Quiet(n)'
    BY <1>4, <1>9, <1>10 DEF Quiet
  <2> QED
    BY <1>1, <1>3, <1>7, <1>8, <1>10, <2>1 DEF CallInv, Waits
<1>11. CASE kind # "update"
  <2>1. Asked(n)'
    BY <1>3, <1>4, <1>8, <1>9 DEF Asked
  <2>2. kind \notin {"idle", "timeout", "connect", "update"}
    BY <1>11 DEF Kind
  <2> QED
    BY <1>1, <1>3, <1>7, <2>1, <2>2 DEF CallInv
<1> QED
  BY <1>10, <1>11

\* The request of the call in progress is written and will be answered; what is
\* written besides is not.
LEMMA WriteAnswered ==
  ASSUME TypeOK, TablesInv, CallInv, NEW n \in Conn, Writeable(n),
         Running', Clean'
  PROVE  CallInv'
<1>1. /\ n \in want /\ want' = want \ {n} /\ wstable[n] # NULL
      /\ UNCHANGED <<buffer, json, op>>
  BY DEF Writeable, Running
<1>2. wstable[n] = n /\ (op # Timeout => n = op.sock)
  BY <1>1 DEF TablesInv, Writeable, Clean
<1>3. PICK a \in Answers(buffer[n]) :
        inbox' = [inbox EXCEPT ![n] = @ \o a] /\ flags' = flags
  <2>1. link'[n] # "closed"
    BY DEF Clean
  <2>2. link' # [link EXCEPT ![n] = "closed"]
    BY <2>1 DEF TypeOK
  <2> QED
    BY <1>1, <1>2, <2>2 DEF Writeable, Running
<1>4. inbox[n] \in Seq(Message) /\ buffer[n] \in Buffer
  BY DEF TypeOK, Buffer
<1>5. /\ inbox'[n] = inbox[n] \o a
      /\ \A k \in Conn : k # n => inbox'[k] = inbox[k]
  BY <1>3 DEF TypeOK
<1>6. \A k \in Conn : k # n /\ Quiet(k) => Quiet(k)'
  BY <1>1, <1>5 DEF Quiet
<1>7. Unflagged => Unflagged'
  BY <1>1, <1>3 DEF Unflagged
<1>8. CASE op.kind \in {"idle", "timeout", "connect", "update"}
  <2>1. NoAnswer(inbox[n]) /\ buffer[n].kind \in {"ping", "update"} /\ Unflagged
    BY <1>1, <1>8 DEF CallInv, Quiet
  <2>2. NoAnswer(inbox'[n])
    <3>1. CASE buffer[n].kind = "ping"
      <4>1. inbox[n] \o a = inbox[n]
        BY <1>4, <3>1, AnswersTo
      <4> QED
        BY <1>5, <2>1, <4>1
    <3>2. CASE buffer[n].kind = "update"
      <4>1. PICK m \in Message : inbox[n] \o a = Append(inbox[n], m) /\ m.type = "config"
        BY <1>4, <3>2, AnswersTo
      <4>2. ~IsAnswer(m)
        BY <4>1 DEF IsAnswer
      <4> QED
        BY <1>4, <1>5, <2>1, <4>1, <4>2, AppendAnswer
    <3> QED
      BY <2>1, <3>1, <3>2
  <2>3. Quiet(n)'
    BY <1>1, <2>2 DEF Quiet
  <2> QED
    BY <1>1, <1>6, <1>7, <1>8, <2>1, <2>3 DEF CallInv, Waits
<1>9. CASE op.kind \in Waits \cup {"identity"}
  <2>1. n = op.sock
    BY <1>2, <1>9 DEF Timeout, Waits
  <2>2. Asked(n)
    BY <1>1, <1>9, <2>1 DEF CallInv, Coming, Arrived
  <2>3. PICK m \in Message :
          /\ inbox[n] \o a = Append(inbox[n], m)
          /\ buffer[n].kind = "identity" => m.type \in {"ready", "notReady"}
          /\ buffer[n].kind \in Waits => m.type = "ack" /\ m.serial = buffer[n].serial
    <3>1. buffer[n].kind # "ping"
      BY <1>9, <2>2 DEF Asked, Waits
    <3> QED
      BY <1>4, <3>1, AnswersTo
  <2>4. AnswersCall(op, m)
    BY <1>9, <2>2, <2>3 DEF AnswersCall, Asked
  <2>5. OneAnswer(op, inbox'[n])
    BY <1>4, <1>5, <2>2, <2>3, <2>4, AppendAnswer DEF Asked
  <2>6. Coming(n)'
    BY <1>1, <1>7, <2>2, <2>5 DEF Coming, Asked
  <2> QED
    BY <1>1, <1>6, <1>9, <2>1, <2>6 DEF CallInv, Waits
<1>10. CASE op.kind = "close"
  BY <1>1, <1>10 DEF CallInv, Waits
<1> QED
  BY <1>8, <1>9, <1>10, KindsOfCall

\* A message that is not an answer changes nothing for the call in progress, and
\* an answer is stored where the call looks for it.
LEMMA ResponseHandled ==
  ASSUME TypeOK, TablesInv, CallInv, NEW n \in Conn, HandleCloudResponse(n), Running', Clean'
  PROVE  CallInv'
<1> DEFINE m == Head(inbox[n])
<1>1. /\ inbox[n] # <<>> /\ inbox' = [inbox EXCEPT ![n] = Tail(@)]
      /\ UNCHANGED <<buffer, want, op>> /\ Running
  BY DEF HandleCloudResponse
<1>2. inbox[n] \in Seq(Message) /\ m \in Message /\ Tail(inbox[n]) \in Seq(Message)
  BY <1>1, HeadTailProperties DEF TypeOK
<1>3. /\ inbox'[n] = Tail(inbox[n])
      /\ \A k \in Conn : k # n => inbox'[k] = inbox[k]
  BY <1>1 DEF TypeOK
<1>4. \A k \in Conn : k # n /\ Quiet(k) => Quiet(k)'
  BY <1>1, <1>3 DEF Quiet
<1>5. NoAnswer(inbox[n]) => NoAnswer(inbox'[n]) /\ ~IsAnswer(m)
  BY <1>1, <1>2, <1>3, TailAnswer
<1>6. Quiet(n) => Quiet(n)'
  BY <1>1, <1>5 DEF Quiet
<1>o. m.type # "other"
  BY DEF HandleCloudResponse, Clean
<1>7. ASSUME ~IsAnswer(m)
      PROVE  /\ json' = json
             /\ \A f \in {"got_response", "connection_error", "ready"} :
                  f \in flags' <=> f \in flags
  BY <1>7, <1>o DEF HandleCloudResponse, IsAnswer
<1>8. ~IsAnswer(m) /\ Unflagged => Unflagged'
  BY <1>1, <1>7 DEF Unflagged
<1>9. CASE op.kind \in {"idle", "timeout", "connect", "update"}
  <2>1. Unflagged /\ (\A k \in Conn : Quiet(k)) /\ ~IsAnswer(m)
    BY <1>5, <1>9 DEF CallInv, Quiet
  <2>2. \A k \in Conn : Quiet(k)'
    BY <1>4, <1>6, <2>1
  <2> QED
    BY <1>1, <1>8, <1>9, <2>1, <2>2 DEF CallInv, Waits
<1>10. CASE op.kind \in Waits \cup {"identity"}
  <2>0. op.sock \in Conn
    <3>1. op.kind \notin {"idle", "timeout"}
      BY <1>10 DEF Waits
    <3> QED
      BY <3>1, OpFields
  <2>s. PICK s \in Conn : s = op.sock
    BY <2>0
  <2>1. /\ \A k \in Conn : k # s => Quiet(k)
        /\ Asked(s) \/ Coming(s) \/ Arrived(s)
    BY <1>10, <2>s DEF CallInv
  <2>2. \A k \in Conn : k # s => Quiet(k)'
    BY <1>4, <1>6, <2>1
  <2>3. ASSUME ~IsAnswer(m), s # n => inbox'[s] = inbox[s]
        PROVE  Asked(s)' \/ Coming(s)' \/ Arrived(s)'
    <3>1. NoAnswer(inbox[s]) => NoAnswer(inbox'[s])
      BY <1>5, <2>3
    <3>2. OneAnswer(op, inbox[s]) => OneAnswer(op, inbox'[s])
      BY <1>1, <1>2, <1>3, <2>3, TailAnswer
    <3>3. CASE Asked(s)
      BY <1>1, <1>8, <2>3, <3>1, <3>3 DEF Asked
    <3>4. CASE Coming(s)
      BY <1>1, <1>8, <2>3, <3>2, <3>4 DEF Coming
    <3>5. CASE Arrived(s)
      <4>1. flags \cap {"ready", "connection_error"} # {}
              => flags' \cap {"ready", "connection_error"} # {}
        BY <1>7, <2>3
      <4> QED
        BY <1>1, <1>7, <2>3, <3>1, <3>5, <4>1 DEF Arrived
    <3> QED
      BY <2>1, <3>3, <3>4, <3>5
  <2>4. ASSUME IsAnswer(m) PROVE Arrived(s)'
    <3>1. n = s /\ Coming(s)
      <4>1. ~NoAnswer(inbox[n])
        BY <1>5, <2>4
      <4> QED
        BY <2>1, <4>1 DEF Quiet, Asked, Arrived
    <3>2. AnswersCall(op, m) /\ NoAnswer(inbox'[n])
      BY <1>1, <1>2, <1>3, <2>4, <3>1, TailAnswer DEF Coming
    <3>3. CASE op.kind = "identity"
      <4>1. /\ flags' \cap {"ready", "connection_error"} # {}
            /\ "got_response" \notin flags'
        BY <3>1, <3>2, <3>3 DEF AnswersCall, Coming, Unflagged, HandleCloudResponse
      <4> QED
        BY <1>1, <3>1, <3>2, <3>3, <4>1 DEF Arrived, Coming
    <3>4. CASE op.kind # "identity"
      <4>1. m.type = "ack" /\ m.serial = op.serial /\ psd = s
        <5>1. op.kind \notin {"idle", "timeout"}
          BY <1>10 DEF Waits
        <5> QED
          BY <1>1, <2>s, <3>2, <3>4, <5>1 DEF AnswersCall, TablesInv
      <4>2. json' = [json EXCEPT ![psd] = m.serial] /\ flags' = flags \cup {"got_response"}
        BY <4>1 DEF HandleCloudResponse, Running
      <4>3. json'[s] = op.serial
        BY <2>1, <4>1, <4>2 DEF TypeOK
      <4>4. /\ "got_response" \in flags' /\ "connection_error" \notin flags'
            /\ "ready" \in flags' => op'.kind = "signin"
        BY <1>1, <3>1, <4>2 DEF Coming, Unflagged
      <4> QED
        BY <1>1, <3>1, <3>2, <3>4, <4>3, <4>4 DEF Arrived, Coming
    <3> QED
      BY <3>3, <3>4
  <2>5. Asked(s)' \/ Coming(s)' \/ Arrived(s)'
    BY <1>3, <2>1, <2>3, <2>4
  <2>6. op'.sock = s /\ op'.kind = op.kind
    BY <1>1, <2>s
  <2> QED
    BY <1>10, <2>2, <2>5, <2>6 DEF CallInv, Waits
<1>11. CASE op.kind = "close"
  BY <1>1, <1>11 DEF CallInv, Waits
<1> QED
  BY <1>9, <1>10, <1>11, KindsOfCall

\* A request that reads its answer from psd->json has been answered, and reads it.
LEMMA ResponseIsMine ==
  ASSUME TypeOK, TablesInv, CallInv, LastInv, Running, HandleResponse,
         op.kind \in Waits, Answered, UNCHANGED <<buffer, want, inbox>>
  PROVE  LastInv' /\ (Running' => CallInv')
<1>1. CASE last' = last /\ fault' \in {"dangling", "null"}
  BY <1>1 DEF LastInv, Running
<1>2. CASE Return(TRUE, json[psd])
  <2>1. Arrived(op.sock)
    <3>1. flags \cap {"got_response", "connection_error"} # {}
      BY DEF Answered
    <3>2. ~Unflagged
      BY <3>1 DEF Unflagged
    <3> QED
      BY <3>2 DEF CallInv, Asked, Coming
  <2>2. psd = op.sock
    <3>1. op.kind \notin {"idle", "timeout"}
      BY DEF Waits
    <3> QED
      BY <3>1 DEF TablesInv
  <2>3. json[psd] = op.serial
    BY <2>1, <2>2 DEF Arrived, Waits
  <2>4. last'.got = last'.serial
    BY <1>2, <2>3 DEF Return
  <2>5. CallInv'
    BY <1>2, <2>1, ReturnRests
  <2> QED
    BY <2>4, <2>5 DEF LastInv
<1> QED
  BY <1>1, <1>2 DEF HandleResponse

\* Every step keeps requests and answers in pairs, as long as all is clean.
LEMMA NextAnswerInv ==
  ASSUME WsInv, [Next]_vars
  PROVE  AnswerInv'
<1> SUFFICES ASSUME Clean' PROVE LastInv' /\ (Running' => CallInv')
  BY DEF AnswerInv
<1>0. TypeOK /\ Clean /\ TablesInv /\ LastInv /\ (Running => CallInv)
  BY CleanBefore, CleanTables DEF WsInv, TypeInv, AnswerInv
<1>a. last' = last => LastInv'
  BY <1>0 DEF LastInv
<1>1. CASE UNCHANGED vars
  BY <1>0, <1>1 DEF vars, LastInv, Running, CallInv, Unflagged, Quiet, Asked, Coming, Arrived
<1>2. CASE WsConnect
  <2>1. /\ flags' \subseteq flags /\ op = Idle /\ UNCHANGED <<buffer, want, inbox, last>>
        /\ op' = [kind |-> "connect", sock |-> conn_index + 1, serial |-> 0]
        /\ CallInv
    BY <1>0, <1>2 DEF WsConnect
  <2>2. op.kind = "idle" /\ op'.kind = "connect"
    BY <2>1 DEF Idle
  <2>3. Unflagged' /\ \A n \in Conn : Quiet(n)'
    BY <2>1, <2>2 DEF CallInv, Unflagged, Quiet
  <2> QED
    BY <1>a, <2>1, <2>2, <2>3 DEF CallInv, Waits
<1>3. ASSUME NEW n \in Conn, CloudAnswersConnect(n) PROVE LastInv' /\ (Running' => CallInv')
  <2>1. /\ CallInv /\ UNCHANGED <<json, buffer, want, last, op>>
    BY <1>0, <1>3 DEF CloudAnswersConnect
  <2>2. flags' = flags /\ inbox' = [inbox EXCEPT ![n] = Append(@, [type |-> "identify"])]
    <3>1. link'[n] # "closed"
      BY DEF Clean
    <3>2. link' # [link EXCEPT ![n] = "closed"]
      BY <1>0, <3>1 DEF TypeOK
    <3> QED
      BY <1>3, <3>2 DEF CloudAnswersConnect, Deliver
  <2>3. \A k \in Conn : inbox'[k] = inbox[k] \/ inbox'[k] = Append(inbox[k], [type |-> "identify"])
    BY <1>0, <2>2 DEF TypeOK
  <2>4. [type |-> "identify"] \in Message /\ ~IsAnswer([type |-> "identify"])
    BY CloudMessages DEF IsAnswer
  <2>5. ASSUME NEW k \in Conn
        PROVE  /\ NoAnswer(inbox[k]) => NoAnswer(inbox'[k])
               /\ OneAnswer(op, inbox[k]) => OneAnswer(op, inbox'[k])
    <3>1. inbox[k] \in Seq(Message)
      BY <1>0 DEF TypeOK
    <3> QED
      BY <2>3, <2>4, <3>1, AppendAnswer
  <2>6. Unflagged => Unflagged'
    BY <2>1, <2>2 DEF Unflagged
  <2>7. \A k \in Conn : Quiet(k) => Quiet(k)'
    BY <2>1, <2>5 DEF Quiet
  <2>8. ASSUME NEW k \in Conn
        PROVE  /\ Asked(k) => Asked(k)'
               /\ Coming(k) => Coming(k)'
               /\ Arrived(k) => Arrived(k)'
    BY <2>1, <2>2, <2>5, <2>6 DEF Asked, Coming, Arrived
  <2>9. op.kind \in Waits \cup {"identity"} => op.sock \in Conn
    BY <1>0, OpFields DEF Waits
  <2>10. CallInv'
    BY <2>1, <2>6, <2>7, <2>8, <2>9 DEF CallInv
  <2> QED
    BY <1>a, <2>1, <2>10
<1>4. CASE WsConnected
  <2>1. /\ op' = Idle /\ op.kind = "connect" /\ UNCHANGED <<buffer, want, inbox, last>>
        /\ flags' \subseteq flags /\ CallInv
    BY <1>0, <1>4 DEF WsConnected
  <2>2. op'.kind = "idle"
    BY <2>1 DEF Idle
  <2>3. Unflagged' /\ \A n \in Conn : Quiet(n)'
    BY <2>1, <2>2 DEF CallInv, Unflagged, Quiet
  <2> QED
    BY <1>a, <2>1, <2>2, <2>3 DEF CallInv, Waits
<1>5. ASSUME NEW n \in Conn, WsClose(n) PROVE LastInv' /\ (Running' => CallInv')
  <2>1. last' = last
    BY <1>5 DEF WsClose
  <2>2. Running' => op'.kind = "close"
    BY <1>5 DEF WsClose, Running
  <2> QED
    BY <1>a, <2>1, <2>2 DEF CallInv, Waits
<1>6. CASE WsClosed
  <2>1. op.kind = "close" /\ Running /\ alloc' = alloc \ {psd} /\ conn_index' = conn_index
    BY <1>6 DEF WsClosed
  <2>2. op.sock \in Conn /\ wstable[op.sock] # NULL /\ psd = op.sock
    <3>1. op.kind \notin {"idle", "timeout", "connect"}
      BY <2>1
    <3> QED
      BY <1>0, <2>1, <3>1, OpFields DEF TablesInv
  <2>3. psd \in 1 .. conn_index
    BY <1>0, <2>2, FindsOwn
  <2> QED
    BY <2>1, <2>3 DEF Clean
<1>7. ASSUME NEW n \in Conn, ServerCloses(n) PROVE FALSE
  <2>1. link'[n] = "closed"
    BY <1>0, <1>7 DEF ServerCloses, TypeOK
  <2> QED
    BY <2>1 DEF Clean
<1>8. ASSUME NEW n \in Conn, SendPing(n) PROVE LastInv' /\ (Running' => CallInv')
  <2>a. last' = last
    BY <1>8 DEF SendPing
  <2> SUFFICES ASSUME Running' PROVE CallInv'
    BY <1>a, <2>a
  <2>1. /\ op = Timeout /\ UNCHANGED <<op, flags, inbox>> /\ CallInv
        /\ wstable[n] # NULL
    BY <1>0, <1>8 DEF SendPing
  <2>2. wstable[n] = n /\ QueueAt(n) = n /\ n # NULL
    BY <1>0, <2>1, FindsOwn, Numbers
  <2>3. buffer' = [buffer EXCEPT ![n] = Ping] /\ want' = want \cup {n}
    BY <1>0, <1>8, <2>2, OnWritableTypes DEF SendPing
  <2>4. /\ buffer'[n].kind = "ping"
        /\ \A k \in Conn : k # n => buffer'[k] = buffer[k] /\ (k \in want' => k \in want)
    BY <1>0, <2>3 DEF TypeOK, Ping
  <2>5. op.kind = "timeout"
    BY <2>1 DEF Timeout
  <2>6. Unflagged' /\ \A k \in Conn : Quiet(k)'
    BY <2>1, <2>4, <2>5 DEF CallInv, Unflagged, Quiet
  <2> QED
    BY <2>1, <2>5, <2>6 DEF CallInv, Waits
<1>9. ASSUME NEW n \in Conn, Writeable(n) PROVE LastInv' /\ (Running' => CallInv')
  <2>1. last' = last /\ Running
    BY <1>9 DEF Writeable
  <2> QED
    BY <1>0, <1>9, <1>a, <2>1, WriteAnswered
<1>10. ASSUME NEW n \in Conn, HandleCloudResponse(n) PROVE LastInv' /\ (Running' => CallInv')
  <2>1. last' = last /\ Running
    BY <1>10 DEF HandleCloudResponse
  <2> QED
    BY <1>0, <1>10, <1>a, <2>1, ResponseHandled
<1>11. ASSUME NEW n \in Conn, NEW kind \in Kind, Request(kind, n)
       PROVE  LastInv' /\ (Running' => CallInv')
  <2>1. Running /\ op = Idle /\ kind # "signin" /\ Start(kind, n)
    BY <1>11 DEF Request
  <2>2. last' = last /\ (Running' => CallInv')
    BY <1>0, <2>1, StartAsks
  <2> QED
    BY <1>a, <2>2
<1>12. CASE NodeReturns
  <2>1. /\ Running /\ op.kind \in Waits /\ Answered /\ HandleResponse
        /\ UNCHANGED <<buffer, want, inbox>>
    BY <1>12 DEF NodeReturns, Waits
  <2> QED
    BY <1>0, <2>1, ResponseIsMine
<1>13. CASE DeviceReturns
  <2>1. /\ Running /\ op.kind \in Waits /\ Answered
        /\ UNCHANGED <<buffer, want, inbox>>
    BY <1>13 DEF DeviceReturns, Waits
  <2>2. "connection_error" \notin flags
    BY <1>0, <2>1 DEF CallInv, Asked, Coming, Arrived, Unflagged, Waits
  <2>3. HandleResponse
    BY <1>13, <2>2 DEF DeviceReturns
  <2> QED
    BY <1>0, <2>1, <2>3, ResponseIsMine
<1>14. CASE DataReturns
  <2>1. /\ Running /\ op.kind = "data" /\ Answered /\ Return(TRUE, NULL)
        /\ UNCHANGED <<buffer, want, inbox>>
    BY <1>14 DEF DataReturns
  <2>2. Arrived(op.sock)
    <3>1. ~Unflagged
      BY <2>1 DEF Answered, Unflagged
    <3> QED
      BY <1>0, <2>1, <3>1 DEF CallInv, Asked, Coming, Waits
  <2>3. CallInv'
    BY <1>0, <2>1, <2>2, ReturnRests DEF Waits
  <2>4. last'.kind = "data"
    BY <2>1 DEF Return
  <2> QED
    BY <2>3, <2>4 DEF LastInv
<1>15. CASE UpdateReturns
  <2>1. PICK ok \in BOOLEAN : /\ Running /\ op.kind = "update" /\ Return(ok, NULL)
                              /\ UNCHANGED <<buffer, want, inbox>>
    BY <1>15 DEF UpdateReturns
  <2>2. CallInv'
    BY <1>0, <2>1, ReturnRests
  <2>3. last'.kind = "update"
    BY <2>1 DEF Return
  <2> QED
    BY <2>2, <2>3 DEF LastInv
<1>16. CASE SigninReturns
  <2>1. Running /\ op.kind = "identity" /\ op.sock \in Conn /\ CallInv
    BY <1>0, <1>16, OpFields DEF SigninReturns
  <2>2. flags \cap {"ready", "connection_error"} # {} => Arrived(op.sock)
    BY <2>1 DEF CallInv, Asked, Coming, Unflagged
  <2>3. CASE "connection_error" \in flags
    <3>1. Return(FALSE, NULL) /\ UNCHANGED <<buffer, want, inbox>>
      BY <1>16, <2>3 DEF SigninReturns
    <3>2. CallInv'
      BY <1>0, <2>1, <2>2, <2>3, <3>1, ReturnRests
    <3>3. last'.kind = "identity"
      BY <2>1, <3>1 DEF Return
    <3> QED
      BY <3>2, <3>3 DEF LastInv
  <2>4. CASE "connection_error" \notin flags
    <3>1. "ready" \in flags /\ Start("signin", op.sock) /\ "signin" \in Kind
      BY <1>16, <2>4 DEF SigninReturns, Kind
    <3>2. last' = last /\ (Running' => CallInv')
      BY <1>0, <2>1, <2>2, <2>4, <3>1, StartAsks
    <3> QED
      BY <1>a, <3>2
  <2> QED
    BY <2>3, <2>4
<1>17. CASE TimeoutWs \/ TimeoutReturns
  <2>1. /\ op.kind \in {"idle", "timeout"} /\ op'.kind \in {"idle", "timeout"}
        /\ UNCHANGED <<flags, buffer, want, inbox, last>> /\ CallInv
    BY <1>0, <1>17 DEF TimeoutWs, TimeoutReturns, Idle, Timeout
  <2>2. Unflagged' /\ \A n \in Conn : Quiet(n)'
    BY <2>1 DEF CallInv, Unflagged, Quiet
  <2> QED
    BY <1>a, <2>1, <2>2 DEF CallInv, Waits
<1>18. ASSUME NEW n \in Conn, Push(n) PROVE LastInv' /\ (Running' => CallInv')
  <2>1. PICK m \in Message : m = [type |-> "other"]
    BY CloudMessages
  <2>2. /\ CallInv /\ UNCHANGED <<json, flags, buffer, want, last, op>> /\ ~IsAnswer(m)
        /\ inbox' = [inbox EXCEPT ![n] = Append(@, m)]
    BY <1>0, <1>18, <2>1 DEF Push, Deliver, IsAnswer
  <2>3. ASSUME NEW k \in Conn
        PROVE  /\ NoAnswer(inbox[k]) => NoAnswer(inbox'[k])
               /\ OneAnswer(op, inbox[k]) => OneAnswer(op, inbox'[k])
    <3>1. inbox[k] \in Seq(Message) /\ inbox'[k] \in {inbox[k], Append(inbox[k], m)}
      BY <1>0, <2>2 DEF TypeOK
    <3> QED
      BY <2>2, <3>1, AppendAnswer
  <2>4. (Unflagged => Unflagged') /\ \A k \in Conn : Quiet(k) => Quiet(k)'
    BY <2>2, <2>3 DEF Unflagged, Quiet
  <2>5. ASSUME NEW k \in Conn
        PROVE  /\ Asked(k) => Asked(k)'
               /\ Coming(k) => Coming(k)'
               /\ Arrived(k) => Arrived(k)'
    BY <2>2, <2>3, <2>4 DEF Asked, Coming, Arrived
  <2>6. op.kind \in Waits \cup {"identity"} => op.sock \in Conn
    BY <1>0, OpFields DEF Waits
  <2>7. CallInv'
    BY <2>2, <2>4, <2>5, <2>6 DEF CallInv
  <2> QED
    BY <1>a, <2>2, <2>7
<1> QED
  BY <1>1, <1>2, <1>3, <1>4, <1>5, <1>6, <1>7, <1>8, <1>9, <1>10, <1>11, <1>12,
     <1>13, <1>14, <1>15, <1>16, <1>17, <1>18 DEF Next

\* The invariant is inductive.
LEMMA WsInvariant == Spec => []WsInv
<1>1. Init => WsInv
  <2> SUFFICES ASSUME Init PROVE WsInv
    OBVIOUS
  <2>1. op.kind = "idle" /\ op = Idle /\ Len(wsis) = 0 /\ Conn \subseteq Nat
    BY Numbers DEF Init, Idle
  <2>2. TablesInv
    BY <2>1 DEF Init, TablesInv
  <2>3. RefusedInv /\ FreshInv
    BY DEF Init, RefusedInv, FreshInv
  <2>4. \A n \in Conn : NoAnswer(inbox[n])
    BY DEF Init, NoAnswer
  <2>5. CallInv
    BY <2>1, <2>4 DEF Init, CallInv, Unflagged, Quiet, Waits
  <2>6. LastInv
    BY DEF Init, LastInv
  <2> QED
    BY <2>2, <2>3, <2>5, <2>6, InitTypeInv DEF WsInv, IndexInv, AnswerInv
<1>2. WsInv /\ [Next]_vars => WsInv'
  <2> SUFFICES ASSUME WsInv, [Next]_vars PROVE WsInv'
    OBVIOUS
  <2> QED
    BY NextTypeInv, NextIndexInv, NextRefusedInv, NextFreshInv, NextAnswerInv DEF WsInv
<1> QED
  BY <1>1, <1>2, PTL DEF Spec

\* While no connection was refused, lost or given up, none was written for another,
\* and the cloud sent nothing but answers and CONFIG messages, every request that
\* hands out an answer hands out its own, however many calls came before it and
\* whether or not they waited for theirs.
THEOREM AnswersAreMine == Spec => []AnswerIsMine
<1>1. WsInv => AnswerIsMine
  BY DEF WsInv, AnswerInv, Clean, LastInv, AnswerIsMine
<1> QED
  BY <1>1, WsInvariant, PTL

=============================================================================
