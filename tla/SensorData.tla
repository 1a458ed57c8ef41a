----------------------------- MODULE SensorData -----------------------------
(***************************************************************************)
(* The data of one thing's sensors between the thing and its record in     *)
(* the cloud (src/msg.c): the schema the thing sends, the readings it      *)
(* publishes, and the set_data and get_data requests that the user writes  *)
(* into the record, on_device_changed forwards, and the answer of the      *)
(* thing takes out again.                                                  *)
(*                                                                         *)
(* A request is taken out by reading the whole list (proto->fetch) and     *)
(* writing back a shorter one (proto->setdata).  The daemon blocks between *)
(* the two, but the user does not: they are two steps, and job is the      *)
(* handler that is between them.                                           *)
(*                                                                         *)
(* The driver is the one for websockets: whenever the record changes, by   *)
(* the user's hand or the gateway's, the cloud pushes a copy of it, which  *)
(* the driver hands to on_device_changed when it next serves its socket.   *)
(* It does so in the middle of requests too, also between the two steps.   *)
(***************************************************************************)
EXTENDS Naturals, Sequences, FiniteSets, SequencesExt

CONSTANTS
  Sensor,       \* sensor ids
  BadUnit,      \* sensors whose schema knot_schema_is_valid refuses
  Value,        \* values of a sensor
  NULL,
  MaxInFlight   \* no new request or schema while this many messages are under way

ASSUME DataAssumption ==
  /\ BadUnit \subseteq Sensor
  /\ NULL \notin Value
  /\ MaxInFlight \in Nat
  /\ IsFiniteSet(Sensor)   \* sensor_id is a uint8_t

VARIABLES
  schema,     \* trust->schema: the sensors it has an entry for
  schema_tmp, \* trust->schema_tmp
  cschema,    \* "schema" in the record
  set_data,   \* "set_data" in the record
  get_data,   \* "get_data" in the record
  notices,    \* copies of the record the cloud has pushed, not yet handled
  down, up,   \* the two directions of the socket
  reading,    \* the value each sensor of the thing has
  job,        \* the handler between its fetch and its setdata, or NULL
  alive,      \* has the daemon not crashed?
  wanted,     \* the last value the user asked each sensor to take
  owed,       \* the readings asked for and not yet published
  failed,     \* history: the sensors of which a reading was not published
  raced       \* history: the sensors written to while a handler held their old value

recordVars == <<cschema, set_data, get_data, notices>>
userVars == <<wanted, owed, failed, raced>>
vars == <<schema, schema_tmp, recordVars, down, up, reading, job, alive,
          userVars>>

Maybe == Value \cup {NULL}

Notice == [set : [Sensor -> Maybe], get : SUBSET Sensor]
Down == [type : {"SET_DATA"}, sensor : Sensor, value : Value]
          \cup [type : {"GET_DATA"}, sensor : Sensor]
Up == [type : {"DATA", "DATA_RESP", "SCHEMA", "SCHEMA_END"}, sensor : Sensor]
Job == [of : {"get_data"}, sensor : Sensor, list : SUBSET Sensor]
         \cup [of : {"set_data"}, sensor : Sensor, list : [Sensor -> Maybe]]

TypeOK ==
  /\ schema \subseteq Sensor
  /\ schema_tmp \in (SUBSET Sensor) \cup {NULL}
  /\ cschema \subseteq Sensor
  /\ set_data \in [Sensor -> Maybe]
  /\ get_data \subseteq Sensor
  /\ notices \in Seq(Notice)
  /\ down \in Seq(Down)
  /\ up \in Seq(Up)
  /\ reading \in [Sensor -> Maybe]
  /\ job \in Job \cup {NULL}
  /\ alive \in BOOLEAN
  /\ wanted \in [Sensor -> Maybe]
  /\ owed \subseteq Sensor
  /\ failed \subseteq Sensor
  /\ raced \subseteq Sensor

\* An authenticated thing: its schema came with the answer to signin.
Init ==
  /\ schema = Sensor
  /\ schema_tmp = NULL
  /\ cschema = Sensor
  /\ set_data = [s \in Sensor |-> NULL]
  /\ get_data = {}
  /\ notices = <<>>
  /\ down = <<>>
  /\ up = <<>>
  /\ reading = [s \in Sensor |-> NULL]
  /\ job = NULL
  /\ alive = TRUE
  /\ wanted = [s \in Sensor |-> NULL]
  /\ owed = {}
  /\ failed = {}
  /\ raced = {}

-----------------------------------------------------------------------------
(* The cloud and the user who writes to the record.                        *)

\* "Every time a device is updated a CONFIG_MSG is sent": a copy of the record
Pushed(set, get) == notices' = Append(notices, [set |-> set, get |-> get])

\* New requests and schemas are followed while the daemon runs, up to the bound.
Room == alive /\ Len(notices) + Len(down) + Len(up) < MaxInFlight

\* Does a handler hold a list with an earlier value for s, to be written back?
HoldsOld(s) ==
  /\ job # NULL
  /\ job.of = "set_data"
  /\ job.sensor # s
  /\ job.list[s] # NULL

UserSets(s, v) ==
  /\ Room
  /\ set_data' = [set_data EXCEPT ![s] = v]
  /\ Pushed(set_data', get_data)
  /\ wanted' = [wanted EXCEPT ![s] = v]
  /\ raced' = IF HoldsOld(s) THEN raced \cup {s} ELSE raced \ {s}
  /\ UNCHANGED <<schema, schema_tmp, cschema, get_data, down, up, reading, job,
                 alive, owed, failed>>

UserGets(s) ==
  /\ Room
  /\ get_data' = get_data \cup {s}
  /\ Pushed(set_data, get_data')
  /\ owed' = owed \cup {s}
  /\ failed' = failed \ {s}
  /\ UNCHANGED <<schema, schema_tmp, cschema, set_data, down, up, reading, job,
                 alive, wanted, raced>>

-----------------------------------------------------------------------------
(* The thing.                                                              *)

ThingReceives ==
  /\ down # <<>>
  /\ LET m == Head(down) IN
       \/ /\ m.type = "SET_DATA"
          /\ reading' = [reading EXCEPT ![m.sensor] = m.value]
          /\ up' = Append(up, [type |-> "DATA_RESP", sensor |-> m.sensor])
       \/ /\ m.type = "GET_DATA"
          /\ reading' = reading
          /\ up' = Append(up, [type |-> "DATA", sensor |-> m.sensor])
  /\ down' = Tail(down)
  /\ UNCHANGED <<schema, schema_tmp, recordVars, job, alive, userVars>>

ThingSendsSchema(s, eof) ==
  /\ Room
  /\ up' = Append(up, [type |-> IF eof THEN "SCHEMA_END" ELSE "SCHEMA",
                       sensor |-> s])
  /\ UNCHANGED <<schema, schema_tmp, recordVars, down, reading, job, alive,
                 userVars>>

-----------------------------------------------------------------------------
(* The gateway.                                                            *)

Idle == alive /\ job = NULL

\* parse_device_setdata: the sensors with an entry in the list
SetRequests(list) == {s \in Sensor : list[s] # NULL}

\* msg_setdata and msg_getdata: what on_device_changed forwards, in the order in
\* which it concatenates the lists
SetMessages(list) ==
  {[type |-> "SET_DATA", sensor |-> s, value |-> list[s]] : s \in SetRequests(list)}
GetMessages(list) == {[type |-> "GET_DATA", sensor |-> s] : s \in list}

\* Mutant: an update is dropped while a handler has a request under way.
OnDeviceChanged_Busy ==
  /\ alive
  /\ notices # <<>>
  /\ LET r == Head(notices) IN
       down' = IF job = NULL
               THEN down \o SetToSeq(SetMessages(r.set)) \o SetToSeq(GetMessages(r.get))
               ELSE down
  /\ notices' = Tail(notices)
  /\ UNCHANGED <<schema, schema_tmp, cschema, set_data, get_data, up, reading, job,
                 alive, userVars>>

\* Mutant: the requests for readings are left out when there are values to set.
OnDeviceChanged_SetFirst ==
  /\ alive
  /\ notices # <<>>
  /\ LET r == Head(notices) IN
       down' = down \o (IF SetRequests(r.set) # {}
                        THEN SetToSeq(SetMessages(r.set))
                        ELSE SetToSeq(GetMessages(r.get)))
  /\ notices' = Tail(notices)
  /\ UNCHANGED <<schema, schema_tmp, cschema, set_data, get_data, up, reading, job,
                 alive, userVars>>

\* on_device_changed, called from lws_service, whatever handler has called that
OnDeviceChanged ==
  /\ alive
  /\ notices # <<>>
  /\ LET r == Head(notices) IN
       down' = down \o SetToSeq(SetMessages(r.set)) \o SetToSeq(GetMessages(r.get))
  /\ notices' = Tail(notices)
  /\ UNCHANGED <<schema, schema_tmp, cschema, set_data, get_data, up, reading, job,
                 alive, userVars>>

\* l_queue_push_tail: a no-op on the null queue, and nothing makes schema_tmp a queue
PushTail(queue, s) == IF queue = NULL THEN NULL ELSE queue \cup {s}

\* the list built by create_schema_list_object
Entries(queue) == IF queue = NULL THEN {} ELSE queue

\* msg_schema
MsgSchema ==
  /\ Idle
  /\ up # <<>>
  /\ Head(up).type \in {"SCHEMA", "SCHEMA_END"}
  /\ LET tmp == PushTail(schema_tmp, Head(up).sensor)
     IN \/ /\ Head(up).type = "SCHEMA"
           /\ schema_tmp' = tmp
           /\ UNCHANGED <<schema, cschema, notices>>
        \* proto_schema succeeds: trust_sensor_schema_complete
        \/ /\ Head(up).type = "SCHEMA_END"
           /\ cschema' = Entries(tmp)
           /\ Pushed(set_data, get_data)
           /\ schema' = Entries(tmp)
           /\ schema_tmp' = NULL
        \* it fails, with or without effect: trust_sensor_schema_tmp_free
        \/ /\ Head(up).type = "SCHEMA_END"
           /\ \/ cschema' = Entries(tmp) /\ Pushed(set_data, get_data)
              \/ UNCHANGED <<cschema, notices>>
           /\ schema_tmp' = NULL
           /\ schema' = schema
  /\ up' = Tail(up)
  /\ UNCHANGED <<set_data, get_data, down, reading, job, alive, userVars>>

\* The first checks of msg_data and msg_setdata_resp
Accepts(s) == s \in schema /\ s \notin BadUnit

\* proto_data: the reading of s is published, or the request fails
ProtoData(s) == owed' \in {owed, owed \ {s}}

\* a reading of s came in and was not published
NotPublished(s) == failed' = IF s \in owed' THEN failed \cup {s} ELSE failed

\* proto->fetch: the handler holds a copy of the list
Fetched(of, s, list) ==
  job' = [of |-> of, sensor |-> s, list |-> list] /\ alive' = TRUE

\* proto->fetch failed: the handler goes to its end, through json_object_put of
\* pointers it never set
FetchFails == job' = NULL /\ alive' \in BOOLEAN

\* msg_data: publish, then update_device_getdata up to its fetch
MsgData ==
  /\ Idle
  /\ up # <<>>
  /\ Head(up).type = "DATA"
  /\ LET s == Head(up).sensor IN
       /\ \/ /\ Accepts(s)
             /\ ProtoData(s)
             /\ Fetched("get_data", s, get_data) \/ FetchFails
          \/ /\ ~Accepts(s)
             /\ UNCHANGED <<owed, job, alive>>
       /\ NotPublished(s)
  /\ up' = Tail(up)
  /\ UNCHANGED <<schema, schema_tmp, recordVars, down, reading, wanted, raced>>

\* update_device_getdata from its fetch on: the list without the sensor is
\* written back, unless the request fails
UpdateDeviceGetdata ==
  /\ alive
  /\ job # NULL
  /\ job.of = "get_data"
  /\ \/ /\ get_data' = job.list \ {job.sensor}
        /\ Pushed(set_data, get_data')
     \/ UNCHANGED <<get_data, notices>>
  /\ job' = NULL
  /\ UNCHANGED <<schema, schema_tmp, cschema, set_data, down, up, reading, alive,
                 userVars>>

\* msg_setdata_resp: update_device_setdata comes first, here up to its fetch; when
\* that fails, what is left is proto_data
MsgSetdataResp ==
  /\ Idle
  /\ up # <<>>
  /\ Head(up).type = "DATA_RESP"
  /\ LET s == Head(up).sensor IN
       \/ /\ Accepts(s)
          /\ Fetched("set_data", s, set_data)
          /\ owed' = owed
       \/ /\ Accepts(s)
          /\ FetchFails
          /\ ProtoData(s)
       \/ /\ ~Accepts(s)
          /\ UNCHANGED <<job, alive, owed>>
  /\ up' = Tail(up)
  /\ UNCHANGED <<schema, schema_tmp, recordVars, down, reading, wanted, failed,
                 raced>>

\* update_device_setdata from its fetch on, then proto_data
UpdateDeviceSetdata ==
  /\ alive
  /\ job # NULL
  /\ job.of = "set_data"
  /\ \/ /\ set_data' = [job.list EXCEPT ![job.sensor] = NULL]
        /\ Pushed(set_data', get_data)
     \/ UNCHANGED <<set_data, notices>>
  /\ ProtoData(job.sensor)
  /\ job' = NULL
  /\ UNCHANGED <<schema, schema_tmp, cschema, get_data, down, up, reading, alive,
                 wanted, failed, raced>>

-----------------------------------------------------------------------------

Next ==
  \/ \E s \in Sensor : UserGets(s) \/ \E v \in Value : UserSets(s, v)
  \/ ThingReceives
  \/ \E s \in Sensor, eof \in BOOLEAN : ThingSendsSchema(s, eof)
  \/ OnDeviceChanged
  \/ MsgSchema
  \/ MsgData
  \/ UpdateDeviceGetdata
  \/ MsgSetdataResp
  \/ UpdateDeviceSetdata

\* The thing reads its socket, although it may be sending a schema again and again;
\* the main loop serves the socket, and a request to the cloud returns.  That the
\* driver serves the websocket is not assumed: no timer makes it.
Fairness ==
  /\ WF_vars(ThingReceives)
  /\ WF_vars(MsgSchema \/ MsgData \/ MsgSetdataResp)
  /\ WF_vars(UpdateDeviceGetdata \/ UpdateDeviceSetdata)

Spec == Init /\ [][Next]_vars /\ Fairness

-----------------------------------------------------------------------------
(* Properties.                                                             *)

\* From its i-th entry on, does what is under way to sensor s carry nothing but the
\* value last asked for?
NoticesAgree(s, i) ==
  \A j \in i .. Len(notices) : notices[j].set[s] \in {NULL, wanted[s]}
MessagesAgree(s, i) ==
  \A j \in i .. Len(down) :
    down[j].type = "SET_DATA" /\ down[j].sensor = s => down[j].value = wanted[s]

\* The last value that gets to sensor s, once everything under way has been handled,
\* is the one last asked for: it is in an update the cloud has pushed, on its way to
\* the thing, or there, and nothing older comes after it.
EndsAtWanted(s) ==
  \/ \E i \in 1 .. Len(notices) : notices[i].set[s] = wanted[s] /\ NoticesAgree(s, i)
  \/ /\ NoticesAgree(s, 1)
     /\ \E i \in 1 .. Len(down) :
          /\ down[i] = [type |-> "SET_DATA", sensor |-> s, value |-> wanted[s]]
          /\ MessagesAgree(s, i)
  \/ NoticesAgree(s, 1) /\ MessagesAgree(s, 1) /\ reading[s] = wanted[s]

\* "When/if the user updates the data [...] the data is sent again": the value the
\* user wrote last is the last that the sensor gets, whatever the user does between
\* the fetch and the write-back of msg_setdata_resp.
SetDataSentAgain == \A s \in Sensor : wanted[s] # NULL => EndsAtWanted(s)

\* The same, with the one exception the code has: a value written while
\* update_device_setdata, called for another sensor, holds the list with its
\* predecessor.  Requests that fail, answers that are repeated or late, schemas that
\* are refused, and a request written while its own predecessor is taken out of the
\* record, lose nothing.
SetDataNotLost ==
  \A s \in Sensor \ raced : wanted[s] # NULL => EndsAtWanted(s)

\* A reading the user asked for is published in the end, or the thing sent one that
\* was not: until then an update that asks for it, the request to the thing, or its
\* answer is under way, although update_device_getdata writes back a list that was
\* fetched before the user asked.
GetDataNotLost ==
  \A s \in owed \ failed :
    \/ \E i \in 1 .. Len(notices) : s \in notices[i].get
    \/ \E i \in 1 .. Len(down) : down[i] = [type |-> "GET_DATA", sensor |-> s]
    \/ \E i \in 1 .. Len(up) : up[i].type = "DATA" /\ up[i].sensor = s

\* Every sensor has the value last asked for, except where SetDataNotLost does not say so.
AllTaken == \A s \in Sensor \ raced : wanted[s] # NULL => reading[s] = wanted[s]

\* If the user stops asking for new values, and the websocket is served again and again
\* until nothing is left to read, the sensors end up with the values asked for last and
\* keep them, unless the daemon goes down.
SetDataReaches ==
  []<>(notices = <<>>) /\ <>[][UNCHANGED <<wanted, raced>>]_vars
    => <>[](AllTaken \/ ~alive)

=============================================================================
