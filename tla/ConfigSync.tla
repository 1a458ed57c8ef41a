----------------------------- MODULE ConfigSync -----------------------------
(***************************************************************************)
(* How a configuration written by the user in the cloud reaches the        *)
(* sensors of one thing (src/msg.c).  The driver hands a copy of the JSON  *)
(* record of the device to on_device_changed, msg_config picks the entries *)
(* that the thing has not confirmed yet and stores the received list in    *)
(* the trust, fw_push writes the entries to the thing, and the             *)
(* KNOT_MSG_CONFIG_RESP the thing answers with marks the stored entry of   *)
(* its sensor confirmed.                                                   *)
(*                                                                         *)
(* The copies are those the cloud pushes over the websocket at every       *)
(* change of the record, which the driver hands on in their order when it  *)
(* next serves its socket.  A copy may be older than the record.           *)
(*                                                                         *)
(* A record is abstracted to its value for each sensor; the hash of an     *)
(* entry identifies its sensor and value.  The two directions of the       *)
(* socket are FIFO queues; behind the socket there is a radio that may     *)
(* lose a message.                                                         *)
(***************************************************************************)
EXTENDS Naturals, Sequences, FiniteSets

CONSTANTS
  Sensor,       \* sensor ids
  Value,        \* contents of a config entry
  Invalid,      \* those config_is_valid refuses
  NoConfig,     \* a record parse_device_config gives up on (returns NULL)
  NULL,         \* no entry for the sensor
  MaxInFlight,  \* bound on the messages in both directions of the socket
  MaxNotices    \* bound on the copies of the record not yet handled

ASSUME ConfigAssumption ==
  /\ Invalid \subseteq Value
  /\ NULL \notin Value
  /\ MaxInFlight \in Nat /\ MaxNotices \in Nat
  /\ IsFiniteSet(Sensor)   \* sensor_id is a uint8_t

Entries == [Sensor -> Value \cup {NULL}]

ASSUME NoConfigAssumption == NoConfig \notin Entries

VARIABLES
  record,     \* the config of the device in the cloud
  notices,    \* copies of the record pushed for the thing, not yet handled
  online,     \* does the gateway hold a trust for the thing?
  stored,     \* trust->config
  confirmed,  \* the sensors whose stored entry has confirmed set
  notified,   \* does stored come from on_device_changed, not from msg_auth?
  down,       \* SET_CONFIG messages on their way to the thing
  up,         \* CONFIG_RESP messages on their way to the gateway
  thing,      \* the config each sensor runs
  missed      \* history: the sensors whose last SET_CONFIG was lost

vars == <<record, notices, online, stored, confirmed, notified, down, up, thing,
          missed>>

Nothing == [s \in Sensor |-> NULL]

Message == Sensor \X Value

TypeOK ==
  /\ record \in Entries \cup {NoConfig}
  /\ notices \in Seq(Entries \cup {NoConfig})
  /\ online \in BOOLEAN
  /\ stored \in Entries
  /\ confirmed \subseteq Sensor
  /\ notified \in BOOLEAN
  /\ down \in Seq(Message)
  /\ up \in Seq(Sensor)
  /\ thing \in Entries
  /\ missed \subseteq Sensor

Init ==
  /\ record = NoConfig
  /\ notices = <<>>
  /\ online = FALSE
  /\ stored = Nothing
  /\ confirmed = {}
  /\ notified = FALSE
  /\ down = <<>>
  /\ up = <<>>
  /\ thing = Nothing
  /\ missed = {}

-----------------------------------------------------------------------------
(* What msg.c computes from a record.                                      *)

\* parse_device_config: any malformed entry makes the whole list NULL
Parse(r) == IF r = NoConfig THEN Nothing ELSE r

\* Mutant: success is returned at the first entry that is valid.
IsValid_First(list) == Sensor = {} \/ \E s \in Sensor : list[s] \notin Invalid

\* config_is_valid: every entry is; the NULL list has none
IsValid(list) == \A s \in Sensor : list[s] \notin Invalid

\* Mutant: the hashes are not compared.
ExistsAndConfirmed_NoHash(s, received) == s \in confirmed

\* Mutant: the confirmation is not looked at.
ExistsAndConfirmed_NoConfirm(s, received) == stored[s] = received[s]

\* exists_and_confirmed, for the entry received for sensor s
ExistsAndConfirmed(s, received) ==
  stored[s] = received[s] /\ s \in confirmed

\* get_changed_config: the entries the thing has to be told
GetChanged(received) ==
  {<<s, received[s]>> : s \in {x \in Sensor :
      received[x] # NULL /\ ~ExistsAndConfirmed(x, received)}}

\* the orders the list may have in the JSON array
Orders(S) == {q \in [1 .. Cardinality(S) -> S] :
                \A i, j \in 1 .. Cardinality(S) : q[i] = q[j] => i = j}

-----------------------------------------------------------------------------
(* The user and the connection.                                            *)

\* "Every time a device is updated a CONFIG_MSG is sent": to the watch of a thing that
\* is connected
Pushed ==
  /\ online => Len(notices) < MaxNotices
  /\ notices' = IF online THEN Append(notices, record') ELSE notices

\* The user, or another program, writes the entry of a sensor, removes it, or
\* leaves a record that cannot be parsed.
UserUpdates ==
  /\ \/ record' = NoConfig
     \/ \E s \in Sensor, v \in Value \cup {NULL} :
          record' = [Parse(record) EXCEPT ![s] = v]
  /\ Pushed
  /\ UNCHANGED <<online, stored, confirmed, notified, down, up, thing, missed>>

\* Another part of the device changes: the list is in that copy too.
OtherUpdates ==
  /\ online
  /\ record' = record
  /\ Pushed
  /\ UNCHANGED <<online, stored, confirmed, notified, down, up, thing, missed>>

\* msg_auth of the thing: the config comes with the answer to signin and is
\* dropped when invalid; nothing is sent
Authenticate ==
  /\ ~online
  /\ online' = TRUE
  /\ stored' = IF IsValid(Parse(record)) THEN Parse(record) ELSE Nothing
  /\ confirmed' = {}
  /\ notified' = FALSE
  /\ UNCHANGED <<record, notices, down, up, thing, missed>>

\* The thing hangs up: the trust and the watch go, and what was on the socket
\* with them.
Disconnect ==
  /\ online
  /\ online' = FALSE
  /\ stored' = Nothing
  /\ confirmed' = {}
  /\ notices' = <<>>
  /\ down' = <<>>
  /\ up' = <<>>
  /\ missed' = missed \cup {down[i][1] : i \in DOMAIN down}
  /\ UNCHANGED <<record, notified, thing>>

-----------------------------------------------------------------------------
(* The gateway.                                                            *)

\* on_device_changed -> msg_config, get_changed_config, trust_config_update,
\* fw_push.  A list that is not valid leaves the trust alone; one that could
\* not be parsed counts as valid and replaces the stored list by nothing.
OnDeviceChanged ==
  /\ online
  /\ notices # <<>>
  /\ LET received == Parse(Head(notices))
         changed == GetChanged(received)
     IN IF IsValid(received)
        THEN /\ Len(down) + Len(up) + Cardinality(changed) <= MaxInFlight
             /\ stored' = received
             /\ confirmed' = {}
             /\ notified' = TRUE
             /\ \E q \in Orders(changed) : down' = down \o q
        ELSE UNCHANGED <<stored, confirmed, notified, down>>
  /\ notices' = Tail(notices)
  /\ UNCHANGED <<record, online, up, thing, missed>>

\* msg_config_resp -> trust_config_confirm: the answer names the sensor only
MsgConfigResp ==
  /\ up # <<>>
  /\ LET s == Head(up) IN
       confirmed' = IF stored[s] = NULL THEN confirmed ELSE confirmed \cup {s}
  /\ up' = Tail(up)
  /\ UNCHANGED <<record, notices, online, stored, notified, down, thing, missed>>

-----------------------------------------------------------------------------
(* The thing and the radio.                                                *)

\* The thing applies the config and answers.
ThingReceives ==
  /\ down # <<>>
  /\ LET s == Head(down)[1]
         v == Head(down)[2]
     IN /\ thing' = [thing EXCEPT ![s] = v]
        /\ up' = Append(up, s)
        /\ missed' = missed \ {s}
  /\ down' = Tail(down)
  /\ UNCHANGED <<record, notices, online, stored, confirmed, notified>>

LoseConfig ==
  /\ down # <<>>
  /\ down' = Tail(down)
  /\ missed' = missed \cup {Head(down)[1]}
  /\ UNCHANGED <<record, notices, online, stored, confirmed, notified, up, thing>>

LoseAnswer ==
  /\ up # <<>>
  /\ up' = Tail(up)
  /\ UNCHANGED <<record, notices, online, stored, confirmed, notified, down, thing,
                 missed>>

-----------------------------------------------------------------------------

Next ==
  \/ UserUpdates
  \/ OtherUpdates
  \/ Authenticate
  \/ Disconnect
  \/ OnDeviceChanged
  \/ MsgConfigResp
  \/ ThingReceives
  \/ LoseConfig
  \/ LoseAnswer

\* The main loop reads what arrived, and a radio that is given a message for a sensor
\* again and again lets one through.  That the record is pushed or the websocket
\* served again is not assumed: no timer makes the driver do it.
Fairness ==
  /\ WF_vars(MsgConfigResp)
  /\ \A s \in Sensor : SF_vars(ThingReceives /\ Head(down)[1] = s)

Spec == Init /\ [][Next]_vars /\ Fairness

-----------------------------------------------------------------------------
(* Properties.                                                             *)

InFlight(s, v) == \E i \in 1 .. Len(down) : down[i] = <<s, v>>

\* "THING %s received config for sensor %d": a stored entry that is confirmed is
\* the one the sensor runs, or is on its way, unless the last message to the
\* sensor was lost: the answer names no value, and one to an older config would
\* confirm the lost one.
ConfirmedIsHeld ==
  \A s \in confirmed \ missed : thing[s] = stored[s] \/ InFlight(s, stored[s])

\* No invalid config reaches a sensor or stays in the trust, whichever of msg_auth
\* and msg_config read it.
InvalidStaysOut ==
  \A s \in Sensor : /\ stored[s] \notin Invalid
                    /\ thing[s] \notin Invalid

\* Once a notification has been handled and its messages have arrived, every
\* sensor runs what the trust stores, although only changed entries are sent.
SettledAgree ==
  online /\ notified /\ down = <<>> =>
    \A s \in Sensor \ missed : stored[s] # NULL => thing[s] = stored[s]

\* Every sensor that the record has an entry for runs it, if the record is valid.
Delivered ==
  LET r == Parse(record) IN
  online /\ IsValid(r) => \A s \in Sensor : r[s] # NULL => thing[s] = r[s]

\* If the user leaves the config alone and the thing stays connected, while updates of
\* other parts of the record go on being handed to on_device_changed, every sensor ends
\* up with its config for good: what the radio lost, or an answer to an older config
\* confirmed, is sent again with a later update, and no older copy comes after.
ConfigReachesThing ==
  []<><<OnDeviceChanged>>_vars /\ <>[][UNCHANGED <<record, online>>]_vars
    => <>[]Delivered
=============================================================================
