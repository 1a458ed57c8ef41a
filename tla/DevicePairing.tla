--------------------------- MODULE DevicePairing ---------------------------
(***************************************************************************)
(* The D-Bus view of the devices a radio daemon reports: src/proxy.c keeps *)
(* one struct knot_device (src/device.c) per proxy object of the radio,    *)
(* exports it, forwards Pair calls to the radio and repeats the radio's    *)
(* Name and Paired on its own object.                                      *)
(*                                                                         *)
(* The radio is a process of its own: its answers and its property changes *)
(* reach the daemon later, in the order it sent them, and a Pair call is   *)
(* outstanding meanwhile.  Dropping a proxy object drops its calls: the    *)
(* code hands them no destroy callback and frees the device.               *)
(***************************************************************************)
EXTENDS Naturals, Sequences

CONSTANTS
  Proxy,        \* proxy objects of the radio daemon
  Call,         \* Pair calls of D-Bus clients
  Name,         \* names of a device
  Unknown,      \* "device:unknown"
  NULL,         \* the null pointer
  MaxInFlight   \* property changes are sent while fewer messages are under way

ASSUME PairingAssumption ==
  /\ Unknown \in Name
  /\ NULL \notin Call
  /\ MaxInFlight \in Nat \ {0}

VARIABLES
  device,   \* what device_list holds for a proxy: nothing, NULL or a device
  state,    \* device->name and device->paired
  msg,      \* device->msg: the Pair call to answer
  calls,    \* Pair calls the radio has not answered
  inbox,    \* messages from the radio the daemon has not handled
  radio,    \* name and paired as the radio has them
  heard,    \* name and paired as the signals of the object last told them
  answer,   \* what became of each client's call
  daemon,   \* "up", "stopped" or "crashed"
  faults    \* history: see FaultKinds

vars == <<device, state, msg, calls, inbox, radio, heard, answer,
          daemon, faults>>

(***************************************************************************)
(* What went wrong with an object since it appeared.  "pair": the radio    *)
(* refused a Pair, or the bus the call.  "paired", "name": it was paired,  *)
(* or had a name, when it was announced, and that has not changed since.   *)
(* "bus": the bus refused a signal or an answer.  "gone": it was dropped.  *)
(***************************************************************************)
FaultKinds == {"pair", "paired", "name", "bus", "gone"}

Fault(p, kinds) == faults' = [faults EXCEPT ![p] = @ \cup kinds]

View == [name : Name, paired : BOOLEAN]
Property == [kind : {"Name"}, value : Name] \cup
            [kind : {"Paired"}, value : BOOLEAN]
Reply == [kind : {"reply"}, ok : BOOLEAN]

TypeOK ==
  /\ device \in [Proxy -> {"absent", "null", "live"}]
  /\ state \in [Proxy -> View]
  /\ msg \in [Proxy -> Call \cup {NULL}]
  /\ calls \in [Proxy -> 0 .. 1]
  /\ inbox \in [Proxy -> Seq(Property \cup Reply)]
  /\ radio \in [Proxy -> View]
  /\ heard \in [Proxy -> View]
  /\ answer \in [Call -> {"none", "waiting", "ok", "busy"}]
  /\ daemon \in {"up", "stopped", "crashed"}
  /\ faults \in [Proxy -> SUBSET FaultKinds]

\* device_create: the name every device starts with; paired is l_new's zero
Created == [name |-> Unknown, paired |-> FALSE]

Init ==
  /\ device = [p \in Proxy |-> "absent"]
  /\ state = [p \in Proxy |-> Created]
  /\ msg = [p \in Proxy |-> NULL]
  /\ calls = [p \in Proxy |-> 0]
  /\ inbox = [p \in Proxy |-> <<>>]
  /\ radio = [p \in Proxy |-> Created]
  /\ heard = [p \in Proxy |-> Created]
  /\ answer = [c \in Call |-> "none"]
  /\ daemon = "up"
  /\ faults = [p \in Proxy |-> {}]

-----------------------------------------------------------------------------
(* The radio daemon.                                                       *)

\* A change of a property, announced.
RadioChanges(p) ==
  /\ device[p] # "absent"
  /\ Len(inbox[p]) < MaxInFlight
  /\ \/ \E n \in Name \ {radio[p].name} :
          /\ radio' = [radio EXCEPT ![p].name = n]
          /\ inbox' = [inbox EXCEPT ![p] =
                         Append(@, [kind |-> "Name", value |-> n])]
          /\ faults' = [faults EXCEPT ![p] = @ \ {"name"}]
     \/ /\ radio' = [radio EXCEPT ![p].paired = ~@]
        /\ inbox' = [inbox EXCEPT ![p] =
                       Append(@, [kind |-> "Paired", value |-> ~radio[p].paired])]
        /\ faults' = [faults EXCEPT ![p] = @ \ {"paired"}]
  /\ UNCHANGED <<device, state, msg, calls, heard, answer, daemon>>

\* The answer to a Pair call.  A success that pairs the device announces it
\* too, before or after the answer.
RadioAnswers(p) ==
  LET ok == [kind |-> "reply", ok |-> TRUE]
      news == [kind |-> "Paired", value |-> TRUE]
  IN
  /\ calls[p] > 0
  /\ calls' = [calls EXCEPT ![p] = @ - 1]
  /\ \/ /\ radio[p].paired
        /\ radio' = radio
        /\ inbox' = [inbox EXCEPT ![p] = Append(@, ok)]
     \/ /\ ~radio[p].paired
        /\ radio' = [radio EXCEPT ![p].paired = TRUE]
        /\ \E m \in {<<ok, news>>, <<news, ok>>} :
             inbox' = [inbox EXCEPT ![p] = @ \o m]
     \/ /\ radio' = radio
        /\ inbox' = [inbox EXCEPT ![p] =
                       Append(@, [kind |-> "reply", ok |-> FALSE])]
  /\ UNCHANGED <<device, state, msg, heard, answer, daemon, faults>>

-----------------------------------------------------------------------------
(* The proxies of the daemon.                                              *)

\* added, with device_create: NULL goes into the table when the bus refuses it.
\* The properties the radio has already are not read.
added(p) ==
  /\ daemon = "up"
  /\ device[p] = "absent"
  /\ \/ device' = [device EXCEPT ![p] = "live"]
     \/ device' = [device EXCEPT ![p] = "null"]
  /\ state' = [state EXCEPT ![p] = Created]
  /\ heard' = [heard EXCEPT ![p] = Created]
  /\ msg' = [msg EXCEPT ![p] = NULL]
  /\ \E v \in View :
       /\ radio' = [radio EXCEPT ![p] = v]
       /\ faults' = [faults EXCEPT ![p] = (IF v.paired THEN {"paired"} ELSE {})
                                  \cup IF v.name # Unknown THEN {"name"} ELSE {}]
  /\ UNCHANGED <<calls, inbox, answer, daemon>>

\* removed, with device_destroy: the Pair call it holds is forgotten with it
removed(p) ==
  /\ daemon = "up"
  /\ device[p] # "absent"
  /\ device' = [device EXCEPT ![p] = "absent"]
  /\ msg' = [msg EXCEPT ![p] = NULL]
  /\ calls' = [calls EXCEPT ![p] = 0]
  /\ inbox' = [inbox EXCEPT ![p] = <<>>]
  /\ Fault(p, {"gone"})
  /\ UNCHANGED <<state, radio, heard, answer, daemon>>

\* l_dbus_send takes the message, or refuses it.
Sends(p, taken) == Fault(p, IF taken THEN {} ELSE {"bus"})

\* Mutant: the new name is announced and not stored.
device_set_name_NotStored(p, name) ==
  \E taken \in BOOLEAN :
    /\ Sends(p, taken)
    /\ state' = state
    /\ heard' = IF taken THEN [heard EXCEPT ![p].name = name] ELSE heard

\* device_set_name: the signal goes out even if the name is the same
device_set_name(p, name) ==
  \E taken \in BOOLEAN :
    /\ Sends(p, taken)
    /\ IF taken THEN /\ state' = [state EXCEPT ![p].name = name]
                     /\ heard' = [heard EXCEPT ![p].name = name]
                ELSE UNCHANGED <<state, heard>>

\* Mutant: the state changes before the signal is known to be sent.
device_set_paired_StateFirst(p, paired) ==
  \E taken \in BOOLEAN :
    /\ Sends(p, taken)
    /\ state' = [state EXCEPT ![p].paired = paired]
    /\ heard' = IF taken THEN [heard EXCEPT ![p].paired = paired] ELSE heard

\* device_set_paired
device_set_paired(p, paired) ==
  IF state[p].paired = paired THEN UNCHANGED <<state, heard, faults>>
  ELSE \E taken \in BOOLEAN :
         /\ Sends(p, taken)
         /\ IF taken THEN /\ state' = [state EXCEPT ![p].paired = paired]
                          /\ heard' = [heard EXCEPT ![p].paired = paired]
                     ELSE UNCHANGED <<state, heard>>

\* property_changed
property_changed(p) ==
  /\ daemon = "up"
  /\ inbox[p] # <<>>
  /\ Head(inbox[p]).kind # "reply"
  /\ inbox' = [inbox EXCEPT ![p] = Tail(@)]
  /\ LET m == Head(inbox[p]) IN
       IF device[p] = "null" THEN UNCHANGED <<state, heard, faults>>
       ELSE IF m.kind = "Name" THEN device_set_name(p, m.value)
                               ELSE device_set_paired(p, m.value)
  /\ UNCHANGED <<device, msg, calls, radio, answer, daemon>>

\* Mutant: a second call is not refused.
method_pair_NoBusy(c, p) ==
  /\ daemon = "up"
  /\ device[p] = "live"
  /\ answer[c] # "waiting"
  /\ ~state[p].paired
  /\ answer' = [answer EXCEPT ![c] = "waiting"]
  /\ msg' = [msg EXCEPT ![p] = c]
  /\ calls' = [calls EXCEPT ![p] = @ + 1]
  /\ UNCHANGED <<device, state, inbox, radio, heard, daemon, faults>>

\* method_pair.  Whether the call was sent to the radio is not looked at.
method_pair(c, p) ==
  /\ daemon = "up"
  /\ device[p] = "live"
  /\ answer[c] # "waiting"
  /\ \/ /\ state[p].paired
        /\ answer' = [answer EXCEPT ![c] = "ok"]
        /\ UNCHANGED <<msg, calls, faults>>
     \/ /\ ~state[p].paired
        /\ msg[p] # NULL
        /\ answer' = [answer EXCEPT ![c] = "busy"]
        /\ UNCHANGED <<msg, calls, faults>>
     \/ /\ ~state[p].paired
        /\ msg[p] = NULL
        /\ answer' = [answer EXCEPT ![c] = "waiting"]
        /\ msg' = [msg EXCEPT ![p] = c]
        /\ \/ calls' = [calls EXCEPT ![p] = @ + 1] /\ faults' = faults
           \/ calls' = calls /\ Fault(p, {"pair"})
  /\ UNCHANGED <<device, state, inbox, radio, heard, daemon>>

\* Mutant: the answered call is not cleared.
pair_reply_NotCleared(p) ==
  /\ daemon = "up"
  /\ inbox[p] # <<>>
  /\ Head(inbox[p]).kind = "reply"
  /\ inbox' = [inbox EXCEPT ![p] = Tail(@)]
  /\ answer' = [answer EXCEPT ![msg[p]] = "ok"]
  /\ UNCHANGED <<device, state, msg, calls, radio, heard, daemon, faults>>

\* Mutant: the call is cleared and not answered.
pair_reply_NotAnswered(p) ==
  /\ daemon = "up"
  /\ inbox[p] # <<>>
  /\ Head(inbox[p]).kind = "reply"
  /\ inbox' = [inbox EXCEPT ![p] = Tail(@)]
  /\ msg' = [msg EXCEPT ![p] = NULL]
  /\ UNCHANGED <<device, state, calls, radio, heard, answer, daemon, faults>>

\* pair_reply: an error is logged and that is all
pair_reply(p) ==
  /\ daemon = "up"
  /\ inbox[p] # <<>>
  /\ Head(inbox[p]).kind = "reply"
  /\ inbox' = [inbox EXCEPT ![p] = Tail(@)]
  /\ IF Head(inbox[p]).ok
     THEN /\ msg' = [msg EXCEPT ![p] = NULL]
          /\ \E taken \in BOOLEAN :
               /\ Sends(p, taken)
               /\ answer' = IF taken THEN [answer EXCEPT ![msg[p]] = "ok"]
                                     ELSE answer
     ELSE /\ Fault(p, {"pair"})
          /\ UNCHANGED <<msg, answer>>
  /\ UNCHANGED <<device, state, calls, radio, heard, daemon>>

\* proxy_stop: device_destroy for every entry of the table, a NULL one too
proxy_stop ==
  /\ daemon = "up"
  /\ daemon' = IF \E p \in Proxy : device[p] = "null" THEN "crashed"
                                                      ELSE "stopped"
  /\ device' = [p \in Proxy |-> "absent"]
  /\ msg' = [p \in Proxy |-> NULL]
  /\ calls' = [p \in Proxy |-> 0]
  /\ inbox' = [p \in Proxy |-> <<>>]
  /\ faults' = [p \in Proxy |-> faults[p] \cup {"gone"}]
  /\ UNCHANGED <<state, radio, heard, answer>>

-----------------------------------------------------------------------------

Next ==
  \/ \E p \in Proxy : \/ RadioChanges(p) \/ RadioAnswers(p)
                      \/ added(p) \/ removed(p)
                      \/ property_changed(p) \/ pair_reply(p)
                      \/ \E c \in Call : method_pair(c, p)
  \/ proxy_stop

\* The main loop dispatches what arrived, and the radio answers its calls: the
\* bus itself answers for a radio that went away.
Fairness ==
  \A p \in Proxy : /\ WF_vars(property_changed(p))
                   /\ WF_vars(pair_reply(p))
                   /\ WF_vars(RadioAnswers(p))

Spec == Init /\ [][Next]_vars /\ Fairness

-----------------------------------------------------------------------------
(* Properties.                                                             *)

IsReply(m) == m.kind = "reply"

\* "Operation already in progress": a device refuses Pair as busy only while
\* the radio has a call of it to answer, or the answer is on its way, or once
\* the radio has refused a call, or the bus.
InProgress ==
  \A p \in Proxy :
    msg[p] # NULL => \/ calls[p] > 0
                     \/ \E i \in DOMAIN inbox[p] : IsReply(inbox[p][i])
                     \/ "pair" \in faults[p]

\* The converse: pair_reply always finds the call it answers in device->msg,
\* and there is one answer for it.
ReplyHasCall ==
  \A p \in Proxy :
    LET due == {i \in DOMAIN inbox[p] : IsReply(inbox[p][i])} IN
      /\ calls[p] <= 1 /\ (calls[p] = 1 => due = {})
      /\ \A i, j \in due : i = j
      /\ calls[p] > 0 \/ due # {} => msg[p] # NULL /\ answer[msg[p]] = "waiting"

\* What the signals Name and Paired of device_set_name and device_set_paired told
\* is what the object's properties say, also when the bus refuses a signal.
SignalsAgree ==
  \A p \in Proxy : device[p] = "live" => heard[p] = state[p]

\* Once the daemon has handled every message of the radio, its object shows the
\* radio's name and state, unless the bus refused a signal.  What the device was
\* called when it was announced, and that it was paired, is noticed with the next
\* change only.
MirrorsRadio ==
  \A p \in Proxy :
    /\ device[p] = "live"
    /\ inbox[p] = <<>>
    /\ "bus" \notin faults[p]
    => /\ state[p].name = radio[p].name \/ "name" \in faults[p]
       /\ state[p].paired = radio[p].paired \/ "paired" \in faults[p]

\* A client that asked to pair is answered, unless the radio refused the call, the
\* bus the call or the answer, or the object was dropped.
PairAnswered ==
  \A c \in Call, p \in Proxy :
    (msg[p] = c) ~> (answer[c] # "waiting" \/ {"pair", "bus", "gone"} \cap faults[p] # {})
=============================================================================
