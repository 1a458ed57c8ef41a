------------------------- MODULE DevicePairingProofs -------------------------
(***************************************************************************)
(* Proofs about DevicePairing, for any number of objects of the radio, of  *)
(* Pair calls and of messages under way.                                   *)
(***************************************************************************)
EXTENDS DevicePairing, SequenceTheorems, TLAPS

Message == Property \cup Reply

\* An event of one object.
Step(p) ==
  \/ RadioChanges(p) \/ RadioAnswers(p) \/ added(p) \/ removed(p)
  \/ property_changed(p) \/ pair_reply(p)
  \/ \E c \in Call : method_pair(c, p)

\* Nothing of object q changed.
Same(q) ==
  /\ device'[q] = device[q] /\ state'[q] = state[q] /\ msg'[q] = msg[q]
  /\ calls'[q] = calls[q] /\ inbox'[q] = inbox[q] /\ radio'[q] = radio[q]
  /\ heard'[q] = heard[q] /\ faults'[q] = faults[q]

-----------------------------------------------------------------------------
(* Types.                                                                  *)

\* Handling the message at the head of an inbox.
LEMMA HeadOfInbox ==
  ASSUME TypeOK, NEW p \in Proxy, inbox[p] # <<>>
  PROVE  /\ Head(inbox[p]) \in Message
         /\ Head(inbox[p]) = inbox[p][1]
         /\ Len(inbox[p]) \in Nat \ {0}
         /\ Tail(inbox[p]) \in Seq(Message)
         /\ Len(Tail(inbox[p])) = Len(inbox[p]) - 1
         /\ \A i \in 1 .. Len(inbox[p]) - 1 : Tail(inbox[p])[i] = inbox[p][i + 1]
BY HeadTailProperties, EmptySeq, LenProperties DEF TypeOK, Message

\* What the radio announces is no longer unread, and nothing else is forgotten.
LEMMA RadioFaults ==
  ASSUME TypeOK, NEW p \in Proxy, RadioChanges(p)
  PROVE  /\ faults' \in [Proxy -> SUBSET FaultKinds]
         /\ \A k \in {"pair", "bus"} : k \in faults[p] <=> k \in faults'[p]
<1>1. \/ faults' = [faults EXCEPT ![p] = @ \ {"name"}]
      \/ faults' = [faults EXCEPT ![p] = @ \ {"paired"}]
  BY DEF RadioChanges
<1> QED
  BY <1>1 DEF TypeOK

\* The messages the radio sends.
LEMMA RadioMessages ==
  /\ \A n \in Name : [kind |-> "Name", value |-> n] \in Message
  /\ \A b \in BOOLEAN : [kind |-> "Paired", value |-> b] \in Message
  /\ \A b \in BOOLEAN : [kind |-> "reply", ok |-> b] \in Message
<1>1. \A n \in Name : [kind |-> "Name", value |-> n] \in Message
  BY DEF Message, Property
<1>2. \A b \in BOOLEAN : [kind |-> "Paired", value |-> b] \in Message
  BY DEF Message, Property
<1>3. \A b \in BOOLEAN : [kind |-> "reply", ok |-> b] \in Message
  BY DEF Message, Reply
<1> QED
  BY <1>1, <1>2, <1>3

\* The first state has its types.
LEMMA InitTypeOK == Init => TypeOK
<1> SUFFICES ASSUME Init PROVE TypeOK
  OBVIOUS
<1>1. Created \in View
  BY PairingAssumption DEF Created, View
<1>2. \A p \in Proxy : inbox[p] \in Seq(Property \cup Reply)
  BY EmptySeq DEF Init
<1>3. inbox \in [Proxy -> Seq(Property \cup Reply)]
  BY <1>2 DEF Init
<1>4. answer \in [Call -> {"none", "waiting", "ok", "busy"}]
  BY DEF Init
<1> QED
  BY <1>1, <1>3, <1>4, PairingAssumption DEF Init, TypeOK

\* The signals of device.c keep the types of what they change.
LEMMA SetKeepsTypes ==
  ASSUME TypeOK, NEW p \in Proxy,
         \/ \E n \in Name : device_set_name(p, n)
         \/ \E b \in BOOLEAN : device_set_paired(p, b)
  PROVE  /\ state' \in [Proxy -> View]
         /\ heard' \in [Proxy -> View]
         /\ faults' \in [Proxy -> SUBSET FaultKinds]
<1>1. ASSUME NEW k \in SUBSET FaultKinds, Fault(p, k)
      PROVE  faults' \in [Proxy -> SUBSET FaultKinds]
  BY <1>1 DEF Fault, TypeOK
<1>2. ASSUME NEW taken \in BOOLEAN, Sends(p, taken)
      PROVE  faults' \in [Proxy -> SUBSET FaultKinds]
  <2>1. {"bus"} \in SUBSET FaultKinds /\ {} \in SUBSET FaultKinds
    BY DEF FaultKinds
  <2> QED
    BY <1>1, <1>2, <2>1 DEF Sends
<1>3. ASSUME NEW n \in Name
      PROVE  /\ [state EXCEPT ![p].name = n] \in [Proxy -> View]
             /\ [heard EXCEPT ![p].name = n] \in [Proxy -> View]
  BY DEF TypeOK, View
<1>4. ASSUME NEW b \in BOOLEAN
      PROVE  /\ [state EXCEPT ![p].paired = b] \in [Proxy -> View]
             /\ [heard EXCEPT ![p].paired = b] \in [Proxy -> View]
  BY DEF TypeOK, View
<1>5. ASSUME NEW n \in Name, device_set_name(p, n)
      PROVE  /\ state' \in [Proxy -> View]
             /\ heard' \in [Proxy -> View]
             /\ faults' \in [Proxy -> SUBSET FaultKinds]
  BY <1>2, <1>3, <1>5 DEF device_set_name, TypeOK
<1>6. ASSUME NEW b \in BOOLEAN, device_set_paired(p, b)
      PROVE  /\ state' \in [Proxy -> View]
             /\ heard' \in [Proxy -> View]
             /\ faults' \in [Proxy -> SUBSET FaultKinds]
  BY <1>2, <1>4, <1>6 DEF device_set_paired, TypeOK
<1> QED
  BY <1>5, <1>6

\* Every step keeps the types; the radio is asked once at a time because a device
\* without a call to answer has none outstanding.
LEMMA NextTypeOK ==
  ASSUME TypeOK, ReplyHasCall, [Next]_vars
  PROVE  TypeOK'
<1>1. CASE UNCHANGED vars
  BY <1>1 DEF vars, TypeOK
<1>2. ASSUME NEW p \in Proxy, RadioChanges(p) PROVE TypeOK'
  <2>1. radio[p].paired \in BOOLEAN
    BY DEF TypeOK, View
  <2>2. radio' \in [Proxy -> View]
    <3>1. \A n \in Name : [radio EXCEPT ![p].name = n] \in [Proxy -> View]
      BY DEF TypeOK, View
    <3>2. [radio EXCEPT ![p].paired = ~@] \in [Proxy -> View]
      BY DEF TypeOK, View
    <3> QED
      BY <1>2, <3>1, <3>2 DEF RadioChanges
  <2>3. PICK m \in Message : inbox' = [inbox EXCEPT ![p] = Append(@, m)]
    <3>1. [kind |-> "Paired", value |-> ~radio[p].paired] \in Message
      BY RadioMessages
    <3> QED
      BY <1>2, <3>1, RadioMessages DEF RadioChanges
  <2>4. Append(inbox[p], m) \in Seq(Message)
    BY AppendProperties DEF TypeOK, Message
  <2>5. inbox' \in [Proxy -> Seq(Property \cup Reply)]
    BY <2>3, <2>4 DEF TypeOK, Message
  <2>6. faults' \in [Proxy -> SUBSET FaultKinds]
    BY <1>2, RadioFaults
  <2> QED
    BY <1>2, <2>2, <2>5, <2>6 DEF RadioChanges, TypeOK
<1>3. ASSUME NEW p \in Proxy, RadioAnswers(p) PROVE TypeOK'
  <2>1. calls' \in [Proxy -> 0 .. 1]
    BY <1>3 DEF RadioAnswers, TypeOK
  <2>2. radio' \in [Proxy -> View]
    <3>1. [radio EXCEPT ![p].paired = TRUE] \in [Proxy -> View]
      BY DEF TypeOK, View
    <3> QED
      BY <1>3, <3>1 DEF RadioAnswers, TypeOK
  <2>3. PICK r \in Seq(Message) : inbox' = [inbox EXCEPT ![p] = r]
    <3> DEFINE ok == [kind |-> "reply", ok |-> TRUE]
               no == [kind |-> "reply", ok |-> FALSE]
               news == [kind |-> "Paired", value |-> TRUE]
    <3>1. ok \in Message /\ no \in Message /\ news \in Message
      BY RadioMessages
    <3> HIDE DEF ok, no, news
    <3>2. inbox[p] \in Seq(Message)
      BY DEF TypeOK, Message
    <3>3. Append(inbox[p], ok) \in Seq(Message) /\ Append(inbox[p], no) \in Seq(Message)
      BY <3>1, <3>2, AppendProperties
    <3>4. <<ok, news>> \in Seq(Message) /\ <<news, ok>> \in Seq(Message)
      BY <3>1
    <3>5. inbox[p] \o <<ok, news>> \in Seq(Message) /\ inbox[p] \o <<news, ok>> \in Seq(Message)
      BY <3>2, <3>4, ConcatProperties
    <3>6. \E r \in {Append(inbox[p], ok), Append(inbox[p], no),
                    inbox[p] \o <<ok, news>>, inbox[p] \o <<news, ok>>} :
            inbox' = [inbox EXCEPT ![p] = r]
      BY <1>3 DEF RadioAnswers, ok, no, news
    <3> QED
      BY <3>3, <3>5, <3>6
  <2>4. inbox' \in [Proxy -> Seq(Property \cup Reply)]
    BY <2>3 DEF TypeOK, Message
  <2> QED
    BY <1>3, <2>1, <2>2, <2>4 DEF RadioAnswers, TypeOK
<1>4. ASSUME NEW p \in Proxy, added(p) PROVE TypeOK'
  <2>1. Created \in View
    BY PairingAssumption DEF Created, View
  <2>2. /\ state' \in [Proxy -> View] /\ heard' \in [Proxy -> View]
        /\ radio' \in [Proxy -> View]
    BY <1>4, <2>1 DEF added, TypeOK
  <2>3. faults' \in [Proxy -> SUBSET FaultKinds]
    <3>1. PICK v \in View :
            faults' = [faults EXCEPT ![p] = (IF v.paired THEN {"paired"} ELSE {})
                                     \cup IF v.name # Unknown THEN {"name"} ELSE {}]
      BY <1>4 DEF added
    <3>2. (IF v.paired THEN {"paired"} ELSE {})
            \cup (IF v.name # Unknown THEN {"name"} ELSE {}) \in SUBSET FaultKinds
      BY DEF FaultKinds
    <3> QED
      BY <3>1, <3>2 DEF TypeOK
  <2>4. /\ device' \in [Proxy -> {"absent", "null", "live"}]
        /\ msg' \in [Proxy -> Call \cup {NULL}]
    BY <1>4 DEF added, TypeOK
  <2> QED
    BY <1>4, <2>2, <2>3, <2>4 DEF added, TypeOK
<1>5. ASSUME NEW p \in Proxy, removed(p) PROVE TypeOK'
  <2>1. faults' \in [Proxy -> SUBSET FaultKinds]
    BY <1>5 DEF removed, Fault, FaultKinds, TypeOK
  <2>2. inbox' \in [Proxy -> Seq(Property \cup Reply)]
    BY <1>5, EmptySeq DEF removed, TypeOK
  <2>3. /\ device' \in [Proxy -> {"absent", "null", "live"}]
        /\ msg' \in [Proxy -> Call \cup {NULL}]
        /\ calls' \in [Proxy -> 0 .. 1]
    BY <1>5 DEF removed, TypeOK
  <2> QED
    BY <1>5, <2>1, <2>2, <2>3 DEF removed, TypeOK
<1>6. ASSUME NEW p \in Proxy, inbox[p] # <<>>, inbox' = [inbox EXCEPT ![p] = Tail(@)]
      PROVE  inbox' \in [Proxy -> Seq(Property \cup Reply)]
  BY <1>6, HeadOfInbox DEF TypeOK, Message
<1>7. ASSUME NEW p \in Proxy, property_changed(p) PROVE TypeOK'
  <2> DEFINE m == Head(inbox[p])
  <2>1. m \in Property
    BY <1>7, HeadOfInbox DEF property_changed, Message, Reply
  <2>2. /\ m.kind = "Name" => m.value \in Name
        /\ m.kind # "Name" => m.value \in BOOLEAN
    BY <2>1 DEF Property
  <2>3. /\ state' \in [Proxy -> View]
        /\ heard' \in [Proxy -> View]
        /\ faults' \in [Proxy -> SUBSET FaultKinds]
    <3>1. CASE device[p] = "null"
      BY <1>7, <3>1 DEF property_changed, TypeOK
    <3>2. CASE device[p] # "null"
      BY <1>7, <2>2, <3>2, SetKeepsTypes DEF property_changed
    <3> QED
      BY <3>1, <3>2
  <2> QED
    BY <1>6, <1>7, <2>3 DEF property_changed, TypeOK
<1>8. ASSUME NEW p \in Proxy, pair_reply(p) PROVE TypeOK'
  <2>1. faults' \in [Proxy -> SUBSET FaultKinds]
    <3>1. \A k \in SUBSET FaultKinds :
            [faults EXCEPT ![p] = @ \cup k] \in [Proxy -> SUBSET FaultKinds]
      BY DEF TypeOK
    <3>2. {"bus"} \in SUBSET FaultKinds /\ {} \in SUBSET FaultKinds
          /\ {"pair"} \in SUBSET FaultKinds
      BY DEF FaultKinds
    <3> QED
      BY <1>8, <3>1, <3>2 DEF pair_reply, Sends, Fault
  <2>2. msg' \in [Proxy -> Call \cup {NULL}]
        /\ answer' \in [Call -> {"none", "waiting", "ok", "busy"}]
    BY <1>8 DEF pair_reply, TypeOK
  <2> QED
    BY <1>6, <1>8, <2>1, <2>2 DEF pair_reply, TypeOK
<1>9. ASSUME NEW p \in Proxy, NEW c \in Call, method_pair(c, p) PROVE TypeOK'
  <2>1. msg[p] = NULL => calls[p] = 0
    BY DEF ReplyHasCall, TypeOK
  <2>2. msg' \in [Proxy -> Call \cup {NULL}]
    BY <1>9 DEF method_pair, TypeOK
  <2>3. calls' \in [Proxy -> 0 .. 1]
    <3>1. calls' = calls \/ (msg[p] = NULL /\ calls' = [calls EXCEPT ![p] = @ + 1])
      BY <1>9 DEF method_pair
    <3>2. CASE calls' = calls
      BY <3>2 DEF TypeOK
    <3>3. CASE msg[p] = NULL /\ calls' = [calls EXCEPT ![p] = @ + 1]
      BY <2>1, <3>3 DEF TypeOK
    <3> QED
      BY <3>1, <3>2, <3>3
  <2>4. answer' \in [Call -> {"none", "waiting", "ok", "busy"}]
    BY <1>9 DEF method_pair, TypeOK
  <2>5. faults' \in [Proxy -> SUBSET FaultKinds]
    <3>1. [faults EXCEPT ![p] = @ \cup {"pair"}] \in [Proxy -> SUBSET FaultKinds]
      BY DEF TypeOK, FaultKinds
    <3> QED
      BY <1>9, <3>1 DEF method_pair, Fault, TypeOK
  <2> QED
    BY <1>9, <2>2, <2>3, <2>4, <2>5 DEF method_pair, TypeOK
<1>10. CASE proxy_stop
  <2>1. faults' \in [Proxy -> SUBSET FaultKinds]
    BY <1>10 DEF proxy_stop, FaultKinds, TypeOK
  <2>2. inbox' \in [Proxy -> Seq(Property \cup Reply)]
    BY <1>10, EmptySeq DEF proxy_stop
  <2>3. /\ device' \in [Proxy -> {"absent", "null", "live"}]
        /\ msg' \in [Proxy -> Call \cup {NULL}]
        /\ calls' \in [Proxy -> 0 .. 1]
        /\ daemon' \in {"up", "stopped", "crashed"}
    BY <1>10 DEF proxy_stop
  <2> QED
    BY <1>10, <2>1, <2>2, <2>3 DEF proxy_stop, TypeOK
<1> QED
  BY <1>1, <1>2, <1>3, <1>4, <1>5, <1>7, <1>8, <1>9, <1>10 DEF Next

\* An event of one object changes nothing of another.
LEMMA OthersSame ==
  ASSUME TypeOK, NEW p \in Proxy, Step(p), NEW q \in Proxy, q # p
  PROVE  Same(q)
<1>1. CASE RadioChanges(p)
  BY <1>1 DEF RadioChanges, Same, TypeOK
<1>2. CASE RadioAnswers(p)
  BY <1>2 DEF RadioAnswers, Same, TypeOK
<1>3. CASE added(p)
  BY <1>3 DEF added, Same, TypeOK
<1>4. CASE removed(p)
  BY <1>4 DEF removed, Fault, Same, TypeOK
<1>5. CASE property_changed(p)
  BY <1>5 DEF property_changed, device_set_name, device_set_paired, Sends, Fault,
              Same, TypeOK
<1>6. CASE pair_reply(p)
  BY <1>6 DEF pair_reply, Sends, Fault, Same, TypeOK
<1>7. ASSUME NEW c \in Call, method_pair(c, p) PROVE Same(q)
  BY <1>7 DEF method_pair, Fault, Same, TypeOK
<1> QED
  BY <1>1, <1>2, <1>3, <1>4, <1>5, <1>6, <1>7 DEF Step

\* A step is an event of one object, or the end of all.
LEMMA NextIsStep == Next <=> proxy_stop \/ \E p \in Proxy : Step(p)
BY DEF Next, Step

-----------------------------------------------------------------------------
(* Calls and their answers.                                                *)

\* An object that is not there has no message, no call and no caller.
AbsentInv ==
  \A p \in Proxy : device[p] = "absent" =>
    inbox[p] = <<>> /\ calls[p] = 0 /\ msg[p] = NULL

\* The call a device holds waits for an answer, and two devices hold two calls.
CallerInv ==
  /\ \A p \in Proxy : msg[p] # NULL => answer[msg[p]] = "waiting"
  /\ \A p, q \in Proxy : msg[p] # NULL /\ msg[p] = msg[q] => p = q

NoReply(q) == \A i \in DOMAIN q : ~IsReply(q[i])
OneReply(q) == \A i, j \in DOMAIN q : IsReply(q[i]) /\ IsReply(q[j]) => i = j

\* At most one call or answer is under way for an object, and its caller is known.
OneDue(p) ==
  /\ OneReply(inbox[p])
  /\ calls[p] = 1 => NoReply(inbox[p])
  /\ calls[p] = 1 \/ ~NoReply(inbox[p]) => msg[p] # NULL

PairingInv == TypeOK /\ AbsentInv /\ CallerInv /\ \A p \in Proxy : OneDue(p)

\* What the invariant says of replies is what ReplyHasCall states.
LEMMA ImpliesReplyHasCall ==
  ASSUME PairingInv
  PROVE  ReplyHasCall
<1>1. ASSUME NEW p \in Proxy PROVE calls[p] \in {0, 1} /\ OneDue(p)
  BY DEF PairingInv, TypeOK
<1>2. \A p \in Proxy : msg[p] # NULL => answer[msg[p]] = "waiting"
  BY DEF PairingInv, CallerInv
<1>3. ASSUME NEW p \in Proxy
      PROVE  LET due == {i \in DOMAIN inbox[p] : IsReply(inbox[p][i])} IN
               /\ calls[p] <= 1 /\ (calls[p] = 1 => due = {})
               /\ \A i, j \in due : i = j
               /\ calls[p] > 0 \/ due # {} => msg[p] # NULL /\ answer[msg[p]] = "waiting"
  <2> DEFINE due == {i \in DOMAIN inbox[p] : IsReply(inbox[p][i])}
  <2>1. calls[p] <= 1 /\ (calls[p] > 0 => calls[p] = 1)
    BY <1>1
  <2>2. calls[p] = 1 => due = {}
    BY <1>1 DEF OneDue, NoReply, OneReply
  <2>3. \A i, j \in due : i = j
    BY <1>1 DEF OneDue, NoReply, OneReply
  <2>4. calls[p] = 1 \/ due # {} => msg[p] # NULL
    BY <1>1 DEF OneDue, NoReply, OneReply
  <2> QED
    BY <1>2, <2>1, <2>2, <2>3, <2>4
<1> QED
  BY <1>3 DEF ReplyHasCall

\* Replies in a queue that grows at its end and is read at its head.
LEMMA AppendReply ==
  ASSUME NEW q \in Seq(Message), NEW m \in Message
  PROVE  /\ Append(q, m) \in Seq(Message)
         /\ NoReply(q) /\ ~IsReply(m) => NoReply(Append(q, m))
         /\ IsReply(m) => ~NoReply(Append(q, m))
         /\ NoReply(Append(q, m)) => NoReply(q)
         /\ NoReply(q) => OneReply(Append(q, m))
         /\ OneReply(q) /\ ~IsReply(m) => OneReply(Append(q, m))
<1>1. /\ Append(q, m) \in Seq(Message)
      /\ DOMAIN Append(q, m) = 1 .. Len(q) + 1 /\ DOMAIN q = 1 .. Len(q)
      /\ Len(q) \in Nat
      /\ \A i \in 1 .. Len(q) : Append(q, m)[i] = q[i]
      /\ Append(q, m)[Len(q) + 1] = m
  BY AppendProperties, LenProperties
<1> QED
  BY <1>1 DEF NoReply, OneReply

\* Reading the head of a queue.
LEMMA TailReply ==
  ASSUME NEW q \in Seq(Message), q # <<>>
  PROVE  /\ NoReply(q) => NoReply(Tail(q))
         /\ ~IsReply(Head(q)) => (NoReply(q) <=> NoReply(Tail(q)))
         /\ OneReply(q) => OneReply(Tail(q))
         /\ OneReply(q) /\ IsReply(Head(q)) => NoReply(Tail(q))
         /\ IsReply(Head(q)) => ~NoReply(q)
<1>1. /\ Len(q) \in Nat \ {0} /\ DOMAIN q = 1 .. Len(q)
      /\ Head(q) = q[1]
      /\ DOMAIN Tail(q) = 1 .. Len(q) - 1
      /\ \A i \in 1 .. Len(q) - 1 : Tail(q)[i] = q[i + 1]
  BY HeadTailProperties, EmptySeq, LenProperties
<1>2. \A i \in 2 .. Len(q) : i - 1 \in 1 .. Len(q) - 1 /\ q[i] = Tail(q)[i - 1]
  BY <1>1
<1>3. OneReply(q) => OneReply(Tail(q))
  BY <1>1 DEF OneReply
<1>4. ASSUME ~IsReply(Head(q)), NoReply(Tail(q)) PROVE NoReply(q)
  <2> SUFFICES ASSUME NEW i \in 1 .. Len(q) PROVE ~IsReply(q[i])
    BY <1>1 DEF NoReply
  <2>1. CASE i = 1
    BY <1>1, <1>4, <2>1
  <2>2. CASE i # 1
    <3>1. i \in 2 .. Len(q)
      BY <1>1, <2>2
    <3>2. i - 1 \in DOMAIN Tail(q) /\ q[i] = Tail(q)[i - 1]
      BY <1>1, <1>2, <3>1
    <3> QED
      BY <1>4, <3>2 DEF NoReply
  <2> QED
    BY <2>1, <2>2
<1>5. OneReply(q) /\ IsReply(Head(q)) => NoReply(Tail(q))
  BY <1>1 DEF OneReply, NoReply
<1>6. NoReply(q) => NoReply(Tail(q)) /\ ~IsReply(Head(q))
  BY <1>1 DEF NoReply
<1> QED
  BY <1>3, <1>4, <1>5, <1>6

\* An empty queue.
LEMMA EmptyReply == NoReply(<<>>) /\ OneReply(<<>>)
BY DEF NoReply, OneReply

\* The two messages a successful Pair sends, one after the other.
LEMMA TwoAppended ==
  ASSUME NEW q \in Seq(Message), NEW a \in Message, NEW b \in Message
  PROVE  q \o <<a, b>> = Append(Append(q, a), b)
<1>1. <<a, b>> \in Seq(Message) /\ Len(<<a, b>>) = 2
  OBVIOUS
<1>2. /\ q \o <<a, b>> \in Seq(Message)
      /\ Len(q \o <<a, b>>) = Len(q) + 2
      /\ \A i \in 1 .. Len(q) + 2 :
           (q \o <<a, b>>)[i] = IF i <= Len(q) THEN q[i] ELSE <<a, b>>[i - Len(q)]
  BY <1>1, ConcatProperties
<1>3. /\ Append(q, a) \in Seq(Message) /\ Len(Append(q, a)) = Len(q) + 1
      /\ \A i \in 1 .. Len(q) : Append(q, a)[i] = q[i]
      /\ Append(q, a)[Len(q) + 1] = a
  BY AppendProperties
<1>4. /\ Append(Append(q, a), b) \in Seq(Message)
      /\ Len(Append(Append(q, a), b)) = Len(q) + 2
      /\ \A i \in 1 .. Len(q) + 1 : Append(Append(q, a), b)[i] = Append(q, a)[i]
      /\ Append(Append(q, a), b)[Len(q) + 2] = b
  <2>1. Len(q) \in Nat
    BY LenProperties
  <2> QED
    BY <1>3, <2>1, AppendProperties
<1>5. \A i \in 1 .. Len(q) + 2 : (q \o <<a, b>>)[i] = Append(Append(q, a), b)[i]
  <2> SUFFICES ASSUME NEW i \in 1 .. Len(q) + 2
               PROVE  (q \o <<a, b>>)[i] = Append(Append(q, a), b)[i]
    OBVIOUS
  <2>0. Len(q) \in Nat
    BY LenProperties
  <2>1. CASE i <= Len(q)
    BY <1>2, <1>3, <1>4, <2>0, <2>1
  <2>2. CASE i = Len(q) + 1
    <3>1. (q \o <<a, b>>)[i] = <<a, b>>[1]
      BY <1>2, <2>0, <2>2
    <3> QED
      BY <1>3, <1>4, <2>0, <2>2, <3>1
  <2>3. CASE i = Len(q) + 2
    <3>1. (q \o <<a, b>>)[i] = <<a, b>>[2]
      BY <1>2, <2>0, <2>3
    <3> QED
      BY <1>4, <2>3, <3>1
  <2> QED
    BY <2>0, <2>1, <2>2, <2>3
<1> QED
  BY <1>2, <1>4, <1>5, SeqEqual

\* An event of object p keeps what calls and answers of p promise.
LEMMA StepOneDue ==
  ASSUME PairingInv, NEW p \in Proxy, Step(p)
  PROVE  OneDue(p)'
<1>0. /\ TypeOK /\ AbsentInv /\ OneDue(p) /\ calls[p] \in {0, 1}
      /\ inbox[p] \in Seq(Message)
  BY DEF PairingInv, TypeOK, Message
<1>1. CASE RadioChanges(p)
  <2>1. [kind |-> "Paired", value |-> ~radio[p].paired] \in Message
    BY RadioMessages
  <2>2. PICK m \in Message : ~IsReply(m) /\ inbox' = [inbox EXCEPT ![p] = Append(@, m)]
    BY <1>1, <2>1, RadioMessages DEF RadioChanges, IsReply
  <2>3. inbox'[p] = Append(inbox[p], m) /\ UNCHANGED <<calls, msg>>
    BY <1>0, <1>1, <2>2 DEF RadioChanges, TypeOK
  <2> QED
    BY <1>0, <2>2, <2>3, AppendReply DEF OneDue
<1>2. CASE RadioAnswers(p)
  <2> DEFINE ok == [kind |-> "reply", ok |-> TRUE]
             no == [kind |-> "reply", ok |-> FALSE]
             news == [kind |-> "Paired", value |-> TRUE]
             q == inbox[p]
  <2>1. /\ ok \in Message /\ no \in Message /\ news \in Message
        /\ IsReply(ok) /\ IsReply(no) /\ ~IsReply(news)
    BY RadioMessages DEF IsReply
  <2>2. calls[p] = 1 /\ calls'[p] = 0 /\ msg' = msg
    BY <1>0, <1>2 DEF RadioAnswers, TypeOK
  <2>3. inbox'[p] \in {Append(q, ok), Append(q, no), q \o <<ok, news>>, q \o <<news, ok>>}
    BY <1>0, <1>2 DEF RadioAnswers, TypeOK
  <2> HIDE DEF ok, no, news, q
  <2>4. q \in Seq(Message) /\ NoReply(q) /\ msg[p] # NULL
    BY <1>0, <2>2 DEF OneDue, q
  <2>5. OneReply(Append(q, ok)) /\ OneReply(Append(q, no))
    BY <2>1, <2>4, AppendReply
  <2>6. OneReply(q \o <<ok, news>>)
    <3>1. Append(q, ok) \in Seq(Message)
      BY <2>1, <2>4, AppendReply
    <3>2. OneReply(Append(Append(q, ok), news))
      BY <2>1, <2>5, <3>1, AppendReply
    <3> QED
      BY <2>1, <2>4, <3>2, TwoAppended
  <2>7. OneReply(q \o <<news, ok>>)
    <3>1. Append(q, news) \in Seq(Message) /\ NoReply(Append(q, news))
      BY <2>1, <2>4, AppendReply
    <3>2. OneReply(Append(Append(q, news), ok))
      BY <2>1, <3>1, AppendReply
    <3> QED
      BY <2>1, <2>4, <3>2, TwoAppended
  <2>8. OneReply(inbox'[p])
    BY <2>3, <2>5, <2>6, <2>7
  <2>9. msg'[p] # NULL /\ calls'[p] # 1
    BY <2>2, <2>4
  <2> QED
    BY <2>8, <2>9 DEF OneDue
<1>3. CASE added(p)
  <2>1. inbox'[p] = <<>> /\ calls'[p] = 0
    BY <1>0, <1>3 DEF added, AbsentInv
  <2> QED
    BY <2>1, EmptyReply DEF OneDue
<1>4. CASE removed(p)
  <2>1. inbox'[p] = <<>> /\ calls'[p] = 0
    BY <1>0, <1>4 DEF removed, TypeOK
  <2> QED
    BY <2>1, EmptyReply DEF OneDue
<1>5. CASE property_changed(p)
  <2>1. /\ inbox[p] # <<>> /\ ~IsReply(Head(inbox[p]))
        /\ inbox'[p] = Tail(inbox[p]) /\ UNCHANGED <<calls, msg>>
    BY <1>0, <1>5 DEF property_changed, TypeOK, IsReply
  <2> QED
    BY <1>0, <2>1, TailReply DEF OneDue
<1>6. CASE pair_reply(p)
  <2>1. /\ inbox[p] # <<>> /\ IsReply(Head(inbox[p]))
        /\ inbox'[p] = Tail(inbox[p]) /\ calls' = calls
    BY <1>0, <1>6 DEF pair_reply, TypeOK, IsReply
  <2>2. NoReply(Tail(inbox[p])) /\ OneReply(Tail(inbox[p])) /\ ~NoReply(inbox[p])
    BY <1>0, <2>1, TailReply DEF OneDue
  <2> QED
    BY <1>0, <2>1, <2>2 DEF OneDue
<1>7. ASSUME NEW c \in Call, method_pair(c, p) PROVE OneDue(p)'
  <2>1. inbox' = inbox
    BY <1>7 DEF method_pair
  <2>2. CASE UNCHANGED <<msg, calls>>
    BY <1>0, <2>1, <2>2 DEF OneDue
  <2>3. CASE msg[p] = NULL /\ msg' = [msg EXCEPT ![p] = c]
    <3>1. msg'[p] # NULL /\ NoReply(inbox[p])
      BY <1>0, <2>3, PairingAssumption DEF TypeOK, OneDue
    <3> QED
      BY <1>0, <2>1, <3>1 DEF OneDue
  <2> QED
    BY <1>7, <2>2, <2>3 DEF method_pair
<1> QED
  BY <1>1, <1>2, <1>3, <1>4, <1>5, <1>6, <1>7 DEF Step

\* An event of object p keeps the callers known.
LEMMA StepCaller ==
  ASSUME PairingInv, NEW p \in Proxy, Step(p)
  PROVE  CallerInv'
<1>0. TypeOK /\ CallerInv /\ OneDue(p) /\ NULL \notin Call
  BY PairingAssumption DEF PairingInv
<1>1. ASSUME answer' = answer, \A q \in Proxy : msg'[q] \in {msg[q], NULL}
      PROVE  CallerInv'
  BY <1>0, <1>1 DEF CallerInv
<1>2. CASE RadioChanges(p) \/ RadioAnswers(p) \/ property_changed(p)
  BY <1>1, <1>2 DEF RadioChanges, RadioAnswers, property_changed
<1>3. CASE added(p) \/ removed(p)
  BY <1>0, <1>1, <1>3 DEF added, removed, TypeOK
<1>4. CASE pair_reply(p)
  <2>1. CASE ~Head(inbox[p]).ok
    BY <1>1, <1>4, <2>1 DEF pair_reply
  <2>2. CASE Head(inbox[p]).ok
    <3>1. /\ msg' = [msg EXCEPT ![p] = NULL]
          /\ answer' = [answer EXCEPT ![msg[p]] = "ok"] \/ answer' = answer
      BY <1>4, <2>2 DEF pair_reply
    <3>2. ASSUME NEW q \in Proxy, msg'[q] # NULL
          PROVE  msg'[q] = msg[q] /\ answer'[msg'[q]] = answer[msg[q]]
      <4>1. q # p /\ msg'[q] = msg[q] /\ msg[q] \in Call
        BY <1>0, <3>1, <3>2 DEF TypeOK
      <4>2. msg[q] # msg[p]
        BY <1>0, <3>2, <4>1 DEF CallerInv
      <4> QED
        BY <1>0, <3>1, <4>1, <4>2 DEF TypeOK
    <3> QED
      BY <1>0, <3>2 DEF CallerInv
  <2> QED
    BY <2>1, <2>2
<1>5. ASSUME NEW c \in Call, method_pair(c, p) PROVE CallerInv'
  <2>1. answer[c] # "waiting"
    BY <1>5 DEF method_pair
  <2>2. \A q \in Proxy : msg[q] # c
    BY <1>0, <2>1 DEF CallerInv
  <2>3. PICK v : answer' = [answer EXCEPT ![c] = v] /\ (v = "waiting" \/ msg' = msg)
    BY <1>5 DEF method_pair
  <2>4. \A q \in Proxy : msg[q] # NULL => answer'[msg[q]] = answer[msg[q]]
    BY <1>0, <2>2, <2>3 DEF TypeOK
  <2>5. CASE msg' = msg
    BY <1>0, <2>4, <2>5 DEF CallerInv
  <2>6. CASE msg' # msg
    <3>1. msg' = [msg EXCEPT ![p] = c] /\ v = "waiting"
      BY <1>5, <2>3, <2>6 DEF method_pair
    <3>2. answer'[c] = "waiting"
      BY <1>0, <2>3, <3>1 DEF TypeOK
    <3>3. \A q \in Proxy : msg'[q] = IF q = p THEN c ELSE msg[q]
      BY <1>0, <3>1 DEF TypeOK
    <3> QED
      BY <1>0, <2>2, <2>4, <3>2, <3>3 DEF CallerInv
  <2> QED
    BY <2>5, <2>6
<1> QED
  BY <1>2, <1>3, <1>4, <1>5 DEF Step

\* An object that is not there has nothing under way.
LEMMA StepAbsent ==
  ASSUME PairingInv, NEW p \in Proxy, Step(p)
  PROVE  device'[p] = "absent" => inbox'[p] = <<>> /\ calls'[p] = 0 /\ msg'[p] = NULL
<1>0. TypeOK /\ AbsentInv
  BY DEF PairingInv
<1>1. CASE RadioChanges(p)
  BY <1>1 DEF RadioChanges
<1>2. CASE RadioAnswers(p)
  BY <1>0, <1>2 DEF RadioAnswers, AbsentInv
<1>3. CASE added(p)
  BY <1>0, <1>3 DEF added, TypeOK
<1>4. CASE removed(p)
  BY <1>0, <1>4 DEF removed, TypeOK
<1>5. CASE property_changed(p)
  BY <1>0, <1>5 DEF property_changed, AbsentInv
<1>6. CASE pair_reply(p)
  BY <1>0, <1>6 DEF pair_reply, AbsentInv
<1>7. ASSUME NEW c \in Call, method_pair(c, p) PROVE device'[p] # "absent"
  BY <1>7 DEF method_pair
<1> QED
  BY <1>1, <1>2, <1>3, <1>4, <1>5, <1>6, <1>7 DEF Step

\* The invariant is inductive.
LEMMA NextPairingInv == PairingInv /\ [Next]_vars => PairingInv'
<1> SUFFICES ASSUME PairingInv, [Next]_vars PROVE PairingInv'
  OBVIOUS
<1>0. TypeOK /\ AbsentInv /\ TypeOK'
  BY ImpliesReplyHasCall, NextTypeOK DEF PairingInv
<1>1. CASE UNCHANGED vars
  BY <1>0, <1>1 DEF PairingInv, AbsentInv, CallerInv, OneDue, vars
<1>2. CASE proxy_stop
  <2>1. \A p \in Proxy : inbox'[p] = <<>> /\ calls'[p] = 0 /\ msg'[p] = NULL
    BY <1>2 DEF proxy_stop
  <2>2. \A p \in Proxy : OneDue(p)'
    BY <2>1, EmptyReply DEF OneDue
  <2>3. AbsentInv' /\ CallerInv'
    BY <2>1 DEF AbsentInv, CallerInv
  <2> QED
    BY <1>0, <2>2, <2>3 DEF PairingInv
<1>3. ASSUME NEW p \in Proxy, Step(p) PROVE PairingInv'
  <2>1. ASSUME NEW q \in Proxy, q # p PROVE Same(q)
    BY <1>0, <1>3, <2>1, OthersSame
  <2>2. ASSUME NEW q \in Proxy PROVE OneDue(q)'
    <3>1. CASE q = p
      BY <1>3, <3>1, StepOneDue
    <3>2. CASE q # p
      BY <2>1, <3>2 DEF PairingInv, OneDue, Same
    <3> QED
      BY <3>1, <3>2
  <2>3. AbsentInv'
    <3> SUFFICES ASSUME NEW q \in Proxy, device'[q] = "absent"
                 PROVE  inbox'[q] = <<>> /\ calls'[q] = 0 /\ msg'[q] = NULL
      BY DEF AbsentInv
    <3>1. CASE q = p
      BY <1>3, <3>1, StepAbsent
    <3>2. CASE q # p
      BY <1>0, <2>1, <3>2 DEF AbsentInv, Same
    <3> QED
      BY <3>1, <3>2
  <2>4. CallerInv'
    BY <1>3, StepCaller
  <2> QED
    BY <1>0, <2>2, <2>3, <2>4 DEF PairingInv
<1> QED
  BY <1>1, <1>2, <1>3, NextIsStep

\* Every behaviour keeps the invariant.
THEOREM PairingInvariant == Spec => []PairingInv
<1>1. Init => PairingInv
  <2> SUFFICES ASSUME Init PROVE PairingInv
    OBVIOUS
  <2>1. \A p \in Proxy : inbox[p] = <<>> /\ calls[p] = 0 /\ msg[p] = NULL
    BY DEF Init
  <2>2. ASSUME NEW p \in Proxy PROVE OneDue(p)
    <3>1. NoReply(inbox[p]) /\ OneReply(inbox[p]) /\ calls[p] # 1
      BY <2>1, EmptyReply
    <3> QED
      BY <3>1 DEF OneDue
  <2>3. AbsentInv /\ CallerInv
    BY <2>1 DEF AbsentInv, CallerInv
  <2> QED
    BY <2>2, <2>3, InitTypeOK DEF PairingInv
<1> QED
  BY <1>1, NextPairingInv, PTL DEF Spec

\* pair_reply always finds in device->msg the one call it answers, whatever objects
\* come and go while the radio takes its time.
THEOREM RepliesHaveCalls == Spec => []ReplyHasCall
<1>1. PairingInv => ReplyHasCall
  BY ImpliesReplyHasCall
<1> QED
  BY <1>1, PairingInvariant, PTL

-----------------------------------------------------------------------------
(* Busy only while there is something to wait for.                         *)

\* A device that holds a call has a reason to refuse another one.
BusyInv(p) ==
  msg[p] # NULL => \/ calls[p] = 1
                   \/ ~NoReply(inbox[p])
                   \/ "pair" \in faults[p]

\* An event of object p leaves it a reason to be busy.
LEMMA StepBusy ==
  ASSUME PairingInv, NEW p \in Proxy, BusyInv(p), Step(p)
  PROVE  BusyInv(p)'
<1>0. /\ TypeOK /\ OneDue(p) /\ calls[p] \in {0, 1}
      /\ inbox[p] \in Seq(Message)
  BY DEF PairingInv, TypeOK, Message
<1>1. CASE RadioChanges(p)
  <2>1. [kind |-> "Paired", value |-> ~radio[p].paired] \in Message
    BY RadioMessages
  <2>2. PICK m \in Message : inbox' = [inbox EXCEPT ![p] = Append(@, m)]
    BY <1>1, <2>1, RadioMessages DEF RadioChanges
  <2>3. /\ inbox'[p] = Append(inbox[p], m) /\ UNCHANGED <<calls, msg>>
        /\ "pair" \in faults[p] => "pair" \in faults'[p]
    BY <1>0, <1>1, <2>2, RadioFaults DEF RadioChanges, TypeOK
  <2>4. ~NoReply(inbox[p]) => ~NoReply(inbox'[p])
    BY <1>0, <2>3, AppendReply
  <2> QED
    BY <2>3, <2>4 DEF BusyInv
<1>2. CASE RadioAnswers(p)
  <2> DEFINE ok == [kind |-> "reply", ok |-> TRUE]
             no == [kind |-> "reply", ok |-> FALSE]
             news == [kind |-> "Paired", value |-> TRUE]
             q == inbox[p]
  <2>1. /\ ok \in Message /\ no \in Message /\ news \in Message
        /\ IsReply(ok) /\ IsReply(no)
    BY RadioMessages DEF IsReply
  <2>2. inbox'[p] \in {Append(q, ok), Append(q, no), q \o <<ok, news>>, q \o <<news, ok>>}
    BY <1>0, <1>2 DEF RadioAnswers, TypeOK
  <2> HIDE DEF ok, no, news
  <2>3. ~NoReply(Append(q, ok)) /\ ~NoReply(Append(q, no))
    BY <1>0, <2>1, AppendReply
  <2>4. /\ Append(q, ok) \in Seq(Message) /\ Append(q, news) \in Seq(Message)
        /\ q \o <<ok, news>> = Append(Append(q, ok), news)
        /\ q \o <<news, ok>> = Append(Append(q, news), ok)
    BY <1>0, <2>1, AppendReply, TwoAppended
  <2>5. ~NoReply(Append(Append(q, ok), news)) /\ ~NoReply(Append(Append(q, news), ok))
    BY <2>1, <2>3, <2>4, AppendReply
  <2>6. ~NoReply(inbox'[p])
    BY <2>2, <2>3, <2>4, <2>5
  <2> QED
    BY <2>6 DEF BusyInv
<1>3. CASE added(p) \/ removed(p)
  <2>1. msg'[p] = NULL
    BY <1>0, <1>3 DEF added, removed, TypeOK
  <2> QED
    BY <2>1 DEF BusyInv
<1>4. CASE property_changed(p)
  <2>1. /\ inbox[p] # <<>> /\ ~IsReply(Head(inbox[p]))
        /\ inbox'[p] = Tail(inbox[p]) /\ UNCHANGED <<calls, msg>>
    BY <1>0, <1>4 DEF property_changed, TypeOK, IsReply
  <2>2. NoReply(inbox[p]) <=> NoReply(inbox'[p])
    BY <1>0, <2>1, TailReply
  <2>3. faults[p] \subseteq faults'[p]
    BY <1>0, <1>4
       DEF property_changed, device_set_name, device_set_paired, Sends, Fault,
           TypeOK
  <2> QED
    BY <2>1, <2>2, <2>3 DEF BusyInv
<1>5. CASE pair_reply(p)
  <2>1. CASE Head(inbox[p]).ok
    <3>1. msg'[p] = NULL
      BY <1>0, <1>5, <2>1 DEF pair_reply, TypeOK
    <3> QED
      BY <3>1 DEF BusyInv
  <2>2. CASE ~Head(inbox[p]).ok
    <3>1. "pair" \in faults'[p]
      BY <1>0, <1>5, <2>2 DEF pair_reply, Fault, TypeOK
    <3> QED
      BY <3>1 DEF BusyInv
  <2> QED
    BY <2>1, <2>2
<1>6. ASSUME NEW c \in Call, method_pair(c, p) PROVE BusyInv(p)'
  <2>1. inbox' = inbox
    BY <1>6 DEF method_pair
  <2>2. CASE UNCHANGED <<msg, calls, faults>>
    BY <2>1, <2>2 DEF BusyInv
  <2>3. CASE msg[p] = NULL /\ calls' = [calls EXCEPT ![p] = @ + 1]
    <3>1. calls'[p] = 1
      BY <1>0, <2>3 DEF OneDue, TypeOK
    <3> QED
      BY <3>1 DEF BusyInv
  <2>4. CASE Fault(p, {"pair"})
    BY <1>0, <2>4 DEF Fault, BusyInv, TypeOK
  <2> QED
    BY <1>6, <2>2, <2>3, <2>4 DEF method_pair
<1> QED
  BY <1>1, <1>2, <1>3, <1>4, <1>5, <1>6 DEF Step

\* "Operation already in progress" is said of calls that are in progress: after
\* any history of calls, answers and objects that went away, a device holds a
\* call only while its answer can still come, or once one was refused.
THEOREM BusyIsInProgress == Spec => []InProgress
<1> DEFINE Busy == \A p \in Proxy : BusyInv(p)
<1>1. Init => Busy
  BY DEF Init, BusyInv
<1>2. PairingInv /\ Busy /\ [Next]_vars => Busy'
  <2> SUFFICES ASSUME PairingInv, Busy, [Next]_vars PROVE Busy'
    OBVIOUS
  <2>1. CASE UNCHANGED vars
    BY <2>1 DEF vars, BusyInv
  <2>2. CASE proxy_stop
    BY <2>2 DEF proxy_stop, BusyInv
  <2>3. ASSUME NEW p \in Proxy, Step(p) PROVE Busy'
    <3>1. ASSUME NEW q \in Proxy PROVE BusyInv(q)'
      <4>1. CASE q = p
        BY <2>3, <4>1, StepBusy
      <4>2. CASE q # p
        <5>1. Same(q)
          BY <2>3, <4>2, OthersSame DEF PairingInv
        <5> QED
          BY <5>1 DEF Same, BusyInv
      <4> QED
        BY <4>1, <4>2
    <3> QED
      BY <3>1
  <2> QED
    BY <2>1, <2>2, <2>3, NextIsStep
<1>3. PairingInv /\ Busy => InProgress
  <2> SUFFICES ASSUME PairingInv, Busy, NEW p \in Proxy, msg[p] # NULL
               PROVE  \/ calls[p] > 0
                      \/ \E i \in DOMAIN inbox[p] : IsReply(inbox[p][i])
                      \/ "pair" \in faults[p]
    BY DEF InProgress
  <2>1. BusyInv(p)
    OBVIOUS
  <2>2. calls[p] = 1 => calls[p] > 0
    OBVIOUS
  <2> QED
    BY <2>1, <2>2 DEF BusyInv, NoReply
<1> QED
  BY <1>1, <1>2, <1>3, PairingInvariant, PTL DEF Spec

-----------------------------------------------------------------------------
(* Signals.                                                                *)

\* What the signals Name and Paired told last is what the object says:
\* device_set_name and device_set_paired change the object only with a signal the
\* bus took.
THEOREM SignalsTellState == Spec => []SignalsAgree
<1>1. Init => SignalsAgree
  BY DEF Init, SignalsAgree
<1>2. PairingInv /\ SignalsAgree /\ [Next]_vars => SignalsAgree'
  <2> SUFFICES ASSUME PairingInv, SignalsAgree, [Next]_vars,
                      NEW q \in Proxy, device'[q] = "live"
               PROVE  heard'[q] = state'[q]
    BY DEF SignalsAgree
  <2>0. TypeOK /\ AbsentInv /\ (device[q] = "live" => heard[q] = state[q])
    BY DEF PairingInv, SignalsAgree
  <2>1. CASE UNCHANGED vars
    BY <2>0, <2>1 DEF vars
  <2>2. CASE proxy_stop
    BY <2>2 DEF proxy_stop
  <2>3. ASSUME NEW p \in Proxy, Step(p) PROVE heard'[q] = state'[q]
    <3>1. CASE q # p
      BY <2>0, <2>3, <3>1, OthersSame DEF Same
    <3>2. CASE q = p
      <4>1. CASE RadioChanges(p) \/ RadioAnswers(p) \/ pair_reply(p)
        BY <2>0, <3>2, <4>1 DEF RadioChanges, RadioAnswers, pair_reply
      <4>2. CASE added(p)
        BY <2>0, <3>2, <4>2 DEF added, TypeOK
      <4>3. CASE removed(p)
        BY <2>0, <3>2, <4>3 DEF removed, TypeOK
      <4>4. CASE property_changed(p)
        <5>1. heard[p] = state[p] /\ heard \in [Proxy -> View] /\ state \in [Proxy -> View]
          BY <2>0, <3>2, <4>4 DEF property_changed, TypeOK
        <5>2. \A n : device_set_name(p, n) => heard'[p] = state'[p]
          BY <5>1 DEF device_set_name
        <5>3. \A b : device_set_paired(p, b) => heard'[p] = state'[p]
          BY <5>1 DEF device_set_paired
        <5> QED
          BY <3>2, <4>4, <5>1, <5>2, <5>3 DEF property_changed
      <4>5. ASSUME NEW c \in Call, method_pair(c, p) PROVE heard'[q] = state'[q]
        BY <2>0, <4>5 DEF method_pair
      <4> QED
        BY <2>3, <4>1, <4>2, <4>3, <4>4, <4>5 DEF Step
    <3> QED
      BY <3>1, <3>2
  <2> QED
    BY <2>1, <2>2, <2>3, NextIsStep
<1> QED
  BY <1>1, <1>2, PairingInvariant, PTL DEF Spec

-----------------------------------------------------------------------------
(* The object mirrors the radio.                                           *)

\* The last message of kind k says v; there is no message of kind k.
LastOf(q, k, v) ==
  \E i \in 1 .. Len(q) : /\ q[i].kind = k /\ q[i].value = v
                         /\ \A j \in 1 .. Len(q) : j > i => q[j].kind # k
NoneOf(q, k) == \A i \in 1 .. Len(q) : q[i].kind # k

\* A new message is the last of its kind.
LEMMA AppendLast ==
  ASSUME NEW q \in Seq(Message), NEW m \in Message, NEW k, NEW v
  PROVE  /\ m.kind # k /\ LastOf(q, k, v) => LastOf(Append(q, m), k, v)
         /\ m.kind # k /\ NoneOf(q, k) => NoneOf(Append(q, m), k)
         /\ m.kind = k /\ m.value = v => LastOf(Append(q, m), k, v)
<1>1. /\ Len(Append(q, m)) = Len(q) + 1 /\ Len(q) \in Nat
      /\ \A i \in 1 .. Len(q) : Append(q, m)[i] = q[i]
      /\ Append(q, m)[Len(q) + 1] = m
  BY AppendProperties, LenProperties
<1>2. ASSUME m.kind # k, LastOf(q, k, v) PROVE LastOf(Append(q, m), k, v)
  <2>1. PICK i \in 1 .. Len(q) : /\ q[i].kind = k /\ q[i].value = v
                                 /\ \A j \in 1 .. Len(q) : j > i => q[j].kind # k
    BY <1>2 DEF LastOf
  <2>2. i \in 1 .. Len(Append(q, m)) /\ Append(q, m)[i] = q[i]
    BY <1>1
  <2>3. ASSUME NEW j \in 1 .. Len(Append(q, m)), j > i PROVE Append(q, m)[j].kind # k
    BY <1>1, <1>2, <2>1, <2>3
  <2> QED
    BY <2>1, <2>2, <2>3 DEF LastOf
<1>3. ASSUME m.kind # k, NoneOf(q, k) PROVE NoneOf(Append(q, m), k)
  BY <1>1, <1>3 DEF NoneOf
<1>4. ASSUME m.kind = k, m.value = v PROVE LastOf(Append(q, m), k, v)
  <2>1. Len(q) + 1 \in 1 .. Len(Append(q, m))
    BY <1>1
  <2>2. \A j \in 1 .. Len(Append(q, m)) : ~(j > Len(q) + 1)
    BY <1>1
  <2> QED
    BY <1>1, <1>4, <2>1, <2>2 DEF LastOf
<1> QED
  BY <1>2, <1>3, <1>4

\* The message that was the last of its kind is still there, or was just read.
LEMMA TailLast ==
  ASSUME NEW q \in Seq(Message), q # <<>>, NEW k, NEW v
  PROVE  /\ Head(q).kind # k /\ LastOf(q, k, v) => LastOf(Tail(q), k, v)
         /\ NoneOf(q, k) => NoneOf(Tail(q), k) /\ Head(q).kind # k
         /\ LastOf(q, k, v) => \/ LastOf(Tail(q), k, v)
                               \/ NoneOf(Tail(q), k) /\ Head(q).kind = k /\ Head(q).value = v
<1>1. /\ Len(q) \in Nat \ {0} /\ Head(q) = q[1]
      /\ Len(Tail(q)) = Len(q) - 1
      /\ \A i \in 1 .. Len(q) - 1 : Tail(q)[i] = q[i + 1]
  BY HeadTailProperties, EmptySeq, LenProperties
<1>2. NoneOf(q, k) => NoneOf(Tail(q), k) /\ Head(q).kind # k
  BY <1>1 DEF NoneOf
<1>3. ASSUME LastOf(q, k, v)
      PROVE  \/ LastOf(Tail(q), k, v)
             \/ NoneOf(Tail(q), k) /\ Head(q).kind = k /\ Head(q).value = v
  <2>1. PICK i \in 1 .. Len(q) : /\ q[i].kind = k /\ q[i].value = v
                                 /\ \A j \in 1 .. Len(q) : j > i => q[j].kind # k
    BY <1>3 DEF LastOf
  <2>2. CASE i = 1
    <3>1. NoneOf(Tail(q), k)
      BY <1>1, <2>1, <2>2 DEF NoneOf
    <3> QED
      BY <1>1, <2>1, <2>2, <3>1
  <2>3. CASE i # 1
    <3>1. i - 1 \in 1 .. Len(Tail(q)) /\ Tail(q)[i - 1] = q[i]
      BY <1>1, <2>3
    <3>2. ASSUME NEW j \in 1 .. Len(Tail(q)), j > i - 1 PROVE Tail(q)[j].kind # k
      <4>1. j + 1 \in 1 .. Len(q) /\ j + 1 > i /\ Tail(q)[j] = q[j + 1]
        BY <1>1, <3>2
      <4> QED
        BY <2>1, <4>1
    <3>3. LastOf(Tail(q), k, v)
      BY <2>1, <3>1, <3>2 DEF LastOf
    <3> QED
      BY <3>3
  <2> QED
    BY <2>2, <2>3
<1> QED
  BY <1>2, <1>3

\* An empty queue has no last message.
LEMMA EmptyLast ==
  ASSUME NEW k, NEW v
  PROVE  NoneOf(<<>>, k) /\ ~LastOf(<<>>, k, v)
BY DEF NoneOf, LastOf

\* Once the messages under way are handled, the object shows the radio's name,
\* and whether it is paired.
NameInv(p) ==
  \/ LastOf(inbox[p], "Name", radio[p].name)
  \/ /\ NoneOf(inbox[p], "Name")
     /\ state[p].name = radio[p].name \/ "name" \in faults[p]
PairedInv(p) ==
  \/ LastOf(inbox[p], "Paired", radio[p].paired)
  \/ /\ NoneOf(inbox[p], "Paired")
     /\ state[p].paired = radio[p].paired \/ "paired" \in faults[p]
Watched(p) == device[p] = "live" /\ "bus" \notin faults[p]
MirrorInv == \A p \in Proxy : Watched(p) => NameInv(p) /\ PairedInv(p)

\* A signal the bus took leaves the faults as they are known.
LEMMA TakenSignal ==
  ASSUME TypeOK, NEW p \in Proxy, NEW taken \in BOOLEAN, Sends(p, taken),
         "bus" \notin faults'[p]
  PROVE  taken /\ "bus" \notin faults[p] /\ faults[p] \subseteq faults'[p]
BY DEF TypeOK, Sends, Fault

\* What a message of the radio does to an object when the bus takes the signal.
LEMMA NameEffect ==
  ASSUME TypeOK, NEW p \in Proxy, NEW v, "bus" \notin faults'[p],
         device_set_name(p, v)
  PROVE  /\ "bus" \notin faults[p] /\ faults[p] \subseteq faults'[p]
         /\ state'[p].name = v /\ state'[p].paired = state[p].paired
<1>1. state' = [state EXCEPT ![p].name = v]
  BY TakenSignal DEF device_set_name
<1>2. state'[p].name = v /\ state'[p].paired = state[p].paired
  BY <1>1 DEF TypeOK, View
<1>3. "bus" \notin faults[p] /\ faults[p] \subseteq faults'[p]
  BY TakenSignal DEF device_set_name
<1> QED
  BY <1>2, <1>3

\* The same for whether the device is paired.
LEMMA PairedEffect ==
  ASSUME TypeOK, NEW p \in Proxy, NEW v, "bus" \notin faults'[p],
         device_set_paired(p, v)
  PROVE  /\ "bus" \notin faults[p] /\ faults[p] \subseteq faults'[p]
         /\ state'[p].paired = v /\ state'[p].name = state[p].name
<1>1. CASE state[p].paired = v /\ UNCHANGED <<state, faults>>
  BY <1>1
<1>2. CASE state' = [state EXCEPT ![p].paired = v] /\ \E taken \in BOOLEAN : Sends(p, taken)
  <2>1. state'[p].paired = v /\ state'[p].name = state[p].name
    BY <1>2 DEF TypeOK, View
  <2> QED
    BY <1>2, <2>1, TakenSignal
<1> QED
  BY <1>1, <1>2, TakenSignal DEF device_set_paired

\* An event of object p keeps what its messages under way will make of it.
LEMMA StepMirror ==
  ASSUME PairingInv, NEW p \in Proxy, Watched(p) => NameInv(p) /\ PairedInv(p),
         Step(p), Watched(p)'
  PROVE  NameInv(p)' /\ PairedInv(p)'
<1>0. /\ TypeOK /\ AbsentInv /\ inbox[p] \in Seq(Message)
      /\ device'[p] = "live" /\ "bus" \notin faults'[p]
  BY DEF PairingInv, TypeOK, Message, Watched
<1>1. CASE RadioChanges(p)
  <2>1. NameInv(p) /\ PairedInv(p) /\ state' = state
    <3>1. device' = device /\ state' = state
      BY <1>1 DEF RadioChanges
    <3> QED
      BY <1>0, <1>1, <3>1, RadioFaults DEF Watched
  <2>2. ASSUME NEW n \in Name, radio' = [radio EXCEPT ![p].name = n],
               faults' = [faults EXCEPT ![p] = @ \ {"name"}],
               inbox' = [inbox EXCEPT ![p] = Append(@, [kind |-> "Name", value |-> n])]
        PROVE  NameInv(p)' /\ PairedInv(p)'
    <3> DEFINE m == [kind |-> "Name", value |-> n]
    <3>1. /\ m \in Message /\ m.kind = "Name" /\ m.value = n
          /\ inbox'[p] = Append(inbox[p], m)
          /\ radio'[p].name = n /\ radio'[p].paired = radio[p].paired
          /\ "paired" \in faults[p] => "paired" \in faults'[p]
      BY <1>0, <2>2, RadioMessages DEF TypeOK, View
    <3> HIDE DEF m
    <3>2. LastOf(inbox'[p], "Name", n)
      BY <1>0, <3>1, AppendLast
    <3>3. /\ NoneOf(inbox[p], "Paired") => NoneOf(inbox'[p], "Paired")
          /\ LastOf(inbox[p], "Paired", radio[p].paired)
             => LastOf(inbox'[p], "Paired", radio[p].paired)
      BY <1>0, <3>1, AppendLast
    <3> QED
      BY <2>1, <3>1, <3>2, <3>3 DEF NameInv, PairedInv
  <2>3. ASSUME radio' = [radio EXCEPT ![p].paired = ~@],
               faults' = [faults EXCEPT ![p] = @ \ {"paired"}],
               inbox' = [inbox EXCEPT ![p] =
                           Append(@, [kind |-> "Paired", value |-> ~radio[p].paired])]
        PROVE  NameInv(p)' /\ PairedInv(p)'
    <3> DEFINE m == [kind |-> "Paired", value |-> ~radio[p].paired]
    <3>1. m \in Message
      BY RadioMessages
    <3>2. /\ m.kind = "Paired" /\ m.value = radio'[p].paired
          /\ inbox'[p] = Append(inbox[p], m)
          /\ radio'[p].name = radio[p].name
          /\ "name" \in faults[p] => "name" \in faults'[p]
      BY <1>0, <2>3 DEF TypeOK, View
    <3> HIDE DEF m
    <3>3. LastOf(inbox'[p], "Paired", radio'[p].paired)
      BY <1>0, <3>1, <3>2, AppendLast
    <3>4. /\ NoneOf(inbox[p], "Name") => NoneOf(inbox'[p], "Name")
          /\ LastOf(inbox[p], "Name", radio[p].name)
             => LastOf(inbox'[p], "Name", radio[p].name)
      BY <1>0, <3>1, <3>2, AppendLast
    <3> QED
      BY <2>1, <3>2, <3>3, <3>4 DEF NameInv, PairedInv
  <2> QED
    BY <1>1, <2>2, <2>3 DEF RadioChanges
<1>2. CASE RadioAnswers(p)
  <2> DEFINE ok == [kind |-> "reply", ok |-> TRUE]
             no == [kind |-> "reply", ok |-> FALSE]
             news == [kind |-> "Paired", value |-> TRUE]
             q == inbox[p]
  <2>1. /\ ok \in Message /\ no \in Message /\ news \in Message
        /\ ok.kind = "reply" /\ no.kind = "reply"
        /\ news.kind = "Paired" /\ news.value = TRUE
    BY RadioMessages
  <2>2. NameInv(p) /\ PairedInv(p) /\ UNCHANGED <<state, faults>>
    BY <1>0, <1>2 DEF RadioAnswers, Watched
  <2>3. \/ /\ inbox'[p] \in {Append(q, ok), Append(q, no)}
           /\ radio' = radio
        \/ /\ inbox'[p] \in {q \o <<ok, news>>, q \o <<news, ok>>}
           /\ radio' = [radio EXCEPT ![p].paired = TRUE]
    BY <1>0, <1>2 DEF RadioAnswers, TypeOK
  <2> HIDE DEF ok, no, news
  <2>4. CASE inbox'[p] \in {Append(q, ok), Append(q, no)} /\ radio' = radio
    <3>1. PICK m \in Message : m.kind = "reply" /\ inbox'[p] = Append(inbox[p], m)
      BY <2>1, <2>4
    <3>2. ASSUME NEW k \in {"Name", "Paired"}, NEW v
          PROVE  /\ NoneOf(inbox[p], k) => NoneOf(inbox'[p], k)
                 /\ LastOf(inbox[p], k, v) => LastOf(inbox'[p], k, v)
      BY <1>0, <3>1, AppendLast
    <3> QED
      BY <2>2, <2>4, <3>2 DEF NameInv, PairedInv
  <2>5. CASE /\ inbox'[p] \in {q \o <<ok, news>>, q \o <<news, ok>>}
             /\ radio' = [radio EXCEPT ![p].paired = TRUE]
    <3>1. radio'[p].paired = TRUE /\ radio'[p].name = radio[p].name
      BY <1>0, <2>5 DEF TypeOK, View
    <3>2. /\ Append(q, ok) \in Seq(Message) /\ Append(q, news) \in Seq(Message)
          /\ inbox'[p] \in {Append(Append(q, ok), news), Append(Append(q, news), ok)}
      BY <1>0, <2>1, <2>5, AppendReply, TwoAppended
    <3>3. /\ LastOf(Append(Append(q, ok), news), "Paired", TRUE)
          /\ LastOf(Append(Append(q, news), ok), "Paired", TRUE)
      BY <1>0, <2>1, <3>2, AppendLast
    <3>4. ASSUME NEW v
          PROVE  /\ NoneOf(q, "Name") => NoneOf(inbox'[p], "Name")
                 /\ LastOf(q, "Name", v) => LastOf(inbox'[p], "Name", v)
      <4>1. /\ NoneOf(q, "Name") => NoneOf(Append(q, ok), "Name")
            /\ NoneOf(q, "Name") => NoneOf(Append(q, news), "Name")
            /\ LastOf(q, "Name", v) => LastOf(Append(q, ok), "Name", v)
            /\ LastOf(q, "Name", v) => LastOf(Append(q, news), "Name", v)
        BY <1>0, <2>1, AppendLast
      <4> QED
        BY <2>1, <3>2, <4>1, AppendLast
    <3>5. NameInv(p)'
      BY <2>2, <3>1, <3>4 DEF NameInv
    <3>6. LastOf(inbox'[p], "Paired", radio'[p].paired)
      BY <3>1, <3>2, <3>3
    <3> QED
      BY <3>5, <3>6 DEF PairedInv
  <2> QED
    BY <2>3, <2>4, <2>5
<1>3. CASE added(p)
  <2>1. NoneOf(inbox'[p], "Name") /\ NoneOf(inbox'[p], "Paired")
    <3>1. inbox'[p] = <<>>
      BY <1>0, <1>3 DEF added, AbsentInv
    <3> QED
      BY <3>1, EmptyLast
  <2>4. PICK v \in View :
          /\ radio' = [radio EXCEPT ![p] = v]
          /\ faults' = [faults EXCEPT ![p] = (IF v.paired THEN {"paired"} ELSE {})
                                     \cup IF v.name # Unknown THEN {"name"} ELSE {}]
    BY <1>3 DEF added
  <2>5. /\ radio'[p] = v
        /\ v.paired => "paired" \in faults'[p]
        /\ v.name # Unknown => "name" \in faults'[p]
    BY <1>0, <2>4 DEF TypeOK
  <2>2. state'[p].name = radio'[p].name \/ "name" \in faults'[p]
    BY <1>0, <1>3, <2>5 DEF added, Created, TypeOK
  <2>3. state'[p].paired = radio'[p].paired \/ "paired" \in faults'[p]
    <3>1. state'[p].paired = FALSE
      BY <1>0, <1>3 DEF added, Created, TypeOK
    <3>2. v.paired \in BOOLEAN
      BY DEF View
    <3>4. CASE v.paired = TRUE
      BY <2>5, <3>4
    <3>5. CASE v.paired = FALSE
      BY <2>5, <3>1, <3>5
    <3> QED
      BY <3>2, <3>4, <3>5
  <2> QED
    BY <2>1, <2>2, <2>3 DEF NameInv, PairedInv
<1>4. CASE removed(p)
  BY <1>0, <1>4 DEF removed, TypeOK
<1>5. CASE property_changed(p)
  <2> DEFINE m == Head(inbox[p])
  <2>1. /\ inbox[p] # <<>> /\ inbox'[p] = Tail(inbox[p])
        /\ radio' = radio /\ device' = device /\ m.kind # "reply"
    BY <1>0, <1>5 DEF property_changed, TypeOK
  <2>2. m \in Property /\ m.kind \in {"Name", "Paired"}
    BY <1>0, <2>1, HeadOfInbox DEF Message, Property, Reply
  <2>3. CASE m.kind = "Name"
    <3>1. device_set_name(p, m.value)
      BY <1>0, <1>5, <2>1, <2>3 DEF property_changed
    <3>2. /\ "bus" \notin faults[p] /\ faults[p] \subseteq faults'[p]
          /\ state'[p].name = m.value /\ state'[p].paired = state[p].paired
      BY <1>0, <3>1, NameEffect
    <3>3. NameInv(p) /\ PairedInv(p)
      BY <1>0, <2>1, <3>2 DEF Watched
    <3>4. NameInv(p)'
      BY <1>0, <2>1, <2>3, <3>2, <3>3, TailLast DEF NameInv
    <3>5. PairedInv(p)'
      BY <1>0, <2>1, <2>3, <3>2, <3>3, TailLast DEF PairedInv
    <3> QED
      BY <3>4, <3>5
  <2>4. CASE m.kind = "Paired"
    <3>1. device_set_paired(p, m.value)
      BY <1>0, <1>5, <2>1, <2>4 DEF property_changed
    <3>2. /\ "bus" \notin faults[p] /\ faults[p] \subseteq faults'[p]
          /\ state'[p].paired = m.value /\ state'[p].name = state[p].name
      BY <1>0, <3>1, PairedEffect
    <3>3. NameInv(p) /\ PairedInv(p)
      BY <1>0, <2>1, <3>2 DEF Watched
    <3>4. NameInv(p)'
      BY <1>0, <2>1, <2>4, <3>2, <3>3, TailLast DEF NameInv
    <3>5. PairedInv(p)'
      BY <1>0, <2>1, <2>4, <3>2, <3>3, TailLast DEF PairedInv
    <3> QED
      BY <3>4, <3>5
  <2> QED
    BY <2>2, <2>3, <2>4
<1>6. CASE pair_reply(p)
  <2>1. /\ inbox[p] # <<>> /\ inbox'[p] = Tail(inbox[p])
        /\ Head(inbox[p]).kind = "reply" /\ UNCHANGED <<radio, device, state>>
        /\ faults[p] \subseteq faults'[p]
    BY <1>0, <1>6 DEF pair_reply, Sends, Fault, TypeOK
  <2>2. NameInv(p) /\ PairedInv(p)
    BY <1>0, <2>1 DEF Watched
  <2>3. NameInv(p)'
    BY <1>0, <2>1, <2>2, TailLast DEF NameInv
  <2>4. PairedInv(p)'
    BY <1>0, <2>1, <2>2, TailLast DEF PairedInv
  <2> QED
    BY <2>3, <2>4
<1>7. ASSUME NEW c \in Call, method_pair(c, p) PROVE NameInv(p)' /\ PairedInv(p)'
  <2>1. UNCHANGED <<radio, device, state, inbox>> /\ faults[p] \subseteq faults'[p]
    BY <1>0, <1>7 DEF method_pair, Fault, TypeOK
  <2>2. NameInv(p) /\ PairedInv(p)
    BY <1>0, <2>1 DEF Watched
  <2> QED
    BY <2>1, <2>2 DEF NameInv, PairedInv
<1> QED
  BY <1>1, <1>2, <1>3, <1>4, <1>5, <1>6, <1>7 DEF Step

\* An object that has handled every message of the radio shows the name and the
\* state the radio last announced: property_changed applies the last change of each
\* last, however answers and changes are mixed.  A name or a pairing from before the
\* object was added is excused until its first change.
THEOREM ObjectMirrorsRadio == Spec => []MirrorsRadio
<1>1. Init => MirrorInv
  BY DEF Init, MirrorInv, Watched
<1>2. PairingInv /\ MirrorInv /\ [Next]_vars => MirrorInv'
  <2> SUFFICES ASSUME PairingInv, MirrorInv, [Next]_vars,
                      NEW q \in Proxy, Watched(q)'
               PROVE  NameInv(q)' /\ PairedInv(q)'
    BY DEF MirrorInv
  <2>0. Watched(q) => NameInv(q) /\ PairedInv(q)
    BY DEF MirrorInv
  <2>1. CASE UNCHANGED vars
    BY <2>0, <2>1 DEF vars, Watched, NameInv, PairedInv
  <2>2. CASE proxy_stop
    BY <2>2 DEF proxy_stop, Watched
  <2>3. ASSUME NEW p \in Proxy, Step(p) PROVE NameInv(q)' /\ PairedInv(q)'
    <3>1. CASE q = p
      BY <2>0, <2>3, <3>1, StepMirror
    <3>2. CASE q # p
      <4>1. Same(q)
        BY <2>3, <3>2, OthersSame DEF PairingInv
      <4> QED
        BY <2>0, <4>1 DEF Same, Watched, NameInv, PairedInv
    <3> QED
      BY <3>1, <3>2
  <2> QED
    BY <2>1, <2>2, <2>3, NextIsStep
<1>3. MirrorInv => MirrorsRadio
  <2> SUFFICES ASSUME MirrorInv, NEW p \in Proxy, device[p] = "live",
                      inbox[p] = <<>>, "bus" \notin faults[p]
               PROVE  /\ state[p].name = radio[p].name \/ "name" \in faults[p]
                      /\ state[p].paired = radio[p].paired \/ "paired" \in faults[p]
    BY DEF MirrorsRadio
  <2>1. NameInv(p) /\ PairedInv(p)
    BY DEF MirrorInv, Watched
  <2>2. \A v : ~LastOf(inbox[p], "Name", v) /\ ~LastOf(inbox[p], "Paired", v)
    BY EmptyLast
  <2> QED
    BY <2>1, <2>2 DEF NameInv, PairedInv
<1> QED
  BY <1>1, <1>2, <1>3, PairingInvariant, PTL DEF Spec
=============================================================================
