---------------------------- MODULE ConfigProofs ----------------------------
(***************************************************************************)
(* Proofs about configurations.  ConfigSync: what gateway and thing agree  *)
(* on, for any sensors, values and number of messages on the socket.       *)
(* KnotValue: what config_is_valid makes of two limits, and what becomes   *)
(* of a number on its way to a thing and back, for any digits and width.   *)
(* The two share no variable; each theorem is about the specification it   *)
(* names.                                                                  *)
(***************************************************************************)
EXTENDS ConfigSync, KnotValue, FiniteSetTheorems, SequenceTheorems, TLAPS

\* Least numbers.
WF == INSTANCE WellFoundedInduction

-----------------------------------------------------------------------------
(* The configuration of the sensors.                                       *)

\* The last message to sensor s in the queue q carries v; there is none to s.
LastTo(q, s, v) ==
  \E i \in 1 .. Len(q) : /\ q[i] = <<s, v>>
                         /\ \A j \in i + 1 .. Len(q) : q[j][1] # s

NoneTo(q, s) == \A i \in 1 .. Len(q) : q[i][1] # s

\* What sensor s will run once the messages to it have arrived is v, unless the
\* last one was lost.
Final(s, v) ==
  \/ LastTo(down, s, v)
  \/ NoneTo(down, s) /\ (s \in missed \/ thing[s] = v)

\* Before the first notification, and without a thing, nothing is on its way and
\* nothing is confirmed.
QuietInv ==
  /\ ~online \/ ~notified => down = <<>> /\ up = <<>> /\ confirmed = {}
  /\ \A s \in confirmed : stored[s] # NULL

\* Every stored entry is what its sensor will run.  msg_config leaves out an entry
\* that exists and is confirmed: this is why it may.
FinalInv == online /\ notified => \A s \in Sensor : stored[s] # NULL => Final(s, stored[s])

SyncInv == TypeOK /\ QuietInv /\ FinalInv

-----------------------------------------------------------------------------
(* Queues.                                                                 *)

\* Taking the first message off the queue.
LEMMA TailTo ==
  ASSUME NEW q \in Seq(Message), q # <<>>, NEW s, NEW v
  PROVE  /\ LastTo(q, s, v) => \/ LastTo(Tail(q), s, v)
                               \/ NoneTo(Tail(q), s) /\ Head(q) = <<s, v>>
         /\ NoneTo(q, s) => NoneTo(Tail(q), s) /\ Head(q)[1] # s
<1>1. /\ Len(q) \in Nat /\ Len(q) >= 1 /\ Head(q) = q[1]
      /\ Len(Tail(q)) = Len(q) - 1
      /\ \A i \in 1 .. Len(q) - 1 : Tail(q)[i] = q[i + 1]
  BY HeadTailProperties, EmptySeq, LenProperties
<1>2. ASSUME LastTo(q, s, v)
      PROVE  LastTo(Tail(q), s, v) \/ (NoneTo(Tail(q), s) /\ Head(q) = <<s, v>>)
  <2>1. PICK i \in 1 .. Len(q) : /\ q[i] = <<s, v>>
                                 /\ \A j \in i + 1 .. Len(q) : q[j][1] # s
    BY <1>2 DEF LastTo
  <2>2. CASE i = 1
    BY <1>1, <2>1, <2>2 DEF NoneTo
  <2>3. CASE i # 1
    <3>1. i - 1 \in 1 .. Len(Tail(q)) /\ Tail(q)[i - 1] = <<s, v>>
      BY <1>1, <2>1, <2>3
    <3>2. \A j \in (i - 1) + 1 .. Len(Tail(q)) : Tail(q)[j][1] # s
      BY <1>1, <2>1
    <3> QED
      BY <3>1, <3>2 DEF LastTo
  <2> QED
    BY <2>2, <2>3
<1>3. NoneTo(q, s) => NoneTo(Tail(q), s) /\ Head(q)[1] # s
  BY <1>1 DEF NoneTo
<1> QED
  BY <1>2, <1>3

\* Adding a list at its end.
LEMMA ConcatTo ==
  ASSUME NEW q \in Seq(Message), NEW r \in Seq(Message), NEW s, NEW v
  PROVE  /\ LastTo(r, s, v) => LastTo(q \o r, s, v)
         /\ NoneTo(r, s) /\ LastTo(q, s, v) => LastTo(q \o r, s, v)
         /\ NoneTo(r, s) /\ NoneTo(q, s) => NoneTo(q \o r, s)
<1>1. Len(q) \in Nat /\ Len(r) \in Nat
  BY LenProperties
<1>2. /\ Len(q \o r) = Len(q) + Len(r)
      /\ \A i \in 1 .. Len(q) + Len(r) :
           (q \o r)[i] = IF i <= Len(q) THEN q[i] ELSE r[i - Len(q)]
  BY ConcatProperties
<1>3. ASSUME LastTo(r, s, v) PROVE LastTo(q \o r, s, v)
  <2>1. PICK i \in 1 .. Len(r) : /\ r[i] = <<s, v>>
                                 /\ \A j \in i + 1 .. Len(r) : r[j][1] # s
    BY <1>3 DEF LastTo
  <2>2. Len(q) + i \in 1 .. Len(q \o r) /\ (q \o r)[Len(q) + i] = <<s, v>>
    BY <1>1, <1>2, <2>1
  <2>3. ASSUME NEW j \in (Len(q) + i) + 1 .. Len(q \o r) PROVE (q \o r)[j][1] # s
    <3>1. j - Len(q) \in i + 1 .. Len(r) /\ (q \o r)[j] = r[j - Len(q)]
      BY <1>1, <1>2
    <3> QED
      BY <2>1, <3>1
  <2> QED
    BY <2>2, <2>3 DEF LastTo
<1>4. ASSUME NoneTo(r, s), LastTo(q, s, v) PROVE LastTo(q \o r, s, v)
  <2>1. PICK i \in 1 .. Len(q) : /\ q[i] = <<s, v>>
                                 /\ \A j \in i + 1 .. Len(q) : q[j][1] # s
    BY <1>4 DEF LastTo
  <2>2. i \in 1 .. Len(q \o r) /\ (q \o r)[i] = <<s, v>>
    BY <1>1, <1>2, <2>1
  <2>3. ASSUME NEW j \in i + 1 .. Len(q \o r) PROVE (q \o r)[j][1] # s
    <3>1. CASE j <= Len(q)
      BY <1>1, <1>2, <2>1, <3>1
    <3>2. CASE j > Len(q)
      <4>1. j - Len(q) \in 1 .. Len(r) /\ (q \o r)[j] = r[j - Len(q)]
        BY <1>1, <1>2, <3>2
      <4> QED
        BY <1>4, <4>1 DEF NoneTo
    <3> QED
      BY <1>1, <1>2, <3>1, <3>2
  <2> QED
    BY <2>2, <2>3 DEF LastTo
<1>5. ASSUME NoneTo(r, s), NoneTo(q, s) PROVE NoneTo(q \o r, s)
  <2> SUFFICES ASSUME NEW j \in 1 .. Len(q) + Len(r) PROVE (q \o r)[j][1] # s
    BY <1>2 DEF NoneTo
  <2>1. CASE j <= Len(q)
    BY <1>1, <1>2, <1>5, <2>1 DEF NoneTo
  <2>2. CASE j > Len(q)
    <3>1. j - Len(q) \in 1 .. Len(r) /\ (q \o r)[j] = r[j - Len(q)]
      BY <1>1, <1>2, <2>2
    <3> QED
      BY <1>5, <3>1 DEF NoneTo
  <2> QED
    BY <1>1, <2>1, <2>2
<1> QED
  BY <1>3, <1>4, <1>5

\* However the JSON array orders the list of changed entries, it is a list of
\* messages that holds each of them.
LEMMA OrderHoldsAll ==
  ASSUME NEW S \in SUBSET Message, IsFiniteSet(S), NEW q \in Orders(S)
  PROVE  /\ q \in Seq(S) /\ q \in Seq(Message)
         /\ \A i \in 1 .. Len(q) : q[i] \in S
         /\ \A i, j \in 1 .. Len(q) : q[i] = q[j] => i = j
         /\ \A m \in S : \E i \in 1 .. Len(q) : q[i] = m
<1> DEFINE n == Cardinality(S)
<1>1. n \in Nat
  BY FS_CardinalityType
<1>2. q \in [1 .. n -> S] /\ \A i, j \in 1 .. n : q[i] = q[j] => i = j
  BY DEF Orders
<1>3. q \in Seq(S) /\ Len(q) = n
  BY <1>1, <1>2
<1>4. q \in Seq(Message)
  BY <1>3, SeqMonotonic
<1>5. q \in Injection(1 .. n, S)
  BY <1>2 DEF Injection, IsInjective
<1>6. IsFiniteSet(1 .. n) /\ Cardinality(1 .. n) = n
  BY <1>1, FS_Interval
<1>7. q \in Surjection(1 .. n, S)
  BY <1>5, <1>6, FS_Injection
<1>8. \A m \in S : \E i \in 1 .. n : q[i] = m
  BY <1>7 DEF Surjection
<1> QED
  BY <1>2, <1>3, <1>4, <1>8

-----------------------------------------------------------------------------
(* What msg_config sends.                                                  *)

\* A record, parsed, is a list of entries; the entries to send are finite in number
\* and in any order the last one to a sensor is the one received for it.
LEMMA ChangedTo ==
  ASSUME TypeOK, NEW received \in Entries, NEW q \in Orders(GetChanged(received))
  PROVE  /\ GetChanged(received) \subseteq Message
         /\ q \in Seq(Message)
         /\ \A i \in 1 .. Len(q) : q[i][2] = received[q[i][1]]
         /\ \A s \in Sensor :
              IF received[s] # NULL /\ ~ExistsAndConfirmed(s, received)
              THEN LastTo(q, s, received[s]) ELSE NoneTo(q, s)
<1> DEFINE G == GetChanged(received)
           P(s) == received[s] # NULL /\ ~ExistsAndConfirmed(s, received)
<1>1. G = {<<s, received[s]>> : s \in {x \in Sensor : P(x)}}
  BY DEF GetChanged
<1> HIDE DEF P
<1>2. \A s \in Sensor : P(s) => received[s] \in Value
  BY DEF P, Entries
<1>3. G \subseteq Message
  BY <1>1, <1>2 DEF Message
<1>4. IsFiniteSet(G)
  <2> DEFINE f == [m \in G |-> m[1]]
  <2>1. f \in [G -> Sensor]
    BY <1>3 DEF Message
  <2>2. \A m, o \in G : f[m] = f[o] => m = o
    BY <1>1
  <2>3. f \in Injection(G, Sensor)
    BY <2>1, <2>2 DEF Injection, IsInjective
  <2> QED
    BY <2>3, FS_Injection, ConfigAssumption
<1>5. /\ q \in Seq(Message)
      /\ \A i \in 1 .. Len(q) : q[i] \in G
      /\ \A i, j \in 1 .. Len(q) : q[i] = q[j] => i = j
      /\ \A m \in G : \E i \in 1 .. Len(q) : q[i] = m
  BY <1>3, <1>4, OrderHoldsAll
<1>6. \A i \in 1 .. Len(q) : \E s \in Sensor : P(s) /\ q[i] = <<s, received[s]>>
  BY <1>1, <1>5
<1>7. \A i \in 1 .. Len(q) : q[i] = <<q[i][1], received[q[i][1]]>> /\ P(q[i][1])
  BY <1>6
<1>8. ASSUME NEW s \in Sensor, P(s) PROVE LastTo(q, s, received[s])
  <2>1. PICK i \in 1 .. Len(q) : q[i] = <<s, received[s]>>
    BY <1>1, <1>5, <1>8
  <2>2. ASSUME NEW j \in i + 1 .. Len(q) PROVE q[j][1] # s
    <3>1. j \in 1 .. Len(q) /\ j # i
      BY <1>5, LenProperties
    <3>2. q[j] # q[i]
      BY <1>5, <3>1
    <3> QED
      BY <1>7, <2>1, <3>1, <3>2
  <2> QED
    BY <2>1, <2>2 DEF LastTo
<1>9. ASSUME NEW s \in Sensor, ~P(s) PROVE NoneTo(q, s)
  BY <1>7, <1>9 DEF NoneTo
<1> QED
  BY <1>3, <1>5, <1>7, <1>8, <1>9 DEF P

\* Whatever is parsed of a document is a configuration.
LEMMA ParseType ==
  ASSUME TypeOK
  PROVE  /\ Parse(record) \in Entries
         /\ notices # <<>> => Parse(Head(notices)) \in Entries
<1>1. \A d \in Entries \cup {NoConfig} : Parse(d) \in Entries
  BY ConfigAssumption DEF Parse, Nothing, Entries
<1>2. notices # <<>> => Head(notices) \in Entries \cup {NoConfig}
  BY HeadTailProperties DEF TypeOK
<1> QED
  BY <1>1, <1>2 DEF TypeOK

\* What is pushed is a record.
LEMMA PushedType ==
  ASSUME TypeOK, record' \in Entries \cup {NoConfig}, Pushed
  PROVE  notices' \in Seq(Entries \cup {NoConfig})
BY AppendProperties DEF Pushed, TypeOK

-----------------------------------------------------------------------------
(* Types.                                                                  *)

\* The first state has its types.
LEMMA InitTypeOK == Init => TypeOK
<1> SUFFICES ASSUME Init PROVE TypeOK
  OBVIOUS
<1>1. online \in BOOLEAN /\ notified \in BOOLEAN
  BY Zenon DEF Init
<1>2. Nothing \in Entries
  BY DEF Nothing, Entries
<1>3. down \in Seq(Message) /\ up \in Seq(Sensor)
  BY EmptySeq DEF Init
<1> QED
  BY <1>1, <1>2, <1>3 DEF Init, TypeOK

\* Every step keeps the types.
LEMMA NextTypeOK ==
  ASSUME TypeOK, [Next]_vars
  PROVE  TypeOK'
<1>0. /\ Nothing \in Entries /\ Parse(record) \in Entries
      /\ notices # <<>> => Parse(Head(notices)) \in Entries
  BY ParseType DEF Nothing, Entries
<1>1. CASE UNCHANGED vars
  BY <1>1 DEF vars, TypeOK
<1>2. CASE UserUpdates
  <2>1. record' \in Entries \cup {NoConfig}
    BY <1>0, <1>2 DEF UserUpdates, Entries
  <2>2. notices' \in Seq(Entries \cup {NoConfig})
    BY <1>2, <2>1, PushedType DEF UserUpdates
  <2> QED
    BY <1>2, <2>1, <2>2 DEF UserUpdates, TypeOK
<1>10. CASE OtherUpdates
  <2>1. notices' \in Seq(Entries \cup {NoConfig})
    BY <1>10, PushedType DEF OtherUpdates, TypeOK
  <2> QED
    BY <1>10, <2>1 DEF OtherUpdates, TypeOK
<1>3. CASE Authenticate
  <2>1. stored' \in Entries
    BY <1>0, <1>3 DEF Authenticate
  <2> QED
    BY <1>3, <2>1 DEF Authenticate, TypeOK
<1>4. CASE Disconnect
  <2>1. {down[i][1] : i \in DOMAIN down} \subseteq Sensor
    BY DEF TypeOK, Message
  <2>2. missed' \subseteq Sensor
    BY <1>4, <2>1 DEF Disconnect, TypeOK
  <2>3. /\ down' \in Seq(Message) /\ up' \in Seq(Sensor)
        /\ notices' \in Seq(Entries \cup {NoConfig})
    BY <1>4, EmptySeq DEF Disconnect
  <2> QED
    BY <1>0, <1>4, <2>2, <2>3 DEF Disconnect, TypeOK
<1>5. CASE OnDeviceChanged
  <2> DEFINE received == Parse(Head(notices))
  <2>0. received \in Entries /\ notices' \in Seq(Entries \cup {NoConfig})
    BY <1>0, <1>5, HeadTailProperties DEF OnDeviceChanged, TypeOK
  <2>1. CASE IsValid(received)
    <3>1. PICK q \in Orders(GetChanged(received)) : down' = down \o q
      BY <1>5, <2>1 DEF OnDeviceChanged
    <3>2. q \in Seq(Message) /\ down \in Seq(Message)
      BY <2>0, ChangedTo DEF TypeOK
    <3>3. down' \in Seq(Message)
      BY <3>1, <3>2, ConcatProperties
    <3> QED
      BY <2>0, <1>5, <2>1, <3>3 DEF OnDeviceChanged, TypeOK
  <2>2. CASE ~IsValid(received)
    BY <1>5, <2>0, <2>2 DEF OnDeviceChanged, TypeOK
  <2> QED
    BY <2>1, <2>2
<1>6. CASE MsgConfigResp
  BY <1>6 DEF MsgConfigResp, TypeOK
<1>7. CASE ThingReceives
  <2>1. Head(down) \in Message /\ Tail(down) \in Seq(Message)
    BY <1>7, HeadTailProperties DEF ThingReceives, TypeOK
  <2>2. Head(down)[1] \in Sensor /\ Head(down)[2] \in Value
    BY <2>1 DEF Message
  <2>3. thing' \in Entries
    BY <1>7, <2>2 DEF ThingReceives, TypeOK, Entries
  <2>4. up' \in Seq(Sensor)
    BY <1>7, <2>2, AppendProperties DEF ThingReceives, TypeOK
  <2> QED
    BY <1>7, <2>1, <2>3, <2>4 DEF ThingReceives, TypeOK
<1>8. CASE LoseConfig
  <2>1. Head(down) \in Message /\ Tail(down) \in Seq(Message)
    BY <1>8, HeadTailProperties DEF LoseConfig, TypeOK
  <2>2. Head(down)[1] \in Sensor
    BY <2>1 DEF Message
  <2> QED
    BY <1>8, <2>1, <2>2 DEF LoseConfig, TypeOK
<1>9. CASE LoseAnswer
  BY <1>9 DEF LoseAnswer, TypeOK
<1> QED
  BY <1>1, <1>2, <1>10, <1>3, <1>4, <1>5, <1>6, <1>7, <1>8, <1>9 DEF Next

-----------------------------------------------------------------------------
(* Validity.                                                               *)

\* InvalidStaysOut with what makes it inductive: no invalid entry is on its way.
ValidInv ==
  /\ InvalidStaysOut
  /\ \A i \in 1 .. Len(down) : down[i][2] \notin Invalid

\* Every step keeps it.
LEMMA NextValidInv ==
  ASSUME TypeOK, ValidInv, [Next]_vars
  PROVE  ValidInv'
<1>0. /\ Parse(record) \in Entries /\ NULL \notin Invalid
      /\ notices # <<>> => Parse(Head(notices)) \in Entries
  BY ParseType, ConfigAssumption
<1>1. ASSUME UNCHANGED <<stored, down, thing>> PROVE ValidInv'
  BY <1>1 DEF ValidInv, InvalidStaysOut
<1>2. CASE UNCHANGED vars \/ UserUpdates \/ OtherUpdates \/ MsgConfigResp \/ LoseAnswer
  BY <1>1, <1>2 DEF vars, UserUpdates, OtherUpdates, MsgConfigResp, LoseAnswer
<1>3. CASE Authenticate
  BY <1>0, <1>3 DEF Authenticate, ValidInv, InvalidStaysOut, IsValid, Nothing
<1>4. CASE Disconnect
  BY <1>0, <1>4 DEF Disconnect, ValidInv, InvalidStaysOut, Nothing
<1>5. CASE OnDeviceChanged
  <2> DEFINE received == Parse(Head(notices))
  <2>0. received \in Entries
    BY <1>0, <1>5 DEF OnDeviceChanged
  <2>1. CASE IsValid(received)
    <3>1. PICK q \in Orders(GetChanged(received)) : down' = down \o q
      BY <1>5, <2>1 DEF OnDeviceChanged
    <3>2. /\ q \in Seq(Message) /\ down \in Seq(Message)
          /\ \A i \in 1 .. Len(q) : q[i][2] = received[q[i][1]]
      BY <2>0, ChangedTo DEF TypeOK
    <3>3. \A i \in 1 .. Len(q) : q[i][1] \in Sensor
      BY <3>2, ElementOfSeq DEF Message
    <3>4. \A i \in 1 .. Len(q) : q[i][2] \notin Invalid
      BY <2>1, <3>2, <3>3 DEF IsValid
    <3>5. Len(q) \in Nat /\ Len(down) \in Nat
      BY <3>2, LenProperties
    <3>6. ASSUME NEW i \in 1 .. Len(down') PROVE down'[i][2] \notin Invalid
      <4>1. i \in 1 .. Len(down) + Len(q)
            /\ down'[i] = IF i <= Len(down) THEN down[i] ELSE q[i - Len(down)]
        BY <3>1, <3>2, ConcatProperties
      <4>2. CASE i <= Len(down)
        BY <3>5, <4>1, <4>2 DEF ValidInv
      <4>3. CASE i > Len(down)
        <5>1. i - Len(down) \in 1 .. Len(q)
          BY <3>5, <4>1, <4>3
        <5> QED
          BY <3>4, <3>5, <4>1, <4>3, <5>1
      <4> QED
        BY <3>5, <4>2, <4>3
    <3>7. stored' = received /\ thing' = thing
      BY <1>5, <2>1 DEF OnDeviceChanged
    <3> QED
      BY <2>1, <3>6, <3>7 DEF ValidInv, InvalidStaysOut, IsValid
  <2>2. CASE ~IsValid(received)
    BY <1>1, <1>5, <2>2 DEF OnDeviceChanged
  <2> QED
    BY <2>1, <2>2
<1>6. ASSUME down # <<>>, down' = Tail(down) PROVE \A i \in 1 .. Len(down') : down'[i][2] \notin Invalid
  <2>1. /\ Len(down) \in Nat /\ Len(down') = Len(down) - 1
        /\ \A i \in 1 .. Len(down') : down'[i] = down[i + 1]
    BY <1>6, HeadTailProperties, LenProperties DEF TypeOK
  <2> QED
    BY <2>1 DEF ValidInv
<1>7. CASE ThingReceives
  <2>1. Len(down) >= 1 /\ Head(down) = down[1] /\ Head(down) \in Message
    BY <1>7, EmptySeq, HeadTailProperties DEF ThingReceives, TypeOK
  <2>2. Head(down)[1] \in Sensor /\ Head(down)[2] \notin Invalid
    BY <2>1 DEF Message, ValidInv
  <2>3. thing' = [thing EXCEPT ![Head(down)[1]] = Head(down)[2]] /\ stored' = stored
    BY <1>7 DEF ThingReceives
  <2>4. \A s \in Sensor : thing'[s] \notin Invalid
    BY <2>2, <2>3 DEF ValidInv, InvalidStaysOut, TypeOK, Entries
  <2> QED
    BY <1>6, <1>7, <2>3, <2>4 DEF ThingReceives, ValidInv, InvalidStaysOut
<1>8. CASE LoseConfig
  BY <1>6, <1>8 DEF LoseConfig, ValidInv, InvalidStaysOut
<1> QED
  BY <1>2, <1>3, <1>4, <1>5, <1>7, <1>8 DEF Next

\* No invalid config reaches a sensor or stays in the trust, whatever the user, the
\* radio and the order of the messages do.
THEOREM InvalidRefused == Spec => []InvalidStaysOut
<1>1. Init => ValidInv
  BY ConfigAssumption DEF Init, ValidInv, InvalidStaysOut, Nothing
<1>2. TypeOK /\ [Next]_vars => TypeOK'
  BY NextTypeOK
<1>3. TypeOK /\ ValidInv /\ [Next]_vars => ValidInv'
  BY NextValidInv
<1>4. ValidInv => InvalidStaysOut
  BY DEF ValidInv
<1> QED
  BY <1>1, <1>2, <1>3, <1>4, InitTypeOK, PTL DEF Spec

-----------------------------------------------------------------------------
(* What the trust stores is what the sensors run.                          *)

\* Every step keeps QuietInv.
LEMMA NextQuietInv ==
  ASSUME SyncInv, [Next]_vars
  PROVE  QuietInv'
<1>1. CASE UNCHANGED vars \/ UserUpdates \/ OtherUpdates
  BY <1>1 DEF vars, UserUpdates, OtherUpdates, SyncInv, QuietInv
<1>2. CASE Authenticate
  BY <1>2 DEF Authenticate, SyncInv, QuietInv
<1>3. CASE Disconnect
  BY <1>3 DEF Disconnect, QuietInv
<1>4. CASE OnDeviceChanged
  BY <1>4 DEF OnDeviceChanged, SyncInv, QuietInv
<1>5. CASE MsgConfigResp
  BY <1>5 DEF MsgConfigResp, SyncInv, QuietInv
<1>6. CASE ThingReceives \/ LoseConfig
  BY <1>6 DEF ThingReceives, LoseConfig, SyncInv, QuietInv
<1>7. CASE LoseAnswer
  BY <1>7 DEF LoseAnswer, SyncInv, QuietInv
<1> QED
  BY <1>1, <1>2, <1>3, <1>4, <1>5, <1>6, <1>7 DEF Next

\* Every step keeps FinalInv.
LEMMA NextFinalInv ==
  ASSUME SyncInv, [Next]_vars
  PROVE  FinalInv'
<1>0. /\ TypeOK /\ QuietInv /\ FinalInv /\ down \in Seq(Message)
      /\ notices # <<>> => Parse(Head(notices)) \in Entries
  BY ParseType DEF SyncInv, TypeOK
<1>1. ASSUME UNCHANGED <<online, stored, notified, down, thing, missed>> PROVE FinalInv'
  BY <1>0, <1>1 DEF FinalInv, Final
<1>2. CASE UNCHANGED vars \/ UserUpdates \/ OtherUpdates \/ MsgConfigResp \/ LoseAnswer
  BY <1>1, <1>2 DEF vars, UserUpdates, OtherUpdates, MsgConfigResp, LoseAnswer
<1>3. CASE Authenticate \/ Disconnect
  BY <1>3 DEF Authenticate, Disconnect, FinalInv
<1>4. CASE OnDeviceChanged
  <2> DEFINE received == Parse(Head(notices))
  <2>1. CASE ~IsValid(received)
    BY <1>1, <1>4, <2>1 DEF OnDeviceChanged
  <2>2. CASE IsValid(received)
    <3>1. /\ stored' = received
          /\ UNCHANGED <<thing, missed>>
          /\ \E q \in Orders(GetChanged(received)) : down' = down \o q
      BY <1>4, <2>2 DEF OnDeviceChanged
    <3>2. PICK q \in Orders(GetChanged(received)) : down' = down \o q
      BY <3>1
    <3>3. /\ q \in Seq(Message)
          /\ \A s \in Sensor :
               IF received[s] # NULL /\ ~ExistsAndConfirmed(s, received)
               THEN LastTo(q, s, received[s]) ELSE NoneTo(q, s)
      <4>1. received \in Entries
        BY <1>0, <1>4 DEF OnDeviceChanged
      <4> QED
        BY <1>0, <4>1, ChangedTo
    <3>4. ASSUME NEW s \in Sensor, received[s] # NULL
          PROVE  Final(s, stored[s])'
      <4>1. CASE ~ExistsAndConfirmed(s, received)
        <5>1. LastTo(q, s, received[s])
          BY <3>3, <3>4, <4>1
        <5>2. LastTo(down \o q, s, received[s])
          BY <1>0, <3>3, <5>1, ConcatTo
        <5> QED
          BY <3>1, <3>2, <5>2 DEF Final
      <4>2. CASE ExistsAndConfirmed(s, received)
        <5>1. NoneTo(q, s)
          BY <3>3, <4>2
        <5>2. stored[s] = received[s] /\ online /\ notified
          BY <1>0, <4>2 DEF ExistsAndConfirmed, QuietInv
        <5>3. Final(s, received[s])
          BY <1>0, <3>4, <5>2 DEF FinalInv
        <5>4. CASE LastTo(down, s, received[s])
          <6>1. LastTo(down \o q, s, received[s])
            BY <1>0, <3>3, <5>1, <5>4, ConcatTo
          <6> QED
            BY <3>1, <3>2, <6>1 DEF Final
        <5>5. CASE NoneTo(down, s) /\ (s \in missed \/ thing[s] = received[s])
          <6>1. NoneTo(down \o q, s)
            BY <1>0, <3>3, <5>1, <5>5, ConcatTo
          <6> QED
            BY <3>1, <3>2, <5>5, <6>1 DEF Final
        <5> QED
          BY <5>3, <5>4, <5>5 DEF Final
      <4> QED
        BY <4>1, <4>2
    <3> QED
      BY <3>1, <3>4 DEF FinalInv
  <2> QED
    BY <2>1, <2>2
<1>5. ASSUME down # <<>>, down' = Tail(down), UNCHANGED <<online, stored, notified>>,
             \A s \in Sensor : s # Head(down)[1] =>
               thing'[s] = thing[s] /\ (s \in missed => s \in missed'),
             \A v : Head(down) = <<Head(down)[1], v>> =>
               Head(down)[1] \in missed' \/ thing'[Head(down)[1]] = v
      PROVE  FinalInv'
  <2> SUFFICES ASSUME online, notified, NEW s \in Sensor, stored[s] # NULL
               PROVE  Final(s, stored[s])'
    BY <1>5 DEF FinalInv
  <2>1. Final(s, stored[s])
    BY <1>0 DEF FinalInv
  <2>2. CASE LastTo(down, s, stored[s])
    <3>1. \/ LastTo(Tail(down), s, stored[s])
          \/ NoneTo(Tail(down), s) /\ Head(down) = <<s, stored[s]>>
      BY <1>0, <1>5, <2>2, TailTo
    <3> QED
      BY <1>5, <3>1 DEF Final
  <2>3. CASE NoneTo(down, s) /\ (s \in missed \/ thing[s] = stored[s])
    <3>1. NoneTo(Tail(down), s) /\ Head(down)[1] # s
      BY <1>0, <1>5, <2>3, TailTo
    <3> QED
      BY <1>5, <2>3, <3>1 DEF Final
  <2> QED
    BY <2>1, <2>2, <2>3 DEF Final
<1>6. CASE ThingReceives
  <2>1. down # <<>> /\ Head(down) \in Message
    BY <1>0, <1>6, HeadTailProperties DEF ThingReceives
  <2>2. /\ thing' = [thing EXCEPT ![Head(down)[1]] = Head(down)[2]]
        /\ missed' = missed \ {Head(down)[1]}
        /\ Head(down)[1] \in Sensor
    BY <1>6, <2>1 DEF ThingReceives, Message
  <2>3. thing \in [Sensor -> Value \cup {NULL}]
    BY <1>0 DEF TypeOK, Entries
  <2>4. \A s \in Sensor : s # Head(down)[1] =>
          thing'[s] = thing[s] /\ (s \in missed => s \in missed')
    BY <2>2, <2>3
  <2>5. thing'[Head(down)[1]] = Head(down)[2]
    BY <2>2, <2>3
  <2> QED
    BY <1>5, <1>6, <2>1, <2>4, <2>5 DEF ThingReceives
<1>7. CASE LoseConfig
  BY <1>5, <1>7 DEF LoseConfig
<1> QED
  BY <1>2, <1>3, <1>4, <1>6, <1>7 DEF Next

\* Every behaviour keeps the invariant.
THEOREM SyncInvariant == Spec => []SyncInv
<1>1. Init => QuietInv /\ FinalInv
  BY DEF Init, QuietInv, FinalInv
<1>2. SyncInv /\ [Next]_vars => SyncInv'
  BY NextTypeOK, NextQuietInv, NextFinalInv DEF SyncInv
<1> QED
  BY <1>1, <1>2, InitTypeOK, PTL DEF Spec, SyncInv

\* A confirmed entry is the one its sensor runs or is about to receive, unless the
\* last message to it was lost, although an answer names no value.
THEOREM ConfirmedHeld == Spec => []ConfirmedIsHeld
<1>1. SyncInv => ConfirmedIsHeld
  <2> SUFFICES ASSUME SyncInv, NEW s \in confirmed, s \notin missed
               PROVE  thing[s] = stored[s] \/ InFlight(s, stored[s])
    BY DEF ConfirmedIsHeld
  <2>1. online /\ notified /\ stored[s] # NULL /\ s \in Sensor
    BY DEF SyncInv, QuietInv, TypeOK
  <2>2. Final(s, stored[s])
    BY <2>1 DEF SyncInv, FinalInv
  <2> QED
    BY <2>2 DEF Final, LastTo, InFlight
<1> QED
  BY <1>1, SyncInvariant, PTL

\* Sending the changed entries only is enough: when the messages of a notification
\* have arrived every sensor runs what the trust stores.
THEOREM SettledAgreed == Spec => []SettledAgree
<1>1. SyncInv => SettledAgree
  <2> SUFFICES ASSUME SyncInv, online, notified, down = <<>>,
                      NEW s \in Sensor, s \notin missed, stored[s] # NULL
               PROVE  thing[s] = stored[s]
    BY DEF SettledAgree
  <2>1. Final(s, stored[s])
    BY DEF SyncInv, FinalInv
  <2>2. Len(down) = 0
    BY EmptySeq
  <2> QED
    BY <2>1, <2>2 DEF Final, LastTo
<1> QED
  BY <1>1, SyncInvariant, PTL

-----------------------------------------------------------------------------
(* Recursion.                                                              *)

\* Induction over the natural numbers, for a set of them.
LEMMA SetInduction ==
  ASSUME NEW T \in SUBSET Nat, 0 \in T, \A n \in T : n + 1 \in T
  PROVE  \A n \in Nat : n \in T
<1> DEFINE C == Nat \ T
<1>1. SUFFICES ASSUME C # {} PROVE FALSE
  OBVIOUS
<1>2. PICK x \in C : \A y \in C : ~(<<y, x>> \in WF!OpToRel(<, Nat))
  BY <1>1, WF!WFMin, WF!NatLessThanWellFounded, Zenon
<1>3. x # 0 /\ x - 1 \in Nat /\ (x - 1) + 1 = x
  OBVIOUS
<1>4. x - 1 \notin C
  <2>1. ~(<<x - 1, x>> \in {ss \in Nat \X Nat : ss[1] < ss[2]}) \/ x - 1 \notin C
    BY <1>2 DEF WF!OpToRel
  <2>2. /\ <<x - 1, x>> \in Nat \X Nat
        /\ <<x - 1, x>>[1] = x - 1 /\ <<x - 1, x>>[2] = x
    BY <1>3
  <2> QED
    BY <1>3, <2>1, <2>2
<1> QED
  BY <1>3, <1>4

\* Products of natural numbers are natural numbers.
LEMMA TimesNat == \A x, y \in Nat : x * y \in Nat
OBVIOUS

\* g is the function that starts with z and goes on with b * g[k - 1] + d[k].
Solves(g, b, z, d, n) ==
  g[0] = z /\ \A k \in 1 .. n : g[k] = b * g[k - 1] + d[k]

\* The functions that Exp and DigitsValue define by recursion exist.
LEMMA RecursionExists ==
  ASSUME NEW b \in Nat, NEW z \in Nat, NEW N \in Nat, NEW d \in [1 .. N -> Nat]
  PROVE  \E g \in [0 .. N -> Nat] : Solves(g, b, z, d, N)
<1> DEFINE T == {n \in Nat :
                   n <= N => \E g \in [0 .. n -> Nat] : Solves(g, b, z, d, n)}
<1>1. 0 \in T
  <2> DEFINE g == [k \in 0 .. 0 |-> z]
  <2>1. g \in [0 .. 0 -> Nat] /\ Solves(g, b, z, d, 0)
    BY DEF Solves
  <2> QED
    BY <2>1
<1>2. ASSUME NEW n \in T, n + 1 <= N
      PROVE  \E g \in [0 .. n + 1 -> Nat] : Solves(g, b, z, d, n + 1)
  <2>1. PICK g \in [0 .. n -> Nat] : Solves(g, b, z, d, n)
    BY <1>2
  <2> DEFINE last == b * g[n] + d[n + 1]
             h == [k \in 0 .. n + 1 |-> IF k = n + 1 THEN last ELSE g[k]]
  <2>2. n \in Nat /\ n + 1 \in 1 .. N /\ g[n] \in Nat /\ d[n + 1] \in Nat
    BY <1>2
  <2>3. last \in Nat
    <3>1. b * g[n] \in Nat
      BY <2>2, TimesNat
    <3> QED
      BY <2>2, <3>1
  <2>4. h \in [0 .. n + 1 -> Nat] /\ h[0] = z
    <3> HIDE DEF last
    <3> QED
      BY <2>1, <2>2, <2>3 DEF Solves
  <2>5. ASSUME NEW k \in 1 .. n + 1
        PROVE  h[k] = b * h[k - 1] + d[k]
    <3>1. CASE k = n + 1
      <4>1. h[k] = last /\ h[k - 1] = g[n]
        BY <2>2, <3>1
      <4> HIDE DEF h
      <4> QED
        BY <3>1, <4>1
    <3>2. CASE k # n + 1
      <4>1. k \in 1 .. n /\ h[k] = g[k] /\ h[k - 1] = g[k - 1]
        BY <2>2, <3>2
      <4> HIDE DEF h
      <4> QED
        BY <2>1, <4>1 DEF Solves
    <3> QED
      BY <3>1, <3>2
  <2> HIDE DEF h
  <2>6. Solves(h, b, z, d, n + 1)
    BY <2>4, <2>5 DEF Solves
  <2> QED
    BY <2>4, <2>6
<1>3. ASSUME NEW n \in T PROVE n + 1 \in T
  <2>1. n + 1 \in Nat
    OBVIOUS
  <2>2. n + 1 <= N => \E g \in [0 .. n + 1 -> Nat] : Solves(g, b, z, d, n + 1)
    BY <1>2
  <2> QED
    BY <2>1, <2>2
<1> HIDE DEF T
<1>4. N \in T
  BY <1>1, <1>3, SetInduction DEF T
<1> QED
  BY <1>4 DEF T

\* Any solution of such an equation has numbers for values.
LEMMA RecursionType ==
  ASSUME NEW N \in Nat, NEW p, p[0] \in Nat,
         \A k \in 1 .. N : p[k - 1] \in Nat => p[k] \in Nat
  PROVE  \A k \in 0 .. N : p[k] \in Nat
<1> DEFINE T == {k \in Nat : k <= N => p[k] \in Nat}
<1>1. 0 \in T
  OBVIOUS
<1>2. ASSUME NEW k \in T PROVE k + 1 \in T
  <2>1. k \in Nat /\ (k <= N => p[k] \in Nat)
    OBVIOUS
  <2>2. k + 1 <= N => k + 1 \in 1 .. N /\ (k + 1) - 1 = k
    BY <2>1
  <2>3. k + 1 <= N => p[k + 1] \in Nat
    BY <2>1, <2>2
  <2> QED
    BY <2>1, <2>3
<1>3. \A k \in Nat : k \in T
  <2> HIDE DEF T
  <2> QED
    BY <1>1, <1>2, SetInduction DEF T
<1> QED
  BY <1>3

\* What Exp computes.
LEMMA ExpRecursion ==
  ASSUME NEW b \in Nat, NEW n \in Nat
  PROVE  \E p \in [0 .. n -> Nat] :
           /\ p[0] = 1
           /\ \A k \in 1 .. n : p[k] = b * p[k - 1]
           /\ Exp(b, n) = p[n]
<1> DEFINE d == [k \in 1 .. n |-> 0]
           Is(p) == p = [k \in 0 .. n |-> IF k = 0 THEN 1 ELSE b * p[k - 1]]
<1>1. d \in [1 .. n -> Nat] /\ \A k \in 1 .. n : d[k] = 0
  OBVIOUS
<1> HIDE DEF d
<1>2. PICK g \in [0 .. n -> Nat] : Solves(g, b, 1, d, n)
  BY <1>1, RecursionExists
<1>3. Is(g)
  <2>1. ASSUME NEW k \in 0 .. n, k # 0 PROVE g[k] = b * g[k - 1]
    <3>1. k \in 1 .. n /\ k - 1 \in 0 .. n /\ g[k - 1] \in Nat
      BY <2>1
    <3>2. g[k] = b * g[k - 1] + 0
      BY <1>1, <1>2, <3>1 DEF Solves
    <3> QED
      BY <3>1, <3>2
  <2> QED
    BY <1>2, <2>1 DEF Solves
<1> DEFINE p == CHOOSE q : Is(q)
<1>4. Is(p)
  BY <1>3
<1>5. Exp(b, n) = p[n]
  BY DEF Exp
<1> HIDE DEF p
<1>6. p[0] = 1 /\ \A k \in 1 .. n : p[k] = b * p[k - 1]
  BY <1>4
<1>7. \A k \in 0 .. n : p[k] \in Nat
  <2>1. \A k \in 1 .. n : p[k - 1] \in Nat => p[k] \in Nat
    BY <1>6, TimesNat
  <2>2. p[0] \in Nat
    BY <1>6
  <2> QED
    BY <2>1, <2>2, RecursionType, Zenon
<1>8. p \in [0 .. n -> Nat]
  BY <1>4, <1>7
<1> QED
  BY <1>5, <1>6, <1>8

\* Exp by its first value and its step.
LEMMA ExpStep ==
  ASSUME NEW b \in Nat, NEW n \in Nat
  PROVE  /\ Exp(b, n) \in Nat
         /\ Exp(b, 0) = 1
         /\ Exp(b, n + 1) = b * Exp(b, n)
<1>1. PICK p \in [0 .. n -> Nat] :
        /\ p[0] = 1
        /\ \A k \in 1 .. n : p[k] = b * p[k - 1]
        /\ Exp(b, n) = p[n]
  BY ExpRecursion
<1>2. PICK q \in [0 .. n + 1 -> Nat] :
        /\ q[0] = 1
        /\ \A k \in 1 .. n + 1 : q[k] = b * q[k - 1]
        /\ Exp(b, n + 1) = q[n + 1]
  <2>1. n + 1 \in Nat
    OBVIOUS
  <2> QED
    BY <2>1, ExpRecursion
<1>3. PICK r \in [0 .. 0 -> Nat] : r[0] = 1 /\ Exp(b, 0) = r[0]
  <2>1. 0 \in Nat
    OBVIOUS
  <2> QED
    BY <2>1, ExpRecursion
<1> DEFINE T == {k \in Nat : k <= n => p[k] = q[k]}
<1>4. 0 \in T
  BY <1>1, <1>2
<1>5. ASSUME NEW k \in T PROVE k + 1 \in T
  <2>1. k \in Nat /\ (k <= n => p[k] = q[k])
    OBVIOUS
  <2>2. k + 1 <= n => k + 1 \in 1 .. n /\ k + 1 \in 1 .. n + 1 /\ (k + 1) - 1 = k
    BY <2>1
  <2>3. k + 1 <= n => p[k + 1] = b * p[k] /\ q[k + 1] = b * q[k]
    BY <1>1, <1>2, <2>2
  <2> QED
    BY <2>1, <2>3
<1>6. n \in T
  <2> HIDE DEF T
  <2> QED
    BY <1>4, <1>5, SetInduction DEF T
<1>7. q[n + 1] = b * q[n]
  <2>1. n + 1 \in 1 .. n + 1 /\ (n + 1) - 1 = n
    OBVIOUS
  <2> QED
    BY <1>2, <2>1
<1> QED
  BY <1>1, <1>2, <1>3, <1>6, <1>7

\* Powers of 10 are products of smaller ones, and at least 1.
LEMMA ExpSum ==
  ASSUME NEW m \in Nat, NEW n \in Nat
  PROVE  /\ Exp(10, m + n) = Exp(10, m) * Exp(10, n)
         /\ Exp(10, n) >= 1
<1>0. 10 \in Nat /\ m \in Nat
  OBVIOUS
<1>1. Exp(10, m) \in Nat /\ Exp(10, 0) = 1
  BY <1>0, ExpStep
<1> DEFINE T == {k \in Nat : /\ Exp(10, m + k) = Exp(10, m) * Exp(10, k)
                             /\ Exp(10, k) >= 1}
<1>2. 0 \in T
  BY <1>1
<1>3. ASSUME NEW k \in T PROVE k + 1 \in T
  <2>1. k \in Nat /\ m + k \in Nat /\ m + (k + 1) = (m + k) + 1
    OBVIOUS
  <2>2. /\ Exp(10, k) \in Nat /\ Exp(10, k + 1) = 10 * Exp(10, k)
        /\ Exp(10, (m + k) + 1) = 10 * Exp(10, m + k)
    BY <1>0, <2>1, ExpStep
  <2>3. \A a, c \in Nat : 10 * (a * c) = a * (10 * c)
    OBVIOUS
  <2>4. Exp(10, m + (k + 1)) = Exp(10, m) * Exp(10, k + 1)
    BY <1>1, <2>1, <2>2, <2>3
  <2> QED
    BY <2>1, <2>2, <2>4
<1>4. n \in T
  <2> HIDE DEF T
  <2> QED
    BY <1>2, <1>3, SetInduction DEF T
<1> QED
  BY <1>4

\* They grow.
LEMMA ExpGrows ==
  ASSUME NEW m \in Nat, NEW n \in Nat, m <= n
  PROVE  /\ Exp(10, m) <= Exp(10, n)
         /\ Exp(10, n) = Exp(10, m) * Exp(10, n - m)
<1>1. n - m \in Nat /\ m + (n - m) = n /\ 10 \in Nat
  OBVIOUS
<1>2. Exp(10, n) = Exp(10, m) * Exp(10, n - m) /\ Exp(10, n - m) >= 1
  BY <1>1, ExpSum
<1>3. Exp(10, m) \in Nat /\ Exp(10, n - m) \in Nat
  BY <1>1, ExpStep
<1>4. \A a, c \in Nat : c >= 1 => a <= a * c
  OBVIOUS
<1> QED
  BY <1>2, <1>3, <1>4

\* One more digit d.
LEMMA OneDigit ==
  \A a, e \in Nat, d \in 0 .. 9 :
    /\ 10 * a + d \in Nat
    /\ a < e => 10 * a + d < 10 * e
    /\ a >= e => 10 * a + d >= 10 * e
OBVIOUS

\* What DigitsValue computes.
LEMMA DigitsRecursion ==
  ASSUME NEW n \in Nat, NEW f \in [1 .. n -> 0 .. 9]
  PROVE  /\ Len(f) = n
         /\ \E p \in [0 .. n -> Nat] :
              Solves(p, 10, 0, f, n) /\ DigitsValue(f) = p[n]
<1>1. Len(f) = n /\ f \in [1 .. n -> Nat]
  OBVIOUS
<1> DEFINE Is(p) == p = [k \in 0 .. n |-> IF k = 0 THEN 0 ELSE 10 * p[k - 1] + f[k]]
<1>2. PICK g \in [0 .. n -> Nat] : Solves(g, 10, 0, f, n)
  BY <1>1, RecursionExists
<1>3. Is(g)
  BY <1>2 DEF Solves
<1> DEFINE p == CHOOSE q : Is(q)
<1>4. Is(p)
  BY <1>3
<1>5. DigitsValue(f) = p[n]
  BY <1>1 DEF DigitsValue
<1> HIDE DEF p
<1>6. p[0] = 0 /\ \A k \in 1 .. n : p[k] = 10 * p[k - 1] + f[k]
  BY <1>4
<1>7. \A k \in 0 .. n : p[k] \in Nat
  <2>1. ASSUME NEW k \in 1 .. n, p[k - 1] \in Nat PROVE p[k] \in Nat
    <3>1. p[k] = 10 * p[k - 1] + f[k] /\ f[k] \in 0 .. 9
      BY <1>6
    <3> QED
      BY <2>1, <3>1, OneDigit
  <2>2. p[0] \in Nat
    BY <1>6
  <2> QED
    BY <2>1, <2>2, RecursionType, Zenon
<1>8. p \in [0 .. n -> Nat]
  BY <1>4, <1>7
<1> QED
  BY <1>1, <1>5, <1>6, <1>8 DEF Solves

\* n digits spell a number below 10 to the n, and not below 10 to the n - 1 if the
\* first is not 0.
LEMMA DigitsBound ==
  ASSUME NEW n \in Nat, NEW f \in [1 .. n -> 0 .. 9]
  PROVE  /\ Len(f) = n
         /\ DigitsValue(f) \in Nat
         /\ DigitsValue(f) < Exp(10, n)
         /\ n > 0 /\ f[1] # 0 => DigitsValue(f) >= Exp(10, n - 1)
         /\ (\A k \in 1 .. n : f[k] = 0) => DigitsValue(f) = 0
<1>1. Len(f) = n
  BY DigitsRecursion
<1>2. PICK p \in [0 .. n -> Nat] : Solves(p, 10, 0, f, n) /\ DigitsValue(f) = p[n]
  BY DigitsRecursion
<1> DEFINE Bound(k) ==
             /\ p[k] < Exp(10, k)
             /\ k > 0 /\ f[1] # 0 => p[k] >= Exp(10, k - 1)
             /\ (\A j \in 1 .. n : f[j] = 0) => p[k] = 0
           T == {k \in Nat : k <= n => Bound(k)}
<1>3. 0 \in T
  <2>1. Exp(10, 0) = 1 /\ p[0] = 0
    BY <1>2, ExpStep DEF Solves
  <2> QED
    BY <2>1
<1>4. ASSUME NEW k \in T, k + 1 <= n PROVE Bound(k + 1)
  <2>1. /\ k \in Nat /\ k + 1 \in 1 .. n /\ (k + 1) - 1 = k /\ p[k] \in Nat
        /\ f[k + 1] \in 0 .. 9 /\ p[k + 1] \in Nat
    BY <1>4
  <2>2. Bound(k)
    BY <1>4, <2>1
  <2>3. p[k + 1] = 10 * p[k] + f[k + 1]
    BY <1>2, <2>1 DEF Solves
  <2>4. Exp(10, k) \in Nat /\ Exp(10, k + 1) = 10 * Exp(10, k)
    BY <2>1, ExpStep
  <2>5. p[k + 1] < Exp(10, k + 1)
    BY <2>1, <2>2, <2>3, <2>4, OneDigit
  <2>6. (\A j \in 1 .. n : f[j] = 0) => p[k + 1] = 0
    BY <2>1, <2>2, <2>3
  <2>7. ASSUME f[1] # 0 PROVE p[k + 1] >= Exp(10, k)
    <3>1. CASE k = 0
      <4>1. Exp(10, 0) = 1 /\ p[0] = 0
        BY <1>2, ExpStep DEF Solves
      <4> QED
        BY <2>1, <2>3, <2>7, <3>1, <4>1
    <3>2. CASE k # 0
      <4>1. k - 1 \in Nat /\ (k - 1) + 1 = k /\ k > 0
        BY <2>1, <3>2
      <4>2. Exp(10, k - 1) \in Nat /\ Exp(10, k) = 10 * Exp(10, k - 1)
        <5>1. Exp(10, (k - 1) + 1) = 10 * Exp(10, k - 1)
          BY <4>1, ExpStep
        <5> QED
          BY <4>1, <5>1, ExpStep
      <4>3. p[k] >= Exp(10, k - 1)
        BY <2>2, <2>7, <4>1
      <4> QED
        BY <2>1, <2>3, <4>2, <4>3, OneDigit
    <3> QED
      BY <3>1, <3>2
  <2> QED
    BY <2>1, <2>5, <2>6, <2>7
<1>5. ASSUME NEW k \in T PROVE k + 1 \in T
  <2>1. k + 1 \in Nat
    OBVIOUS
  <2>2. k + 1 <= n => Bound(k + 1)
    BY <1>4
  <2> HIDE DEF Bound
  <2> QED
    BY <2>1, <2>2
<1>6. n \in T
  <2> HIDE DEF T
  <2> QED
    BY <1>3, <1>5, SetInduction DEF T
<1>7. Bound(n)
  BY <1>6
<1> QED
  BY <1>1, <1>2, <1>7

-----------------------------------------------------------------------------
(* Numbers.                                                                *)

\* What Meaning and parse_json_value_types need of a double.
Number(t) ==
  /\ t.type = "double"
  /\ t.exp = 0
  /\ t.neg \in BOOLEAN
  /\ t.int \in Nat
  /\ \E n \in 1 .. MaxDigits : t.frac \in [1 .. n -> 0 .. 9]

\* The digits after the point in units of 10^-MaxDigits.
Fractional(t) ==
  DigitsValue(t.frac) * Exp(10, MaxDigits - Len(t.frac))

\* The fraction is less than 1.
LEMMA FractionBound ==
  ASSUME NEW t, Number(t)
  PROVE  /\ Len(t.frac) \in 1 .. MaxDigits
         /\ DigitsValue(t.frac) \in Nat
         /\ Exp(10, MaxDigits - Len(t.frac)) \in Nat
         /\ Exp(10, MaxDigits - Len(t.frac)) >= 1
         /\ Unit \in Nat
         /\ Fractional(t) \in Nat /\ Fractional(t) < Unit
<1>1. PICK n \in 1 .. MaxDigits : t.frac \in [1 .. n -> 0 .. 9]
  BY DEF Number
<1>2. MaxDigits \in Nat /\ n \in Nat /\ n <= MaxDigits /\ MaxDigits - n \in Nat
  BY ValueAssumption
<1>3. /\ Len(t.frac) = n
      /\ DigitsValue(t.frac) \in Nat
      /\ DigitsValue(t.frac) < Exp(10, n)
  BY <1>1, <1>2, DigitsBound
<1>4. /\ Exp(10, n) \in Nat /\ Exp(10, MaxDigits - n) \in Nat
      /\ Exp(10, MaxDigits) \in Nat
  BY <1>2, ExpStep
<1>5. /\ Exp(10, MaxDigits) = Exp(10, n) * Exp(10, MaxDigits - n)
      /\ Exp(10, MaxDigits - n) >= 1
  BY <1>2, ExpGrows, ExpSum
<1>6. \A d, a, e \in Nat : d < a /\ e >= 1 => d * e \in Nat /\ d * e < a * e
  OBVIOUS
<1> QED
  BY <1>1, <1>2, <1>3, <1>4, <1>5, <1>6 DEF Fractional, Unit

\* A text that is a number means its signed integer part and its fraction.
LEMMA MeaningIs ==
  ASSUME NEW t, Number(t), t # None, NEW a,
         a = parse_json_value_types(t).int
  PROVE  /\ a \in Int
         /\ Meaning(t) \in Int
         /\ t.neg => a <= 0 /\ Meaning(t) = a * Unit - Fractional(t)
         /\ ~t.neg => a >= 0 /\ Meaning(t) = a * Unit + Fractional(t)
         /\ parse_json_value_types(t).dec = DigitsValue(t.frac)
         /\ parse_json_value_types(t).multiplier = 1
<1>1. Fractional(t) \in Nat /\ Unit \in Nat /\ Len(t.frac) \in 1 .. MaxDigits
  BY FractionBound
<1>2. t.frac # <<>> /\ t.int \in Nat /\ t.neg \in BOOLEAN
  BY <1>1, ValueAssumption DEF Number
<1>3. parse_json_value_types(t) =
        [int |-> IF t.neg THEN -t.int ELSE t.int,
         dec |-> DigitsValue(t.frac), multiplier |-> 1]
  BY <1>2 DEF parse_json_value_types, Number
<1>4. a = IF t.neg THEN -t.int ELSE t.int
  BY <1>3
<1>5. Meaning(t) = IF t.neg THEN -(t.int * Unit + Fractional(t))
                     ELSE t.int * Unit + Fractional(t)
  <2>1. t.exp = 0 /\ Exp(10, 0) = 1
    BY ExpStep DEF Number
  <2>2. Meaning(t) = 1 * IF t.neg THEN -(t.int * Unit + Fractional(t))
                         ELSE t.int * Unit + Fractional(t)
    BY <2>1 DEF Meaning, Fractional
  <2>3. t.int * Unit + Fractional(t) \in Int
    BY <1>1, <1>2
  <2> QED
    BY <2>2, <2>3
<1>6. \A i, u, f \in Nat : /\ i * u + f \in Int
                           /\ -(i * u + f) \in Int
                           /\ -(i * u + f) = (-i) * u - f
  OBVIOUS
<1>7. t.int * Unit + Fractional(t) \in Int
  BY <1>1, <1>2, <1>6
<1>8. CASE t.neg
  <2>1. a = -t.int /\ Meaning(t) = -(t.int * Unit + Fractional(t))
    BY <1>4, <1>5, <1>8
  <2> QED
    BY <1>1, <1>2, <1>3, <1>6, <1>8, <2>1
<1>9. CASE ~t.neg
  <2>1. a = t.int /\ Meaning(t) = t.int * Unit + Fractional(t)
    BY <1>4, <1>5, <1>9
  <2> QED
    BY <1>2, <1>3, <1>7, <1>9, <2>1
<1> QED
  BY <1>8, <1>9

\* The number with the smaller integer part is smaller.
LEMMA IntDecides ==
  ASSUME NEW t, Number(t), t # None,
         NEW s, Number(s), s # None,
         parse_json_value_types(t).int < parse_json_value_types(s).int
  PROVE  Meaning(t) < Meaning(s)
<1> DEFINE a == parse_json_value_types(t).int
           b == parse_json_value_types(s).int
<1>1. /\ Fractional(t) \in Nat /\ Fractional(t) < Unit
      /\ Fractional(s) \in Nat /\ Fractional(s) < Unit /\ Unit \in Nat
  BY FractionBound
<1>2. /\ a \in Int
      /\ t.neg => a <= 0 /\ Meaning(t) = a * Unit - Fractional(t)
      /\ ~t.neg => a >= 0 /\ Meaning(t) = a * Unit + Fractional(t)
  BY MeaningIs
<1>3. /\ b \in Int
      /\ s.neg => b <= 0 /\ Meaning(s) = b * Unit - Fractional(s)
      /\ ~s.neg => b >= 0 /\ Meaning(s) = b * Unit + Fractional(s)
  BY MeaningIs
<1>4. a < b
  OBVIOUS
<1> HIDE DEF a, b
<1>5. \A x, y \in Int, u \in Nat : x < y => x * u + u <= y * u
  OBVIOUS
<1>6. a * Unit + Unit <= b * Unit /\ a * Unit \in Int /\ b * Unit \in Int
  BY <1>1, <1>2, <1>3, <1>4, <1>5
<1>7. CASE ~t.neg /\ s.neg
  BY <1>2, <1>3, <1>4, <1>7
<1>8. CASE t.neg /\ s.neg
  BY <1>1, <1>2, <1>3, <1>6, <1>8
<1>9. CASE t.neg /\ ~s.neg
  BY <1>1, <1>2, <1>3, <1>6, <1>9
<1>10. CASE ~t.neg /\ ~s.neg
  BY <1>1, <1>2, <1>3, <1>6, <1>10
<1> QED
  BY <1>7, <1>8, <1>9, <1>10

\* Comparing the split numbers the way config_is_valid does tells which of two
\* comparable limits is larger.
LEMMA SplitDecides ==
  ASSUME NEW l, Number(l), l # None,
         NEW u, Number(u), u # None, Comparable(l, u), NEW x, NEW y,
         x = parse_json_value_types(u).int - parse_json_value_types(l).int,
         y = parse_json_value_types(u).dec - parse_json_value_types(l).dec
  PROVE  /\ x \in -Half .. Half - 1 /\ y \in Int
         /\ Meaning(l) < Meaning(u) <=> ~(x < 0 \/ (x = 0 /\ y <= 0))
<1> DEFINE a == parse_json_value_types(l).int
           b == parse_json_value_types(u).int
<1>1. /\ a \in Int /\ Meaning(l) \in Int
      /\ ~l.neg => Meaning(l) = a * Unit + Fractional(l)
      /\ parse_json_value_types(l).dec = DigitsValue(l.frac)
  BY MeaningIs
<1>2. /\ b \in Int /\ Meaning(u) \in Int
      /\ ~u.neg => Meaning(u) = b * Unit + Fractional(u)
      /\ parse_json_value_types(u).dec = DigitsValue(u.frac)
  BY MeaningIs
<1>3. DigitsValue(l.frac) \in Nat /\ DigitsValue(u.frac) \in Nat
  BY FractionBound
<1>4. x \in -Half .. Half - 1 /\ y \in Int /\ x = b - a
  BY <1>1, <1>2, <1>3 DEF Comparable
<1>5. CASE a < b
  BY <1>1, <1>2, <1>4, <1>5, IntDecides
<1>6. CASE b < a
  <2>1. Meaning(u) < Meaning(l)
    BY <1>6, IntDecides
  <2> QED
    BY <1>1, <1>2, <1>4, <1>6, <2>1
<1>7. CASE a = b
  <2> DEFINE e == Exp(10, MaxDigits - Len(l.frac))
             g == Exp(10, MaxDigits - Len(u.frac))
             d == DigitsValue(l.frac)
             f == DigitsValue(u.frac)
  <2>1. ~l.neg /\ ~u.neg /\ (e = g \/ d = 0 \/ f = 0)
    BY <1>1, <1>2, <1>7 DEF Comparable
  <2>2. e \in Nat /\ e >= 1 /\ g \in Nat /\ g >= 1 /\ Unit \in Nat
    BY FractionBound
  <2>3. Fractional(l) = d * e /\ Fractional(u) = f * g
    BY DEF Fractional
  <2> HIDE DEF a, b, d, e, f, g
  <2>4. \A i, j, k \in Nat : k >= 1 => /\ i * k < j * k <=> i < j
                                       /\ i * k \in Nat
                                       /\ i * k = 0 <=> i = 0
    OBVIOUS
  <2>5. a * Unit \in Int
    BY <1>1, <2>2
  <2>6. d \in Nat /\ f \in Nat /\ y = f - d
    BY <1>1, <1>2, <1>3 DEF d, f
  <2>7. Meaning(l) < Meaning(u) <=> d < f
    <3>1. d * e < f * g <=> d < f
      <4>1. CASE e = g
        BY <2>2, <2>4, <2>6, <4>1
      <4>2. CASE d = 0
        BY <2>2, <2>4, <2>6, <4>2
      <4>3. CASE f = 0
        BY <2>2, <2>4, <2>6, <4>3
      <4> QED
        BY <2>1, <4>1, <4>2, <4>3
    <3>2. d * e \in Nat /\ f * g \in Nat
      BY <2>2, <2>4, <2>6
    <3> QED
      BY <1>1, <1>2, <1>7, <2>1, <2>3, <2>5, <3>1, <3>2
  <2> QED
    BY <1>1, <1>4, <1>7, <2>6, <2>7
<1> HIDE DEF a, b
<1> QED
  BY <1>1, <1>2, <1>5, <1>6, <1>7

\* Where the difference of the integer parts fits an int the build has no choice.
LEMMA NoOverflow ==
  ASSUME NEW a \in Int, NEW b \in Int, a - b \in -Half .. Half - 1
  PROVE  Minus(a, b) = {a - b}
<1>1. Half \in Nat
  <2>1. Width - 1 \in Nat /\ 2 \in Nat
    BY ValueAssumption
  <2> QED
    BY <2>1, ExpStep DEF Half
<1>2. \A x \in Int, h \in Nat : x \in -h .. h - 1 => ((x + h) % (2 * h)) - h = x
  OBVIOUS
<1>3. a - b \in Int
  OBVIOUS
<1>4. ((a - b + Half) % (2 * Half)) - Half = a - b
  BY <1>1, <1>2, <1>3
<1> QED
  BY <1>4 DEF Minus

\* The fields of a document.
LEMMA JsonFields ==
  ASSUME NEW t \in Json
  PROVE  /\ t = [type |-> t.type, neg |-> t.neg, int |-> t.int, frac |-> t.frac,
                 exp |-> t.exp]
         /\ t.type \in {"double", "int", "boolean"} /\ t.neg \in BOOLEAN
         /\ t.int \in Nat /\ t.exp \in Nat
         /\ t.frac \in Fraction \/ t.frac = <<>>
         /\ t.type # "double" => t.frac = <<>> /\ t.exp = 0
         /\ t.type = "boolean" => t.neg = FALSE
<1>1. \A i \in IntPart : i \in Nat
  <2>1. IntPart \subseteq 0 .. Half - 1
    BY ValueAssumption
  <2> HIDE DEF Half
  <2> QED
    BY <2>1
<1>2. \A e \in Exponent : e \in Nat
  BY ValueAssumption
<1>3. CASE t \in [type : {"double"}, neg : BOOLEAN, int : IntPart, frac : Fraction,
                  exp : Exponent]
  BY <1>1, <1>2, <1>3
<1>4. CASE t \in [type : {"int"}, neg : BOOLEAN, int : IntPart, frac : {<<>>},
                  exp : {0}]
  BY <1>1, <1>4
<1>5. CASE t \in [type : {"boolean"}, neg : {FALSE}, int : {0, 1}, frac : {<<>>},
                  exp : {0}]
  <2>1. t.int = 0 \/ t.int = 1
    BY <1>5, Zenon
  <2>2. t.int \in Nat
    BY <2>1
  <2>3. /\ t = [type |-> t.type, neg |-> t.neg, int |-> t.int, frac |-> t.frac,
                exp |-> t.exp]
        /\ t.type = "boolean" /\ t.neg = FALSE /\ t.frac = <<>> /\ t.exp = 0
    BY <1>5
  <2>4. t.neg \in BOOLEAN
    BY <2>3, Zenon
  <2>5. t.exp \in Nat
    BY <2>3
  <2> QED
    BY <2>2, <2>3, <2>4, <2>5, Zenon
<1> QED
  BY <1>3, <1>4, <1>5 DEF Json

\* A readable document is a number.
LEMMA ReadableIs ==
  ASSUME NEW t \in Json, Readable(t)
  PROVE  Number(t)
<1>1. MaxDigits \in Nat /\ IntPart \subseteq Nat
  BY ValueAssumption
<1>2. PICK n \in 0 .. MaxDigits : t.frac \in [1 .. n -> Digit]
  BY DEF Json, Fraction, Readable
<1>3. n \in 1 .. MaxDigits
  BY <1>1, <1>2 DEF Readable
<1>4. t.frac \in [1 .. n -> 0 .. 9]
  BY <1>2, ValueAssumption
<1>5. t.neg \in BOOLEAN /\ t.int \in Nat
  BY JsonFields
<1> QED
  BY <1>3, <1>4, <1>5 DEF Number, Readable

\* A document is not the missing one.
LEMMA JsonNotNone ==
  ASSUME NEW t \in Json
  PROVE  /\ t # None
         /\ t \in [type : {"double", "int", "boolean"}, neg : BOOLEAN, int : Nat,
                   frac : Seq(Nat), exp : Nat]
<1>1. MaxDigits \in Nat /\ \A d \in Digit : d \in Nat
  BY ValueAssumption
<1>2. t.frac \in Fraction \/ t.frac = <<>>
  BY JsonFields
<1>3. t.frac \in Seq(Nat)
  <2>1. ASSUME NEW n \in 0 .. MaxDigits, NEW f \in [1 .. n -> Digit]
        PROVE  f \in Seq(Nat)
    <3>1. n \in Nat
      BY <1>1
    <3>2. f \in [1 .. n -> Nat]
      BY <1>1
    <3> QED
      BY <3>1, <3>2
  <2>2. CASE t.frac \in Fraction
    BY <2>1, <2>2 DEF Fraction
  <2>3. CASE t.frac = <<>>
    BY <2>3
  <2> QED
    BY <1>2, <2>2, <2>3
<1>4. /\ t = [type |-> t.type, neg |-> t.neg, int |-> t.int, frac |-> t.frac,
              exp |-> t.exp]
      /\ t.type \in {"double", "int", "boolean"} /\ t.neg \in BOOLEAN
      /\ t.int \in Nat /\ t.exp \in Nat
  BY JsonFields
<1>5. t \in [type : {"double", "int", "boolean"}, neg : BOOLEAN, int : Nat,
             frac : Seq(Nat), exp : Nat]
  BY <1>3, <1>4
<1> QED
  BY <1>5, JsonAssumption

\* The one digit 0.
LEMMA NoFraction ==
  /\ << 0 >> \in [1 .. 1 -> 0 .. 9] /\ << 0 >> \in Seq(Nat) /\ << 0 >> # <<>>
  /\ DigitsValue(<< 0 >>) = 0
<1>1. << 0 >> \in [1 .. 1 -> 0 .. 9] /\ \A k \in 1 .. 1 : << 0 >>[k] = 0
  OBVIOUS
<1>2. DigitsValue(<< 0 >>) = 0
  BY <1>1, DigitsBound
<1> QED
  BY <1>1, <1>2

\* A double with the fraction 0 is a number, and so split.
LEMMA WholeIs ==
  ASSUME NEW s, NEW i \in Nat, NEW n \in BOOLEAN,
         s = [type |-> "double", neg |-> n, int |-> i, frac |-> << 0 >>, exp |-> 0]
  PROVE  /\ Number(s) /\ s # None
         /\ parse_json_value_types(s) =
              [int |-> IF n THEN -i ELSE i, dec |-> 0, multiplier |-> 1]
<1>1. MaxDigits \in Nat /\ 1 \in 1 .. MaxDigits
  BY ValueAssumption
<1>2. Number(s)
  BY <1>1, NoFraction DEF Number
<1>3. s \in [type : {"double", "int", "boolean"}, neg : BOOLEAN, int : Nat,
             frac : Seq(Nat), exp : Nat]
  BY NoFraction
<1>4. s # None
  BY <1>3, JsonAssumption
<1> QED
  BY <1>2, <1>4, NoFraction DEF parse_json_value_types

\* A readable limit is missing, an int or a double with digits.
LEMMA LimitIs ==
  ASSUME NEW t \in Json \cup {None}, Readable(Limit(t))
  PROVE  /\ Number(Limit(t)) /\ Limit(t) # None
         /\ parse_json_value_types(Limit(t)).int = parse_json_value_types(t).int
         /\ parse_json_value_types(Limit(t)).dec = parse_json_value_types(t).dec
<1>1. CASE t = None
  <2>1. Limit(t) = [type |-> "double", neg |-> FALSE, int |-> 0, frac |-> << 0 >>,
                    exp |-> 0]
    BY <1>1 DEF Limit
  <2>2. parse_json_value_types(t) = [int |-> 0, dec |-> 0, multiplier |-> 0]
    BY <1>1 DEF parse_json_value_types, Zero
  <2>3. /\ Number(Limit(t)) /\ Limit(t) # None
        /\ parse_json_value_types(Limit(t)) =
             [int |-> IF FALSE THEN -0 ELSE 0, dec |-> 0, multiplier |-> 1]
    <3>1. 0 \in Nat /\ FALSE \in BOOLEAN
      OBVIOUS
    <3> QED
      BY <2>1, <3>1, WholeIs
  <2> QED
    BY <2>2, <2>3
<1>2. CASE t # None /\ t.type = "int"
  <2>1. t \in [type : {"int"}, neg : BOOLEAN, int : IntPart, frac : {<<>>}, exp : {0}]
    BY <1>2 DEF Json
  <2>2. t.int \in Nat /\ t.neg \in BOOLEAN
    BY <1>2, JsonFields
  <2>3. Limit(t) = [type |-> "double", neg |-> t.neg, int |-> t.int, frac |-> << 0 >>,
                    exp |-> 0]
    BY <1>2, <2>1 DEF Limit
  <2>4. parse_json_value_types(t) =
          [int |-> IF t.neg THEN -t.int ELSE t.int, dec |-> 0, multiplier |-> 1]
    BY <1>2 DEF parse_json_value_types
  <2> QED
    BY <2>2, <2>3, <2>4, WholeIs
<1>3. CASE t # None /\ t.type # "int"
  <2>1. Limit(t) = t /\ t \in Json
    BY <1>3 DEF Limit
  <2> QED
    BY <1>3, <2>1, ReadableIs
<1> QED
  BY <1>1, <1>2, <1>3

\* The verdicts of config_is_valid on comparable limits.
LEMMA VerdictIs ==
  ASSUME NEW l \in Json \cup {None}, NEW u \in Json \cup {None},
         Comparable(Limit(l), Limit(u)),
         NEW refused \in LimitsRefused(parse_json_value_types(l),
                                       parse_json_value_types(u))
  PROVE  refused = ~(Meaning(Limit(l)) < Meaning(Limit(u)))
<1> DEFINE a == parse_json_value_types(l)
           b == parse_json_value_types(u)
           x == b.int - a.int
           y == b.dec - a.dec
<1>1. Readable(Limit(l)) /\ Readable(Limit(u))
  BY DEF Comparable
<1>2. /\ Number(Limit(l)) /\ Limit(l) # None
      /\ parse_json_value_types(Limit(l)).int = a.int
      /\ parse_json_value_types(Limit(l)).dec = a.dec
  BY <1>1, LimitIs
<1>3. /\ Number(Limit(u)) /\ Limit(u) # None
      /\ parse_json_value_types(Limit(u)).int = b.int
      /\ parse_json_value_types(Limit(u)).dec = b.dec
  BY <1>1, LimitIs
<1>4. a.int \in Int /\ b.int \in Int
  BY <1>2, <1>3, MeaningIs
<1>5. /\ x \in -Half .. Half - 1 /\ y \in Int
      /\ Meaning(Limit(l)) < Meaning(Limit(u)) <=> ~(x < 0 \/ (x = 0 /\ y <= 0))
  BY <1>2, <1>3, SplitDecides
<1>6. Minus(b.int, a.int) = {x}
  BY <1>4, <1>5, NoOverflow
<1>7. LimitsRefused(a, b) = {x < 0 \/ (x = 0 /\ y <= 0)}
  BY <1>6 DEF LimitsRefused
<1> QED
  BY <1>5, <1>7

-----------------------------------------------------------------------------
(* The way of a job.                                                       *)

\* What a job has so far is what the functions of the code make of its input.
ConfigInv ==
  LET lower == parse_json_value_types(job.lower)
      upper == parse_json_value_types(job.upper)
  IN  /\ job \in Config
      /\ parsed # None => parsed = [lower |-> lower, upper |-> upper]
      /\ result # None => result \in config_is_valid(job.flags, job.time, lower, upper)

\* The same for a reading.
DataInv ==
  LET value == parse_json_value_types(job.value)
  IN  /\ job \in Data
      /\ parsed # None => parsed = value
      /\ result # None => result = Reported(value, job.value_type)

\* Whichever of the two the job is.
ValueInv ==
  /\ job.kind \in {"config", "data"}
  /\ job.kind = "config" => ConfigInv
  /\ job.kind = "data" => DataInv

\* Parsing, validating and reporting keep it.
LEMMA ValueInvariant == ValueSpec => []ValueInv
<1>1. ValueInit => ValueInv
  BY DEF ValueInit, ValueInv, ConfigInv, DataInv, Config, Data
<1>2. ASSUME ValueInv, [ValueNext]_valueVars PROVE ValueInv'
  <2>1. CASE ParseConfig
    BY <1>2, <2>1 DEF ParseConfig, ValueInv, ConfigInv, DataInv
  <2>2. CASE Validate
    <3>1. ConfigInv /\ job.kind = "config"
      BY <1>2, <2>2 DEF Validate, ValueInv
    <3>2. /\ parsed.lower = parse_json_value_types(job.lower)
          /\ parsed.upper = parse_json_value_types(job.upper)
      BY <2>2, <3>1 DEF Validate, ConfigInv
    <3> QED
      BY <2>2, <3>1, <3>2 DEF Validate, ValueInv, ConfigInv, DataInv
  <2>3. CASE ParseData
    BY <1>2, <2>3 DEF ParseData, ValueInv, ConfigInv, DataInv
  <2>4. CASE Report
    BY <1>2, <2>4 DEF Report, ValueInv, ConfigInv, DataInv
  <2>5. CASE UNCHANGED valueVars
    BY <1>2, <2>5 DEF valueVars, ValueInv, ConfigInv, DataInv
  <2> QED
    BY <1>2, <2>1, <2>2, <2>3, <2>4, <2>5 DEF ValueNext
<1> QED
  BY <1>1, <1>2, PTL DEF ValueSpec

\* Limits that config_is_valid accepts are in order, for every width of an int, every
\* number of digits that fits one and every text: AcceptedIsOrdered.
THEOREM AcceptedOrdered == ValueSpec => []AcceptedIsOrdered
<1>1. ASSUME ValueInv, Decided, result, AsksLimits PROVE InOrder
  <2>1. ConfigInv /\ result # None
    BY <1>1 DEF Decided, ValueInv
  <2>2. job.lower \in Json \cup {None} /\ job.upper \in Json \cup {None}
    BY <2>1 DEF ConfigInv, Config
  <2> DEFINE lower == parse_json_value_types(job.lower)
             upper == parse_json_value_types(job.upper)
  <2>3. result \in config_is_valid(job.flags, job.time, lower, upper)
    BY <2>1 DEF ConfigInv
  <2>4. PICK r \in LimitsRefused(lower, upper) : result = ~r
    BY <1>1, <2>3 DEF config_is_valid, AsksLimits
  <2>5. r = ~InOrder
    BY <1>1, <2>2, VerdictIs DEF Decided, InOrder
  <2> QED
    BY <1>1, <2>4, <2>5
<1>2. ValueInv => AcceptedIsOrdered
  BY <1>1 DEF AcceptedIsOrdered
<1> QED
  BY <1>2, ValueInvariant, PTL

\* The other direction: OrderedIsAccepted.
THEOREM OrderedAccepted == ValueSpec => []OrderedIsAccepted
<1>1. ASSUME ValueInv, Decided,
             job.flags = {} \/ job.flags \ {"unknown"} # {},
             (job.time > 0) <=> ("time" \in job.flags),
             AsksLimits => InOrder
      PROVE  result
  <2>1. ConfigInv /\ result # None
    BY <1>1 DEF Decided, ValueInv
  <2>2. /\ job.lower \in Json \cup {None} /\ job.upper \in Json \cup {None}
        /\ job.time \in {0, 1}
    BY <2>1 DEF ConfigInv, Config
  <2> DEFINE lower == parse_json_value_types(job.lower)
             upper == parse_json_value_types(job.upper)
  <2>3. result \in config_is_valid(job.flags, job.time, lower, upper)
    BY <2>1 DEF ConfigInv
  <2>4. ~ \/ job.flags # {} /\ job.flags \subseteq {"unknown"}
          \/ "time" \in job.flags /\ job.time = 0
          \/ "time" \notin job.flags /\ job.time > 0
    BY <1>1, <2>2
  <2> HIDE DEF lower, upper
  <2>5. CASE ~AsksLimits
    BY <2>3, <2>4, <2>5 DEF config_is_valid, AsksLimits
  <2>6. CASE AsksLimits
    <3>1. PICK r \in LimitsRefused(lower, upper) : result = ~r
      BY <2>3, <2>4, <2>6 DEF config_is_valid, AsksLimits
    <3>2. r = ~InOrder
      BY <1>1, <2>2, VerdictIs DEF Decided, InOrder, lower, upper
    <3> QED
      BY <1>1, <2>6, <3>1, <3>2
  <2> QED
    BY <2>5, <2>6
<1>2. ValueInv => OrderedIsAccepted
  BY <1>1 DEF OrderedIsAccepted
<1> QED
  BY <1>2, ValueInvariant, PTL

\* knot_data_get_double_length finds the number of digits.
LEMMA LengthIs ==
  ASSUME NEW v, v.dec \in Nat, NEW n \in 1 .. MaxDigits + 1,
         v.dec < Exp(10, n), n > 1 => v.dec >= Exp(10, n - 1)
  PROVE  knot_data_get_double_length(v) = n
<1> DEFINE P(k) == v.dec < Exp(10, k) /\ (k > 1 => v.dec >= Exp(10, k - 1))
<1>1. MaxDigits \in Nat
  BY ValueAssumption
<1>2. ASSUME NEW j \in 1 .. MaxDigits + 1, NEW k \in 1 .. MaxDigits + 1,
             P(j), P(k), j < k
      PROVE  FALSE
  <2>1. j \in Nat /\ k - 1 \in Nat /\ j <= k - 1 /\ k > 1
    BY <1>1, <1>2
  <2>2. Exp(10, j) <= Exp(10, k - 1)
    BY <2>1, ExpGrows
  <2>3. Exp(10, j) \in Nat /\ Exp(10, k - 1) \in Nat
    BY <2>1, ExpStep
  <2> QED
    BY <1>2, <2>1, <2>2, <2>3
<1>3. P(n)
  OBVIOUS
<1> HIDE DEF P
<1>4. ASSUME NEW k \in 1 .. MaxDigits + 1, P(k) PROVE k = n
  BY <1>1, <1>2, <1>3, <1>4
<1>5. knot_data_get_double_length(v) = CHOOSE k \in 1 .. MaxDigits + 1 : P(k)
  BY DEF knot_data_get_double_length, P
<1> QED
  BY <1>3, <1>4, <1>5

\* A double comes back as the same number, if its fraction is zero or starts with
\* another digit and belongs to a number above 0.
LEMMA DoubleComesBack ==
  ASSUME NEW t, Number(t), t # None,
         DigitsValue(t.frac) = 0 \/ (~t.neg /\ t.frac[1] # 0)
  PROVE  knot_data_as_double(parse_json_value_types(t)) = Meaning(t)
<1> DEFINE v == parse_json_value_types(t)
           u == Unit
           e == Exp(10, MaxDigits - Len(t.frac))
           d == DigitsValue(t.frac)
           back == knot_data_as_double(v)
<1>4. PICK n \in 1 .. MaxDigits : t.frac \in [1 .. n -> 0 .. 9]
  BY DEF Number
<1>5. MaxDigits \in Nat /\ n \in Nat /\ n > 0 /\ n <= MaxDigits
  BY ValueAssumption
<1>6. /\ Len(t.frac) = n /\ d \in Nat /\ d < Exp(10, n)
      /\ t.frac[1] # 0 => d >= Exp(10, n - 1)
  BY <1>4, <1>5, DigitsBound
<1>7. v.dec = d /\ v.multiplier = 1 /\ v.int \in Int
  BY MeaningIs
<1>8. /\ t.neg => Meaning(t) = v.int * u - d * e
      /\ ~t.neg => Meaning(t) = v.int * u + d * e
  BY MeaningIs DEF Fractional
<1>9. e \in Nat /\ e >= 1 /\ u \in Nat /\ Exp(10, n) \in Nat /\ Exp(10, n) >= 1
  BY <1>5, FractionBound, ExpStep, ExpSum
<1>10. u = Exp(10, n) * e
  BY <1>5, <1>6, ExpGrows DEF Unit
<1>11. back = v.multiplier * (v.int * u
                  + d * (u \div Exp(10, knot_data_get_double_length(v))))
  BY <1>7 DEF knot_data_as_double
<1>12. t.neg \in BOOLEAN
  BY DEF Number
<1>13. d = 0 \/ (~t.neg /\ t.frac[1] # 0)
  OBVIOUS
<1> HIDE DEF v, u, e, d, back
<1>14. v.int * u \in Int
  BY <1>7, <1>9
<1>15. CASE d = 0
  <2>1. knot_data_get_double_length(v) = 1
    <3>1. Exp(10, 1) \in Nat /\ Exp(10, 1) >= 1 /\ 1 \in 1 .. MaxDigits + 1
      BY <1>5, ExpStep, ExpSum
    <3> QED
      BY <1>7, <1>15, <3>1, LengthIs
  <2>2. Exp(10, 1) \in Nat /\ Exp(10, 1) >= 1
    BY ExpStep, ExpSum
  <2>3. u \div Exp(10, 1) \in Int
    BY <1>9, <2>2
  <2>4. back = v.int * u
    BY <1>7, <1>11, <1>14, <1>15, <2>1, <2>3
  <2>5. Meaning(t) = v.int * u
    BY <1>8, <1>9, <1>12, <1>14, <1>15
  <2> QED
    BY <2>4, <2>5 DEF back, v
<1>16. CASE ~t.neg /\ t.frac[1] # 0
  <2>1. knot_data_get_double_length(v) = n
    <3>1. n \in 1 .. MaxDigits + 1
      BY <1>5
    <3> QED
      BY <1>6, <1>7, <1>16, <3>1, LengthIs
  <2>2. \A a, b \in Nat : a >= 1 => (a * b) \div a = b
    OBVIOUS
  <2>3. u \div Exp(10, n) = e
    BY <1>9, <1>10, <2>2
  <2>4. d * e \in Int
    BY <1>6, <1>9
  <2>5. back = v.int * u + d * e
    BY <1>7, <1>11, <1>14, <2>1, <2>3, <2>4
  <2> QED
    BY <1>8, <1>16, <2>5 DEF back, v
<1> QED
  BY <1>13, <1>15, <1>16

\* What an int or a boolean means.
LEMMA WholeMeaning ==
  ASSUME NEW t \in Json, t.type # "double"
  PROVE  /\ t.int \in Nat /\ t.neg \in BOOLEAN /\ Unit \in Nat
         /\ Meaning(t) = (IF t.neg THEN -t.int ELSE t.int) * Unit
<1>1. t.frac = <<>> /\ t.exp = 0 /\ t.int \in Nat /\ t.neg \in BOOLEAN
  BY JsonFields
<1>2. MaxDigits \in Nat /\ MaxDigits - 0 = MaxDigits
  BY ValueAssumption
<1>3. Unit \in Nat /\ Exp(10, 0) = 1
  BY <1>2, ExpStep DEF Unit
<1>4. DigitsValue(<<>>) = 0 /\ Len(<<>>) = 0
  <2>1. <<>> \in [1 .. 0 -> 0 .. 9] /\ \A k \in 1 .. 0 : <<>>[k] = 0
    OBVIOUS
  <2> QED
    BY <2>1, DigitsBound
<1>5. Meaning(t) = 1 * IF t.neg THEN -(t.int * Unit + 0 * Unit)
                       ELSE t.int * Unit + 0 * Unit
  BY <1>1, <1>2, <1>3, <1>4 DEF Meaning, Unit
<1>6. \A i, u \in Nat : /\ 1 * (-(i * u + 0 * u)) = (-i) * u
                        /\ 1 * (i * u + 0 * u) = i * u
  OBVIOUS
<1> QED
  BY <1>1, <1>3, <1>5, <1>6

\* The value a user sets comes back as the same value, if the union holds it where the
\* type of the sensor has it: RoundTrip.
THEOREM ValuesComeBack == ValueSpec => []RoundTrip
<1>1. ASSUME ValueInv, job.kind = "data", result # None,
             Held(job.value, job.value_type)
      PROVE  result = Meaning(job.value)
  <2> DEFINE t == job.value
             v == parse_json_value_types(t)
  <2>1. t \in Json /\ result = Reported(v, job.value_type) /\ t # None
    BY <1>1, JsonNotNone DEF ValueInv, DataInv, Data
  <2>2. CASE t.type = "int" /\ job.value_type \in {"int", "float"}
    <3>1. v = [int |-> IF t.neg THEN -t.int ELSE t.int, dec |-> 0, multiplier |-> 1]
      BY <2>1, <2>2 DEF parse_json_value_types
    <3>2. /\ t.int \in Nat /\ t.neg \in BOOLEAN /\ Unit \in Nat
          /\ Meaning(t) = (IF t.neg THEN -t.int ELSE t.int) * Unit
      BY <2>1, <2>2, WholeMeaning
    <3>3. CASE job.value_type = "int"
      BY <2>1, <3>1, <3>2, <3>3 DEF Reported
    <3>4. CASE job.value_type = "float"
      <4> DEFINE s == [type |-> "double", neg |-> t.neg, int |-> t.int,
                       frac |-> << 0 >>, exp |-> 0]
      <4>1. Number(s) /\ s # None /\ parse_json_value_types(s) = v
        BY <3>1, <3>2, WholeIs
      <4>2. DigitsValue(s.frac) = 0
        BY NoFraction
      <4>3. knot_data_as_double(v) = Meaning(s)
        BY <4>1, <4>2, DoubleComesBack
      <4>4. Meaning(s) = v.int * Unit
        <5>1. /\ s.neg => Meaning(s) = v.int * Unit - Fractional(s)
              /\ ~s.neg => Meaning(s) = v.int * Unit + Fractional(s)
          BY <4>1, MeaningIs
        <5>2. Fractional(s) = 0
          <6> DEFINE e == Exp(10, MaxDigits - Len(s.frac))
          <6>1. e \in Int
            <7> HIDE DEF s
            <7>1. e \in Nat
              BY <4>1, FractionBound
            <7> QED
              BY <7>1
          <6>2. Fractional(s) = 0 * e
            <7> HIDE DEF s
            <7> QED
              BY <4>2 DEF Fractional
          <6> HIDE DEF e
          <6> QED
            BY <6>1, <6>2
        <5>3. v.int * Unit \in Int /\ s.neg \in BOOLEAN
          BY <3>1, <3>2
        <5> HIDE DEF s, v
        <5> QED
          BY <5>1, <5>2, <5>3
      <4>5. v.int * Unit = Meaning(t)
        BY <3>1, <3>2
      <4>6. result = knot_data_as_double(v)
        BY <2>1, <3>4 DEF Reported
      <4> QED
        BY <4>3, <4>4, <4>5, <4>6
    <3> QED
      BY <2>2, <3>3, <3>4
  <2>3. CASE t.type = "boolean" /\ job.value_type = "bool"
    <3>1. v.multiplier = t.int
      BY <2>1, <2>3 DEF parse_json_value_types, Zero
    <3>2. t.int \in Nat /\ ~t.neg
      BY <2>1, <2>3, JsonFields
    <3>3. Meaning(t) = t.int * Unit
      BY <2>1, <2>3, <3>2, WholeMeaning
    <3> QED
      BY <2>1, <2>3, <3>1, <3>3 DEF Reported
  <2>4. CASE /\ Readable(t) /\ job.value_type = "float"
             /\ DigitsValue(t.frac) = 0 \/ (~t.neg /\ t.frac[1] # 0)
    <3>1. Number(t)
      BY <2>1, <2>4, ReadableIs
    <3>2. knot_data_as_double(v) = Meaning(t)
      BY <2>1, <2>4, <3>1, DoubleComesBack
    <3> QED
      BY <2>1, <2>4, <3>2 DEF Reported
  <2> QED
    BY <1>1, <2>2, <2>3, <2>4 DEF Held
<1>2. ValueInv => RoundTrip
  BY <1>1 DEF RoundTrip
<1> QED
  BY <1>2, ValueInvariant, PTL
=============================================================================
