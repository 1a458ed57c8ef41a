-------------------------- MODULE SensorDataProofs --------------------------
(***************************************************************************)
(* Proofs about SensorData: what a user asks for is not lost, for any      *)
(* sensors and values and any number of messages and updates under way.    *)
(***************************************************************************)
EXTENDS SensorData, SequenceTheorems, FiniteSetTheorems, TLAPS

-----------------------------------------------------------------------------
(* What on_device_changed forwards.                                        *)

\* The sequence of a finite set is a sequence of its elements, and has all of them.
LEMMA SetToSeqType ==
  ASSUME NEW S, IsFiniteSet(S)
  PROVE  /\ SetToSeq(S) \in Seq(S)
         /\ \A x \in S : \E i \in 1 .. Len(SetToSeq(S)) : SetToSeq(S)[i] = x
<1> DEFINE n == Cardinality(S)
           q == SetToSeq(S)
<1>1. n \in Nat /\ ExistsBijection(1 .. n, S)
  BY FS_CardinalityType
<1>2. PICK f \in [1 .. n -> S] : \A i, j \in 1 .. n : f[i] = f[j] => i = j
  BY <1>1 DEF ExistsBijection, Bijection, Injection, IsInjective
<1>3. IsInjective(f)
  BY <1>2 DEF IsInjective
<1>4. q \in [1 .. n -> S] /\ IsInjective(q)
  BY <1>2, <1>3 DEF SetToSeq
<1>5. q \in Seq(S) /\ Len(q) = n
  <2> HIDE DEF q, n
  <2> QED
    BY <1>1, <1>4
<1>6. q \in Injection(1 .. n, S)
  BY <1>4 DEF Injection
<1>7. Cardinality(1 .. n) = n
  BY <1>1, FS_Interval
<1>8. q \in Surjection(1 .. n, S)
  BY <1>6, <1>7, FS_Injection
<1> QED
  BY <1>5, <1>8 DEF Surjection

\* The lists are finite, and made of messages.
LEMMA MessagesType ==
  ASSUME NEW r \in Notice
  PROVE  /\ IsFiniteSet(SetMessages(r.set)) /\ SetMessages(r.set) \subseteq Down
         /\ IsFiniteSet(GetMessages(r.get)) /\ GetMessages(r.get) \subseteq Down
<1>0. r.set \in [Sensor -> Maybe] /\ r.get \subseteq Sensor
  BY DEF Notice
<1>1. IsFiniteSet(SetRequests(r.set)) /\ IsFiniteSet(r.get)
  <2>1. IsFiniteSet(Sensor)
    BY DataAssumption
  <2>2. SetRequests(r.set) \subseteq Sensor
    BY DEF SetRequests
  <2> QED
    BY <1>0, <2>1, <2>2, FS_Subset
<1>2. IsFiniteSet(SetMessages(r.set))
  <2> DEFINE f == [s \in SetRequests(r.set) |->
                     [type |-> "SET_DATA", sensor |-> s, value |-> r.set[s]]]
  <2>1. f \in Surjection(SetRequests(r.set), SetMessages(r.set))
    BY DEF Surjection, SetMessages
  <2> QED
    BY <1>1, <2>1, FS_Surjection
<1>3. IsFiniteSet(GetMessages(r.get))
  <2> DEFINE f == [s \in r.get |-> [type |-> "GET_DATA", sensor |-> s]]
  <2>1. f \in Surjection(r.get, GetMessages(r.get))
    BY DEF Surjection, GetMessages
  <2> QED
    BY <1>1, <2>1, FS_Surjection
<1>4. SetMessages(r.set) \subseteq Down
  BY <1>0 DEF SetMessages, SetRequests, Down, Maybe
<1>5. GetMessages(r.get) \subseteq Down
  BY <1>0 DEF GetMessages, Down
<1> QED
  BY <1>2, <1>3, <1>4, <1>5

\* The messages made of one copy of the record
Forwarded(r) == SetToSeq(SetMessages(r.set)) \o SetToSeq(GetMessages(r.get))

\* A value that is forwarded is the one in the copy; every value and every request for
\* a reading in the copy is forwarded.
LEMMA ForwardedType ==
  ASSUME NEW r \in Notice
  PROVE  /\ Forwarded(r) \in Seq(Down)
         /\ \A i \in 1 .. Len(Forwarded(r)) :
              Forwarded(r)[i].type = "SET_DATA" =>
                Forwarded(r)[i].value = r.set[Forwarded(r)[i].sensor]
         /\ \A s \in Sensor : r.set[s] # NULL =>
              \E i \in 1 .. Len(Forwarded(r)) :
                Forwarded(r)[i] = [type |-> "SET_DATA", sensor |-> s, value |-> r.set[s]]
         /\ \A s \in r.get : \E i \in 1 .. Len(Forwarded(r)) :
              Forwarded(r)[i] = [type |-> "GET_DATA", sensor |-> s]
<1> DEFINE S == SetMessages(r.set)
           G == GetMessages(r.get)
           p == SetToSeq(S)
           q == SetToSeq(G)
<1>1. p \in Seq(S) /\ \A x \in S : \E i \in 1 .. Len(p) : p[i] = x
  BY MessagesType, SetToSeqType
<1>2. q \in Seq(G) /\ \A x \in G : \E i \in 1 .. Len(q) : q[i] = x
  BY MessagesType, SetToSeqType
<1>3. S \subseteq Down /\ G \subseteq Down
  BY MessagesType
<1>4. \A m \in S : m.type = "SET_DATA" /\ m.value = r.set[m.sensor]
  BY DEF SetMessages
<1>5. \A m \in G : m.type = "GET_DATA"
  BY DEF GetMessages
<1>6. \A s \in Sensor : r.set[s] # NULL =>
        [type |-> "SET_DATA", sensor |-> s, value |-> r.set[s]] \in S
  BY DEF SetMessages, SetRequests
<1>7. \A s \in r.get : [type |-> "GET_DATA", sensor |-> s] \in G
  BY DEF GetMessages
<1>8. Forwarded(r) = p \o q
  BY DEF Forwarded
<1> HIDE DEF p, q, S, G
<1>9. /\ p \in Seq(Down) /\ Len(p) \in Nat /\ \A i \in 1 .. Len(p) : p[i] \in S
      /\ q \in Seq(Down) /\ Len(q) \in Nat /\ \A i \in 1 .. Len(q) : q[i] \in G
  BY <1>1, <1>2, <1>3, SeqMonotonic, LenProperties, ElementOfSeq
<1>10. /\ p \o q \in Seq(Down)
       /\ Len(p \o q) = Len(p) + Len(q)
       /\ \A i \in 1 .. Len(p) : (p \o q)[i] = p[i]
       /\ \A i \in 1 .. Len(q) : (p \o q)[Len(p) + i] = q[i]
       /\ \A i \in 1 .. Len(p) + Len(q) :
            (p \o q)[i] = IF i <= Len(p) THEN p[i] ELSE q[i - Len(p)]
  BY <1>9, ConcatProperties
<1>11. ASSUME NEW i \in 1 .. Len(p \o q)
       PROVE  (p \o q)[i] \in S \/ (p \o q)[i] \in G
  <2>1. CASE i <= Len(p)
    BY <1>9, <1>10, <2>1
  <2>2. CASE ~(i <= Len(p))
    <3>1. i - Len(p) \in 1 .. Len(q)
      BY <1>9, <1>10, <2>2
    <3>2. (p \o q)[i] = q[i - Len(p)]
      BY <1>9, <1>10, <2>2
    <3> QED
      BY <1>9, <3>1, <3>2
  <2> QED
    BY <2>1, <2>2
<1>12. \A i \in 1 .. Len(p \o q) : (p \o q)[i].type = "SET_DATA" =>
         (p \o q)[i].value = r.set[(p \o q)[i].sensor]
  BY <1>4, <1>5, <1>11
<1>13. \A m \in S \cup G : \E i \in 1 .. Len(p \o q) : (p \o q)[i] = m
  <2>1. ASSUME NEW m \in S PROVE \E i \in 1 .. Len(p \o q) : (p \o q)[i] = m
    BY <1>1, <1>9, <1>10
  <2>2. ASSUME NEW m \in G PROVE \E i \in 1 .. Len(p \o q) : (p \o q)[i] = m
    <3>1. PICK i \in 1 .. Len(q) : q[i] = m
      BY <1>2
    <3>2. Len(p) + i \in 1 .. Len(p \o q) /\ (p \o q)[Len(p) + i] = m
      BY <1>9, <1>10, <3>1
    <3> QED
      BY <3>2
  <2> QED
    BY <2>1, <2>2
<1> QED
  BY <1>6, <1>7, <1>8, <1>10, <1>12, <1>13

\* What a step of on_device_changed does to the two queues.
LEMMA Forwards ==
  ASSUME TypeOK, OnDeviceChanged
  PROVE  /\ Head(notices) \in Notice /\ notices # <<>> /\ notices' = Tail(notices)
         /\ down' = down \o Forwarded(Head(notices))
<1> DEFINE r == Head(notices)
           p == SetToSeq(SetMessages(r.set))
           q == SetToSeq(GetMessages(r.get))
<1>1. /\ notices # <<>> /\ notices' = Tail(notices)
      /\ down' = (down \o p) \o q
  BY DEF OnDeviceChanged
<1>2. r \in Notice
  BY <1>1, HeadTailProperties DEF TypeOK
<1>3. p \in Seq(Down) /\ q \in Seq(Down)
  BY <1>2, MessagesType, SetToSeqType, SeqMonotonic
<1>4. down \in Seq(Down) /\ Forwarded(r) = p \o q
  BY DEF TypeOK, Forwarded
<1> HIDE DEF p, q, r
<1>5. (down \o p) \o q = down \o (p \o q)
  BY <1>3, <1>4, ConcatAssociative
<1> QED
  BY <1>1, <1>2, <1>4, <1>5 DEF r

-----------------------------------------------------------------------------
(* Types.                                                                  *)

\* A copy of the record is a notice.
LEMMA PushedType ==
  ASSUME TypeOK, NEW set \in [Sensor -> Maybe], NEW get \in SUBSET Sensor,
         Pushed(set, get)
  PROVE  notices' \in Seq(Notice)
<1>1. [set |-> set, get |-> get] \in Notice
  BY DEF Notice
<1> QED
  BY <1>1, AppendProperties DEF Pushed, TypeOK

\* Every handler keeps the types.
LEMMA DataTypes ==
  ASSUME TypeOK, [Next]_vars
  PROVE  TypeOK'
<1> USE DEF TypeOK
<1>1. ASSUME NEW s \in Sensor, UserGets(s) PROVE TypeOK'
  <2>1. get_data' \in SUBSET Sensor /\ Pushed(set_data, get_data')
    BY <1>1 DEF UserGets
  <2>2. notices' \in Seq(Notice)
    BY <2>1, PushedType
  <2> QED
    BY <1>1, <2>1, <2>2 DEF UserGets
<1>2. ASSUME NEW s \in Sensor, NEW v \in Value, UserSets(s, v) PROVE TypeOK'
  <2>1. set_data' \in [Sensor -> Maybe] /\ Pushed(set_data', get_data)
    BY <1>2 DEF UserSets, Maybe
  <2>2. notices' \in Seq(Notice)
    BY <2>1, PushedType
  <2>3. wanted' \in [Sensor -> Maybe]
    BY <1>2 DEF UserSets, Maybe
  <2>4. raced' \subseteq Sensor
    BY <1>2 DEF UserSets
  <2> QED
    BY <1>2, <2>1, <2>2, <2>3, <2>4 DEF UserSets
<1>3. CASE ThingReceives
  <2> DEFINE m == Head(down)
  <2>1. down # <<>> /\ m \in Down /\ Tail(down) \in Seq(Down)
    BY <1>3, HeadTailProperties DEF ThingReceives
  <2>2. down' \in Seq(Down)
    BY <1>3, <2>1 DEF ThingReceives
  <2>3. m.sensor \in Sensor /\ (m.type = "SET_DATA" => m.value \in Value)
    BY <2>1 DEF Down
  <2>4. \/ /\ m.type = "SET_DATA"
           /\ reading' = [reading EXCEPT ![m.sensor] = m.value]
           /\ up' = Append(up, [type |-> "DATA_RESP", sensor |-> m.sensor])
        \/ /\ reading' = reading
           /\ up' = Append(up, [type |-> "DATA", sensor |-> m.sensor])
    BY <1>3 DEF ThingReceives
  <2> HIDE DEF m
  <2>5. reading' \in [Sensor -> Maybe]
    <3>1. m.type = "SET_DATA" => m.value \in Maybe
      BY <2>3 DEF Maybe
    <3> QED
      BY <2>3, <2>4, <3>1
  <2>6. PICK ty \in {"DATA", "DATA_RESP"} :
          up' = Append(up, [type |-> ty, sensor |-> m.sensor])
    BY <2>4
  <2>7. up' \in Seq(Up)
    <3>1. [type |-> ty, sensor |-> m.sensor] \in Up
      BY <2>3 DEF Up
    <3> QED
      BY <2>6, <3>1, AppendProperties
  <2> QED
    BY <1>3, <2>2, <2>5, <2>7 DEF ThingReceives, recordVars, userVars
<1>4. ASSUME NEW s \in Sensor, NEW eof \in BOOLEAN, ThingSendsSchema(s, eof)
      PROVE  TypeOK'
  <2>1. PICK ty \in {"SCHEMA", "SCHEMA_END"} :
          up' = Append(up, [type |-> ty, sensor |-> s])
    BY <1>4 DEF ThingSendsSchema
  <2>2. [type |-> ty, sensor |-> s] \in Up
    BY DEF Up
  <2>3. up' \in Seq(Up)
    BY <2>1, <2>2, AppendProperties
  <2> QED
    BY <1>4, <2>3 DEF ThingSendsSchema, recordVars, userVars
<1>5. CASE OnDeviceChanged
  <2>1. /\ Head(notices) \in Notice /\ notices # <<>> /\ notices' = Tail(notices)
        /\ down' = down \o Forwarded(Head(notices))
    BY <1>5, Forwards
  <2>2. down' \in Seq(Down)
    BY <2>1, ForwardedType, ConcatProperties
  <2>3. notices' \in Seq(Notice)
    BY <2>1, HeadTailProperties
  <2> QED
    BY <1>5, <2>2, <2>3 DEF OnDeviceChanged, userVars
<1>6. CASE MsgSchema
  <2>1. up # <<>> /\ Head(up).type \in {"SCHEMA", "SCHEMA_END"} /\ up' = Tail(up)
    BY <1>6 DEF MsgSchema
  <2>2. Head(up) \in Up /\ up' \in Seq(Up)
    BY <2>1, HeadTailProperties
  <2>3. Head(up).sensor \in Sensor
    BY <2>2 DEF Up
  <2> DEFINE tmp == PushTail(schema_tmp, Head(up).sensor)
  <2>4. tmp \in (SUBSET Sensor) \cup {NULL} /\ Entries(tmp) \subseteq Sensor
    BY <2>3 DEF PushTail, Entries
  <2>5. /\ schema' \in {schema, Entries(tmp)}
        /\ cschema' \in {cschema, Entries(tmp)}
        /\ schema_tmp' \in {tmp, NULL}
        /\ notices' = notices \/ Pushed(set_data, get_data)
    BY <1>6 DEF MsgSchema
  <2> HIDE DEF tmp
  <2>6. schema' \subseteq Sensor /\ cschema' \subseteq Sensor
    BY <2>4, <2>5
  <2>7. schema_tmp' \in (SUBSET Sensor) \cup {NULL}
    BY <2>4, <2>5
  <2>8. notices' \in Seq(Notice)
    BY <2>5, PushedType
  <2> QED
    BY <1>6, <2>2, <2>6, <2>7, <2>8 DEF MsgSchema, userVars
<1>7. CASE MsgData
  <2>1. up # <<>> /\ Head(up).type = "DATA" /\ up' = Tail(up) /\ job = NULL
    BY <1>7 DEF MsgData, Idle
  <2>2. Head(up) \in Up /\ up' \in Seq(Up)
    BY <2>1, HeadTailProperties
  <2>3. Head(up).sensor \in Sensor
    BY <2>2 DEF Up
  <2>4. owed' \subseteq Sensor /\ failed' \subseteq Sensor
    BY <1>7, <2>3 DEF MsgData, ProtoData, NotPublished
  <2>5. job' \in Job \cup {NULL} /\ alive' \in BOOLEAN
    <3>1. [of |-> "get_data", sensor |-> Head(up).sensor, list |-> get_data] \in Job
      BY <2>3 DEF Job
    <3>2. \/ Fetched("get_data", Head(up).sensor, get_data)
          \/ FetchFails
          \/ job' = job /\ alive' = alive
      BY <1>7 DEF MsgData
    <3> QED
      BY <3>1, <3>2 DEF Fetched, FetchFails
  <2> QED
    BY <1>7, <2>2, <2>4, <2>5 DEF MsgData, recordVars
<1>8. CASE UpdateDeviceGetdata
  <2>1. job \in Job /\ job.of = "get_data"
    BY <1>8 DEF UpdateDeviceGetdata
  <2>2. job.list \subseteq Sensor
    BY <2>1 DEF Job
  <2>3. get_data' \in SUBSET Sensor
    BY <1>8, <2>2 DEF UpdateDeviceGetdata
  <2>4. notices' \in Seq(Notice)
    BY <1>8, <2>3, PushedType DEF UpdateDeviceGetdata
  <2> QED
    BY <1>8, <2>3, <2>4 DEF UpdateDeviceGetdata, userVars
<1>9. CASE MsgSetdataResp
  <2>1. up # <<>> /\ Head(up).type = "DATA_RESP" /\ up' = Tail(up) /\ job = NULL
    BY <1>9 DEF MsgSetdataResp, Idle
  <2>2. Head(up) \in Up /\ up' \in Seq(Up)
    BY <2>1, HeadTailProperties
  <2>3. Head(up).sensor \in Sensor
    BY <2>2 DEF Up
  <2>4. job' \in Job \cup {NULL} /\ alive' \in BOOLEAN
    <3>1. [of |-> "set_data", sensor |-> Head(up).sensor, list |-> set_data] \in Job
      BY <2>3 DEF Job
    <3>2. \/ Fetched("set_data", Head(up).sensor, set_data)
          \/ FetchFails
          \/ job' = job /\ alive' = alive
      BY <1>9 DEF MsgSetdataResp
    <3> QED
      BY <3>1, <3>2 DEF Fetched, FetchFails
  <2>5. owed' \subseteq Sensor
    BY <1>9 DEF MsgSetdataResp, ProtoData
  <2> QED
    BY <1>9, <2>2, <2>4, <2>5 DEF MsgSetdataResp, recordVars
<1>10. CASE UpdateDeviceSetdata
  <2>1. job \in Job /\ job.of = "set_data"
    BY <1>10 DEF UpdateDeviceSetdata
  <2>2. job.list \in [Sensor -> Maybe] /\ job.sensor \in Sensor
    BY <2>1 DEF Job
  <2>3. set_data' \in [Sensor -> Maybe]
    BY <1>10, <2>2 DEF UpdateDeviceSetdata, Maybe
  <2>4. notices' \in Seq(Notice)
    BY <1>10, <2>3, PushedType DEF UpdateDeviceSetdata
  <2>5. owed' \subseteq Sensor
    BY <1>10 DEF UpdateDeviceSetdata, ProtoData
  <2> QED
    BY <1>10, <2>3, <2>4, <2>5 DEF UpdateDeviceSetdata
<1>11. CASE UNCHANGED vars
  BY <1>11 DEF vars, recordVars, userVars
<1> QED
  BY <1>1, <1>2, <1>3, <1>4, <1>5, <1>6, <1>7, <1>8, <1>9, <1>10, <1>11 DEF Next

\* The specification keeps the types.
LEMMA DataTypeInvariant == Spec => []TypeOK
<1>1. Init => TypeOK
  BY DataAssumption DEF Init, TypeOK, Maybe
<1> QED
  BY <1>1, DataTypes, PTL DEF Spec

-----------------------------------------------------------------------------
(* Requests for a reading.                                                 *)

Has(q, x) == \E i \in 1 .. Len(q) : q[i] = x

\* A queue keeps what is in it when something is appended, and gets the new element.
LEMMA AppendHas ==
  ASSUME NEW S, NEW q \in Seq(S), NEW e \in S
  PROVE  /\ Has(Append(q, e), e)
         /\ \A x : Has(q, x) => Has(Append(q, e), x)
<1>1. /\ Len(q) \in Nat
      /\ Len(Append(q, e)) = Len(q) + 1
      /\ \A i \in 1 .. Len(q) : Append(q, e)[i] = q[i]
      /\ Append(q, e)[Len(q) + 1] = e
  BY AppendProperties, LenProperties
<1> QED
  BY <1>1 DEF Has

\* Taking the first element off a queue loses no other.
LEMMA TailHas ==
  ASSUME NEW S, NEW q \in Seq(S), q # <<>>, NEW x, Has(q, x), x # Head(q)
  PROVE  Has(Tail(q), x)
<1>1. /\ Len(q) \in Nat /\ Len(q) >= 1 /\ Head(q) = q[1]
      /\ Len(Tail(q)) = Len(q) - 1
      /\ \A i \in 1 .. Len(q) - 1 : Tail(q)[i] = q[i + 1]
  BY HeadTailProperties, EmptySeq, LenProperties
<1>2. PICK i \in 1 .. Len(q) : q[i] = x
  BY DEF Has
<1>3. i - 1 \in 1 .. Len(Tail(q)) /\ Tail(q)[i - 1] = x
  BY <1>1, <1>2
<1> QED
  BY <1>3 DEF Has

\* A concatenation has what its parts have.
LEMMA ConcatHas ==
  ASSUME NEW S, NEW p \in Seq(S), NEW q \in Seq(S), NEW x, Has(p, x) \/ Has(q, x)
  PROVE  Has(p \o q, x)
<1>1. /\ Len(p) \in Nat /\ Len(q) \in Nat
      /\ Len(p \o q) = Len(p) + Len(q)
      /\ \A i \in 1 .. Len(p) : (p \o q)[i] = p[i]
      /\ \A i \in 1 .. Len(q) : (p \o q)[Len(p) + i] = q[i]
  BY ConcatProperties, LenProperties
<1>2. CASE Has(p, x)
  BY <1>1, <1>2 DEF Has
<1>3. CASE Has(q, x)
  <2>1. PICK i \in 1 .. Len(q) : q[i] = x
    BY <1>3 DEF Has
  <2>2. Len(p) + i \in 1 .. Len(p \o q) /\ (p \o q)[Len(p) + i] = x
    BY <1>1, <2>1
  <2> QED
    BY <2>2 DEF Has
<1> QED
  BY <1>2, <1>3

Get(s) == [type |-> "GET_DATA", sensor |-> s]
Answer(s) == [type |-> "DATA", sensor |-> s]

\* The request for a reading of s is in an update, on its way, or answered.
UnderWay(s) ==
  \/ \E r \in Notice : s \in r.get /\ Has(notices, r)
  \/ Has(down, Get(s))
  \/ Has(up, Answer(s))

GetInv == TypeOK /\ \A s \in owed \ failed : UnderWay(s)

\* UnderWay is what GetDataNotLost says.
LEMMA UnderWayMeaning ==
  ASSUME TypeOK, NEW s, UnderWay(s)
  PROVE  \/ \E i \in 1 .. Len(notices) : s \in notices[i].get
         \/ \E i \in 1 .. Len(down) : down[i] = [type |-> "GET_DATA", sensor |-> s]
         \/ \E i \in 1 .. Len(up) : up[i].type = "DATA" /\ up[i].sensor = s
BY DEF UnderWay, Has, Get, Answer

\* An update that is pushed takes no other away.
LEMMA PushedHas ==
  ASSUME TypeOK, NEW set \in [Sensor -> Maybe], NEW get \in SUBSET Sensor,
         notices' = notices \/ Pushed(set, get), NEW x, Has(notices, x)
  PROVE  Has(notices', x)
<1> DEFINE r == [set |-> set, get |-> get]
<1>1. r \in Notice
  BY DEF Notice
<1>2. notices' = notices \/ notices' = Append(notices, r)
  BY DEF Pushed
<1> HIDE DEF r
<1>3. CASE notices' = Append(notices, r)
  <2>1. notices \in Seq(Notice)
    BY DEF TypeOK
  <2> QED
    BY <1>1, <1>3, <2>1, AppendHas
<1> QED
  BY <1>2, <1>3

\* A step that only appends to the queues takes nothing away.
LEMMA PushedKeeps ==
  ASSUME TypeOK, NEW set \in [Sensor -> Maybe], NEW get \in SUBSET Sensor,
         notices' = notices \/ Pushed(set, get), down' = down, up' = up,
         NEW s, UnderWay(s)
  PROVE  UnderWay(s)'
BY PushedHas DEF UnderWay

\* The main loop takes a message off the socket that is not the answer for s.
LEMMA ReadKeeps ==
  ASSUME TypeOK, up # <<>>, up' = Tail(up), down' = down,
         \A x : Has(notices, x) => Has(notices', x),
         NEW s, UnderWay(s), Head(up) # Answer(s)
  PROVE  UnderWay(s)'
BY TailHas DEF UnderWay, TypeOK

\* No step of the user, the thing or a handler breaks it.
LEMMA GetInvariant == Spec => []GetInv
<1>1. Init => GetInv
  <2>1. Init => TypeOK
    BY DataAssumption DEF Init, TypeOK, Maybe
  <2>2. Init => owed \ failed = {}
    BY DEF Init
  <2> QED
    BY <2>1, <2>2 DEF GetInv
<1>2. ASSUME GetInv, [Next]_vars PROVE GetInv'
  <2>0. TypeOK /\ TypeOK'
    BY <1>2, DataTypes DEF GetInv
  <2> SUFFICES ASSUME NEW s \in owed' \ failed' PROVE UnderWay(s)'
    BY <2>0 DEF GetInv
  <2>K. ASSUME owed' \ failed' \subseteq owed \ failed PROVE UnderWay(s)
    BY <1>2, <2>K DEF GetInv
  <2>1. ASSUME NEW t \in Sensor, UserGets(t) PROVE UnderWay(s)'
    <3>1. /\ Pushed(set_data, get_data') /\ down' = down /\ up' = up
          /\ get_data' = get_data \cup {t} /\ owed' = owed \cup {t}
          /\ failed' = failed \ {t}
      BY <2>1 DEF UserGets
    <3> DEFINE r == [set |-> set_data, get |-> get_data']
    <3>2. r \in Notice
      BY <2>0, <3>1 DEF Notice, TypeOK
    <3>3. CASE s = t
      <4>1. Has(notices', r)
        BY <2>0, <3>1, <3>2, AppendHas DEF Pushed, TypeOK
      <4> QED
        BY <3>1, <3>2, <3>3, <4>1 DEF UnderWay
    <3>4. CASE s # t
      <4>1. UnderWay(s)
        BY <1>2, <3>1, <3>4 DEF GetInv
      <4> QED
        BY <2>0, <3>1, <4>1, PushedKeeps DEF TypeOK
    <3> QED
      BY <3>3, <3>4
  <2>2. ASSUME NEW t \in Sensor, NEW v \in Value, UserSets(t, v) PROVE UnderWay(s)'
    <3>1. /\ Pushed(set_data', get_data) /\ down' = down /\ up' = up
          /\ owed' = owed /\ failed' = failed
      BY <2>2 DEF UserSets
    <3> QED
      BY <2>0, <2>K, <3>1, PushedKeeps DEF TypeOK
  <2>3. CASE ThingReceives
    <3> DEFINE m == Head(down)
    <3>1. /\ down # <<>> /\ down' = Tail(down) /\ notices' = notices
          /\ owed' = owed /\ failed' = failed
      BY <2>3 DEF ThingReceives, recordVars, userVars
    <3>2. UnderWay(s)
      BY <2>K, <3>1
    <3>3. m \in Down
      BY <2>0, <3>1, HeadTailProperties DEF TypeOK
    <3>4. PICK e \in {Answer(m.sensor), [type |-> "DATA_RESP", sensor |-> m.sensor]} :
            /\ up' = Append(up, e)
            /\ m.type = "GET_DATA" => e = Answer(m.sensor)
      BY <2>3, <3>3 DEF ThingReceives, Answer, Down
    <3>5. e \in Up
      BY <3>3 DEF Down, Up, Answer
    <3>6. Has(up', e) /\ \A x : Has(up, x) => Has(up', x)
      BY <2>0, <3>4, <3>5, AppendHas DEF TypeOK
    <3>7. CASE m = Get(s)
      <4>1. m.type = "GET_DATA" /\ m.sensor = s
        BY <3>7 DEF Get
      <4> QED
        BY <3>4, <3>6, <4>1 DEF UnderWay
    <3>8. CASE m # Get(s)
      <4>1. Has(down, Get(s)) => Has(down', Get(s))
        BY <2>0, <3>1, <3>8, TailHas DEF TypeOK
      <4> QED
        BY <3>1, <3>2, <3>6, <4>1 DEF UnderWay
    <3> QED
      BY <3>7, <3>8
  <2>4. ASSUME NEW t \in Sensor, NEW eof \in BOOLEAN, ThingSendsSchema(t, eof)
        PROVE  UnderWay(s)'
    <3>1. PICK ty \in {"SCHEMA", "SCHEMA_END"} :
            up' = Append(up, [type |-> ty, sensor |-> t])
      BY <2>4 DEF ThingSendsSchema
    <3>2. [type |-> ty, sensor |-> t] \in Up
      BY DEF Up
    <3>3. \A x : Has(up, x) => Has(up', x)
      BY <2>0, <3>1, <3>2, AppendHas DEF TypeOK
    <3>4. notices' = notices /\ down' = down /\ owed' = owed /\ failed' = failed
      BY <2>4 DEF ThingSendsSchema, recordVars, userVars
    <3> QED
      BY <2>K, <3>3, <3>4 DEF UnderWay
  <2>5. CASE OnDeviceChanged
    <3> DEFINE r == Head(notices)
    <3>1. /\ r \in Notice /\ notices # <<>> /\ notices' = Tail(notices)
          /\ down' = down \o Forwarded(r)
      BY <2>0, <2>5, Forwards
    <3>2. up' = up /\ owed' = owed /\ failed' = failed
      BY <2>5 DEF OnDeviceChanged, userVars
    <3>3. UnderWay(s)
      BY <2>K, <3>2
    <3>4. /\ Forwarded(r) \in Seq(Down)
          /\ s \in r.get => Has(Forwarded(r), Get(s))
      BY <3>1, ForwardedType DEF Has, Get
    <3>5. Has(down, Get(s)) \/ s \in r.get => Has(down', Get(s))
      BY <2>0, <3>1, <3>4, ConcatHas DEF TypeOK
    <3>6. ASSUME NEW n \in Notice, s \in n.get, Has(notices, n)
          PROVE  Has(notices', n) \/ s \in r.get
      BY <2>0, <3>1, <3>6, TailHas DEF TypeOK
    <3> QED
      BY <3>2, <3>3, <3>5, <3>6 DEF UnderWay
  <2>6. CASE MsgSchema
    <3>1. /\ up # <<>> /\ up' = Tail(up) /\ down' = down
          /\ Head(up).type \in {"SCHEMA", "SCHEMA_END"}
          /\ notices' = notices \/ Pushed(set_data, get_data)
          /\ owed' = owed /\ failed' = failed
      BY <2>6 DEF MsgSchema, userVars
    <3>2. set_data \in [Sensor -> Maybe] /\ get_data \in SUBSET Sensor
      BY <2>0 DEF TypeOK
    <3>3. \A x : Has(notices, x) => Has(notices', x)
      BY <2>0, <3>1, <3>2, PushedHas
    <3>4. Head(up) # Answer(s)
      BY <3>1 DEF Answer
    <3> QED
      BY <2>0, <2>K, <3>1, <3>3, <3>4, ReadKeeps
  <2>7. CASE MsgData
    <3> DEFINE t == Head(up).sensor
    <3>1. up # <<>> /\ up' = Tail(up) /\ down' = down /\ notices' = notices
      BY <2>7 DEF MsgData, recordVars
    <3>2. NotPublished(t) /\ owed' \subseteq owed
      <4>1. NotPublished(t)
        BY <2>7 DEF MsgData
      <4>2. owed' = owed \/ ProtoData(t)
        BY <2>7 DEF MsgData
      <4> QED
        BY <4>1, <4>2 DEF ProtoData
    <3>3. owed' \ failed' \subseteq (owed \ failed) \ {t}
      <4> HIDE DEF t
      <4> QED
        BY <3>2 DEF NotPublished
    <3>4. Head(up) # Answer(s)
      BY <3>3 DEF Answer
    <3> QED
      BY <2>0, <2>K, <3>1, <3>3, <3>4, ReadKeeps
  <2>8. CASE UpdateDeviceGetdata
    <3>1. /\ (notices' = notices \/ Pushed(set_data, get_data')) /\ down' = down
          /\ up' = up /\ owed' = owed /\ failed' = failed
      BY <2>8 DEF UpdateDeviceGetdata, userVars
    <3> QED
      BY <2>0, <2>K, <3>1, PushedKeeps DEF TypeOK
  <2>9. CASE MsgSetdataResp
    <3>1. /\ up # <<>> /\ up' = Tail(up) /\ down' = down /\ notices' = notices
          /\ Head(up).type = "DATA_RESP"
          /\ owed' \subseteq owed /\ failed' = failed
      BY <2>9 DEF MsgSetdataResp, recordVars, ProtoData
    <3>2. Head(up) # Answer(s)
      BY <3>1 DEF Answer
    <3> QED
      BY <2>0, <2>K, <3>1, <3>2, ReadKeeps
  <2>10. CASE UpdateDeviceSetdata
    <3>1. /\ (notices' = notices \/ Pushed(set_data', get_data)) /\ down' = down
          /\ up' = up /\ owed' \subseteq owed /\ failed' = failed
      BY <2>10 DEF UpdateDeviceSetdata, ProtoData
    <3> QED
      BY <2>0, <2>K, <3>1, PushedKeeps DEF TypeOK
  <2>11. CASE UNCHANGED vars
    BY <2>K, <2>11 DEF vars, recordVars, userVars, UnderWay
  <2> QED
    BY <1>2, <2>1, <2>2, <2>3, <2>4, <2>5, <2>6, <2>7, <2>8, <2>9, <2>10, <2>11
       DEF Next
<1> QED
  BY <1>1, <1>2, PTL DEF Spec

\* A reading that was asked for is published, or the thing sent one that was not; until
\* then the request or its answer is under way: GetDataNotLost, although
\* update_device_getdata may write back a list older than the request.
THEOREM GetDataKept == Spec => []GetDataNotLost
<1>1. GetInv => GetDataNotLost
  BY UnderWayMeaning DEF GetInv, GetDataNotLost
<1> QED
  BY <1>1, GetInvariant, PTL

-----------------------------------------------------------------------------
(* Requests for a value to be set.                                         *)

\* What the record holds for s, and what a handler may write back there, is the value
\* last asked for, or nothing.
Current(s) ==
  /\ set_data[s] \in {NULL, wanted[s]}
  /\ job # NULL /\ job.of = "set_data" /\ job.sensor # s =>
       job.list[s] \in {NULL, wanted[s]}

SetInv ==
  /\ TypeOK
  /\ \A s \in Sensor \ raced : /\ Current(s)
                               /\ wanted[s] # NULL => EndsAtWanted(s)

\* A copy of the record that holds nothing older than what was asked for last comes
\* after everything under way, and does no harm.
LEMMA PushedEnds ==
  ASSUME TypeOK, NEW set \in [Sensor -> Maybe], NEW get \in SUBSET Sensor,
         notices' = notices \/ Pushed(set, get), down' = down, reading' = reading,
         NEW s \in Sensor, wanted'[s] = wanted[s], set[s] \in {NULL, wanted[s]},
         EndsAtWanted(s)
  PROVE  EndsAtWanted(s)'
<1>1. CASE notices' = notices
  BY <1>1 DEF EndsAtWanted, NoticesAgree, MessagesAgree
<1>2. CASE Pushed(set, get)
  <2> DEFINE r == [set |-> set, get |-> get]
  <2>1. r \in Notice /\ r.set[s] \in {NULL, wanted[s]}
    BY DEF Notice
  <2>2. notices \in Seq(Notice) /\ notices' = Append(notices, r)
    BY <1>2 DEF Pushed, TypeOK
  <2> HIDE DEF r
  <2>3. /\ Len(notices) \in Nat
        /\ Len(notices') = Len(notices) + 1
        /\ \A i \in 1 .. Len(notices) : notices'[i] = notices[i]
        /\ notices'[Len(notices) + 1] = r
    BY <2>1, <2>2, AppendProperties, LenProperties
  <2>4. ASSUME NEW i \in 1 .. Len(notices) + 1, NoticesAgree(s, i)
        PROVE  \A j \in i .. Len(notices') : notices'[j].set[s] \in {NULL, wanted'[s]}
    <3> SUFFICES ASSUME NEW j \in i .. Len(notices')
                 PROVE  notices'[j].set[s] \in {NULL, wanted[s]}
      OBVIOUS
    <3>1. CASE j = Len(notices) + 1
      BY <2>1, <2>3, <3>1
    <3>2. CASE j # Len(notices) + 1
      <4>1. j \in i .. Len(notices) /\ j \in 1 .. Len(notices)
        BY <2>3, <3>2
      <4> QED
        BY <2>3, <2>4, <4>1 DEF NoticesAgree
    <3> QED
      BY <3>1, <3>2
  <2>5. \A i \in 1 .. Len(notices) + 1 : NoticesAgree(s, i) => NoticesAgree(s, i)'
    BY <2>4 DEF NoticesAgree
  <2>6. 1 \in 1 .. Len(notices) + 1
    BY <2>3
  <2>7. \A i : MessagesAgree(s, i) => MessagesAgree(s, i)'
    BY DEF MessagesAgree
  <2>8. CASE \E i \in 1 .. Len(notices) :
               notices[i].set[s] = wanted[s] /\ NoticesAgree(s, i)
    <3>1. PICK i \in 1 .. Len(notices) :
                 notices[i].set[s] = wanted[s] /\ NoticesAgree(s, i)
      BY <2>8
    <3>2. i \in 1 .. Len(notices') /\ i \in 1 .. Len(notices) + 1
      BY <2>3
    <3>3. notices'[i].set[s] = wanted'[s] /\ NoticesAgree(s, i)'
      BY <2>3, <2>5, <3>1, <3>2
    <3> QED
      BY <3>2, <3>3 DEF EndsAtWanted
  <2>9. CASE ~ \E i \in 1 .. Len(notices) :
                 notices[i].set[s] = wanted[s] /\ NoticesAgree(s, i)
    <3>1. NoticesAgree(s, 1)'
      BY <2>5, <2>6, <2>9 DEF EndsAtWanted
    <3> QED
      BY <2>7, <2>9, <3>1 DEF EndsAtWanted
  <2> QED
    BY <2>8, <2>9
<1> QED
  BY <1>1, <1>2

\* A new request is the last thing the sensor will get.
LEMMA RequestEnds ==
  ASSUME TypeOK, NEW set \in [Sensor -> Maybe], NEW get \in SUBSET Sensor,
         Pushed(set, get), NEW s \in Sensor, wanted'[s] = set[s]
  PROVE  EndsAtWanted(s)'
<1> DEFINE r == [set |-> set, get |-> get]
<1>1. r \in Notice /\ r.set[s] = wanted'[s]
  BY DEF Notice
<1>2. notices \in Seq(Notice) /\ notices' = Append(notices, r)
  BY DEF Pushed, TypeOK
<1> HIDE DEF r
<1>3. /\ Len(notices) \in Nat
      /\ Len(notices') = Len(notices) + 1
      /\ notices'[Len(notices) + 1] = r
  BY <1>1, <1>2, AppendProperties, LenProperties
<1>4. PICK n \in Nat : n = Len(notices) + 1
  BY <1>3
<1>5. NoticesAgree(s, n)'
  BY <1>1, <1>3, <1>4 DEF NoticesAgree
<1>6. n \in 1 .. Len(notices') /\ notices'[n].set[s] = wanted'[s]
  BY <1>1, <1>3, <1>4
<1> QED
  BY <1>5, <1>6 DEF EndsAtWanted

\* Handling an update moves what it has for s from the first queue to the second.
LEMMA ForwardEnds ==
  ASSUME TypeOK, OnDeviceChanged, NEW s \in Sensor, wanted[s] # NULL, EndsAtWanted(s)
  PROVE  EndsAtWanted(s)'
<1> DEFINE r == Head(notices)
           x == Forwarded(r)
<1>1. /\ r \in Notice /\ notices # <<>> /\ notices' = Tail(notices)
      /\ down' = down \o x
  BY Forwards
<1>2. wanted' = wanted /\ reading' = reading
  BY DEF OnDeviceChanged, userVars
<1>3. /\ x \in Seq(Down)
      /\ \A i \in 1 .. Len(x) : x[i].type = "SET_DATA" => x[i].value = r.set[x[i].sensor]
      /\ r.set[s] # NULL => \E i \in 1 .. Len(x) :
           x[i] = [type |-> "SET_DATA", sensor |-> s, value |-> r.set[s]]
  BY <1>1, ForwardedType
<1>4. /\ notices \in Seq(Notice) /\ Len(notices) \in Nat /\ Len(notices) >= 1
      /\ r = notices[1]
      /\ Len(notices') = Len(notices) - 1
      /\ \A i \in 1 .. Len(notices) - 1 : notices'[i] = notices[i + 1]
  BY <1>1, HeadTailProperties, EmptySeq, LenProperties DEF TypeOK
<1>5. down \in Seq(Down)
  BY DEF TypeOK
<1> HIDE DEF x, r
<1>6. /\ Len(down) \in Nat /\ Len(x) \in Nat
      /\ Len(down') = Len(down) + Len(x)
      /\ \A i \in 1 .. Len(down) : down'[i] = down[i]
      /\ \A i \in 1 .. Len(x) : down'[Len(down) + i] = x[i]
  BY <1>1, <1>3, <1>5, ConcatProperties, LenProperties
<1>7. ASSUME NEW i \in 2 .. Len(notices) + 1, NoticesAgree(s, i)
      PROVE  NoticesAgree(s, i - 1)'
  <2> SUFFICES ASSUME NEW j \in i - 1 .. Len(notices')
               PROVE  notices'[j].set[s] \in {NULL, wanted[s]}
    BY <1>2 DEF NoticesAgree
  <2>1. j + 1 \in i .. Len(notices) /\ j \in 1 .. Len(notices) - 1
    BY <1>4
  <2> QED
    BY <1>4, <1>7, <2>1 DEF NoticesAgree
<1>8. NoticesAgree(s, 1) => NoticesAgree(s, 1)' /\ r.set[s] \in {NULL, wanted[s]}
  <2>1. NoticesAgree(s, 1) => NoticesAgree(s, 2)
    BY <1>4 DEF NoticesAgree
  <2>2. 2 \in 2 .. Len(notices) + 1 /\ 2 - 1 = 1
    BY <1>4
  <2>3. NoticesAgree(s, 1) => notices[1].set[s] \in {NULL, wanted[s]}
    BY <1>4 DEF NoticesAgree
  <2> QED
    BY <1>4, <1>7, <2>1, <2>2, <2>3
<1>9. ASSUME r.set[s] \in {NULL, wanted[s]},
             NEW i \in 1 .. Len(down) + Len(x),
             i > Len(down) \/ MessagesAgree(s, i)
      PROVE  MessagesAgree(s, i)'
  <2> SUFFICES ASSUME NEW j \in i .. Len(down'),
                      down'[j].type = "SET_DATA", down'[j].sensor = s
               PROVE  down'[j].value = wanted[s]
    BY <1>2 DEF MessagesAgree
  <2>1. CASE j <= Len(down)
    <3>1. j \in 1 .. Len(down) /\ j \in i .. Len(down)
      BY <1>6, <2>1
    <3> QED
      BY <1>6, <1>9, <2>1, <3>1 DEF MessagesAgree
  <2>2. CASE ~(j <= Len(down))
    <3> DEFINE k == j - Len(down)
    <3>1. k \in 1 .. Len(x) /\ j = Len(down) + k
      BY <1>6, <2>2
    <3> HIDE DEF k
    <3>2. x[k].type = "SET_DATA" /\ x[k].sensor = s /\ down'[j] = x[k]
      BY <1>6, <3>1
    <3>3. down'[j].value = r.set[s] /\ x[k] \in Down
      BY <1>3, <3>1, <3>2, ElementOfSeq
    <3>4. down'[j].value # NULL
      BY <3>2, <3>3, DataAssumption DEF Down
    <3> QED
      BY <1>9, <3>3, <3>4
  <2> QED
    BY <2>1, <2>2
<1>10. ASSUME NEW i \in 1 .. Len(notices), notices[i].set[s] = wanted[s],
              NoticesAgree(s, i)
       PROVE  EndsAtWanted(s)'
  <2>1. CASE i = 1
    <3>1. r.set[s] = wanted[s] /\ NoticesAgree(s, 1)'
      BY <1>4, <1>8, <1>10, <2>1
    <3>2. PICK k \in 1 .. Len(x) :
            x[k] = [type |-> "SET_DATA", sensor |-> s, value |-> wanted[s]]
      BY <1>3, <3>1
    <3>3. PICK n \in Nat : n = Len(down) + k
      BY <1>6
    <3>4. n \in 1 .. Len(down') /\ n \in 1 .. Len(down) + Len(x) /\ n > Len(down)
      BY <1>6, <3>3
    <3>5. MessagesAgree(s, n)'
      BY <1>9, <3>1, <3>4
    <3>6. down'[n] = [type |-> "SET_DATA", sensor |-> s, value |-> wanted'[s]]
      BY <1>2, <1>6, <3>2, <3>3
    <3> QED
      BY <3>1, <3>4, <3>5, <3>6 DEF EndsAtWanted
  <2>2. CASE i # 1
    <3>1. i \in 2 .. Len(notices) + 1 /\ i - 1 \in 1 .. Len(notices')
          /\ i - 1 \in 1 .. Len(notices) - 1 /\ (i - 1) + 1 = i
      BY <1>4, <2>2
    <3>2. notices'[i - 1].set[s] = wanted'[s] /\ NoticesAgree(s, i - 1)'
      BY <1>2, <1>4, <1>7, <1>10, <3>1
    <3> QED
      BY <3>1, <3>2 DEF EndsAtWanted
  <2> QED
    BY <2>1, <2>2
<1>11. ASSUME NoticesAgree(s, 1), NEW i \in 1 .. Len(down), MessagesAgree(s, i),
              down[i] = [type |-> "SET_DATA", sensor |-> s, value |-> wanted[s]]
       PROVE  EndsAtWanted(s)'
  <2>1. i \in 1 .. Len(down') /\ i \in 1 .. Len(down) + Len(x)
    BY <1>6
  <2>2. down'[i] = [type |-> "SET_DATA", sensor |-> s, value |-> wanted'[s]]
    BY <1>2, <1>6, <1>11
  <2>3. MessagesAgree(s, i)' /\ NoticesAgree(s, 1)'
    BY <1>8, <1>9, <1>11, <2>1
  <2> QED
    BY <2>1, <2>2, <2>3 DEF EndsAtWanted
<1>12. ASSUME NoticesAgree(s, 1), MessagesAgree(s, 1), reading[s] = wanted[s]
       PROVE  EndsAtWanted(s)'
  <2>1. NoticesAgree(s, 1)'
    BY <1>8, <1>12
  <2>2. MessagesAgree(s, 1)'
    <3>1. CASE Len(down) + Len(x) = 0
      BY <1>6, <3>1 DEF MessagesAgree
    <3>2. CASE Len(down) + Len(x) # 0
      <4>1. 1 \in 1 .. Len(down) + Len(x)
        BY <1>6, <3>2
      <4> QED
        BY <1>8, <1>9, <1>12, <4>1
    <3> QED
      BY <3>1, <3>2
  <2> QED
    BY <1>2, <1>12, <2>1, <2>2 DEF EndsAtWanted
<1> QED
  BY <1>10, <1>11, <1>12 DEF EndsAtWanted

\* The thing takes the first message: a value for s that is the last one becomes the
\* reading.
LEMMA ReceiveEnds ==
  ASSUME TypeOK, ThingReceives, NEW s \in Sensor, EndsAtWanted(s)
  PROVE  EndsAtWanted(s)'
<1> DEFINE m == Head(down)
<1>1. /\ down # <<>> /\ down' = Tail(down) /\ notices' = notices /\ wanted' = wanted
      /\ \/ m.type = "SET_DATA" /\ reading' = [reading EXCEPT ![m.sensor] = m.value]
         \/ m.type = "GET_DATA" /\ reading' = reading
  BY DEF ThingReceives, recordVars, userVars
<1>2. /\ down \in Seq(Down) /\ Len(down) \in Nat /\ Len(down) >= 1 /\ m = down[1]
      /\ Len(down') = Len(down) - 1
      /\ \A i \in 1 .. Len(down) - 1 : down'[i] = down[i + 1]
  BY <1>1, HeadTailProperties, EmptySeq, LenProperties DEF TypeOK
<1>3. m \in Down /\ reading \in [Sensor -> Maybe]
  BY <1>1, HeadTailProperties DEF TypeOK
<1> HIDE DEF m
<1>4. /\ m.type = "SET_DATA" /\ m.sensor = s => reading'[s] = m.value
      /\ ~(m.type = "SET_DATA" /\ m.sensor = s) => reading'[s] = reading[s]
  BY <1>1, <1>3 DEF Down
<1>5. \A i : NoticesAgree(s, i) => NoticesAgree(s, i)'
  BY <1>1 DEF NoticesAgree
<1>6. ASSUME NEW i \in 2 .. Len(down) + 1, MessagesAgree(s, i)
      PROVE  MessagesAgree(s, i - 1)'
  <2> SUFFICES ASSUME NEW j \in i - 1 .. Len(down'),
                      down'[j].type = "SET_DATA", down'[j].sensor = s
               PROVE  down'[j].value = wanted[s]
    BY <1>1 DEF MessagesAgree
  <2>1. j + 1 \in i .. Len(down) /\ j \in 1 .. Len(down) - 1
    BY <1>2
  <2> QED
    BY <1>2, <1>6, <2>1 DEF MessagesAgree
<1>7. ASSUME MessagesAgree(s, 1)
      PROVE  /\ MessagesAgree(s, 1)'
             /\ m.type = "SET_DATA" /\ m.sensor = s => m.value = wanted[s]
  <2>1. MessagesAgree(s, 2)
    BY <1>2, <1>7 DEF MessagesAgree
  <2>2. 2 \in 2 .. Len(down) + 1 /\ 2 - 1 = 1
    BY <1>2
  <2>3. MessagesAgree(s, 1)'
    BY <1>6, <2>1, <2>2
  <2> QED
    BY <1>2, <1>7, <2>3 DEF MessagesAgree
<1>8. CASE \E i \in 1 .. Len(notices) :
             notices[i].set[s] = wanted[s] /\ NoticesAgree(s, i)
  BY <1>1, <1>5, <1>8 DEF EndsAtWanted
<1>9. ASSUME NoticesAgree(s, 1), NEW i \in 1 .. Len(down), MessagesAgree(s, i),
             down[i] = [type |-> "SET_DATA", sensor |-> s, value |-> wanted[s]]
      PROVE  EndsAtWanted(s)'
  <2>1. CASE i = 1
    <3>1. reading'[s] = wanted'[s]
      BY <1>1, <1>2, <1>4, <1>9, <2>1
    <3> QED
      BY <1>5, <1>7, <1>9, <2>1, <3>1 DEF EndsAtWanted
  <2>2. CASE i # 1
    <3>1. /\ i \in 2 .. Len(down) + 1 /\ i - 1 \in 1 .. Len(down')
          /\ i - 1 \in 1 .. Len(down) - 1 /\ (i - 1) + 1 = i
      BY <1>2, <2>2
    <3>2. /\ down'[i - 1] = [type |-> "SET_DATA", sensor |-> s, value |-> wanted'[s]]
          /\ MessagesAgree(s, i - 1)'
      BY <1>1, <1>2, <1>6, <1>9, <3>1
    <3> QED
      BY <1>5, <1>9, <3>1, <3>2 DEF EndsAtWanted
  <2> QED
    BY <2>1, <2>2
<1>10. ASSUME NoticesAgree(s, 1), MessagesAgree(s, 1), reading[s] = wanted[s]
       PROVE  EndsAtWanted(s)'
  <2>1. reading'[s] = wanted'[s]
    BY <1>1, <1>4, <1>7, <1>10
  <2> QED
    BY <1>5, <1>7, <1>10, <2>1 DEF EndsAtWanted
<1> QED
  BY <1>8, <1>9, <1>10 DEF EndsAtWanted

\* Every step keeps it: a handler takes out the entry of its own sensor, and writes back
\* for the others what they had.
LEMMA SetInvariant == Spec => []SetInv
<1>1. Init => SetInv
  <2>1. Init => TypeOK
    BY DataAssumption DEF Init, TypeOK, Maybe
  <2>2. ASSUME Init, NEW s \in Sensor PROVE Current(s) /\ wanted[s] = NULL
    BY <2>2 DEF Init, Current
  <2> QED
    BY <2>1, <2>2 DEF SetInv
<1>2. ASSUME SetInv, [Next]_vars PROVE SetInv'
  <2>0. TypeOK /\ TypeOK'
    BY <1>2, DataTypes DEF SetInv
  <2> SUFFICES ASSUME NEW s \in Sensor, s \notin raced'
               PROVE  Current(s)' /\ (wanted'[s] # NULL => EndsAtWanted(s)')
    BY <2>0 DEF SetInv
  <2>K. ASSUME s \notin raced PROVE Current(s) /\ (wanted[s] # NULL => EndsAtWanted(s))
    BY <1>2, <2>K DEF SetInv
  \* a step that leaves the handlers alone and at most pushes the record as it is
  <2>P. ASSUME raced' = raced, wanted' = wanted, set_data' = set_data, job' = job,
               down' = down, reading' = reading,
               notices' = notices \/ Pushed(set_data, get_data')
        PROVE  Current(s)' /\ (wanted'[s] # NULL => EndsAtWanted(s)')
    <3>1. Current(s) /\ Current(s)'
      BY <2>K, <2>P DEF Current
    <3>2. set_data[s] \in {NULL, wanted[s]}
      BY <3>1 DEF Current
    <3>3. set_data \in [Sensor -> Maybe] /\ get_data' \in SUBSET Sensor
      BY <2>0 DEF TypeOK
    <3> QED
      BY <2>0, <2>K, <2>P, <3>1, <3>2, <3>3, PushedEnds
  <2>1. ASSUME NEW t \in Sensor, UserGets(t)
        PROVE  Current(s)' /\ (wanted'[s] # NULL => EndsAtWanted(s)')
    BY <2>1, <2>P DEF UserGets
  <2>2. ASSUME NEW t \in Sensor, NEW v \in Value, UserSets(t, v)
        PROVE  Current(s)' /\ (wanted'[s] # NULL => EndsAtWanted(s)')
    <3>1. /\ set_data' = [set_data EXCEPT ![t] = v]
          /\ wanted' = [wanted EXCEPT ![t] = v]
          /\ Pushed(set_data', get_data)
          /\ raced' = IF HoldsOld(t) THEN raced \cup {t} ELSE raced \ {t}
          /\ down' = down /\ reading' = reading /\ job' = job
      BY <2>2 DEF UserSets
    <3>2. set_data' \in [Sensor -> Maybe] /\ get_data \in SUBSET Sensor
      BY <2>0 DEF TypeOK
    <3>3. CASE s = t
      <4>1. set_data'[s] = v /\ wanted'[s] = v
        BY <2>0, <3>1, <3>3 DEF TypeOK
      <4>2. ~HoldsOld(s)
        BY <3>1, <3>3
      <4>3. Current(s)'
        BY <3>1, <4>1, <4>2 DEF Current, HoldsOld
      <4>4. EndsAtWanted(s)'
        BY <2>0, <3>1, <3>2, <4>1, RequestEnds
      <4> QED
        BY <4>3, <4>4
    <3>4. CASE s # t
      <4>1. set_data'[s] = set_data[s] /\ wanted'[s] = wanted[s] /\ s \notin raced
        BY <2>0, <3>1, <3>4 DEF TypeOK
      <4>2. Current(s) /\ Current(s)'
        BY <2>K, <3>1, <4>1 DEF Current
      <4>3. set_data'[s] \in {NULL, wanted[s]}
        BY <4>1, <4>2 DEF Current
      <4> QED
        BY <2>0, <2>K, <3>1, <3>2, <4>1, <4>2, <4>3, PushedEnds
    <3> QED
      BY <3>3, <3>4
  <2>3. CASE ThingReceives
    <3>1. /\ set_data' = set_data /\ job' = job /\ wanted' = wanted /\ raced' = raced
      BY <2>3 DEF ThingReceives, recordVars, userVars
    <3>2. Current(s)'
      BY <2>K, <3>1 DEF Current
    <3> QED
      BY <2>0, <2>3, <2>K, <3>1, <3>2, ReceiveEnds
  <2>4. ASSUME NEW t \in Sensor, NEW eof \in BOOLEAN, ThingSendsSchema(t, eof)
        PROVE  Current(s)' /\ (wanted'[s] # NULL => EndsAtWanted(s)')
    BY <2>4, <2>P DEF ThingSendsSchema, recordVars, userVars
  <2>5. CASE OnDeviceChanged
    <3>1. /\ set_data' = set_data /\ job' = job /\ wanted' = wanted /\ raced' = raced
      BY <2>5 DEF OnDeviceChanged, userVars
    <3>2. Current(s)'
      BY <2>K, <3>1 DEF Current
    <3> QED
      BY <2>0, <2>5, <2>K, <3>1, <3>2, ForwardEnds
  <2>6. CASE MsgSchema
    <3>1. /\ set_data' = set_data /\ job' = job /\ wanted' = wanted /\ raced' = raced
          /\ down' = down /\ reading' = reading /\ get_data' = get_data
          /\ notices' = notices \/ Pushed(set_data, get_data)
      BY <2>6 DEF MsgSchema, userVars
    <3> QED
      BY <2>P, <3>1
  <2>7. CASE MsgData
    <3>1. /\ set_data' = set_data /\ wanted' = wanted /\ raced' = raced
          /\ down' = down /\ reading' = reading /\ notices' = notices
      BY <2>7 DEF MsgData, recordVars
    <3>2. job' = NULL \/ job'.of = "get_data"
      <4>1. \/ Fetched("get_data", Head(up).sensor, get_data)
            \/ FetchFails
            \/ job' = NULL
        BY <2>7 DEF MsgData, Idle
      <4> QED
        BY <4>1 DEF Fetched, FetchFails
    <3>3. Current(s)'
      BY <2>K, <3>1, <3>2 DEF Current
    <3> QED
      BY <2>K, <3>1, <3>3 DEF EndsAtWanted, NoticesAgree, MessagesAgree
  <2>8. CASE UpdateDeviceGetdata
    <3>1. /\ set_data' = set_data /\ wanted' = wanted /\ raced' = raced
          /\ down' = down /\ reading' = reading /\ job' = NULL
          /\ notices' = notices \/ Pushed(set_data, get_data')
      BY <2>8 DEF UpdateDeviceGetdata, userVars
    <3>2. Current(s) /\ Current(s)'
      BY <2>K, <3>1 DEF Current
    <3>3. set_data[s] \in {NULL, wanted[s]}
      BY <3>2 DEF Current
    <3>4. set_data \in [Sensor -> Maybe] /\ get_data' \in SUBSET Sensor
      BY <2>0 DEF TypeOK
    <3> QED
      BY <2>0, <2>K, <3>1, <3>2, <3>3, <3>4, PushedEnds
  <2>9. CASE MsgSetdataResp
    <3>1. /\ set_data' = set_data /\ wanted' = wanted /\ raced' = raced
          /\ down' = down /\ reading' = reading /\ notices' = notices
      BY <2>9 DEF MsgSetdataResp, recordVars
    <3>2. job' = NULL \/ job'.list = set_data
      <4>1. \/ Fetched("set_data", Head(up).sensor, set_data)
            \/ FetchFails
            \/ job' = NULL
        BY <2>9 DEF MsgSetdataResp, Idle
      <4> QED
        BY <4>1 DEF Fetched, FetchFails
    <3>3. Current(s)'
      BY <2>K, <3>1, <3>2 DEF Current
    <3> QED
      BY <2>K, <3>1, <3>3 DEF EndsAtWanted, NoticesAgree, MessagesAgree
  <2>10. CASE UpdateDeviceSetdata
    <3>1. /\ wanted' = wanted /\ raced' = raced /\ down' = down /\ reading' = reading
          /\ job # NULL /\ job.of = "set_data" /\ job' = NULL
          /\ \/ /\ set_data' = [job.list EXCEPT ![job.sensor] = NULL]
                /\ Pushed(set_data', get_data)
             \/ set_data' = set_data /\ notices' = notices
      BY <2>10 DEF UpdateDeviceSetdata
    <3>2. job.list \in [Sensor -> Maybe] /\ job.sensor \in Sensor
      BY <2>0, <3>1 DEF TypeOK, Job
    <3>3. Current(s)
      BY <2>K, <3>1
    <3>4. set_data'[s] \in {NULL, wanted[s]}
      BY <3>1, <3>2, <3>3 DEF Current
    <3>5. Current(s)'
      BY <3>1, <3>4 DEF Current
    <3>6. set_data' \in [Sensor -> Maybe] /\ get_data \in SUBSET Sensor
      BY <2>0 DEF TypeOK
    <3> QED
      BY <2>0, <2>K, <3>1, <3>4, <3>5, <3>6, PushedEnds
  <2>11. CASE UNCHANGED vars
    BY <2>11, <2>P DEF vars, recordVars, userVars
  <2> QED
    BY <1>2, <2>1, <2>2, <2>3, <2>4, <2>5, <2>6, <2>7, <2>8, <2>9, <2>10, <2>11
       DEF Next
<1> QED
  BY <1>1, <1>2, PTL DEF Spec

\* The value the user asked for last is the last that the sensor gets, whatever fails,
\* is sent twice or is pushed in the middle of a handler, unless it was written while
\* update_device_setdata held its predecessor for another sensor's sake: SetDataNotLost.
THEOREM SetDataKept == Spec => []SetDataNotLost
<1>1. SetInv => SetDataNotLost
  BY DEF SetInv, SetDataNotLost
<1> QED
  BY <1>1, SetInvariant, PTL
=============================================================================
