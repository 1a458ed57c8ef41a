--------------------------- MODULE SessionProofs ---------------------------
(***************************************************************************)
(* Proofs about Session, for any number of sessions, either driver and any *)
(* failures.                                                               *)
(***************************************************************************)
EXTENDS Session, TLAPS

\* a timeout whose channel did not hang up finds it
TimerInv == running /\ timer \in Session => nodeIo[timer]

\* RefsExact needs PointersLive to be inductive: a reference is only dropped for
\* a channel that exists, and only taken for one that does not exist yet.
SessionInv == TypeOK /\ RefsExact /\ PointersLive /\ TimerInv

\* A free address has no channel.
LEMMA FreeHasNoChannel ==
  ASSUME SessionInv, NEW x \in Session, refs[x] = 0
  PROVE  ~nodeIo[x] /\ protoIo[x] = "none" /\ ~proto_channel[x]
<1>1. refs[x] = B(nodeIo[x]) + B(protoIo[x] # "none")
  BY DEF SessionInv, RefsExact
<1>2. B(nodeIo[x]) = 0 /\ B(protoIo[x] # "none") = 0
  BY <1>1 DEF B
<1>3. ~nodeIo[x] /\ protoIo[x] = "none"
  BY <1>2 DEF B
<1> QED
  BY <1>3 DEF SessionInv, PointersLive

\* Counters are exact after a step that changes the channels of one session only,
\* if that session's counter is.
LEMMA RefsOfOne ==
  ASSUME SessionInv, NEW x \in Session, NEW n \in Int,
         refs' = [refs EXCEPT ![x] = n],
         n = B(nodeIo'[x]) + B(protoIo'[x] # "none"),
         \A y \in Session \ {x} : (nodeIo'[y] <=> nodeIo[y]) /\ protoIo'[y] = protoIo[y]
  PROVE  RefsExact'
<1> SUFFICES ASSUME NEW y \in Session
             PROVE  refs'[y] = B(nodeIo'[y]) + B(protoIo'[y] # "none")
  BY DEF RefsExact, B
<1>1. CASE y = x
  BY <1>1 DEF SessionInv, TypeOK
<1>2. CASE y # x
  <2>1. refs'[y] = refs[y]
    BY <1>2 DEF SessionInv, TypeOK
  <2>2. refs[y] = B(nodeIo[y]) + B(protoIo[y] # "none")
    BY DEF SessionInv, RefsExact
  <2>3. (nodeIo'[y] <=> nodeIo[y]) /\ protoIo'[y] = protoIo[y]
    BY <1>2
  <2> QED
    BY <2>1, <2>2, <2>3 DEF B
<1> QED
  BY <1>1, <1>2

\* A counter that is exact is not negative.
LEMMA RefsNat ==
  ASSUME RefsExact', NEW f, refs' = f, f \in [Session -> Int]
  PROVE  refs' \in [Session -> Nat]
<1>1. ASSUME NEW y \in Session PROVE f[y] \in Nat
  <2>1. f[y] = B(nodeIo'[y]) + B(protoIo'[y] # "none")
    BY DEF RefsExact, B
  <2>2. B(nodeIo'[y]) \in {0, 1} /\ B(protoIo'[y] # "none") \in {0, 1}
    BY DEF B
  <2> QED
    BY <2>1, <2>2
<1> QED
  BY <1>1

\* One step per action.
LEMMA NextSessionInv == SessionInv /\ [Next]_vars => SessionInv'
<1> SUFFICES ASSUME SessionInv, [Next]_vars PROVE SessionInv'
  OBVIOUS
<1>0. TypeOK /\ PointersLive /\ TimerInv /\ NULL \notin Session /\ Gone \notin Session
  BY SessionAssumption DEF SessionInv
<1>a. ASSUME NEW x \in Session
      PROVE  refs[x] \in Nat /\ refs[x] = B(nodeIo[x]) + B(protoIo[x] # "none")
  BY <1>0 DEF SessionInv, RefsExact, TypeOK
<1>1. CASE UNCHANGED vars
  BY <1>1 DEF vars, SessionInv, TypeOK, RefsExact, PointersLive, TimerInv, B
<1>2. ASSUME NEW x \in Session, SessionCreate(x) PROVE SessionInv'
  <2>1. ~nodeIo[x] /\ protoIo[x] = "none" /\ ~proto_channel[x]
    BY <1>2, FreeHasNoChannel DEF SessionCreate
  <2>2. TypeOK'
    BY <1>0, <1>2 DEF SessionCreate, ConnectProto, TypeOK
  <2>3. nodeIo'[x] /\ protoIo'[x] = "up"
    BY <1>0, <1>2 DEF SessionCreate, ConnectProto, TypeOK
  <2>4. 2 = B(nodeIo'[x]) + B(protoIo'[x] # "none")
    BY <2>3 DEF B
  <2>5. RefsExact'
    <3>1. refs' = [refs EXCEPT ![x] = 2]
      BY <1>2 DEF SessionCreate, ConnectProto
    <3>2. \A y \in Session \ {x} : (nodeIo'[y] <=> nodeIo[y]) /\ protoIo'[y] = protoIo[y]
      BY <1>0, <1>2 DEF SessionCreate, ConnectProto, TypeOK
    <3>3. 2 \in Int
      OBVIOUS
    <3> QED
      BY <2>4, <3>1, <3>2, <3>3, RefsOfOne
  <2>6. PointersLive'
    BY <1>0, <1>2, <2>1 DEF SessionCreate, ConnectProto, TypeOK, PointersLive
  <2>7. TimerInv'
    BY <1>0, <1>2 DEF SessionCreate, TypeOK, TimerInv
  <2> QED
    BY <2>2, <2>5, <2>6, <2>7 DEF SessionInv
<1>3. ASSUME NEW x \in Session, ~proto_channel[x], ConnectProto(x, refs[x]), nodeIo' = nodeIo
      PROVE  /\ refs' \in [Session -> Nat]
             /\ proto_channel' \in [Session -> BOOLEAN]
             /\ protoIo' \in [Session -> {"none", "up", "closed"}]
             /\ RefsExact'
             /\ \A y \in Session : proto_channel'[y] <=> protoIo'[y] # "none"
  <2>1. protoIo[x] = "none" /\ protoIo'[x] = "up"
    BY <1>0, <1>3 DEF ConnectProto, TypeOK, PointersLive
  <2>2. refs[x] + 1 = B(nodeIo'[x]) + B(protoIo'[x] # "none")
    BY <1>3, <1>a, <2>1 DEF B
  <2>3. RefsExact'
    <3>1. refs' = [refs EXCEPT ![x] = refs[x] + 1] /\ refs[x] + 1 \in Int
      BY <1>3, <1>a DEF ConnectProto
    <3>2. \A y \in Session \ {x} : (nodeIo'[y] <=> nodeIo[y]) /\ protoIo'[y] = protoIo[y]
      BY <1>0, <1>3 DEF ConnectProto, TypeOK
    <3> QED
      BY <2>2, <3>1, <3>2, RefsOfOne
  <2> QED
    BY <1>0, <1>3, <2>3 DEF ConnectProto, TypeOK, PointersLive
<1>4. ASSUME NEW x \in Session, NodeData(x) PROVE SessionInv'
  BY <1>0, <1>3, <1>4 DEF NodeData, SessionInv, TypeOK, PointersLive, TimerInv
<1>5. ASSUME NEW x \in Session, NodeDataError(x) PROVE SessionInv'
  <2>1. /\ refs' \in [Session -> Nat]
        /\ proto_channel' \in [Session -> BOOLEAN]
        /\ protoIo' \in [Session -> {"none", "up", "closed"}]
        /\ RefsExact'
        /\ \A y \in Session : proto_channel'[y] <=> protoIo'[y] # "none"
    <3>1. CASE UNCHANGED <<refs, proto_channel, protoIo>>
      BY <1>0, <1>5, <3>1 DEF NodeDataError, SessionInv, TypeOK, PointersLive, RefsExact, B
    <3>2. CASE ~proto_channel[x] /\ ConnectProto(x, refs[x])
      BY <1>3, <1>5, <3>2 DEF NodeDataError
    <3> QED
      BY <1>5, <3>1, <3>2 DEF NodeDataError
  <2>2. TypeOK'
    BY <1>0, <1>5, <2>1 DEF NodeDataError, TypeOK
  <2>3. PointersLive'
    BY <1>0, <1>5, <2>1 DEF NodeDataError, TypeOK, PointersLive
  <2>4. TimerInv'
    BY <1>0, <1>5 DEF NodeDataError, TypeOK, TimerInv
  <2> QED
    BY <2>1, <2>2, <2>3, <2>4 DEF SessionInv
<1>6. ASSUME NEW x \in Session, nodeIo[x], NodeDestroyed(x),
             protoIo'[x] # "none" <=> protoIo[x] # "none",
             \A y \in Session \ {x} : protoIo'[y] = protoIo[y]
      PROVE  RefsExact'
  <2>1. refs[x] - 1 = B(nodeIo'[x]) + B(protoIo'[x] # "none")
    <3>1. ~nodeIo'[x]
      BY <1>0, <1>6 DEF NodeDestroyed, TypeOK
    <3> QED
      BY <1>6, <1>a, <3>1 DEF B
  <2>2. refs' = [refs EXCEPT ![x] = refs[x] - 1]
    BY <1>0, <1>6 DEF NodeDestroyed, Unref, TypeOK
  <2> QED
    <3>1. refs[x] - 1 \in Int
      BY <1>a
    <3>2. \A y \in Session \ {x} : (nodeIo'[y] <=> nodeIo[y]) /\ protoIo'[y] = protoIo[y]
      BY <1>0, <1>6 DEF NodeDestroyed, TypeOK
    <3> QED
      BY <2>1, <2>2, <3>1, <3>2, RefsOfOne
<1>7. CASE DestroyTimeout
  <2>1. TimerInv'
    BY <1>0, <1>7 DEF DestroyTimeout, TimerInv
  <2>2. CASE timer = Gone /\ UNCHANGED <<nodeIo, listening, session_list, refs>>
    <3>1. RefsExact'
      BY <1>7, <2>2 DEF DestroyTimeout, SessionInv, RefsExact, B
    <3>2. TypeOK' /\ PointersLive'
      BY <1>0, <1>7, <2>2 DEF DestroyTimeout, TypeOK, PointersLive
    <3> QED
      BY <2>1, <3>1, <3>2 DEF SessionInv
  <2>3. CASE timer \in Session /\ NodeDestroyed(timer)
    <3>1. PICK x \in Session : x = timer
      BY <2>3
    <3>2. nodeIo[x] /\ NodeDestroyed(x)
      BY <1>0, <1>7, <2>3, <3>1 DEF DestroyTimeout, TimerInv
    <3>3. RefsExact'
      BY <1>6, <1>7, <3>2 DEF DestroyTimeout
    <3>4. refs' \in [Session -> Nat]
      <4>1. refs' = [refs EXCEPT ![x] = refs[x] - 1]
        BY <1>0, <3>2 DEF NodeDestroyed, Unref, TypeOK
      <4>2. [refs EXCEPT ![x] = refs[x] - 1] \in [Session -> Int]
        BY <1>0 DEF TypeOK
      <4> QED
        BY <3>3, <4>1, <4>2, RefsNat
    <3>5. TypeOK'
      BY <1>0, <1>7, <3>2, <3>4 DEF DestroyTimeout, NodeDestroyed, TypeOK
    <3>6. PointersLive'
      BY <1>0, <1>7, <3>2 DEF DestroyTimeout, NodeDestroyed, TypeOK, PointersLive
    <3> QED
      BY <2>1, <3>3, <3>5, <3>6 DEF SessionInv
  <2> QED
    BY <1>7, <2>2, <2>3 DEF DestroyTimeout
<1>8. ASSUME NEW x \in Session, NodeHangUp(x) PROVE SessionInv'
  <2>1. /\ protoIo' \in [Session -> {"none", "up", "closed"}]
        /\ protoIo'[x] # "none" <=> protoIo[x] # "none"
        /\ \A y \in Session \ {x} : protoIo'[y] = protoIo[y]
    <3>1. protoIo' = IF proto_channel[x] /\ Driver = "ws"
                     THEN [protoIo EXCEPT ![x] = "closed"] ELSE protoIo
      BY <1>8 DEF NodeHangUp, DisconnectProto
    <3>2. proto_channel[x] <=> protoIo[x] # "none"
      BY <1>0 DEF PointersLive
    <3>3. CASE proto_channel[x] /\ Driver = "ws"
      BY <1>0, <3>1, <3>2, <3>3 DEF TypeOK
    <3>4. CASE ~(proto_channel[x] /\ Driver = "ws")
      BY <1>0, <3>1, <3>4 DEF TypeOK
    <3> QED
      BY <3>3, <3>4
  <2>2. RefsExact'
    BY <1>6, <1>8, <2>1 DEF NodeHangUp
  <2>3. TypeOK'
    <3>0. refs' \in [Session -> Nat]
      <4>1. refs' = [refs EXCEPT ![x] = refs[x] - 1]
        BY <1>0, <1>8 DEF NodeHangUp, NodeDestroyed, Unref, TypeOK
      <4>2. [refs EXCEPT ![x] = refs[x] - 1] \in [Session -> Int]
        BY <1>0 DEF TypeOK
      <4> QED
        BY <2>2, <4>1, <4>2, RefsNat
    <3>1. refs' \in [Session -> Nat] /\ nodeIo' \in [Session -> BOOLEAN]
          /\ listening' \in [Session -> BOOLEAN]
      BY <1>0, <1>8, <3>0 DEF NodeHangUp, NodeDestroyed, TypeOK
    <3>2. node_channel' \in [Session -> BOOLEAN] /\ timer' \in Session \cup {NULL, Gone}
          /\ session_list' \subseteq Session
      BY <1>0, <1>8 DEF NodeHangUp, NodeDestroyed, TypeOK
    <3> QED
      BY <1>0, <1>8, <2>1, <3>1, <3>2 DEF NodeHangUp, TypeOK
  <2>4. PointersLive'
    <3>1. \A y \in Session : proto_channel'[y] <=> protoIo'[y] # "none"
      BY <1>0, <1>8, <2>1 DEF NodeHangUp, PointersLive
    <3> QED
      BY <1>0, <1>8, <3>1 DEF NodeHangUp, NodeDestroyed, TypeOK, PointersLive
  <2>5. TimerInv'
    BY <1>0, <1>8 DEF NodeHangUp, NodeDestroyed, TypeOK, TimerInv
  <2> QED
    BY <2>2, <2>3, <2>4, <2>5 DEF SessionInv
<1>9. ASSUME NEW x \in Session, protoIo[x] # "none", ProtoHungUp(x) PROVE SessionInv'
  <2>1. protoIo'[x] = "none" /\ nodeIo' = nodeIo
    BY <1>0, <1>9 DEF ProtoHungUp, TypeOK
  <2>2. refs[x] - 1 = B(nodeIo'[x]) + B(protoIo'[x] # "none")
    BY <1>9, <1>a, <2>1 DEF B
  <2>3. refs' = [refs EXCEPT ![x] = refs[x] - 1]
    BY <1>0, <1>9 DEF ProtoHungUp, Unref, TypeOK
  <2>4. RefsExact'
    <3>1. refs[x] - 1 \in Int
      BY <1>a
    <3>2. \A y \in Session \ {x} : (nodeIo'[y] <=> nodeIo[y]) /\ protoIo'[y] = protoIo[y]
      BY <1>0, <1>9, <2>1 DEF ProtoHungUp, TypeOK
    <3> QED
      BY <2>2, <2>3, <3>1, <3>2, RefsOfOne
  <2>5. TypeOK'
    <3>1. [refs EXCEPT ![x] = refs[x] - 1] \in [Session -> Int]
      BY <1>0 DEF TypeOK
    <3>2. refs' \in [Session -> Nat]
      BY <2>3, <2>4, <3>1, RefsNat
    <3> QED
      BY <1>0, <1>9, <3>2 DEF ProtoHungUp, TypeOK
  <2>6. PointersLive' /\ TimerInv'
    BY <1>0, <1>9 DEF ProtoHungUp, TypeOK, PointersLive, TimerInv
  <2> QED
    BY <2>4, <2>5, <2>6 DEF SessionInv
<1>10. CASE SessionDestroyAll
  <2>2. RefsExact'
    <3> SUFFICES ASSUME NEW y \in Session
                 PROVE  refs'[y] = B(nodeIo'[y]) + B(protoIo'[y] # "none")
      BY DEF RefsExact, B
    <3>1. protoIo' = protoIo /\ ~nodeIo'[y]
      BY <1>0, <1>10 DEF SessionDestroyAll, PointersLive
    <3>2. refs'[y] = IF y \in session_list THEN refs[y] - 1 ELSE refs[y]
      BY <1>10 DEF SessionDestroyAll
    <3>3. nodeIo[y] <=> y \in session_list
      BY <1>0 DEF PointersLive
    <3> QED
      BY <1>a, <3>1, <3>2, <3>3 DEF B
  <2>1. TypeOK'
    <3>1. nodeIo' \in [Session -> BOOLEAN]
      BY <1>10 DEF SessionDestroyAll
    <3>2. listening' \in [Session -> BOOLEAN]
      BY <1>10 DEF SessionDestroyAll
    <3>3. refs' \in [Session -> Nat]
      <4> DEFINE f == [x \in Session |-> IF x \in session_list THEN refs[x] - 1
                                        ELSE refs[x]]
      <4>1. refs' = f
        BY <1>10 DEF SessionDestroyAll
      <4>2. f \in [Session -> Int]
        BY <1>0 DEF TypeOK
      <4> HIDE DEF f
      <4> QED
        BY <2>2, <4>1, <4>2, RefsNat
    <3> QED
      BY <1>0, <1>10, <3>1, <3>2, <3>3 DEF SessionDestroyAll, TypeOK
  <2>3. PointersLive'
    BY <1>0, <1>10 DEF SessionDestroyAll, TypeOK, PointersLive
  <2>4. TimerInv'
    BY <1>10 DEF SessionDestroyAll, TimerInv
  <2> QED
    BY <2>1, <2>2, <2>3, <2>4 DEF SessionInv
<1> QED
  BY <1>1, <1>2, <1>4, <1>5, <1>7, <1>8, <1>9, <1>10 DEF Next, CloudHangUp, ProtoClosed

\* Every behaviour keeps the invariant.
THEOREM SessionInvariant == Spec => []SessionInv
<1>1. Init => SessionInv
  <2> SUFFICES ASSUME Init PROVE SessionInv
    OBVIOUS
  <2>1. TypeOK
    <3>1. node_channel \in [Session -> BOOLEAN] /\ proto_channel \in [Session -> BOOLEAN]
      BY DEF Init
    <3>2. nodeIo \in [Session -> BOOLEAN] /\ listening \in [Session -> BOOLEAN]
      BY DEF Init
    <3>3. refs \in [Session -> Nat] /\ protoIo \in [Session -> {"none", "up", "closed"}]
      BY DEF Init
    <3> QED
      BY <3>1, <3>2, <3>3 DEF Init, TypeOK
  <2>2. RefsExact
    <3> SUFFICES ASSUME NEW x \in Session
                 PROVE  refs[x] = B(nodeIo[x]) + B(protoIo[x] # "none")
      BY DEF RefsExact
    <3>1. refs[x] = 0 /\ protoIo[x] = "none"
      BY DEF Init
    <3>2. ~nodeIo[x]
      BY DEF Init
    <3> QED
      BY <3>1, <3>2 DEF B
  <2>3. PointersLive /\ TimerInv
    BY SessionAssumption DEF Init, PointersLive, TimerInv
  <2> QED
    BY <2>1, <2>2, <2>3 DEF SessionInv
<1> QED
  BY <1>1, NextSessionInv, PTL DEF Spec

\* Every variable keeps its type, whichever driver is used and whatever fails: no
\* session_unref takes a counter below zero.
THEOREM SessionTypeCorrect == Spec => []TypeOK
<1>1. SessionInv => TypeOK
  BY DEF SessionInv
<1> QED
  BY <1>1, SessionInvariant, PTL

\* A session's counter is the number of its event sources, for either driver,
\* whatever fails: session_unref frees it with the last one, never before.
THEOREM SessionRefsCorrect == Spec => []RefsExact
<1>1. SessionInv => RefsExact
  BY DEF SessionInv
<1> QED
  BY <1>1, SessionInvariant, PTL

\* session_destroy_all and on_data are given channels that exist.
THEOREM SessionPointersLive == Spec => []PointersLive
<1>1. SessionInv => PointersLive
  BY DEF SessionInv
<1> QED
  BY <1>1, SessionInvariant, PTL
=============================================================================
