---------------------------- MODULE TrustProofs ----------------------------
(***************************************************************************)
(* Proofs about Trust, for any sets of sockets, addresses, ids and devices *)
(* and any behaviour of the environment.                                   *)
(***************************************************************************)
EXTENDS Trust, TLAPS

\* RefsExact with what makes it inductive.
TrustInv == TypeOK /\ RefsExact /\ MapStructure

\* A free address has no holder: it is in no map entry, it has no node channel
\* and no watch.
LEMMA FreeHasNoHolder ==
  ASSUME TrustInv, NEW t \in TrustId, refs[t] = 0
  PROVE  /\ ~Mapped(t)
         /\ chan[t] = "none"
         /\ ~watch[t]
         /\ t \notin hungup
<1>1. refs[t] = B(Mapped(t)) + B(chan[t] # "none") + B(watch[t])
  BY DEF TrustInv, RefsExact
<1>2. B(Mapped(t)) = 0 /\ B(chan[t] # "none") = 0 /\ B(watch[t]) = 0
  BY <1>1 DEF B
<1> QED
  BY <1>2 DEF B, TrustInv, MapStructure

\* Init establishes the invariant.
LEMMA InitTrustInv == Init => TrustInv
<1> SUFFICES ASSUME Init PROVE TrustInv
  OBVIOUS
<1>1. TypeOK
  <2>1. (CHOOSE u \in Uuid : TRUE) \in Uuid /\ (CHOOSE s \in Socket : TRUE) \in Socket
    BY TrustAssumption
  <2>2. Blank \in Info
    BY <2>1 DEF Blank, Info
  <2> QED
    BY <2>2, TrustAssumption DEF Init, TypeOK, ConnState, ChanState
<1>2. RefsExact
  BY TrustAssumption DEF Init, RefsExact, B, Mapped
<1>3. MapStructure
  BY DEF Init, MapStructure
<1> QED
  BY <1>1, <1>2, <1>3 DEF TrustInv

\* trust_create keeps the type of the trusts, the counters and the map.
LEMMA CreateKeeps ==
  ASSUME TrustInv,
         NEW s \in Socket, NEW t \in TrustId, NEW u \in Uuid,
         NEW id \in Nat, NEW pid \in Nat, NEW rollback \in BOOLEAN,
         trust_create(s, t, u, id, pid, rollback),
         hungup' = hungup
  PROVE  /\ refs' \in [TrustId -> Int]
         /\ info' \in [TrustId -> Info]
         /\ chan' \in [TrustId -> ChanState]
         /\ watch' \in [TrustId -> BOOLEAN]
         /\ trust_map' \in [Socket -> TrustId \cup {NULL}]
         /\ RefsExact'
         /\ MapStructure'
<1> DEFINE old == trust_map[s]
<1>1. TypeOK /\ RefsExact /\ MapStructure /\ NULL \notin TrustId
  BY TrustAssumption DEF TrustInv
<1>2. ~Mapped(t) /\ chan[t] = "none" /\ ~watch[t] /\ t \notin hungup
  BY FreeHasNoHolder DEF trust_create
<1>3. old # t
  BY <1>2 DEF Mapped
<1>4. /\ refs' \in [TrustId -> Int]
      /\ info' \in [TrustId -> Info]
      /\ chan' \in [TrustId -> ChanState]
      /\ watch' \in [TrustId -> BOOLEAN]
      /\ trust_map' \in [Socket -> TrustId \cup {NULL}]
  <2>1. refs' \in [TrustId -> Int]
    BY <1>1 DEF trust_create, CreateRefs, RemoveEntry, Unref, TypeOK
  <2>2. info' \in [TrustId -> Info]
    BY <1>1 DEF trust_create, TypeOK, Info
  <2> QED
    BY <1>1, <2>1, <2>2 DEF trust_create, TypeOK, ChanState
<1>5. RefsExact'
  <2> SUFFICES ASSUME NEW x \in TrustId
               PROVE  refs'[x] = B(Mapped(x)') + B(chan'[x] # "none") + B(watch'[x])
    BY DEF RefsExact, B, Mapped
  <2>1. CASE x = t
    <3>1. Mapped(x)'
      BY <1>1, <2>1 DEF trust_create, Mapped, TypeOK
    <3>2. refs'[x] = 3
      BY <1>1, <2>1 DEF trust_create, CreateRefs, RemoveEntry, Unref, TypeOK
    <3>3. chan'[x] = "live" /\ watch'[x] = TRUE
      BY <1>1, <2>1 DEF trust_create, TypeOK
    <3> QED
      BY <3>1, <3>2, <3>3 DEF B
  <2>2. CASE x # t /\ x = old
    <3>1. Mapped(x) /\ ~Mapped(x)'
      BY <1>1, <2>2 DEF trust_create, Mapped, TypeOK, MapStructure
    <3>2. refs'[x] = refs[x] - 1
      BY <1>1, <2>2 DEF trust_create, CreateRefs, RemoveEntry, Unref, TypeOK
    <3>3. chan'[x] = chan[x] /\ watch'[x] = watch[x]
      BY <1>1, <2>2 DEF trust_create, TypeOK
    <3>4. refs[x] = B(Mapped(x)) + B(chan[x] # "none") + B(watch[x])
      BY <1>1 DEF RefsExact
    <3> QED
      BY <3>1, <3>2, <3>3, <3>4 DEF B
  <2>3. CASE x # t /\ x # old
    <3>1. Mapped(x)' <=> Mapped(x)
      BY <1>1, <2>3 DEF trust_create, Mapped, TypeOK
    <3>2. refs'[x] = refs[x]
      BY <1>1, <2>3 DEF trust_create, CreateRefs, RemoveEntry, Unref, TypeOK
    <3>3. chan'[x] = chan[x] /\ watch'[x] = watch[x]
      BY <1>1, <2>3 DEF trust_create, TypeOK
    <3>4. refs[x] = B(Mapped(x)) + B(chan[x] # "none") + B(watch[x])
      BY <1>1 DEF RefsExact
    <3> QED
      BY <3>1, <3>2, <3>3, <3>4 DEF B
  <2> QED
    BY <2>1, <2>2, <2>3
<1>6. MapStructure'
  <2> SUFFICES ASSUME NEW z \in Socket, trust_map'[z] # NULL
               PROVE  info'[trust_map'[z]].node = z /\ chan'[trust_map'[z]] # "none"
    BY <1>1, <1>2 DEF MapStructure, trust_create, TypeOK
  <2>1. CASE z = s
    BY <1>1, <2>1 DEF trust_create, TypeOK
  <2>2. CASE z # s
    <3>1. trust_map'[z] = trust_map[z] /\ trust_map[z] # t /\ trust_map[z] \in TrustId
      BY <1>1, <1>2, <2>2 DEF trust_create, TypeOK, Mapped
    <3> QED
      BY <1>1, <3>1 DEF trust_create, TypeOK, MapStructure
  <2> QED
    BY <2>1, <2>2
<1> QED
  BY <1>4, <1>5, <1>6
\* The steps that change no counter, no holder and no map entry.
LEMMA HoldersUnchanged ==
  ASSUME TrustInv, UNCHANGED <<refs, watch, trust_map>>,
         NEW c \in [TrustId -> ChanState], chan' = c,
         \A t \in TrustId : (chan[t] = "none") <=> (chan'[t] = "none"),
         \A t \in TrustId : info'[t].node = info[t].node,
         hungup' \subseteq {t \in TrustId : chan[t] # "none"}
  PROVE  RefsExact' /\ MapStructure'
<1>1. RefsExact'
  BY DEF TrustInv, RefsExact, B, Mapped
<1>2. MapStructure'
  BY TrustAssumption DEF TrustInv, MapStructure, TypeOK
<1> QED
  BY <1>1, <1>2

\* Dropping the map entry of one socket, its counter with it, keeps the counters
\* exact (msg_unregister).
LEMMA RemoveEntryKeeps ==
  ASSUME TrustInv, NEW s \in Socket,
         refs' = RemoveEntry(refs, s),
         trust_map' = [trust_map EXCEPT ![s] = NULL],
         UNCHANGED <<info, chan, watch, hungup>>
  PROVE  RefsExact' /\ MapStructure' /\ refs' \in [TrustId -> Int]
<1>1. TypeOK /\ RefsExact /\ MapStructure /\ NULL \notin TrustId
  BY TrustAssumption DEF TrustInv
<1>2. refs' \in [TrustId -> Int]
  BY <1>1 DEF RemoveEntry, Unref, TypeOK
<1>3. RefsExact'
  <2> SUFFICES ASSUME NEW x \in TrustId
               PROVE  refs'[x] = B(Mapped(x)') + B(chan[x] # "none") + B(watch[x])
    BY DEF RefsExact, B, Mapped
  <2>1. refs[x] = B(Mapped(x)) + B(chan[x] # "none") + B(watch[x])
    BY <1>1 DEF RefsExact
  <2>2. CASE x = trust_map[s]
    <3>1. Mapped(x) /\ ~Mapped(x)'
      BY <1>1, <2>2 DEF Mapped, TypeOK, MapStructure
    <3>2. refs'[x] = refs[x] - 1
      BY <1>1, <2>2 DEF RemoveEntry, Unref, TypeOK
    <3> QED
      BY <2>1, <3>1, <3>2 DEF B
  <2>3. CASE x # trust_map[s]
    <3>1. Mapped(x)' <=> Mapped(x)
      BY <1>1, <2>3 DEF Mapped, TypeOK
    <3>2. refs'[x] = refs[x]
      BY <1>1, <2>3 DEF RemoveEntry, Unref, TypeOK
    <3> QED
      BY <2>1, <3>1, <3>2 DEF B
  <2> QED
    BY <2>2, <2>3
<1>4. MapStructure'
  BY <1>1 DEF MapStructure, TypeOK
<1> QED
  BY <1>2, <1>3, <1>4

\* The hang-up handler of t drops the entry and the watch of the trust m it finds
\* at the socket, which may or may not be t, and the node channel of t.
LEMMA NodeDisconnectedKeeps ==
  ASSUME TrustInv, NEW t \in TrustId, NodeDisconnected(t)
  PROVE  TrustInv'
<1> DEFINE s == info[t].node
           m == trust_map[s]
<1>1. TypeOK /\ RefsExact /\ MapStructure /\ NULL \notin TrustId
  BY TrustAssumption DEF TrustInv
<1>2. s \in Socket /\ m \in TrustId \cup {NULL}
  BY <1>1 DEF TypeOK, Info
<1>3. refs' \in [TrustId -> Int]
  BY <1>1, <1>2 DEF NodeDisconnected, DisconnectRefs, Unref, TypeOK
<1>4. watch' \in [TrustId -> BOOLEAN]
  <2>1. watch' = [x \in TrustId |-> watch[x] /\ x # m]
    BY DEF NodeDisconnected
  <2> QED
    BY <2>1
<1>5. TypeOK'
  <2>1. cloud' \in [Uuid -> {"unused", "present", "removed"}] /\ failed' \subseteq Uuid
    <3>1. Rollback(m)
      BY DEF NodeDisconnected
    <3>2. m # NULL => info[m].uuid \in Uuid
      BY <1>1, <1>2 DEF TypeOK, Info
    <3> QED
      BY <1>1, <3>1, <3>2 DEF Rollback, TypeOK
  <2> QED
    BY <1>1, <1>2, <1>3, <1>4, <2>1 DEF NodeDisconnected, TypeOK, ChanState
<1>6. RefsExact'
  <2> SUFFICES ASSUME NEW x \in TrustId
               PROVE  refs'[x] = B(Mapped(x)') + B(chan'[x] # "none") + B(watch'[x])
    BY DEF RefsExact, B, Mapped
  <2>1. refs[x] = B(Mapped(x)) + B(chan[x] # "none") + B(watch[x])
    BY <1>1 DEF RefsExact
  <2>2. chan[t] # "none" /\ chan'[t] = "none" /\ (x # t => chan'[x] = chan[x])
    BY <1>1 DEF NodeDisconnected, MapStructure, TypeOK
  <2>3. /\ x = m => Mapped(x) /\ ~Mapped(x)'
        /\ x # m => (Mapped(x)' <=> Mapped(x))
    BY <1>1, <1>2 DEF NodeDisconnected, MapStructure, TypeOK, Mapped
  <2>4. /\ x = m => ~watch'[x]
        /\ x # m => (watch'[x] <=> watch[x])
    BY <1>1, <1>2 DEF NodeDisconnected, TypeOK
  <2>5. refs'[x] = refs[x] - (IF x = t THEN 1 ELSE 0)
                           - (IF x = m THEN 1 + B(watch[x]) ELSE 0)
    <3>1. refs' = Unref(DisconnectRefs(refs, m), t)
      BY DEF NodeDisconnected
    <3>2. CASE x # m
      BY <1>1, <1>2, <3>1, <3>2 DEF DisconnectRefs, Unref, TypeOK
    <3>3. CASE x = m
      BY <1>1, <1>2, <3>1, <3>3 DEF DisconnectRefs, Unref, TypeOK, B
    <3> QED
      BY <3>2, <3>3
  <2>6. B(watch'[x]) = IF x = m THEN 0 ELSE B(watch[x])
    BY <2>4 DEF B
  <2>7. B(Mapped(x)') = B(Mapped(x)) - (IF x = m THEN 1 ELSE 0)
    BY <2>3 DEF B
  <2>8. B(chan'[x] # "none") = B(chan[x] # "none") - (IF x = t THEN 1 ELSE 0)
    BY <2>2 DEF B
  <2>9. B(watch[x]) \in Int /\ B(Mapped(x)) \in Int /\ B(chan[x] # "none") \in Int
    BY DEF B
  <2> QED
    BY <2>1, <2>5, <2>6, <2>7, <2>8, <2>9
<1>7. MapStructure'
  <2>1. \A x \in hungup' : chan'[x] # "none"
    BY <1>1 DEF NodeDisconnected, MapStructure, TypeOK
  <2>2. ASSUME NEW z \in Socket, trust_map'[z] # NULL
        PROVE  info'[trust_map'[z]].node = z /\ chan'[trust_map'[z]] # "none"
    <3>1. z # s /\ trust_map'[z] = trust_map[z] /\ trust_map[z] \in TrustId
      BY <1>1, <1>2, <2>2 DEF NodeDisconnected, TypeOK
    <3>2. trust_map[z] # t
      BY <1>1, <3>1 DEF MapStructure
    <3> QED
      BY <1>1, <3>1, <3>2 DEF NodeDisconnected, TypeOK, MapStructure
  <2> QED
    BY <2>1, <2>2 DEF MapStructure
<1> QED
  BY <1>5, <1>6, <1>7 DEF TrustInv

\* The invariant is inductive: one step per action.
LEMMA NextTrustInv == TrustInv /\ [Next]_vars => TrustInv'
<1> SUFFICES ASSUME TrustInv, [Next]_vars PROVE TrustInv'
  OBVIOUS
<1>0. TypeOK /\ RefsExact /\ MapStructure /\ NULL \notin TrustId
  BY TrustAssumption DEF TrustInv
<1>1. CASE UNCHANGED vars
  BY <1>1 DEF vars, TrustInv, TypeOK, RefsExact, MapStructure, Mapped, B
<1>2. ASSUME NEW s \in Socket, Accept(s) PROVE TrustInv'
  <2>1. TypeOK'
    BY <1>0, <1>2 DEF Accept, TypeOK, ConnState, cloudVars
  <2>2. RefsExact' /\ MapStructure'
    BY <1>0, <1>2, HoldersUnchanged DEF Accept, TypeOK, MapStructure
  <2> QED
    BY <2>1, <2>2 DEF TrustInv
<1>3. ASSUME NEW s \in Socket, DataError(s) PROVE TrustInv'
  <2>1. TypeOK'
    BY <1>0, <1>3 DEF DataError, TypeOK, ConnState, cloudVars, trustVars
  <2>2. RefsExact' /\ MapStructure'
    BY <1>0, <1>3, HoldersUnchanged DEF DataError, TypeOK, MapStructure, trustVars
  <2> QED
    BY <2>1, <2>2 DEF TrustInv
<1>4. ASSUME NEW s \in Socket, DestroyChannel(s) PROVE TrustInv'
  <2>1. chan' \in [TrustId -> ChanState]
    BY <1>0, <1>4 DEF DestroyChannel, TypeOK, ChanState
  <2>2. TypeOK'
    BY <1>0, <1>4, <2>1 DEF DestroyChannel, TypeOK, ConnState, cloudVars
  <2>3. \A t \in TrustId : (chan[t] = "none") <=> (chan'[t] = "none")
    BY <1>0, <1>4 DEF DestroyChannel, TypeOK
  <2>4. RefsExact' /\ MapStructure'
    BY <1>0, <1>4, <2>1, <2>3, HoldersUnchanged DEF DestroyChannel, TypeOK, MapStructure
  <2> QED
    BY <2>2, <2>4 DEF TrustInv
<1>5. ASSUME NEW s \in Socket, HangUp(s) PROVE TrustInv'
  <2>1. TypeOK'
    BY <1>0, <1>5 DEF HangUp, TypeOK, ConnState, cloudVars, trustVars
  <2>2. RefsExact' /\ MapStructure'
    BY <1>0, <1>5, HoldersUnchanged DEF HangUp, TypeOK, MapStructure, trustVars
  <2> QED
    BY <2>1, <2>2 DEF TrustInv
<1>6. ASSUME NEW s \in Socket, Closed(s) PROVE TrustInv'
  <2>1. TypeOK'
    BY <1>0, <1>6 DEF Closed, TypeOK, ConnState, cloudVars, trustVars
  <2>2. RefsExact' /\ MapStructure'
    BY <1>0, <1>6, HoldersUnchanged DEF Closed, TypeOK, MapStructure, trustVars
  <2> QED
    BY <2>1, <2>2 DEF TrustInv
<1>7. ASSUME NEW s \in Socket, NEW id \in DeviceId, RegisterAgain(s, id) PROVE TrustInv'
  <2>1. given' \in [Socket -> Answer \cup {NULL}]
    <3>1. info[trust_map[s]].uuid \in Uuid
      BY <1>0, <1>7 DEF RegisterAgain, Retransmission, TypeOK, Info
    <3> QED
      BY <1>0, <1>7, <3>1 DEF RegisterAgain, TypeOK, Answer
  <2>2. TypeOK'
    BY <1>0, <1>7, <2>1 DEF RegisterAgain, TypeOK, cloudVars, trustVars
  <2>3. RefsExact' /\ MapStructure'
    BY <1>0, <1>7, HoldersUnchanged DEF RegisterAgain, TypeOK, MapStructure, trustVars
  <2> QED
    BY <2>2, <2>3 DEF TrustInv
<1>8. ASSUME NEW s \in Socket, NEW id \in DeviceId, RegisterFails(s, id) PROVE TrustInv'
  <2>1. TypeOK'
    BY <1>0, <1>8 DEF RegisterFails, TypeOK, cloudVars, trustVars
  <2>2. RefsExact' /\ MapStructure'
    BY <1>0, <1>8, HoldersUnchanged DEF RegisterFails, TypeOK, MapStructure, trustVars
  <2> QED
    BY <2>1, <2>2 DEF TrustInv
<1>9. ASSUME NEW s \in Socket, NEW id \in DeviceId, Register(s, id) PROVE TrustInv'
  <2>1. PICK t \in TrustId, u \in Uuid :
          /\ cloud' = [cloud EXCEPT ![u] = "present"]
          /\ trust_create(s, t, u, id, StoredPid(s), TRUE)
          /\ given' = [given EXCEPT ![s] = [id |-> id, uuid |-> u]]
    BY <1>9 DEF Register
  <2>2. id \in Nat /\ StoredPid(s) \in Nat
    <3>1. PeerPid \subseteq Nat /\ DeviceId \subseteq Nat /\ INT32_MAX \in Nat
      BY TrustAssumption
    <3>2. peer[s] \in PeerPid
      BY <1>0 DEF TypeOK
    <3> QED
      BY <3>1, <3>2 DEF StoredPid
  <2>3. UNCHANGED <<conn, peer, hungup, schemaful, complete, failed, running>>
    BY <1>9 DEF Register
  <2>4. /\ refs' \in [TrustId -> Int]
        /\ info' \in [TrustId -> Info]
        /\ chan' \in [TrustId -> ChanState]
        /\ watch' \in [TrustId -> BOOLEAN]
        /\ trust_map' \in [Socket -> TrustId \cup {NULL}]
        /\ RefsExact' /\ MapStructure'
    BY <2>1, <2>2, <2>3, CreateKeeps
  <2>5. TypeOK'
    BY <1>0, <2>1, <2>3, <2>4 DEF TypeOK, Answer
  <2> QED
    BY <2>4, <2>5 DEF TrustInv
<1>10. ASSUME NEW s \in Socket, NEW u \in Uuid, Authenticate(s, u) PROVE TrustInv'
  <2>1. PICK t \in TrustId : trust_create(s, t, u, 0, 0, FALSE)
    BY <1>10 DEF Authenticate
  <2>2. UNCHANGED <<conn, peer, hungup, cloudVars, given, running>>
    BY <1>10 DEF Authenticate
  <2>3. /\ refs' \in [TrustId -> Int]
        /\ info' \in [TrustId -> Info]
        /\ chan' \in [TrustId -> ChanState]
        /\ watch' \in [TrustId -> BOOLEAN]
        /\ trust_map' \in [Socket -> TrustId \cup {NULL}]
        /\ RefsExact' /\ MapStructure'
    BY <2>1, <2>2, CreateKeeps
  <2>4. TypeOK'
    BY <1>0, <2>2, <2>3 DEF TypeOK, cloudVars
  <2> QED
    BY <2>3, <2>4 DEF TrustInv
<1>11. ASSUME NEW s \in Socket, NEW eof \in BOOLEAN, Schema(s, eof) PROVE TrustInv'
  <2>1. trust_map[s] \in TrustId
    BY <1>0, <1>11 DEF Schema, TypeOK
  <2>2. info[trust_map[s]] \in Info
    BY <1>0, <2>1 DEF TypeOK
  <2>3. info' = [info EXCEPT ![trust_map[s]].rollback = FALSE]
    BY <1>11 DEF Schema
  <2>4. info' \in [TrustId -> Info]
    BY <1>0, <2>1, <2>2, <2>3 DEF TypeOK, Info
  <2>5. \A t \in TrustId : info'[t].node = info[t].node
    BY <1>0, <2>1, <2>2, <2>3 DEF TypeOK, Info
  <2>6. complete' \subseteq Uuid /\ schemaful' \subseteq Uuid
    BY <1>0, <1>11, <2>2 DEF Schema, TypeOK, Info
  <2>7. TypeOK'
    BY <1>0, <1>11, <2>4, <2>6 DEF Schema, TypeOK
  <2>8. RefsExact' /\ MapStructure'
    BY <1>0, <1>11, <2>5, HoldersUnchanged DEF Schema, TypeOK, MapStructure
  <2> QED
    BY <2>7, <2>8 DEF TrustInv
<1>12. ASSUME NEW s \in Socket, Unregister(s) PROVE TrustInv'
  <2>1. RefsExact' /\ MapStructure' /\ refs' \in [TrustId -> Int]
    BY <1>12, RemoveEntryKeeps DEF Unregister
  <2>2. TypeOK'
    BY <1>0, <1>12, <2>1 DEF Unregister, TypeOK
  <2> QED
    BY <2>1, <2>2 DEF TrustInv
<1>13. ASSUME NEW s \in Socket, UnregisterFails(s) PROVE TrustInv'
  <2>1. TypeOK'
    BY <1>0, <1>13 DEF UnregisterFails, TypeOK, trustVars
  <2>2. RefsExact' /\ MapStructure'
    BY <1>0, <1>13, HoldersUnchanged DEF UnregisterFails, TypeOK, MapStructure, trustVars
  <2> QED
    BY <2>1, <2>2 DEF TrustInv
<1>14. ASSUME NEW t \in TrustId, WatchDestroyed(t) PROVE TrustInv'
  <2>1. watch' \in [TrustId -> BOOLEAN]
    BY <1>0, <1>14 DEF WatchDestroyed, TypeOK
  <2>2. refs' = [refs EXCEPT ![t] = @ - 1]
    BY <1>14 DEF WatchDestroyed, Unref
  <2>3. TypeOK'
    BY <1>0, <1>14, <2>1, <2>2 DEF WatchDestroyed, TypeOK, cloudVars
  <2>4. RefsExact'
    <3> SUFFICES ASSUME NEW x \in TrustId
                 PROVE  refs'[x] = B(Mapped(x)) + B(chan[x] # "none") + B(watch'[x])
      BY <1>14 DEF WatchDestroyed, RefsExact, B, Mapped
    <3>1. refs[x] = B(Mapped(x)) + B(chan[x] # "none") + B(watch[x])
      BY <1>0 DEF RefsExact
    <3>2. (x = t => watch[x] /\ ~watch'[x]) /\ (x # t => (watch'[x] <=> watch[x]))
      BY <1>0, <1>14 DEF WatchDestroyed, TypeOK
    <3>3. refs'[x] = IF x = t THEN refs[x] - 1 ELSE refs[x]
      BY <1>0, <2>2 DEF TypeOK
    <3>4. B(watch'[x]) = IF x = t THEN B(watch[x]) - 1 ELSE B(watch[x])
      BY <3>2 DEF B
    <3>5. B(watch[x]) \in Int /\ B(Mapped(x)) \in Int /\ B(chan[x] # "none") \in Int
      BY DEF B
    <3> QED
      BY <3>1, <3>3, <3>4, <3>5
  <2>5. MapStructure'
    BY <1>0, <1>14 DEF WatchDestroyed, MapStructure
  <2> QED
    BY <2>3, <2>4, <2>5 DEF TrustInv
<1>15. ASSUME NEW t \in TrustId, NodeDisconnected(t) PROVE TrustInv'
  BY <1>15, NodeDisconnectedKeeps
<1>16. CASE msg_stop
  <2>1. refs' = [t \in TrustId |-> IF Mapped(t) THEN refs[t] - 1 ELSE refs[t]]
    BY <1>16 DEF msg_stop, Mapped
  <2>2. trust_map' = [s \in Socket |-> NULL]
    BY <1>16 DEF msg_stop
  <2>3. TypeOK'
    <3>1. refs' \in [TrustId -> Int]
      BY <1>0, <2>1 DEF TypeOK
    <3>2. trust_map' \in [Socket -> TrustId \cup {NULL}]
      BY <2>2
    <3>3. UNCHANGED <<conn, peer, info, chan, watch, hungup, cloudVars, given>>
          /\ running' \in BOOLEAN
      BY <1>16 DEF msg_stop
    <3> QED
      BY <1>0, <3>1, <3>2, <3>3 DEF TypeOK, cloudVars
  <2>4. RefsExact'
    <3> SUFFICES ASSUME NEW x \in TrustId
                 PROVE  refs'[x] = B(Mapped(x)') + B(chan[x] # "none") + B(watch[x])
      BY <1>16 DEF msg_stop, RefsExact, B, Mapped
    <3>1. refs[x] = B(Mapped(x)) + B(chan[x] # "none") + B(watch[x])
      BY <1>0 DEF RefsExact
    <3>2. ~Mapped(x)'
      BY <1>0, <2>2 DEF Mapped
    <3> QED
      BY <2>1, <3>1, <3>2 DEF B
  <2>5. MapStructure'
    BY <1>0, <1>16, <2>2 DEF msg_stop, MapStructure
  <2> QED
    BY <2>3, <2>4, <2>5 DEF TrustInv
<1> QED
  BY <1>1, <1>2, <1>3, <1>4, <1>5, <1>6, <1>7, <1>8, <1>9, <1>10, <1>11, <1>12,
     <1>13, <1>14, <1>15, <1>16 DEF Next, Connection, ThingRequest

\* Every behaviour keeps the invariant.
THEOREM TrustInvariant == Spec => []TrustInv
  BY InitTrustInv, NextTrustInv, PTL DEF Spec

\* Every variable keeps its type.
THEOREM TypeCorrect == Spec => []TypeOK
<1>1. TrustInv => TypeOK
  BY DEF TrustInv
<1> QED
  BY <1>1, TrustInvariant, PTL

\* The counter of a trust is exactly the number of its holders, whatever things
\* and cloud do and in whatever order the hang-up handlers run.
THEOREM RefsCorrect == Spec => []RefsExact
<1>1. TrustInv => RefsExact
  BY DEF TrustInv
<1> QED
  BY <1>1, TrustInvariant, PTL

\* The hang-up handler may go on using a trust it dropped from the map.
THEOREM MapEntryKept == Spec => []MapEntryIsKept
<1>1. TrustInv => MapEntryIsKept
  <2> SUFFICES ASSUME TrustInv, NEW s \in Socket, trust_map[s] # NULL
               PROVE  refs[trust_map[s]] >= 2
    BY DEF MapEntryIsKept
  <2> DEFINE t == trust_map[s]
  <2>1. t \in TrustId
    BY DEF TrustInv, TypeOK
  <2>2. Mapped(t) /\ chan[t] # "none"
    BY <2>1 DEF TrustInv, MapStructure, Mapped
  <2>3. refs[t] = B(Mapped(t)) + B(chan[t] # "none") + B(watch[t])
    BY <2>1 DEF TrustInv, RefsExact
  <2> QED
    BY <2>2, <2>3 DEF B
<1> QED
  BY <1>1, TrustInvariant, PTL

-----------------------------------------------------------------------------
(* The map holds online devices only, as long as every PDU is well formed. *)

\* OnlineOnly with what makes it inductive: no connection is deaf, and the
\* hang-up of every mapped trust of a closed connection is still to be served.
OnlineInv ==
  /\ OnlineOnly
  /\ \A s \in Socket : conn[s] # "deaf"
  /\ \A s \in Socket : conn[s] = "hungup" /\ trust_map[s] # NULL => trust_map[s] \in hungup

\* trust_create on an open connection keeps it.
LEMMA CreateKeepsOnline ==
  ASSUME TrustInv, OnlineInv,
         NEW s \in Socket, NEW t \in TrustId, NEW u \in Uuid, NEW id, NEW pid, NEW rollback,
         conn[s] = "open", trust_create(s, t, u, id, pid, rollback),
         UNCHANGED <<conn, hungup>>
  PROVE  OnlineInv'
<1>1. TypeOK /\ ~Mapped(t) /\ NULL \notin TrustId
  BY FreeHasNoHolder, TrustAssumption DEF trust_create, TrustInv
<1>2. ASSUME NEW z \in Socket, trust_map'[z] # NULL
      PROVE  conn'[z] # "free" /\ chan'[trust_map'[z]] = "live"
             /\ (conn'[z] = "hungup" => trust_map'[z] \in hungup')
  <2>1. CASE z = s
    BY <1>1, <1>2, <2>1 DEF trust_create, TypeOK
  <2>2. CASE z # s
    <3>1. trust_map'[z] = trust_map[z] /\ trust_map[z] # t /\ trust_map[z] \in TrustId
      BY <1>1, <1>2, <2>2 DEF trust_create, TypeOK, Mapped
    <3>2. chan'[trust_map[z]] = chan[trust_map[z]]
      BY <1>1, <3>1 DEF trust_create, TypeOK
    <3> QED
      BY <1>2, <3>1, <3>2 DEF OnlineInv, OnlineOnly
  <2> QED
    BY <2>1, <2>2
<1> QED
  BY <1>2 DEF OnlineInv, OnlineOnly

\* One step per action that changes a connection, the map, a channel or a hang-up.
LEMMA NextOnlineInv ==
  ASSUME "data_error" \notin Env, TrustInv, OnlineInv, [Next]_vars
  PROVE  OnlineInv'
<1>0. TypeOK /\ MapStructure /\ NULL \notin TrustId
  BY TrustAssumption DEF TrustInv
<1>1. CASE UNCHANGED <<conn, chan, trust_map, hungup>>
  BY <1>1 DEF OnlineInv, OnlineOnly
<1>2. ASSUME NEW s \in Socket, Accept(s) PROVE OnlineInv'
  BY <1>0, <1>2 DEF Accept, OnlineInv, OnlineOnly, TypeOK
<1>3. ASSUME NEW s \in Socket, DataError(s) PROVE OnlineInv'
  BY <1>3 DEF DataError
<1>4. ASSUME NEW s \in Socket, DestroyChannel(s) PROVE OnlineInv'
  BY <1>4 DEF DestroyChannel, OnlineInv
<1>5. ASSUME NEW s \in Socket, HangUp(s) PROVE OnlineInv'
  BY <1>0, <1>5 DEF HangUp, OnlineInv, OnlineOnly, TypeOK, MapStructure, trustVars
<1>6. ASSUME NEW s \in Socket, Closed(s) PROVE OnlineInv'
  BY <1>0, <1>6 DEF Closed, OnlineInv, OnlineOnly, TypeOK, MapStructure, trustVars
<1>7. ASSUME NEW s \in Socket, NEW id \in DeviceId, Register(s, id) PROVE OnlineInv'
  BY <1>7, CreateKeepsOnline DEF Register, RegisterGuard
<1>8. ASSUME NEW s \in Socket, NEW u \in Uuid, Authenticate(s, u) PROVE OnlineInv'
  BY <1>8, CreateKeepsOnline DEF Authenticate
<1>9. ASSUME NEW s \in Socket, Unregister(s) PROVE OnlineInv'
  BY <1>0, <1>9 DEF Unregister, OnlineInv, OnlineOnly, TypeOK
<1>10. ASSUME NEW t \in TrustId, NodeDisconnected(t) PROVE OnlineInv'
  <2> DEFINE s == info[t].node
  <2>1. s \in Socket /\ trust_map' = [trust_map EXCEPT ![s] = NULL]
    BY <1>0, <1>10 DEF NodeDisconnected, TypeOK, Info
  <2>2. /\ chan' = [chan EXCEPT ![t] = "none"]
        /\ hungup' = hungup \ {t}
        /\ conn' = conn
    BY <1>10 DEF NodeDisconnected
  <2>3. ASSUME NEW z \in Socket, trust_map'[z] # NULL
        PROVE  trust_map'[z] = trust_map[z] /\ trust_map[z] # t
    BY <1>0, <2>1, <2>3 DEF MapStructure, TypeOK
  <2> QED
    BY <1>0, <2>1, <2>2, <2>3 DEF OnlineInv, OnlineOnly, TypeOK
<1>11. CASE msg_stop
  BY <1>11 DEF msg_stop, OnlineInv, OnlineOnly
<1>12. ASSUME NEW s \in Socket, NEW id \in DeviceId, RegisterAgain(s, id) PROVE OnlineInv'
  BY <1>1, <1>12 DEF RegisterAgain, trustVars
<1>13. ASSUME NEW s \in Socket, NEW id \in DeviceId, RegisterFails(s, id) PROVE OnlineInv'
  BY <1>1, <1>13 DEF RegisterFails, trustVars
<1>14. ASSUME NEW s \in Socket, NEW eof \in BOOLEAN, Schema(s, eof) PROVE OnlineInv'
  BY <1>1, <1>14 DEF Schema
<1>15. ASSUME NEW s \in Socket, UnregisterFails(s) PROVE OnlineInv'
  BY <1>1, <1>15 DEF UnregisterFails, trustVars
<1>16. ASSUME NEW t \in TrustId, WatchDestroyed(t) PROVE OnlineInv'
  BY <1>1, <1>16 DEF WatchDestroyed
<1>17. CASE UNCHANGED vars
  BY <1>1, <1>17 DEF vars
<1> QED
  BY <1>2, <1>3, <1>4, <1>5, <1>6, <1>7, <1>8, <1>9, <1>10, <1>11, <1>12, <1>13,
     <1>14, <1>15, <1>16, <1>17 DEF Next, Connection, ThingRequest

\* "Maps sockets to sessions: online devices only", when no thing sends a PDU
\* that msg_process rejects.
THEOREM OnlineDevicesOnly ==
  ASSUME "data_error" \notin Env
  PROVE  Spec => []OnlineOnly
<1>1. Init => OnlineInv
  BY DEF Init, OnlineInv, OnlineOnly
<1>2. TrustInv /\ OnlineInv /\ [Next]_vars => OnlineInv'
  BY NextOnlineInv
<1>3. OnlineInv => OnlineOnly
  BY DEF OnlineInv
<1> QED
  BY <1>1, <1>2, <1>3, TrustInvariant, PTL DEF Spec

-----------------------------------------------------------------------------
(* Trust implements Credentials for things that keep to one id on a       *)
(* connection, have a pid and hang up themselves.                         *)

Orderly == Env = {} /\ 0 \notin PeerPid /\ 0 \notin DeviceId

\* The hang-ups to be served are of sockets that hung up, and the trust of a socket
\* remembers the pid of its peer, unless it logged in.
PeerInv ==
  /\ \A t \in hungup : conn[info[t].node] = "hungup"
  /\ \A s \in Socket : trust_map[s] # NULL =>
       info[trust_map[s]].id = 0 \/ info[trust_map[s]].pid = peer[s]

CredInv == TrustInv /\ OnlineInv /\ PeerInv

\* A registration that makes a device finds no trust at the socket.
LEMMA RegisterFindsNone ==
  ASSUME Orderly, CredInv, NEW s \in Socket, NEW id \in DeviceId,
         RegisterGuard(s, id), ~Retransmission(s, id)
  PROVE  trust_map[s] = NULL
BY DEF Orderly, CredInv, PeerInv, RegisterGuard, Retransmission

\* trust_create keeps PeerInv.
LEMMA CreateKeepsPeer ==
  ASSUME CredInv, NEW s \in Socket, NEW t \in TrustId, NEW u \in Uuid,
         NEW id \in Nat, NEW pid \in Nat, NEW rollback \in BOOLEAN,
         trust_create(s, t, u, id, pid, rollback),
         id = 0 \/ pid = peer[s],
         UNCHANGED <<conn, peer, hungup>>
  PROVE  PeerInv'
<1>1. TypeOK /\ ~Mapped(t) /\ t \notin hungup /\ NULL \notin TrustId
  BY FreeHasNoHolder, TrustAssumption DEF trust_create, TrustInv, CredInv
<1>2. ASSUME NEW x \in TrustId, x # t PROVE info'[x] = info[x]
  BY <1>1, <1>2 DEF trust_create, TypeOK
<1>3. info'[t].id = id /\ info'[t].pid = pid
  BY <1>1 DEF trust_create, TypeOK
<1>4. ASSUME NEW x \in hungup PROVE conn'[info'[x].node] = "hungup"
  BY <1>1, <1>2 DEF CredInv, PeerInv, TypeOK
<1>5. ASSUME NEW z \in Socket, trust_map'[z] # NULL
      PROVE  info'[trust_map'[z]].id = 0 \/ info'[trust_map'[z]].pid = peer'[z]
  <2>1. CASE z = s
    BY <1>1, <1>3, <2>1 DEF trust_create, TypeOK
  <2>2. CASE z # s
    <3>1. trust_map'[z] = trust_map[z] /\ trust_map[z] # t /\ trust_map[z] \in TrustId
      BY <1>1, <1>5, <2>2 DEF trust_create, TypeOK, Mapped
    <3> QED
      BY <1>1, <1>2, <3>1 DEF CredInv, PeerInv
  <2> QED
    BY <2>1, <2>2
<1> QED
  BY <1>4, <1>5 DEF PeerInv

\* Every step of orderly things keeps it.
LEMMA NextPeerInv ==
  ASSUME Orderly, CredInv, [Next]_vars
  PROVE  PeerInv'
<1>0. TypeOK /\ MapStructure /\ OnlineInv /\ PeerInv /\ NULL \notin TrustId
  BY TrustAssumption DEF CredInv, TrustInv
<1>1. ASSUME UNCHANGED <<conn, peer, info, hungup>>,
             \A z \in Socket : trust_map'[z] \in {trust_map[z], NULL}
      PROVE  PeerInv'
  BY <1>0, <1>1 DEF PeerInv
<1>2. CASE UNCHANGED vars
  BY <1>1, <1>2 DEF vars
<1>3. ASSUME NEW s \in Socket, Accept(s) PROVE PeerInv'
  BY <1>0, <1>3 DEF Accept, PeerInv, OnlineInv, OnlineOnly, TypeOK, Info
<1>4. ASSUME NEW s \in Socket, HangUp(s) PROVE PeerInv'
  BY <1>0, <1>4 DEF HangUp, PeerInv, TypeOK, Info, trustVars
<1>5. ASSUME NEW s \in Socket, Closed(s) PROVE PeerInv'
  BY <1>0, <1>5 DEF Closed, PeerInv, TypeOK, Info, trustVars
<1>6. ASSUME NEW s \in Socket, DataError(s) \/ DestroyChannel(s) PROVE PeerInv'
  BY <1>0, <1>6 DEF DataError, DestroyChannel, OnlineInv, Orderly
<1>7. ASSUME NEW s \in Socket, NEW id \in DeviceId, RegisterAgain(s, id) \/ RegisterFails(s, id)
      PROVE  PeerInv'
  BY <1>1, <1>7 DEF RegisterAgain, RegisterFails, trustVars
<1>8. ASSUME NEW s \in Socket, NEW id \in DeviceId, Register(s, id) PROVE PeerInv'
  <2>0. PeerPid \subseteq Nat /\ DeviceId \subseteq Nat
    BY TrustAssumption
  <2>1. peer[s] \in PeerPid
    BY <1>0 DEF TypeOK
  <2>2. peer[s] # 0 /\ peer[s] \in Nat /\ id \in Nat
    BY <2>0, <2>1 DEF Orderly
  <2>3. StoredPid(s) = peer[s]
    BY <2>2 DEF StoredPid
  <2> QED
    BY <1>8, <2>2, <2>3, CreateKeepsPeer DEF Register
<1>9. ASSUME NEW s \in Socket, NEW u \in Uuid, Authenticate(s, u) PROVE PeerInv'
  BY <1>9, CreateKeepsPeer DEF Authenticate
<1>10. ASSUME NEW s \in Socket, NEW eof \in BOOLEAN, Schema(s, eof) PROVE PeerInv'
  <2>1. trust_map[s] \in TrustId /\ info[trust_map[s]] \in Info
    BY <1>0, <1>10 DEF Schema, TypeOK
  <2>2. info' = [info EXCEPT ![trust_map[s]].rollback = FALSE]
        /\ UNCHANGED <<conn, peer, hungup, trust_map>>
    BY <1>10 DEF Schema
  <2>3. \A x \in TrustId : info'[x].id = info[x].id /\ info'[x].pid = info[x].pid
                           /\ info'[x].node = info[x].node
    BY <1>0, <2>1, <2>2 DEF TypeOK, Info
  <2> QED
    BY <1>0, <2>2, <2>3 DEF PeerInv, TypeOK
<1>11. ASSUME NEW s \in Socket, Unregister(s) \/ UnregisterFails(s) PROVE PeerInv'
  BY <1>0, <1>1, <1>11 DEF Unregister, UnregisterFails, trustVars, TypeOK
<1>12. ASSUME NEW t \in TrustId, WatchDestroyed(t) PROVE PeerInv'
  BY <1>1, <1>12 DEF WatchDestroyed
<1>13. ASSUME NEW t \in TrustId, NodeDisconnected(t) PROVE PeerInv'
  BY <1>0, <1>13 DEF NodeDisconnected, PeerInv, TypeOK, Info
<1>14. CASE msg_stop
  BY <1>14 DEF msg_stop, Orderly
<1> QED
  BY <1>2, <1>3, <1>4, <1>5, <1>6, <1>7, <1>8, <1>9, <1>10, <1>11, <1>12, <1>13, <1>14
     DEF Next, Connection, ThingRequest

\* A new trust at a socket without one changes the device of that socket only.
LEMMA CreateOwner ==
  ASSUME TrustInv, NEW s \in Socket, NEW t \in TrustId, NEW u \in Uuid,
         NEW id \in Nat, NEW pid \in Nat, NEW rollback \in BOOLEAN,
         trust_create(s, t, u, id, pid, rollback), trust_map[s] = NULL
  PROVE  /\ Owner' = [Owner EXCEPT ![s] = u]
         /\ Pending' = IF rollback THEN Pending \cup {s} ELSE Pending
<1>1. TypeOK /\ ~Mapped(t) /\ NULL \notin TrustId
  BY FreeHasNoHolder, TrustAssumption DEF trust_create, TrustInv
<1>2. trust_map'[s] = t /\ info'[t].uuid = u /\ info'[t].rollback = rollback
  BY <1>1 DEF trust_create, TypeOK
<1>3. ASSUME NEW z \in Socket, z # s
      PROVE  /\ trust_map'[z] = trust_map[z]
             /\ trust_map[z] # NULL => info'[trust_map[z]] = info[trust_map[z]]
  BY <1>1, <1>3 DEF trust_create, TypeOK, Mapped
<1>4. Owner' = [Owner EXCEPT ![s] = u]
  BY <1>1, <1>2, <1>3 DEF Owner
<1>5. \A z \in Socket : z \in Pending' <=> (z \in Pending \/ (z = s /\ rollback))
  BY <1>1, <1>2, <1>3 DEF Pending
<1>6. Pending \subseteq Socket /\ Pending' \subseteq Socket
  BY DEF Pending
<1> QED
  BY <1>4, <1>5, <1>6

\* Every step of orderly things is a step of Credentials, or none.
LEMMA NextCredentials ==
  ASSUME Orderly, CredInv, [Next]_vars
  PROVE  [C!Next]_(C!vars)
<1> DEFINE Line == [s \in Socket |-> IF conn[s] = "deaf" THEN "open" ELSE conn[s]]
<1>0. TypeOK /\ MapStructure /\ OnlineInv /\ PeerInv /\ TrustInv /\ NULL \notin TrustId \cup Uuid
  BY TrustAssumption DEF CredInv, TrustInv
<1>1. ASSUME UNCHANGED <<conn, info, trust_map, cloud>> PROVE UNCHANGED C!vars
  BY <1>1 DEF C!vars, Owner, Pending
<1>2. ASSUME UNCHANGED <<info, trust_map>> PROVE UNCHANGED <<Owner, Pending>>
  BY <1>2 DEF Owner, Pending
<1>3. ASSUME UNCHANGED conn PROVE UNCHANGED Line
  BY <1>3
<1>4. ASSUME NEW s \in Socket
      PROVE  /\ Line[s] = conn[s]
             /\ Owner[s] = NULL <=> trust_map[s] = NULL
             /\ trust_map[s] # NULL => /\ trust_map[s] \in TrustId
                                      /\ Owner[s] = info[trust_map[s]].uuid
                                      /\ Owner[s] \in Uuid
             /\ s \in Pending <=> trust_map[s] # NULL /\ info[trust_map[s]].rollback
  BY <1>0 DEF Owner, Pending, OnlineInv, TypeOK, Info
<1>5. CASE UNCHANGED vars
  BY <1>1, <1>5 DEF vars
<1>6. ASSUME NEW s \in Socket, Accept(s) PROVE C!Arrive(s)
  <2>1. Line' = [Line EXCEPT ![s] = "open"]
    BY <1>0, <1>6 DEF Accept, TypeOK
  <2>2. Line[s] = "free" /\ Owner[s] = NULL
    BY <1>0, <1>4, <1>6 DEF Accept, OnlineInv, OnlineOnly
  <2> QED
    BY <1>2, <1>6, <2>1, <2>2 DEF Accept, cloudVars, C!Arrive
<1>7. ASSUME NEW s \in Socket, DataError(s) \/ DestroyChannel(s) PROVE FALSE
  BY <1>0, <1>7 DEF DataError, DestroyChannel, OnlineInv, Orderly
<1>8. ASSUME NEW s \in Socket, HangUp(s) PROVE C!HangUp(s)
  <2>1. Line' = [Line EXCEPT ![s] = "hungup"]
    BY <1>0, <1>8 DEF HangUp, TypeOK
  <2>2. Line[s] = "open"
    BY <1>0, <1>4, <1>8 DEF HangUp, OnlineInv
  <2> QED
    BY <1>2, <1>8, <2>1, <2>2 DEF HangUp, trustVars, cloudVars, C!HangUp
<1>9. ASSUME NEW s \in Socket, Closed(s) PROVE C!Gone(s)
  <2>1. Line' = [Line EXCEPT ![s] = "free"]
    BY <1>0, <1>9 DEF Closed, TypeOK
  <2>2. Line[s] = "hungup" /\ Owner[s] = NULL
    BY <1>0, <1>4, <1>9 DEF Closed, OnlineInv, MapStructure
  <2> QED
    BY <1>2, <1>9, <2>1, <2>2 DEF Closed, trustVars, cloudVars, C!Gone
<1>10. ASSUME NEW s \in Socket, NEW id \in DeviceId, RegisterAgain(s, id) PROVE UNCHANGED C!vars
  BY <1>1, <1>10 DEF RegisterAgain, trustVars, cloudVars
<1>11. ASSUME NEW s \in Socket, NEW id \in DeviceId, RegisterFails(s, id)
       PROVE  \E u \in Uuid : C!Orphan(u)
  BY <1>2, <1>3, <1>11 DEF RegisterFails, trustVars, C!Orphan
<1>12. ASSUME NEW s \in Socket, NEW id \in DeviceId, Register(s, id)
       PROVE  \E u \in Uuid : C!Register(s, u)
  <2>1. trust_map[s] = NULL /\ Line[s] = "open" /\ UNCHANGED Line
    BY <1>3, <1>4, <1>12, RegisterFindsNone DEF Register, RegisterGuard
  <2>2. PICK t \in TrustId, u \in Uuid :
          /\ cloud[u] = "unused"
          /\ cloud' = [cloud EXCEPT ![u] = "present"]
          /\ trust_create(s, t, u, id, StoredPid(s), TRUE)
    BY <1>12 DEF Register
  <2>3. id \in Nat /\ StoredPid(s) \in Nat
    <3>1. PeerPid \subseteq Nat /\ DeviceId \subseteq Nat /\ INT32_MAX \in Nat
      BY TrustAssumption
    <3> QED
      BY <1>0, <3>1 DEF StoredPid, TypeOK
  <2>4. Owner' = [Owner EXCEPT ![s] = u] /\ Pending' = Pending \cup {s}
    BY <1>0, <2>1, <2>2, <2>3, CreateOwner
  <2> QED
    BY <1>4, <2>1, <2>2, <2>4 DEF C!Register
<1>13. ASSUME NEW s \in Socket, NEW u \in Uuid, Authenticate(s, u) PROVE C!Login(s, u)
  <2>1. PICK t \in TrustId : trust_create(s, t, u, 0, 0, FALSE)
    BY <1>13 DEF Authenticate
  <2>2. Owner' = [Owner EXCEPT ![s] = u] /\ Pending' = Pending
    BY <1>0, <1>13, <2>1, CreateOwner DEF Authenticate
  <2> QED
    BY <1>3, <1>4, <1>13, <2>2 DEF Authenticate, cloudVars, C!Login
<1>14. ASSUME NEW s \in Socket, NEW eof \in BOOLEAN, Schema(s, eof)
       PROVE  C!Complete(s) \/ UNCHANGED C!vars
  <2> DEFINE m == trust_map[s]
  <2>1. m \in TrustId /\ info' = [info EXCEPT ![m].rollback = FALSE]
        /\ UNCHANGED <<conn, trust_map, cloud>> /\ Line[s] = "open"
    BY <1>0, <1>4, <1>14 DEF Schema, TypeOK
  <2>2. /\ info'[m].rollback = FALSE /\ info'[m].uuid = info[m].uuid
        /\ \A x \in TrustId \ {m} : info'[x] = info[x]
    BY <1>0, <2>1 DEF TypeOK, Info
  <2>3. ASSUME NEW z \in Socket, z # s, trust_map[z] # NULL
        PROVE  info'[trust_map[z]] = info[trust_map[z]]
    BY <1>0, <1>4, <2>2, <2>3 DEF MapStructure
  <2>4. Owner' = Owner
    BY <1>0, <2>1, <2>2, <2>3 DEF Owner
  <2>5. \A z \in Socket : z \in Pending' <=> (z \in Pending /\ z # s)
    BY <1>0, <2>1, <2>2, <2>3 DEF Pending
  <2>6. Pending' = Pending \ {s}
    BY <2>5 DEF Pending
  <2>7. CASE s \in Pending
    BY <1>3, <2>1, <2>4, <2>6, <2>7 DEF C!Complete
  <2>8. CASE s \notin Pending
    BY <1>3, <2>1, <2>4, <2>6, <2>8 DEF C!vars
  <2> QED
    BY <2>7, <2>8
<1>15. ASSUME NEW s \in Socket, UNCHANGED info, trust_map' = [trust_map EXCEPT ![s] = NULL]
       PROVE  Owner' = [Owner EXCEPT ![s] = NULL] /\ Pending' = Pending \ {s}
  <2>1. Owner' = [Owner EXCEPT ![s] = NULL]
    BY <1>0, <1>15 DEF Owner, TypeOK
  <2>2. \A z \in Socket : z \in Pending' <=> (z \in Pending /\ z # s)
    BY <1>0, <1>15 DEF Pending, TypeOK
  <2> QED
    BY <2>1, <2>2 DEF Pending
<1>16. ASSUME NEW s \in Socket, Unregister(s) \/ UnregisterFails(s) PROVE C!Unregister(s)
  <2>1. /\ Line[s] = "open" /\ UNCHANGED Line
        /\ Owner[s] # NULL /\ cloud[Owner[s]] = "present"
        /\ cloud' = [cloud EXCEPT ![Owner[s]] = "removed"]
    BY <1>3, <1>4, <1>16 DEF Unregister, UnregisterFails
  <2>2. \/ Owner' = [Owner EXCEPT ![s] = NULL] /\ Pending' = Pending \ {s}
        \/ UNCHANGED <<Owner, Pending>>
    BY <1>2, <1>15, <1>16 DEF Unregister, UnregisterFails, trustVars
  <2> QED
    BY <2>1, <2>2 DEF C!Unregister
<1>17. ASSUME NEW t \in TrustId, WatchDestroyed(t) PROVE UNCHANGED C!vars
  BY <1>1, <1>17 DEF WatchDestroyed, cloudVars
<1>18. ASSUME NEW t \in TrustId, NodeDisconnected(t)
       PROVE  (\E s \in Socket : C!Revoke(s)) \/ UNCHANGED C!vars
  <2> DEFINE s == info[t].node
             m == trust_map[s]
  <2>1. /\ s \in Socket /\ conn[s] = "hungup" /\ UNCHANGED <<conn, info>>
        /\ trust_map' = [trust_map EXCEPT ![s] = NULL] /\ Rollback(m)
    BY <1>0, <1>18 DEF NodeDisconnected, PeerInv, TypeOK, Info
  <2>2. CASE m = NULL
    <3>1. trust_map' = trust_map /\ cloud' = cloud
      BY <1>0, <2>1, <2>2 DEF Rollback, TypeOK
    <3> QED
      BY <1>1, <2>1, <3>1
  <2>3. CASE m # NULL
    <3>1. Owner' = [Owner EXCEPT ![s] = NULL] /\ Pending' = Pending \ {s} /\ UNCHANGED Line
      BY <1>3, <1>15, <2>1
    <3>2. Line[s] = "hungup" /\ Owner[s] # NULL /\ Owner[s] = info[m].uuid
      BY <1>4, <2>1, <2>3
    <3>3. \/ UNCHANGED cloud
          \/ /\ s \in Pending
             /\ cloud[Owner[s]] = "present"
             /\ cloud' = [cloud EXCEPT ![Owner[s]] = "removed"]
      BY <1>4, <2>1, <2>3, <3>2 DEF Rollback
    <3>4. C!Revoke(s)
      BY <3>1, <3>2, <3>3 DEF C!Revoke
    <3> QED
      BY <2>1, <3>4
  <2> QED
    BY <2>2, <2>3
<1>19. CASE msg_stop
  BY <1>19 DEF msg_stop, Orderly
<1> QED
  BY <1>5, <1>6, <1>7, <1>8, <1>9, <1>10, <1>11, <1>12, <1>13, <1>14, <1>16, <1>17,
     <1>18, <1>19 DEF Next, Connection, ThingRequest, C!Next

\* Orderly things keep CredInv.
LEMMA CredInvariant ==
  ASSUME Orderly
  PROVE  Spec => []CredInv
<1>1. Init => OnlineInv /\ PeerInv
  BY DEF Init, OnlineInv, OnlineOnly, PeerInv
<1>2. TrustInv /\ OnlineInv /\ [Next]_vars => OnlineInv'
  BY NextOnlineInv DEF Orderly
<1>3. TrustInv /\ OnlineInv /\ PeerInv /\ [Next]_vars => PeerInv'
  BY NextPeerInv DEF CredInv
<1> QED
  BY <1>1, <1>2, <1>3, TrustInvariant, PTL DEF Spec, CredInv

\* Counters, channels, watches and callbacks of msg.c amount to the promise of
\* Credentials, for any number of things that are orderly.
THEOREM CredentialsImplemented ==
  ASSUME Orderly
  PROVE  Spec => ImplementsCredentials
<1>1. Init => C!Init
  BY DEF Init, C!Init, Owner, Pending
<1>2. CredInv /\ [Next]_vars => [C!Next]_(C!vars)
  BY NextCredentials
<1> QED
  BY <1>1, <1>2, CredInvariant, PTL DEF Spec, ImplementsCredentials, C!Spec

-----------------------------------------------------------------------------
(* A device that nobody completed does not outlive its connection, and an  *)
(* update of a device reaches the trust of its own thing.                  *)

\* WatchFeedsOwner with what makes it inductive: a watched device was in the
\* cloud when the watch was made, so no later registration is given its name.
WatchInv ==
  /\ WatchFeedsOwner
  /\ \A t \in TrustId : watch[t] => cloud[info[t].uuid] # "unused"

\* A new trust at a socket without one: the other trusts and their entries stay.
LEMMA CreateElsewhere ==
  ASSUME TrustInv, NEW s \in Socket, NEW t \in TrustId, NEW u \in Uuid,
         NEW id \in Nat, NEW pid \in Nat, NEW rollback \in BOOLEAN,
         trust_create(s, t, u, id, pid, rollback)
  PROVE  /\ ~Mapped(t) /\ ~watch[t]
         /\ trust_map'[s] = t
         /\ info'[t].id = id /\ info'[t].pid = pid /\ info'[t].rollback = rollback
         /\ info'[t].uuid = u /\ info'[t].node = s
         /\ \A x \in TrustId \ {t} : info'[x] = info[x] /\ watch'[x] = watch[x]
         /\ \A z \in Socket \ {s} : trust_map'[z] = trust_map[z] /\ trust_map[z] # t
<1>1. TypeOK /\ ~Mapped(t) /\ ~watch[t]
  BY FreeHasNoHolder DEF trust_create, TrustInv
<1>2. \A x \in TrustId \ {t} : info'[x] = info[x] /\ watch'[x] = watch[x]
  BY <1>1 DEF trust_create, TypeOK
<1>3. \A z \in Socket \ {s} : trust_map'[z] = trust_map[z] /\ trust_map[z] # t
  BY <1>1 DEF trust_create, TypeOK, Mapped
<1> QED
  BY <1>1, <1>2, <1>3 DEF trust_create, TypeOK

\* trust_create at a socket without a trust, for a device that is or becomes
\* present, keeps WatchInv.
LEMMA CreateKeepsWatch ==
  ASSUME TrustInv, WatchInv, NEW s \in Socket, NEW t \in TrustId, NEW u \in Uuid,
         NEW id \in Nat, NEW pid \in Nat, NEW rollback \in BOOLEAN,
         trust_create(s, t, u, id, pid, rollback), trust_map[s] = NULL,
         cloud' = [cloud EXCEPT ![u] = "present"],
         cloud[u] \in {"unused", "present"}
  PROVE  WatchInv'
<1>1. TypeOK /\ NULL \notin TrustId
  BY TrustAssumption DEF TrustInv
<1>2. /\ trust_map'[s] = t
      /\ info'[t].uuid = u /\ info'[t].node = s
      /\ \A x \in TrustId \ {t} : info'[x] = info[x] /\ watch'[x] = watch[x]
      /\ \A z \in Socket \ {s} : trust_map'[z] = trust_map[z]
  BY CreateElsewhere
<1>3. ASSUME NEW x \in TrustId, watch'[x]
      PROVE  /\ cloud'[info'[x].uuid] # "unused"
             /\ cloud'[info'[x].uuid] = "present" => trust_map'[info'[x].node] = x
  <2>1. CASE x = t
    BY <1>1, <1>2, <2>1 DEF TypeOK
  <2>2. CASE x # t
    <3>1. watch[x] /\ info'[x] = info[x] /\ info[x].node \in Socket /\ info[x].uuid \in Uuid
      BY <1>1, <1>2, <1>3, <2>2 DEF TypeOK, Info
    <3>2. cloud[info[x].uuid] # "unused"
      BY <3>1 DEF WatchInv
    <3>3. cloud'[info[x].uuid] = cloud[info[x].uuid]
      BY <1>1, <3>1, <3>2 DEF TypeOK
    <3>4. cloud[info[x].uuid] = "present" => trust_map[info[x].node] = x
      BY <3>1 DEF WatchInv, WatchFeedsOwner
    <3>5. cloud[info[x].uuid] = "present" => info[x].node # s
      BY <1>1, <3>4
    <3> QED
      BY <1>2, <3>1, <3>2, <3>3, <3>4, <3>5
  <2> QED
    BY <2>1, <2>2
<1> QED
  BY <1>3 DEF WatchInv, WatchFeedsOwner

\* Every step of orderly things keeps WatchInv.
LEMMA NextWatchInv ==
  ASSUME Orderly, CredInv, WatchInv, [Next]_vars
  PROVE  WatchInv'
<1>0. TypeOK /\ TrustInv /\ MapStructure /\ OnlineInv /\ NULL \notin TrustId
  BY TrustAssumption DEF CredInv, TrustInv
<1>1. ASSUME UNCHANGED <<info, watch, trust_map, cloud>> PROVE WatchInv'
  BY <1>1 DEF WatchInv, WatchFeedsOwner
<1>2. CASE UNCHANGED vars
  BY <1>1, <1>2 DEF vars
<1>3. ASSUME NEW s \in Socket, Connection(s) PROVE WatchInv'
  <2>1. ~DataError(s) /\ ~DestroyChannel(s)
    BY <1>0 DEF DataError, DestroyChannel, OnlineInv, Orderly
  <2> QED
    BY <1>1, <1>3, <2>1 DEF Connection, Accept, HangUp, Closed, trustVars, cloudVars
<1>4. ASSUME NEW s \in Socket, NEW id \in DeviceId, RegisterAgain(s, id) PROVE WatchInv'
  BY <1>1, <1>4 DEF RegisterAgain, trustVars, cloudVars
<1>5. ASSUME NEW s \in Socket, NEW id \in DeviceId, RegisterFails(s, id) PROVE WatchInv'
  <2>1. PICK u \in Uuid : cloud[u] = "unused" /\ cloud' = [cloud EXCEPT ![u] = "present"]
    BY <1>5 DEF RegisterFails
  <2>2. UNCHANGED <<info, watch, trust_map>>
    BY <1>5 DEF RegisterFails, trustVars
  <2>3. ASSUME NEW x \in TrustId, watch[x]
        PROVE  cloud'[info[x].uuid] = cloud[info[x].uuid]
    BY <1>0, <2>1, <2>3 DEF WatchInv, TypeOK, Info
  <2> QED
    BY <2>2, <2>3 DEF WatchInv, WatchFeedsOwner
<1>6. ASSUME NEW s \in Socket, NEW id \in DeviceId, Register(s, id) PROVE WatchInv'
  <2>1. PICK t \in TrustId, u \in Uuid :
          /\ cloud[u] = "unused"
          /\ cloud' = [cloud EXCEPT ![u] = "present"]
          /\ trust_create(s, t, u, id, StoredPid(s), TRUE)
    BY <1>6 DEF Register
  <2>2. trust_map[s] = NULL
    BY <1>6, RegisterFindsNone DEF Register
  <2>3. id \in Nat /\ StoredPid(s) \in Nat
    <3>1. PeerPid \subseteq Nat /\ DeviceId \subseteq Nat /\ INT32_MAX \in Nat
      BY TrustAssumption
    <3> QED
      BY <1>0, <3>1 DEF StoredPid, TypeOK
  <2> QED
    BY <1>0, <2>1, <2>2, <2>3, CreateKeepsWatch
<1>7. ASSUME NEW s \in Socket, NEW u \in Uuid, Authenticate(s, u) PROVE WatchInv'
  <2>1. PICK t \in TrustId : trust_create(s, t, u, 0, 0, FALSE)
    BY <1>7 DEF Authenticate
  <2>2. trust_map[s] = NULL /\ cloud[u] = "present" /\ cloud' = cloud
    BY <1>7 DEF Authenticate, cloudVars
  <2>3. cloud' = [cloud EXCEPT ![u] = "present"]
    BY <1>0, <2>2 DEF TypeOK
  <2> QED
    BY <1>0, <2>1, <2>2, <2>3, CreateKeepsWatch
<1>8. ASSUME NEW s \in Socket, NEW eof \in BOOLEAN, Schema(s, eof) PROVE WatchInv'
  <2>1. trust_map[s] \in TrustId
        /\ info' = [info EXCEPT ![trust_map[s]].rollback = FALSE]
        /\ UNCHANGED <<watch, trust_map, cloud>>
    BY <1>0, <1>8 DEF Schema, TypeOK
  <2>2. \A x \in TrustId : info'[x].uuid = info[x].uuid /\ info'[x].node = info[x].node
    BY <1>0, <2>1 DEF TypeOK, Info
  <2> QED
    BY <2>1, <2>2 DEF WatchInv, WatchFeedsOwner
<1>9. ASSUME NEW s \in Socket, Unregister(s) PROVE WatchInv'
  <2> DEFINE m == trust_map[s]
  <2>1. /\ m \in TrustId
        /\ UNCHANGED <<info, watch>>
        /\ cloud' = [cloud EXCEPT ![info[m].uuid] = "removed"]
        /\ trust_map' = [trust_map EXCEPT ![s] = NULL]
    BY <1>0, <1>9 DEF Unregister, TypeOK
  <2>2. ASSUME NEW x \in TrustId, watch[x]
        PROVE  /\ cloud'[info[x].uuid] # "unused"
               /\ cloud'[info[x].uuid] = "present" => trust_map'[info[x].node] = x
    <3>1. info[x].uuid \in Uuid /\ info[x].node \in Socket /\ info[m].uuid \in Uuid
      BY <1>0, <2>1 DEF TypeOK, Info
    <3>2. CASE info[x].uuid = info[m].uuid
      BY <1>0, <2>1, <3>1, <3>2 DEF TypeOK
    <3>3. CASE info[x].uuid # info[m].uuid
      <4>1. cloud'[info[x].uuid] = cloud[info[x].uuid]
        BY <1>0, <2>1, <3>1, <3>3 DEF TypeOK
      <4>2. cloud[info[x].uuid] = "present" => info[x].node # s
        BY <2>2, <3>3 DEF WatchInv, WatchFeedsOwner
      <4> QED
        BY <1>0, <2>1, <2>2, <3>1, <4>1, <4>2 DEF WatchInv, WatchFeedsOwner, TypeOK
    <3> QED
      BY <3>2, <3>3
  <2> QED
    BY <2>1, <2>2 DEF WatchInv, WatchFeedsOwner
<1>10. ASSUME NEW s \in Socket, UnregisterFails(s) PROVE WatchInv'
  <2>1. /\ info[trust_map[s]].uuid \in Uuid
        /\ UNCHANGED <<info, watch, trust_map>>
        /\ cloud' = [cloud EXCEPT ![info[trust_map[s]].uuid] = "removed"]
    BY <1>0, <1>10 DEF UnregisterFails, TypeOK, Info, trustVars
  <2>2. \A u \in Uuid : cloud'[u] \in {cloud[u], "removed"}
    BY <1>0, <2>1 DEF TypeOK
  <2>3. \A x \in TrustId : info[x].uuid \in Uuid
    BY <1>0 DEF TypeOK, Info
  <2> QED
    BY <2>1, <2>2, <2>3 DEF WatchInv, WatchFeedsOwner
<1>11. ASSUME NEW t \in TrustId, WatchDestroyed(t) PROVE WatchInv'
  <2>1. /\ \A x \in TrustId : watch'[x] => watch[x]
        /\ UNCHANGED <<info, trust_map, cloud>>
    BY <1>0, <1>11 DEF WatchDestroyed, TypeOK, cloudVars
  <2> QED
    BY <2>1 DEF WatchInv, WatchFeedsOwner
<1>12. ASSUME NEW t \in TrustId, NodeDisconnected(t) PROVE WatchInv'
  <2> DEFINE s == info[t].node
             m == trust_map[s]
  <2>1. /\ s \in Socket /\ Rollback(m) /\ info' = info
        /\ trust_map' = [trust_map EXCEPT ![s] = NULL]
        /\ watch' = [x \in TrustId |-> watch[x] /\ x # m]
    BY <1>0, <1>12 DEF NodeDisconnected, TypeOK, Info
  <2>2. \A u \in Uuid : cloud'[u] \in {cloud[u], "removed"}
    <3>1. m # NULL => info[m].uuid \in Uuid
      BY <1>0, <2>1 DEF TypeOK, Info
    <3> QED
      BY <1>0, <2>1, <3>1 DEF Rollback, TypeOK
  <2>3. ASSUME NEW x \in TrustId, watch'[x]
        PROVE  /\ cloud'[info[x].uuid] # "unused"
               /\ cloud'[info[x].uuid] = "present" => trust_map'[info[x].node] = x
    <3>1. watch[x] /\ x # m /\ info[x].uuid \in Uuid /\ info[x].node \in Socket
      BY <1>0, <2>1, <2>3 DEF TypeOK, Info
    <3>2. cloud[info[x].uuid] # "unused"
          /\ (cloud[info[x].uuid] = "present" => trust_map[info[x].node] = x)
      BY <3>1 DEF WatchInv, WatchFeedsOwner
    <3>3. cloud[info[x].uuid] = "present" => info[x].node # s
      BY <3>1, <3>2
    <3> QED
      BY <1>0, <2>1, <2>2, <3>1, <3>2, <3>3 DEF TypeOK
  <2> QED
    BY <2>1, <2>3 DEF WatchInv, WatchFeedsOwner
<1>13. CASE msg_stop
  BY <1>13 DEF msg_stop, Orderly
<1> QED
  BY <1>2, <1>3, <1>4, <1>5, <1>6, <1>7, <1>8, <1>9, <1>10, <1>11, <1>12, <1>13
     DEF Next, ThingRequest

\* An update of a device that is in the cloud is handed to the trust of the thing
\* that has its credentials, and to no earlier one that waits to be freed.
THEOREM WatchFeedsItsOwner ==
  ASSUME Orderly
  PROVE  Spec => []WatchFeedsOwner
<1>1. Init => WatchInv
  BY DEF Init, WatchInv, WatchFeedsOwner
<1>2. CredInv /\ WatchInv /\ [Next]_vars => WatchInv'
  BY NextWatchInv
<1>3. WatchInv => WatchFeedsOwner
  BY DEF WatchInv
<1> QED
  BY <1>1, <1>2, <1>3, CredInvariant, PTL DEF Spec

\* The device named u has a connection that may still complete or roll it back.
Curable(u) ==
  \E s \in Socket : /\ trust_map[s] # NULL
                    /\ info[trust_map[s]].uuid = u
                    /\ info[trust_map[s]].rollback

\* A step that keeps a device curable, or changes neither the map nor what is in
\* it, and creates no device that could become a zombie, keeps NoZombies.
LEMMA StaysCurable ==
  ASSUME NoZombies, complete \subseteq complete', failed \subseteq failed',
         \A u \in Uuid \ (Foreign \cup complete' \cup failed') :
           cloud'[u] = "present" =>
             (cloud[u] = "present" /\ (Curable(u) => Curable(u)')) \/ Curable(u)'
  PROVE  NoZombies'
BY DEF NoZombies, Curable

\* A new trust at a socket without one leaves the others as they are.
LEMMA CreateKeepsCurable ==
  ASSUME TrustInv, NEW s \in Socket, NEW t \in TrustId, NEW u \in Uuid,
         NEW id \in Nat, NEW pid \in Nat, NEW rollback \in BOOLEAN,
         trust_create(s, t, u, id, pid, rollback), trust_map[s] = NULL
  PROVE  /\ \A x \in Uuid : Curable(x) => Curable(x)'
         /\ rollback => Curable(u)'
<1>1. TypeOK /\ NULL \notin TrustId
  BY TrustAssumption DEF TrustInv
<1>2. info'[t].uuid = u /\ info'[t].rollback = rollback
  BY CreateElsewhere
<1>3. /\ trust_map'[s] = t
      /\ \A x \in TrustId \ {t} : info'[x] = info[x]
      /\ \A z \in Socket \ {s} : trust_map'[z] = trust_map[z] /\ trust_map[z] # t
  BY CreateElsewhere
<1>4. rollback => Curable(u)'
  BY <1>1, <1>2, <1>3 DEF Curable
<1>5. ASSUME NEW x \in Uuid, Curable(x) PROVE Curable(x)'
  <2>1. PICK z \in Socket : /\ trust_map[z] # NULL
                            /\ info[trust_map[z]].uuid = x
                            /\ info[trust_map[z]].rollback
    BY <1>5 DEF Curable
  <2>2. z # s /\ trust_map'[z] = trust_map[z] /\ trust_map[z] \in TrustId \ {t}
    BY <1>1, <1>3, <2>1 DEF TypeOK
  <2> QED
    BY <1>3, <2>1, <2>2 DEF Curable
<1> QED
  BY <1>4, <1>5

\* Every step of orderly things keeps NoZombies.
LEMMA NextNoZombies ==
  ASSUME Orderly, CredInv, NoZombies, [Next]_vars
  PROVE  NoZombies'
<1>0. TypeOK /\ TrustInv /\ MapStructure /\ OnlineInv /\ NULL \notin TrustId
  BY TrustAssumption DEF CredInv, TrustInv
<1>1. ASSUME UNCHANGED <<info, trust_map, cloud, complete, failed>> PROVE NoZombies'
  BY <1>1 DEF NoZombies
<1>2. CASE UNCHANGED vars
  BY <1>1, <1>2 DEF vars
<1>3. ASSUME NEW s \in Socket, Connection(s) PROVE NoZombies'
  <2>1. ~DataError(s) /\ ~DestroyChannel(s)
    BY <1>0 DEF DataError, DestroyChannel, OnlineInv, Orderly
  <2> QED
    BY <1>1, <1>3, <2>1 DEF Connection, Accept, HangUp, Closed, trustVars, cloudVars
<1>4. ASSUME NEW s \in Socket, NEW id \in DeviceId, RegisterAgain(s, id) PROVE NoZombies'
  BY <1>1, <1>4 DEF RegisterAgain, trustVars, cloudVars
<1>5. ASSUME NEW s \in Socket, NEW id \in DeviceId, RegisterFails(s, id) PROVE NoZombies'
  <2>1. PICK u \in Uuid : /\ cloud' = [cloud EXCEPT ![u] = "present"]
                          /\ failed' = failed \cup {u}
    BY <1>5 DEF RegisterFails
  <2>2. UNCHANGED <<info, trust_map, complete>>
    BY <1>5 DEF RegisterFails, trustVars
  <2>3. \A x \in Uuid \ {u} : cloud'[x] = cloud[x]
    BY <1>0, <2>1 DEF TypeOK
  <2> QED
    BY <2>1, <2>2, <2>3 DEF NoZombies
<1>6. ASSUME NEW s \in Socket, NEW id \in DeviceId, Register(s, id) PROVE NoZombies'
  <2>1. PICK t \in TrustId, u \in Uuid :
          /\ cloud' = [cloud EXCEPT ![u] = "present"]
          /\ trust_create(s, t, u, id, StoredPid(s), TRUE)
    BY <1>6 DEF Register
  <2>2. trust_map[s] = NULL
    BY <1>6, RegisterFindsNone DEF Register
  <2>3. id \in Nat /\ StoredPid(s) \in Nat
    <3>1. PeerPid \subseteq Nat /\ DeviceId \subseteq Nat /\ INT32_MAX \in Nat
      BY TrustAssumption
    <3> QED
      BY <1>0, <3>1 DEF StoredPid, TypeOK
  <2>4. (\A x \in Uuid : Curable(x) => Curable(x)') /\ Curable(u)'
    BY <1>0, <2>1, <2>2, <2>3, CreateKeepsCurable
  <2>5. \A x \in Uuid \ {u} : cloud'[x] = cloud[x]
    BY <1>0, <2>1 DEF TypeOK
  <2>6. UNCHANGED <<complete, failed>>
    BY <1>6 DEF Register
  <2> QED
    BY <2>4, <2>5, <2>6, StaysCurable
<1>7. ASSUME NEW s \in Socket, NEW u \in Uuid, Authenticate(s, u) PROVE NoZombies'
  <2>1. PICK t \in TrustId : trust_create(s, t, u, 0, 0, FALSE)
    BY <1>7 DEF Authenticate
  <2>2. trust_map[s] = NULL /\ UNCHANGED <<cloud, complete, failed>>
    BY <1>7 DEF Authenticate, cloudVars
  <2>3. \A x \in Uuid : Curable(x) => Curable(x)'
    BY <1>0, <2>1, <2>2, CreateKeepsCurable
  <2> QED
    BY <2>2, <2>3, StaysCurable
<1>8. ASSUME NEW s \in Socket, NEW eof \in BOOLEAN, Schema(s, eof) PROVE NoZombies'
  <2> DEFINE m == trust_map[s]
  <2>1. /\ m \in TrustId
        /\ info' = [info EXCEPT ![m].rollback = FALSE]
        /\ complete' = complete \cup {info[m].uuid}
        /\ UNCHANGED <<trust_map, cloud, failed>>
    BY <1>0, <1>8 DEF Schema, TypeOK
  <2>2. \A x \in TrustId \ {m} : info'[x] = info[x]
    BY <1>0, <2>1 DEF TypeOK
  <2>3. ASSUME NEW u \in Uuid, u # info[m].uuid, Curable(u) PROVE Curable(u)'
    <3>1. PICK z \in Socket : /\ trust_map[z] # NULL
                              /\ info[trust_map[z]].uuid = u
                              /\ info[trust_map[z]].rollback
      BY <2>3 DEF Curable
    <3>2. trust_map[z] \in TrustId \ {m}
      BY <1>0, <2>3, <3>1 DEF TypeOK
    <3> QED
      BY <2>1, <2>2, <3>1, <3>2 DEF Curable
  <2> QED
    BY <2>1, <2>3, StaysCurable
<1>9. ASSUME NEW s \in Socket, trust_map' = [trust_map EXCEPT ![s] = NULL], info' = info,
             NEW u \in Uuid, Curable(u),
             trust_map[s] = NULL \/ ~info[trust_map[s]].rollback
                                 \/ info[trust_map[s]].uuid # u
      PROVE  Curable(u)'
  <2>1. PICK z \in Socket : /\ trust_map[z] # NULL
                            /\ info[trust_map[z]].uuid = u
                            /\ info[trust_map[z]].rollback
    BY <1>9 DEF Curable
  <2>2. z # s
    BY <1>9, <2>1
  <2> QED
    BY <1>0, <1>9, <2>1, <2>2 DEF Curable, TypeOK
<1>10. ASSUME NEW s \in Socket, Unregister(s) PROVE NoZombies'
  <2> DEFINE m == trust_map[s]
  <2>1. /\ m \in TrustId /\ info[m].uuid \in Uuid
        /\ cloud' = [cloud EXCEPT ![info[m].uuid] = "removed"]
        /\ trust_map' = [trust_map EXCEPT ![s] = NULL]
        /\ UNCHANGED <<info, complete, failed>>
    BY <1>0, <1>10 DEF Unregister, TypeOK, Info
  <2>2. cloud'[info[m].uuid] = "removed"
        /\ \A x \in Uuid \ {info[m].uuid} : cloud'[x] = cloud[x]
    BY <1>0, <2>1 DEF TypeOK
  <2>3. ASSUME NEW x \in Uuid, x # info[m].uuid, Curable(x) PROVE Curable(x)'
    BY <1>9, <2>1, <2>3
  <2> QED
    BY <2>1, <2>2, <2>3, StaysCurable
<1>11. ASSUME NEW s \in Socket, UnregisterFails(s) PROVE NoZombies'
  <2>1. /\ info[trust_map[s]].uuid \in Uuid
        /\ cloud' = [cloud EXCEPT ![info[trust_map[s]].uuid] = "removed"]
        /\ UNCHANGED <<info, trust_map, complete, failed>>
    BY <1>0, <1>11 DEF UnregisterFails, TypeOK, Info, trustVars
  <2>2. \A x \in Uuid : cloud'[x] = "present" => cloud[x] = "present"
    BY <1>0, <2>1 DEF TypeOK
  <2> QED
    BY <2>1, <2>2 DEF NoZombies
<1>12. ASSUME NEW t \in TrustId, WatchDestroyed(t) PROVE NoZombies'
  BY <1>1, <1>12 DEF WatchDestroyed, cloudVars
<1>13. ASSUME NEW t \in TrustId, NodeDisconnected(t) PROVE NoZombies'
  <2> DEFINE s == info[t].node
             m == trust_map[s]
  <2>1. /\ s \in Socket /\ Rollback(m) /\ UNCHANGED <<info, complete>>
        /\ trust_map' = [trust_map EXCEPT ![s] = NULL]
    BY <1>0, <1>13 DEF NodeDisconnected, TypeOK, Info
  <2>2. m # NULL => m \in TrustId /\ info[m].uuid \in Uuid
    BY <1>0, <2>1 DEF TypeOK, Info
  <2>3. CASE m # NULL /\ info[m].rollback /\ cloud[info[m].uuid] = "present"
    <3>1. \A x \in Uuid : cloud'[x] = "present" => cloud[x] = "present"
      BY <1>0, <2>1, <2>2, <2>3 DEF Rollback, TypeOK
    <3>2. cloud'[info[m].uuid] = "removed" \/ info[m].uuid \in failed'
      BY <1>0, <2>1, <2>2, <2>3 DEF Rollback, TypeOK
    <3>3. failed \subseteq failed'
      BY <2>1, <2>3 DEF Rollback
    <3>4. ASSUME NEW x \in Uuid, x # info[m].uuid, Curable(x) PROVE Curable(x)'
      BY <1>9, <2>1, <3>4
    <3> QED
      BY <2>1, <3>1, <3>2, <3>3, <3>4, StaysCurable
  <2>4. CASE ~(m # NULL /\ info[m].rollback /\ cloud[info[m].uuid] = "present")
    <3>1. UNCHANGED <<cloud, failed>>
      BY <2>1, <2>4 DEF Rollback
    <3>2. ASSUME NEW x \in Uuid, cloud[x] = "present", Curable(x) PROVE Curable(x)'
      BY <1>9, <2>1, <2>4, <3>2
    <3> QED
      BY <2>1, <3>1, <3>2, StaysCurable
  <2> QED
    BY <2>3, <2>4
<1>14. CASE msg_stop
  BY <1>14 DEF msg_stop, Orderly
<1> QED
  BY <1>2, <1>3, <1>4, <1>5, <1>6, <1>7, <1>8, <1>10, <1>11, <1>12, <1>13, <1>14
     DEF Next, ThingRequest

\* "Remove from cloud if true": a device registered by an orderly thing that never
\* used its credentials leaves the cloud with the connection it was made on,
\* unless a request to the cloud failed.
THEOREM ZombiesRemoved ==
  ASSUME Orderly
  PROVE  Spec => []NoZombies
<1>1. Init => NoZombies
  BY DEF Init, NoZombies
<1>2. CredInv /\ NoZombies /\ [Next]_vars => NoZombies'
  BY NextNoZombies
<1> QED
  BY <1>1, <1>2, CredInvariant, PTL DEF Spec

-----------------------------------------------------------------------------
(* Register answers, whatever the environment does.                        *)

\* On a connection that msg_process reads, the trust in the map is the one the
\* last register answer came from; the hang-ups to be served are of connections
\* that hung up, so serving one takes the trust of no open connection.
AnswerInv ==
  /\ \A t \in hungup : conn[info[t].node] = "hungup"
  /\ \A s \in Socket :
       given[s] # NULL /\ peer[s] # 0 /\ running /\ conn[s] = "open" =>
         /\ trust_map[s] # NULL
         /\ info[trust_map[s]].id = given[s].id
         /\ info[trust_map[s]].pid = peer[s]
         /\ info[trust_map[s]].uuid = given[s].uuid

\* trust_create for the answer given, or on a connection that had none, keeps it.
LEMMA CreateKeepsAnswer ==
  ASSUME TrustInv, AnswerInv, NEW s \in Socket, NEW t \in TrustId, NEW u \in Uuid,
         NEW id \in Nat, NEW pid \in Nat, NEW rollback \in BOOLEAN,
         trust_create(s, t, u, id, pid, rollback),
         UNCHANGED <<conn, peer, hungup, running>>,
         \/ /\ given' = [given EXCEPT ![s] = [id |-> id, uuid |-> u]]
            /\ peer[s] # 0 => pid = peer[s]
         \/ given' = given /\ (peer[s] = 0 \/ given[s] = NULL)
  PROVE  AnswerInv'
<1>1. TypeOK /\ NULL \notin TrustId /\ t \notin hungup
  BY FreeHasNoHolder, TrustAssumption DEF TrustInv, trust_create
<1>2. /\ trust_map'[s] = t
      /\ info'[t].id = id /\ info'[t].pid = pid /\ info'[t].uuid = u
  BY CreateElsewhere
<1>3. /\ \A x \in TrustId \ {t} : info'[x] = info[x]
      /\ \A z \in Socket \ {s} : trust_map'[z] = trust_map[z] /\ trust_map[z] # t
  BY CreateElsewhere
<1>4. ASSUME NEW x \in hungup PROVE conn'[info'[x].node] = "hungup"
  BY <1>1, <1>3 DEF AnswerInv, TypeOK
<1>5. ASSUME NEW z \in Socket, given'[z] # NULL, peer'[z] # 0, running', conn'[z] = "open"
      PROVE  /\ trust_map'[z] # NULL
             /\ info'[trust_map'[z]].id = given'[z].id
             /\ info'[trust_map'[z]].pid = peer'[z]
             /\ info'[trust_map'[z]].uuid = given'[z].uuid
  <2>1. CASE z = s
    <3>1. given' = [given EXCEPT ![s] = [id |-> id, uuid |-> u]] /\ pid = peer[s]
      BY <1>5, <2>1
    <3>2. given'[s].id = id /\ given'[s].uuid = u
      BY <1>1, <3>1 DEF TypeOK
    <3> QED
      BY <1>1, <1>2, <2>1, <3>1, <3>2
  <2>2. CASE z # s
    <3>1. given'[z] = given[z]
      BY <1>1, <2>2 DEF TypeOK
    <3>2. /\ trust_map[z] # NULL
          /\ info[trust_map[z]].id = given[z].id
          /\ info[trust_map[z]].pid = peer[z]
          /\ info[trust_map[z]].uuid = given[z].uuid
      BY <1>5, <3>1 DEF AnswerInv
    <3>3. trust_map'[z] = trust_map[z] /\ info'[trust_map[z]] = info[trust_map[z]]
      BY <1>1, <1>3, <2>2, <3>2 DEF TypeOK
    <3> QED
      BY <3>1, <3>2, <3>3
  <2> QED
    BY <2>1, <2>2
<1> QED
  BY <1>4, <1>5 DEF AnswerInv

\* Every step keeps AnswerInv.
LEMMA NextAnswerInv ==
  ASSUME TrustInv, AnswerInv, [Next]_vars
  PROVE  AnswerInv'
<1>0. TypeOK /\ MapStructure /\ NULL \notin TrustId
  BY TrustAssumption DEF TrustInv
<1>1. ASSUME UNCHANGED <<conn, peer, info, trust_map, hungup, given, running>> PROVE AnswerInv'
  BY <1>1 DEF AnswerInv
<1>2. CASE UNCHANGED vars
  BY <1>1, <1>2 DEF vars
<1>3. ASSUME NEW s \in Socket, Accept(s) PROVE AnswerInv'
  BY <1>0, <1>3 DEF Accept, AnswerInv, TypeOK, Info
<1>4. ASSUME NEW s \in Socket, DataError(s) PROVE AnswerInv'
  BY <1>0, <1>4 DEF DataError, AnswerInv, TypeOK, Info, trustVars
<1>5. ASSUME NEW s \in Socket, DestroyChannel(s) PROVE AnswerInv'
  BY <1>0, <1>5 DEF DestroyChannel, AnswerInv, TypeOK, Info
<1>6. ASSUME NEW s \in Socket, HangUp(s) PROVE AnswerInv'
  BY <1>0, <1>6 DEF HangUp, AnswerInv, TypeOK, Info, trustVars
<1>7. ASSUME NEW s \in Socket, Closed(s) PROVE AnswerInv'
  BY <1>0, <1>7 DEF Closed, AnswerInv, TypeOK, Info, trustVars
<1>8. ASSUME NEW s \in Socket, NEW id \in DeviceId, RegisterAgain(s, id) PROVE AnswerInv'
  <2> DEFINE m == trust_map[s]
  <2>1. /\ m # NULL /\ info[m].id = id /\ info[m].pid = peer[s]
        /\ given' = [given EXCEPT ![s] = [id |-> id, uuid |-> info[m].uuid]]
        /\ UNCHANGED <<conn, peer, info, trust_map, hungup, running>>
    BY <1>8 DEF RegisterAgain, Retransmission, trustVars
  <2>2. given'[s].id = id /\ given'[s].uuid = info[m].uuid
    BY <1>0, <2>1 DEF TypeOK
  <2>3. \A z \in Socket \ {s} : given'[z] = given[z]
    BY <1>0, <2>1 DEF TypeOK
  <2> QED
    BY <2>1, <2>2, <2>3 DEF AnswerInv
<1>9. ASSUME NEW s \in Socket, NEW id \in DeviceId, RegisterFails(s, id) PROVE AnswerInv'
  BY <1>1, <1>9 DEF RegisterFails, trustVars
<1>10. ASSUME NEW s \in Socket, NEW id \in DeviceId, Register(s, id) PROVE AnswerInv'
  <2>1. PICK t \in TrustId, u \in Uuid :
          /\ trust_create(s, t, u, id, StoredPid(s), TRUE)
          /\ given' = [given EXCEPT ![s] = [id |-> id, uuid |-> u]]
    BY <1>10 DEF Register
  <2>2. UNCHANGED <<conn, peer, hungup, running>>
    BY <1>10 DEF Register
  <2>3. id \in Nat /\ StoredPid(s) \in Nat /\ (peer[s] # 0 => StoredPid(s) = peer[s])
    <3>1. PeerPid \subseteq Nat /\ DeviceId \subseteq Nat /\ INT32_MAX \in Nat
      BY TrustAssumption
    <3> QED
      BY <1>0, <3>1 DEF StoredPid, TypeOK
  <2> QED
    BY <2>1, <2>2, <2>3, CreateKeepsAnswer
<1>11. ASSUME NEW s \in Socket, NEW u \in Uuid, Authenticate(s, u) PROVE AnswerInv'
  <2>1. PICK t \in TrustId : trust_create(s, t, u, 0, 0, FALSE)
    BY <1>11 DEF Authenticate
  <2>2. UNCHANGED <<conn, peer, hungup, running, given>> /\ (peer[s] = 0 \/ given[s] = NULL)
    BY <1>11 DEF Authenticate, AnswerInv
  <2> QED
    BY <2>1, <2>2, CreateKeepsAnswer
<1>12. ASSUME NEW s \in Socket, NEW eof \in BOOLEAN, Schema(s, eof) PROVE AnswerInv'
  <2>1. /\ trust_map[s] \in TrustId
        /\ info' = [info EXCEPT ![trust_map[s]].rollback = FALSE]
        /\ UNCHANGED <<conn, peer, trust_map, hungup, given, running>>
    BY <1>0, <1>12 DEF Schema, TypeOK
  <2>2. \A x \in TrustId : /\ info'[x].id = info[x].id /\ info'[x].pid = info[x].pid
                           /\ info'[x].uuid = info[x].uuid /\ info'[x].node = info[x].node
    BY <1>0, <2>1 DEF TypeOK, Info
  <2> QED
    BY <1>0, <2>1, <2>2 DEF AnswerInv, TypeOK
<1>13. ASSUME NEW s \in Socket, Unregister(s) PROVE AnswerInv'
  BY <1>0, <1>13 DEF Unregister, AnswerInv, TypeOK
<1>14. ASSUME NEW s \in Socket, UnregisterFails(s) PROVE AnswerInv'
  BY <1>1, <1>14 DEF UnregisterFails, trustVars
<1>15. ASSUME NEW t \in TrustId, WatchDestroyed(t) PROVE AnswerInv'
  BY <1>1, <1>15 DEF WatchDestroyed
<1>16. ASSUME NEW t \in TrustId, NodeDisconnected(t) PROVE AnswerInv'
  <2> DEFINE s == info[t].node
  <2>1. /\ s \in Socket /\ conn[s] = "hungup"
        /\ trust_map' = [trust_map EXCEPT ![s] = NULL]
        /\ hungup' = hungup \ {t}
        /\ UNCHANGED <<conn, peer, info, given, running>>
    BY <1>0, <1>16 DEF NodeDisconnected, AnswerInv, TypeOK, Info
  <2>2. \A z \in Socket : conn[z] = "open" => trust_map'[z] = trust_map[z]
    BY <1>0, <2>1 DEF TypeOK
  <2> QED
    BY <2>1, <2>2 DEF AnswerInv
<1>17. CASE msg_stop
  BY <1>17 DEF msg_stop, AnswerInv
<1> QED
  BY <1>2, <1>3, <1>4, <1>5, <1>6, <1>7, <1>8, <1>9, <1>10, <1>11, <1>12, <1>13,
     <1>14, <1>15, <1>16, <1>17 DEF Next, Connection, ThingRequest

\* A step that gives the answer of a connection again gives the same.
LEMMA AnswersRepeat ==
  ASSUME TrustInv, AnswerInv, [Next]_vars, NEW s \in Socket,
         peer[s] # 0, given[s] # NULL, given'[s] # NULL, given'[s].id = given[s].id
  PROVE  given'[s].uuid = given[s].uuid
<1>0. TypeOK
  BY DEF TrustInv
<1>1. CASE given'[s] = given[s]
  BY <1>1
<1>2. ASSUME NEW z \in Socket, Accept(z) \/ Unregister(z) PROVE given'[s] = given[s]
  BY <1>0, <1>2 DEF Accept, Unregister, TypeOK
<1>3. ASSUME NEW z \in Socket, NEW id \in DeviceId, RegisterAgain(z, id), z = s
      PROVE  given'[s].uuid = given[s].uuid
  BY <1>0, <1>3 DEF RegisterAgain, RegisterGuard, AnswerInv, TypeOK
<1>4. ASSUME NEW z \in Socket, NEW id \in DeviceId, RegisterAgain(z, id), z # s
      PROVE  given'[s] = given[s]
  BY <1>0, <1>4 DEF RegisterAgain, TypeOK
<1>5. ASSUME NEW z \in Socket, NEW id \in DeviceId, Register(z, id), z = s
      PROVE  FALSE
  <2>1. given'[s].id = id
    BY <1>0, <1>5 DEF Register, TypeOK
  <2> QED
    BY <1>5, <2>1 DEF Register, RegisterGuard, Retransmission, AnswerInv
<1>6. ASSUME NEW z \in Socket, NEW id \in DeviceId, Register(z, id), z # s
      PROVE  given'[s] = given[s]
  BY <1>0, <1>6 DEF Register, TypeOK
<1>7. ASSUME NEW z \in Socket, \/ DataError(z) \/ DestroyChannel(z) \/ HangUp(z) \/ Closed(z)
                               \/ UnregisterFails(z)
                               \/ \E id \in DeviceId : RegisterFails(z, id)
                               \/ \E u \in Uuid : Authenticate(z, u)
                               \/ \E eof \in BOOLEAN : Schema(z, eof)
      PROVE  given'[s] = given[s]
  BY <1>7 DEF DataError, DestroyChannel, HangUp, Closed, UnregisterFails, RegisterFails,
              Authenticate, Schema
<1>8. ASSUME NEW t \in TrustId, WatchDestroyed(t) \/ NodeDisconnected(t)
      PROVE  given'[s] = given[s]
  BY <1>8 DEF WatchDestroyed, NodeDisconnected
<1>9. CASE msg_stop \/ UNCHANGED vars
  BY <1>1, <1>9 DEF msg_stop, vars
<1> QED
  BY <1>1, <1>2, <1>3, <1>4, <1>5, <1>6, <1>7, <1>8, <1>9
     DEF Next, Connection, ThingRequest

\* "If this device was previously added we just send the uuid/token again": true of
\* every peer that has a pid, also when other things hang up, or a number is used
\* again after a malformed PDU and the map still holds the trust of its last user.
THEOREM CredentialsRepeated == Spec => SameCredentials
<1>1. Init => AnswerInv
  BY DEF Init, AnswerInv
<1>2. TrustInv /\ AnswerInv /\ [Next]_vars => AnswerInv'
  BY NextAnswerInv
<1>3. TrustInv /\ AnswerInv /\ [Next]_vars =>
        [\A s \in Socket :
           /\ peer[s] # 0
           /\ given[s] # NULL
           /\ given'[s] # NULL
           /\ given'[s].id = given[s].id
           => given'[s].uuid = given[s].uuid]_vars
  BY AnswersRepeat
<1> QED
  BY <1>1, <1>2, <1>3, TrustInvariant, PTL DEF Spec, SameCredentials
=============================================================================
