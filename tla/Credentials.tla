---------------------------- MODULE Credentials ----------------------------
(***************************************************************************)
(* What the gateway promises about the credentials of things: a connection *)
(* has none or those of one device, it got them by registering a new       *)
(* device or by logging in to an existing one, it keeps them until the     *)
(* thing unregisters or hangs up, and a thing that hangs up before its     *)
(* registration is complete takes its device along, if the cloud lets it.  *)
(* There are no reference counts, channels, watches or retransmissions.    *)
(***************************************************************************)
CONSTANTS Socket, Uuid, Foreign, NULL

VARIABLES
  line,     \* is there a thing behind a socket?
  owner,    \* the device of the thing behind a socket
  pending,  \* sockets whose registration is not complete
  cloud     \* the devices

vars == <<line, owner, pending, cloud>>

Init ==
  /\ line = [s \in Socket |-> "free"]
  /\ owner = [s \in Socket |-> NULL]
  /\ pending = {}
  /\ cloud = [u \in Uuid |-> IF u \in Foreign THEN "present" ELSE "unused"]

\* A thing arrives, without credentials.
Arrive(s) ==
  /\ line[s] = "free"
  /\ owner[s] = NULL
  /\ line' = [line EXCEPT ![s] = "open"]
  /\ UNCHANGED <<owner, pending, cloud>>

HangUp(s) ==
  /\ line[s] = "open"
  /\ line' = [line EXCEPT ![s] = "hungup"]
  /\ UNCHANGED <<owner, pending, cloud>>

\* The socket is free again, its credentials being revoked.
Gone(s) ==
  /\ line[s] = "hungup"
  /\ owner[s] = NULL
  /\ line' = [line EXCEPT ![s] = "free"]
  /\ UNCHANGED <<owner, pending, cloud>>

\* A device is created for a thing that has none.
Register(s, u) ==
  /\ line[s] = "open"
  /\ owner[s] = NULL
  /\ cloud[u] = "unused"
  /\ owner' = [owner EXCEPT ![s] = u]
  /\ pending' = pending \cup {s}
  /\ cloud' = [cloud EXCEPT ![u] = "present"]
  /\ UNCHANGED line

\* The cloud creates a device and the gateway does not hear of it.
Orphan(u) ==
  /\ cloud[u] = "unused"
  /\ cloud' = [cloud EXCEPT ![u] = "present"]
  /\ UNCHANGED <<line, owner, pending>>

Login(s, u) ==
  /\ line[s] = "open"
  /\ owner[s] = NULL
  /\ cloud[u] = "present"
  /\ owner' = [owner EXCEPT ![s] = u]
  /\ UNCHANGED <<line, pending, cloud>>

Complete(s) ==
  /\ line[s] = "open"
  /\ s \in pending
  /\ pending' = pending \ {s}
  /\ UNCHANGED <<line, owner, cloud>>

Unregister(s) ==
  /\ line[s] = "open"
  /\ owner[s] # NULL
  /\ cloud[owner[s]] = "present"
  /\ cloud' = [cloud EXCEPT ![owner[s]] = "removed"]
  /\ \/ owner' = [owner EXCEPT ![s] = NULL] /\ pending' = pending \ {s}
     \/ UNCHANGED <<owner, pending>>   \* the answer of the cloud is lost
  /\ UNCHANGED line

\* The credentials of a thing that hung up are revoked.
Revoke(s) ==
  /\ line[s] = "hungup"
  /\ owner[s] # NULL
  /\ owner' = [owner EXCEPT ![s] = NULL]
  /\ pending' = pending \ {s}
  /\ \/ UNCHANGED cloud
     \/ /\ s \in pending
        /\ cloud[owner[s]] = "present"
        /\ cloud' = [cloud EXCEPT ![owner[s]] = "removed"]
  /\ UNCHANGED line

Next ==
  \/ \E s \in Socket : \/ Arrive(s) \/ HangUp(s) \/ Gone(s)
                       \/ Complete(s) \/ Unregister(s) \/ Revoke(s)
  \/ \E s \in Socket, u \in Uuid : Register(s, u) \/ Login(s, u)
  \/ \E u \in Uuid : Orphan(u)

Spec == Init /\ [][Next]_vars
=============================================================================
