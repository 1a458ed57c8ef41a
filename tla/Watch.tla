------------------------------- MODULE Watch -------------------------------
(***************************************************************************)
(* What msg.c expects of the watches of a cloud driver (async, async_stop  *)
(* and the two callbacks of struct proto_ops): a watch exists from the     *)
(* call of async until its destroy callback is called, which happens once, *)
(* because msg.c stops it, because the connection it was made on has hung  *)
(* up, or because the driver is removed; only an existing watch, on a      *)
(* connection that is up, is told of changes.  All this holds until        *)
(* something is asked of the driver that it does not withstand.            *)
(***************************************************************************)
CONSTANTS
  Watch,   \* user data of a watch: addresses of struct proto_watch
  Conn,    \* connections to the cloud
  NULL

VARIABLES
  life,    \* "on" from async to the destroy callback
  of,      \* the connection a watch was made on
  up,      \* connections the cloud has not ended
  last,    \* what passed between msg.c and the driver in the last step
  ended,   \* has the driver been removed?
  void     \* has the contract ended?

vars == <<life, of, up, last, ended, void>>

Quiet == <<"quiet", NULL>>

Init ==
  /\ life = [w \in Watch |-> "off"]
  /\ of = [w \in Watch |-> NULL]
  /\ up = {}
  /\ last = Quiet
  /\ ended = FALSE
  /\ void = FALSE

Connect(c) ==
  /\ c \notin up
  /\ up' = up \cup {c}
  /\ last' = Quiet
  /\ UNCHANGED <<life, of, ended>>

HangUp(c) ==
  /\ c \in up
  /\ up' = up \ {c}
  /\ last' = Quiet
  /\ UNCHANGED <<life, of, ended>>

Async(w, c) ==
  /\ life[w] = "off"
  /\ life' = [life EXCEPT ![w] = "on"]
  /\ of' = [of EXCEPT ![w] = c]
  /\ last' = <<"async", w>>
  /\ UNCHANGED <<up, ended>>

\* the destroy callback of w, and of no other watch
Destroyed(w) ==
  /\ life[w] = "on"
  /\ life' = [life EXCEPT ![w] = "off"]
  /\ UNCHANGED <<of, up, ended>>

Stop(w) == Destroyed(w) /\ last' = <<"stop", w>>

Drop(w) == Destroyed(w) /\ of[w] \notin up /\ last' = Quiet

Notify(w) ==
  /\ life[w] = "on"
  /\ of[w] \in up
  /\ last' = <<"told", w>>
  /\ UNCHANGED <<life, of, up, ended>>

\* The driver is removed, and some of the watches with it.
End ==
  /\ ended' = TRUE
  /\ last' = Quiet
  /\ \E D \in SUBSET {w \in Watch : life[w] = "on"} :
       life' = [w \in Watch |-> IF w \in D THEN "off" ELSE life[w]]
  /\ UNCHANGED <<of, up>>

\* Anything of which msg.c sees nothing.
Internal == last' = Quiet /\ UNCHANGED <<life, of, up, ended>>

Promised ==
  /\ ~ended
  /\ \/ \E c \in Conn : Connect(c) \/ HangUp(c)
     \/ \E w \in Watch : Stop(w) \/ Drop(w) \/ Notify(w)
     \/ \E w \in Watch, c \in Conn : Async(w, c)
     \/ End
     \/ Internal

Next ==
  \/ ~void /\ void' = FALSE /\ Promised
  \/ void' = TRUE

Spec == Init /\ [][Next]_vars
=============================================================================
