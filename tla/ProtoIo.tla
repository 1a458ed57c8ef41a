------------------------------ MODULE ProtoIo ------------------------------
(***************************************************************************)
(* What the two cloud drivers have in common: the watches msg.c asks for   *)
(* and the l_io each driver makes per watch to learn of the end of the     *)
(* connection.  The l_io object is external (ell): its destroy callback    *)
(* runs once, when the connection hangs up or when it is destroyed before. *)
(* The id a driver gives msg.c for a watch is the address of that l_io in  *)
(* an unsigned int.                                                        *)
(***************************************************************************)
EXTENDS Integers

CONSTANTS
  Watch,   \* addresses of struct proto_watch, msg.c's user data of a watch
  Conn,    \* sockets to the cloud; a number is used once
  Wide,    \* does an address have more bits than an unsigned int?
  NULL

VARIABLES
  life,    \* "off", or "on" from async to its destroy callback; see Callback
  of,      \* the socket a watch was made on
  pio,     \* watches whose l_io waits for a hang-up
  wid,     \* proto_watch->id: the watch of the l_io it names, NULL if of none
  up,      \* sockets the cloud has not ended
  last,    \* what passed between msg.c and the driver in the last step
  mishap   \* history: what was asked of a driver that it does not withstand

ioVars == <<life, of, pio, wid, up, last, mishap>>

Quiet == <<"quiet", NULL>>
Life == {"off", "on", "twice", "wild"}
Mishap == {"wide", "second", "closed"}

\* L_PTR_TO_UINT of the address of the l_io of w, as what L_UINT_TO_PTR makes of it:
\* where addresses are wider, it loses the upper bits of those that have any
L_PTR_TO_UINT(w) == {w} \cup IF Wide THEN {NULL} ELSE {}

\* on_device_watch_destroyed called with w: a second call frees a trust twice
Callback(w) ==
  life' = [life EXCEPT ![w] = IF @ = "on" THEN "off" ELSE "twice"]

\* the same when the callback is read from memory that was freed
WildCallback(w) == life' = [life EXCEPT ![w] = "wild"]

\* The hang-up of the socket of w is not served yet.
Due(w) == w \in pio /\ of[w] \notin up
=============================================================================
