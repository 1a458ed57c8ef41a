------------------------------- MODULE Ktool -------------------------------
(***************************************************************************)
(* tools/ktool.c, the thing the gateway is tried out with: it runs one     *)
(* command, whose requests each block until something comes in, and then   *)
(* serves what knotd sends from a main loop, where it may block in the     *)
(* same way.  A blocked request takes whatever message comes first for its *)
(* answer, and the answers to a schema are not waited for.                 *)
(***************************************************************************)
EXTENDS Naturals, SequencesExt

CONSTANTS
  SchemaLen,  \* entries of the schema in the JSON file
  MaxUp,   \* bound: messages under way to knotd
  MaxPush,    \* bound: messages knotd sends of its own accord
  MaxTimers   \* bound: timeouts that run send_config

ASSUME KtoolAssumption ==
  /\ SchemaLen \in Nat \ {0}
  /\ MaxUp \in Nat /\ SchemaLen < MaxUp
  /\ MaxPush \in Nat
  /\ MaxTimers \in Nat

Command == {"none", "schema", "data", "remove", "id", "subscribe", "config", "connect"}
Request == {"register", "auth", "schema", "data", "unregister"}
Response == {"config_resp", "data_resp"}
Push == {"set_config", "set_data", "get_data"}
Answer == {"success", "failure"}

VARIABLES
  opt,       \* the command line
  pc,        \* where the tool is
  err,       \* is the last result of the command negative?
  timers,    \* timeouts that run send_config
  up,        \* messages to knotd
  down,      \* messages from knotd
  hup,       \* has knotd closed the connection, or was there none?
  pushes,    \* messages knotd has sent of its own accord
  owed,      \* SET_DATA knotd has sent and has had no DATA_RESP for
  swallowed  \* history: was a message of knotd taken for an answer?

toolVars == <<opt, pc, err, timers>>
knotdVars == <<pushes, owed>>
ktoolVars == <<toolVars, up, down, hup, knotdVars, swallowed>>

(***************************************************************************)
(* A blocked call and the request it has sent: in main (add), in a command *)
(* (auth, enroll, data, remove) and in the main loop (loop_data).          *)
(***************************************************************************)
Asked == [add |-> "register", auth |-> "auth", enroll |-> "register",
          data |-> "data", remove |-> "unregister", loop_data |-> "data"]
Blocked == DOMAIN Asked
Label == Blocked \cup {"start", "command", "send", "loop", "spin", "exit"}

KtoolTypeOK ==
  /\ opt \in [add : BOOLEAN, cmd : Command, cred : {"none", "uuid", "both"},
              json : {"none", "bad", "good"}]
  /\ pc \in Label
  /\ err \in BOOLEAN
  /\ timers \in 0 .. MaxTimers
  /\ up \in Seq(Request \cup Response)
  /\ down \in Seq(Answer \cup Push)
  /\ hup \in BOOLEAN
  /\ pushes \in 0 .. MaxPush
  /\ owed \in 0 .. MaxPush
  /\ swallowed \in BOOLEAN

KtoolInit ==
  /\ opt \in [add : BOOLEAN, cmd : Command, cred : {"none", "uuid", "both"},
              json : {"none", "bad", "good"}]
  /\ pc = "start"
  /\ err = FALSE
  /\ timers = 0
  /\ up = <<>>
  /\ down = <<>>
  /\ hup = FALSE
  /\ pushes = 0
  /\ owed = 0
  /\ swallowed = FALSE

Goto(l) == pc' = l
UnchangedPeer == UNCHANGED <<down, hup, knotdVars, swallowed>>

-----------------------------------------------------------------------------
(* Requests.                                                               *)

\* Mutant: the request is not written.
Ask_Unwritten(l, f) ==
  \/ ~hup /\ Goto(l) /\ UNCHANGED <<up, err>>
  \/ hup /\ Goto(f) /\ err' = TRUE /\ UNCHANGED up

\* a request is written and the tool blocks in receive at label l, or the write
\* fails and the tool goes on at f with an error
Ask(l, f) ==
  \/ /\ ~hup
     /\ Len(up) < MaxUp
     /\ up' = Append(up, Asked[l])
     /\ Goto(l)
     /\ UNCHANGED err
  \/ hup /\ Goto(f) /\ err' = TRUE /\ UNCHANGED up

\* where main or the command goes on after a call that was blocked at l
After(l, failed) ==
  CASE l = "add" -> "command"
    [] l = "auth" /\ opt.cmd \in {"schema", "data", "remove"} -> "send"
    [] l = "auth" /\ opt.cmd = "connect" -> IF failed THEN "exit" ELSE "send"
    [] l = "enroll" -> IF failed THEN "exit" ELSE "send"
    [] l = "data" -> "loop"
    [] l = "loop_data" -> "loop"
    [] OTHER -> IF failed THEN "exit" ELSE "loop"

\* the result in a message that is taken for an answer: that of an answer, or
\* whatever is in its place in another message
Failed(m, f) == m \in Answer => f = (m = "failure")

\* Mutant: a call waits until it has succeeded.
Take_Success ==
  /\ pc \in Blocked
  /\ down # <<>> /\ Head(down) = "success"
  /\ down' = Tail(down)
  /\ err' = FALSE
  /\ Goto(After(pc, FALSE))
  /\ UNCHANGED <<opt, timers, up, hup, knotdVars, swallowed>>

\* receive: what comes first is the answer
Take ==
  /\ pc \in Blocked
  /\ down # <<>>
  /\ down' = Tail(down)
  /\ \E f \in BOOLEAN : Failed(Head(down), f) /\ err' = f /\ Goto(After(pc, f))
  /\ swallowed' = (swallowed \/ Head(down) \in Push)
  /\ UNCHANGED <<opt, timers, up, hup, knotdVars>>

\* receive after the end of the connection: an error, or reads of nothing for ever
Lost ==
  /\ pc \in Blocked
  /\ down = <<>>
  /\ hup
  /\ \/ Goto("spin") /\ UNCHANGED err
     \/ Goto(After(pc, TRUE)) /\ err' = TRUE
  /\ UNCHANGED <<opt, timers, up>>
  /\ UnchangedPeer

-----------------------------------------------------------------------------
(* The command (main).                                                     *)

\* unix_connect or serial_connect, and opt_add
Start ==
  /\ pc = "start"
  /\ IF opt.add THEN Ask("add", "command")
     ELSE Goto("command") /\ UNCHANGED <<up, err>>
  /\ UNCHANGED <<opt, timers>>
  /\ UnchangedPeer

\* There is nobody to connect to.  main gives up when the descriptor is -1 (an errno
\* of 1); with any other negative one it goes on over a connection that carries
\* nothing, so that the first write fails and a command without one, or whose result
\* is not looked at, ends in the main loop.
NoConnection ==
  /\ pc = "start"
  /\ \/ Goto("exit") /\ UNCHANGED <<err, hup>>
     \/ Goto("command") /\ err' = opt.add /\ hup' = TRUE
  /\ UNCHANGED <<opt, timers, up, down, knotdVars, swallowed>>

\* credentials are given, those of the commands that use them if they are there
\* (schema, data, remove) and those of the commands that need them
Authenticate ==
  /\ opt.cred = "both"
  /\ Ask("auth", IF opt.cmd \in {"schema", "data", "remove"} THEN "send" ELSE "exit")

\* the first step of cmd_schema, cmd_data, cmd_unregister, authenticate, cmd_subscribe,
\* cmd_config or cmd_connect
RunCommand ==
  /\ pc = "command"
  /\ \/ /\ opt.cmd \notin {"none", "subscribe"}
        /\ Authenticate
     \/ /\ opt.cmd = "connect" /\ opt.cred # "both"
        /\ Ask("enroll", "exit")
     \/ /\ \/ opt.cmd \in {"schema", "data"} /\ opt.cred = "uuid"
           \/ opt.cmd = "remove" /\ opt.cred # "both"
        /\ Goto("send") /\ UNCHANGED <<err, up>>
     \/ /\ \/ opt.cmd = "subscribe"
           \/ opt.cmd \in {"schema", "data"} /\ opt.cred = "none"
           \/ opt.cmd \in {"id", "config"} /\ opt.cred # "both"
        /\ Goto("exit") /\ UNCHANGED <<err, up>>
     \/ /\ opt.cmd = "none"
        /\ Goto(IF err THEN "exit" ELSE "loop") /\ UNCHANGED <<err, up>>
  /\ UNCHANGED <<opt, timers>>
  /\ UnchangedPeer

\* cmd_schema has no schema to send.  When the file can be read but its entries are
\* wrong, the result is that of authenticate, or was never set.
NoSchema ==
  \/ err' = TRUE
  \/ opt.json = "bad" /\ err' \in (IF opt.cred = "both" THEN {err} ELSE BOOLEAN)

\* send_schema: one message per entry, whose answers are not waited for
SendSchema ==
  \/ hup /\ err' = TRUE /\ UNCHANGED up
  \/ /\ ~hup
     /\ Len(up) + SchemaLen <= MaxUp
     /\ up' = up \o [i \in 1 .. SchemaLen |-> "schema"]
     /\ err' = FALSE

\* cmd_schema; cmd_connect does not look at the result
CmdSchema ==
  /\ pc = "send"
  /\ opt.cmd \in {"schema", "connect"}
  /\ \/ opt.json # "good" /\ NoSchema /\ UNCHANGED up
     \/ opt.json = "good" /\ SendSchema
  /\ Goto(IF err' /\ opt.cmd = "schema" THEN "exit" ELSE "loop")
  /\ UNCHANGED <<opt, timers>>
  /\ UnchangedPeer

\* write_knot_data, whose result nobody looks at
WriteKnotData(l) == Ask(l, "loop")

\* cmd_data: a file that holds no data is no error
CmdData ==
  /\ pc = "send"
  /\ opt.cmd = "data"
  /\ \/ opt.json # "good" /\ Goto("exit") /\ UNCHANGED <<err, up>>
     \/ opt.json = "bad" /\ Goto("loop") /\ UNCHANGED <<err, up>>
     \/ opt.json = "good" /\ WriteKnotData("data")
  /\ UNCHANGED <<opt, timers>>
  /\ UnchangedPeer

\* cmd_unregister
CmdUnregister ==
  /\ pc = "send"
  /\ opt.cmd = "remove"
  /\ Ask("remove", "exit")
  /\ UNCHANGED <<opt, timers>>
  /\ UnchangedPeer

-----------------------------------------------------------------------------
(* The main loop.                                                          *)

\* Mutant: SET_DATA is not answered.
SetData_Silent == UNCHANGED <<up, pc, err, timers>>

\* SET_DATA: the value is sent back
SetData ==
  /\ Len(up) < MaxUp
  /\ up' = Append(up, "data_resp")
  /\ UNCHANGED <<pc, err, timers>>

\* SET_CONFIG: every configuration starts another timeout
SetConfig ==
  /\ Len(up) < MaxUp
  /\ up' = Append(up, "config_resp")
  /\ timers' = IF timers < MaxTimers THEN timers + 1 ELSE timers
  /\ UNCHANGED <<pc, err>>

\* GET_DATA: there is no file for the sensor, or write_knot_data
GetData ==
  /\ \/ UNCHANGED <<up, pc, err>>
     \/ WriteKnotData("loop_data")
  /\ UNCHANGED timers

\* proto_receive: answers that come late are ignored
ProtoReceive ==
  /\ pc = "loop"
  /\ ~hup
  /\ down # <<>>
  /\ CASE Head(down) = "set_data" -> SetData
       [] Head(down) = "set_config" -> SetConfig
       [] Head(down) = "get_data" -> GetData
       [] OTHER -> UNCHANGED <<up, pc, err, timers>>
  /\ down' = Tail(down)
  /\ UNCHANGED <<opt, hup, knotdVars, swallowed>>

\* proto_receive after a hang-up, or a signal: the main loop ends
Quit ==
  /\ pc = "loop"
  /\ Goto("exit")
  /\ UNCHANGED <<opt, err, timers, up>>
  /\ UnchangedPeer

\* send_config: a timeout that cannot read its file is removed
SendConfig ==
  /\ pc = "loop"
  /\ timers > 0
  /\ \/ timers' = timers - 1 /\ UNCHANGED <<up, pc, err>>
     \/ WriteKnotData("loop_data") /\ UNCHANGED timers
  /\ UNCHANGED opt
  /\ UnchangedPeer

-----------------------------------------------------------------------------
(* knotd.                                                                  *)

\* knotd reads a message, and answers it if it is a request
Serve ==
  /\ pc # "exit" /\ ~hup
  /\ up # <<>>
  /\ up' = Tail(up)
  /\ IF Head(up) \in Request
     THEN \E a \in Answer : down' = Append(down, a)
     ELSE UNCHANGED down
  /\ owed' = IF Head(up) = "data_resp" THEN owed - 1 ELSE owed
  /\ UNCHANGED <<toolVars, hup, pushes, swallowed>>

PushMessage ==
  /\ pc \notin {"start", "exit"} /\ ~hup
  /\ pushes < MaxPush
  /\ pushes' = pushes + 1
  /\ \E m \in Push : /\ down' = Append(down, m)
                     /\ owed' = IF m = "set_data" THEN owed + 1 ELSE owed
  /\ UNCHANGED <<toolVars, up, hup, swallowed>>

HangUp ==
  /\ pc \notin {"start", "exit"} /\ ~hup
  /\ hup' = TRUE
  /\ up' = <<>>
  /\ UNCHANGED <<toolVars, down, knotdVars, swallowed>>

KtoolNext ==
  \/ Start \/ NoConnection \/ RunCommand
  \/ CmdSchema \/ CmdData \/ CmdUnregister
  \/ Take \/ Lost
  \/ ProtoReceive \/ Quit \/ SendConfig
  \/ Serve \/ PushMessage \/ HangUp

\* knotd serves what it is sent; the command runs on, and what has come in is read by
\* a blocked call and by the main loop
KtoolFairness ==
  /\ WF_ktoolVars(Serve)
  /\ WF_ktoolVars(RunCommand \/ CmdSchema \/ CmdData \/ CmdUnregister)
  /\ WF_ktoolVars(Take)
  /\ WF_ktoolVars(ProtoReceive)

KtoolSpec == KtoolInit /\ [][KtoolNext]_ktoolVars /\ KtoolFairness

-----------------------------------------------------------------------------
(* Properties.                                                             *)

\* A call never waits for an answer that somebody else has had: as long as the
\* connection is up the request or an answer is under way, although calls take one
\* another's answers and those to a schema are left over (receive, send_schema).
BlockedIsAnswered ==
  pc \in Blocked /\ ~hup =>
    ToSet(up) \cap Request # {} \/ ToSet(down) \cap Answer # {}

\* A blocked call returns, unless knotd has closed the connection, when receive may
\* read nothing for ever.
CallReturns == pc \in Blocked ~> (pc \notin Blocked \/ hup)

\* Every SET_DATA of knotd gets its DATA_RESP, unless the tool has ended or was
\* blocked in a call that took the message for its answer.
SetDataAnswered ==
  owed > 0 ~> (owed = 0 \/ swallowed \/ hup \/ pc \in {"exit", "spin"})
=============================================================================
