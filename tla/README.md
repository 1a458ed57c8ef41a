# A TLA+ model of the KNoT gateway daemon

The repository holds `knotd`, the daemon of a KNoT gateway: things reach it
through a radio daemon and a socket, and it keeps their devices in a cloud
(Meshblu) over http or websockets. Everything runs in one thread on the event
loop of ell. The difficulty is not parallelism but the order of callbacks:
hang-ups, timeouts, updates from the cloud and messages of things arrive in any
order, handlers keep pointers across them, and the websocket driver serves
further events in the middle of a request.

## Inventory

| Component | State | Operations | Interacts with |
|---|---|---|---|
| `msg.c`, credentials | `trust_map`, `struct trust` with its counter, node channel, watch, rollback flag | register, unregister, authenticate, schema, hang-up, stop | session (calls `msg_process`), cloud driver, ell callbacks |
| `msg.c`, configurations | `trust->config` with hash and confirmed flag | update from the cloud, sign-in, answer of the thing | device record in the cloud, radio |
| `msg.c`, data and schema | `trust->schema`, `schema_tmp`; `set_data` and `get_data` in the record | data, set-data answer, schema, update from the cloud | the same |
| `msg.c`, numbers | none | parse, validate, format | json-c |
| `session.c` | `session_list`, counter, two channels, a destroy timeout | create, data, hang-up of either side, data error, destroy all | node drivers, cloud drivers, `msg_process` |
| `device.c`, `proxy.c` | `device_list`, name, paired, the outstanding Pair call | added, removed, property changed, Pair, reply | radio daemon and clients, over D-Bus |
| `proto-ws.c` | `wsis`, `wstable`, `conn_index`, the global `psd` and five flags | connect, close, six kinds of request, ping, event callbacks | libwebsockets, the cloud |
| `proto-http.c` | `timeouts`, the polls by id, an `l_io` per watch | the same interface, one blocking transfer per call; async, poll, stop | libcurl, `l_timeout` |
| `manager.c`, `node*.c`, `proto.c`, `main.c` | accept channels, the selected driver | start of the parts in order, accept, stop | all of the above |
| `settings.c`, `dbus.c` | configuration, the bus connection | read once at start | manager |
| `inetbr` | `inet_hash4`, `inet_hash6`: one unix socket per peer address | datagram, reply, hang-up, start, stop | things over UDP, the unix socket of the daemon |
| `ktool` | the command line, timeouts of `send_config` | one command with blocking requests, then a main loop | the unix socket of the daemon |
| `nrf2serial`, `unit` | none | radio adapter; tests | the daemon and the bridge |

What makes each part correct, and hard to test:

* credentials: no trust is freed while in use or kept for ever; credentials
  belong to the connection they were given on; a repeated request has no second
  effect; what was registered and never used is removed again;
* configurations: what is marked confirmed is what the sensor runs, although
  messages and answers get lost or cross each other;
* data: a request is taken out of the shared record only when it was served;
* numbers: validation and conversion agree with arithmetic;
* session: freed exactly once, when both sides are gone, in either order;
* device objects: busy means busy, every caller is answered, signals agree with
  properties;
* websockets: a request gets its own answer and returns, although the globals it
  uses are shared with every other connection;
* watches: a driver gives a watch back once, when it was stopped, its connection
  ended or the driver is removed, and tells no other watch of a change;
* bridge: tables, event sources and reused descriptors agree, and a thing that
  repeats its message is heard over restarts of the daemon;
* ktool: a blocked call returns, although it takes whatever comes first.

`hazards` in `PROJECT.json` lists the places with the properties aimed at them.

## Modules

Every module has the state of its component as variables and one action per
handler. Failures of the environment are part of the next-state relation, and
where the code is known not to withstand one, the property says so: it excuses
the states a failure has reached, which a history variable remembers (`missed` in
ConfigSync, `failed` and `raced` in SensorData, `faults` in DevicePairing, `mishaps`
in ProtoWs, `mishap` in Daemon, `dead` in InetBridge). `Trust`, `Session` and
`ProtoWs` also have constants (`Env`, `Driver` and flags) that leave behaviours of
the environment out. Operators whose comment
starts with `Mutant:` are wrong variants of the operator that follows: each
property is violated when one of them takes its place.

* **Trust** (`msg.c`, `manager.c:on_accepted_cb`). `info`, `refs`, `chan`,
  `watch` are a `struct trust`; `trust_map` is the hash map; `hungup` holds the
  node channels whose hang-up is to be served, in any order, because every
  `l_io` made for a descriptor gets its own event; `cloud`, `complete`,
  `failed`, `given` are what a user sees. `Register` includes the request to the
  cloud, the sign-in, `trust_create` with replacement, watch and channel. Requests
  that are refused for their length or name change nothing and are left out.
* **ConfigSync** (`msg.c`). `record` is the cloud's, `stored` and `confirmed`
  are the trust's, `notices` the copies of the record the cloud has pushed and the
  driver has not handed on yet, `down` and `up` are the two directions of the
  socket, with a radio behind it that may lose the head of either, `thing` is what
  the sensors run.
* **SensorData** (`msg.c`). `set_data`, `get_data` and `cschema` are the record, and
  `notices` its pushed copies as in ConfigSync. `MsgSetdataResp` and
  `UpdateDeviceSetdata` are the fetch and the write-back of the same handler, as the
  record may change, and updates may be handled, between the two requests: `job` is
  the handler that is there. The user writes at any time; `raced` remembers the
  sensors written to while a handler for another sensor held their old value.
* **KnotValue** (`msg.c`). A job takes a document (a double, an int or a boolean)
  through the functions that handle it; `Meaning` is the reference definition,
  `Comparable` says for which limits the comparison of split numbers can be right,
  and `Held` which values the union of the protocol can give back. An `int` has
  `Width` bits and an overflowing difference is a choice between wrapping and not.
* **Session** (`session.c`). `nodeIo` and `protoIo` are the event sources,
  `node_channel` and `proto_channel` the pointers of the session to them. A destroy
  timeout outlives the hang-up of its channel (`timer` is then `Gone`).
* **DevicePairing** (`device.c`, `proxy.c`). `radio` is the truth, and what it is when
  a device is announced is arbitrary; `inbox` holds the messages of the radio daemon
  to this one, `state` is the object's properties, `heard` is what its
  signals said last.
* **ProtoWs** (`proto-ws.c`). `op` is the call that is in `lws_service`; every
  event is an action that may happen in any call, a pending write as late as it
  likes. Sign-in is two requests, as in the code. Using freed session data, a
  websocket that lws has freed, or a null pointer ends the behaviour with a `fault`.
  The cloud may also send messages nobody asked for (`"pushes"`).
* **Daemon** (`main.c`, `manager.c`, `node.c`, `proto.c`) composes the parts from
  start to stop: `phase` is main's, `servers` the accept channels, `proto` the
  selected driver, `held` the watches `msg.c` has not stopped. In the main loop it
  calls **ProtoHttp** (`proto-http.c`: `timeouts` is the hash map, `armed` the timeouts
  that have not expired, `tid` the id the `l_io` of a watch hands to its destroy
  callback) or **WsWatch** (the watches of `proto-ws.c`: `slot` is `psd->data`), which
  share the watches and their event sources in **ProtoIo**. `life` is what `msg.c` sees
  of a watch; `"twice"` and `"wild"` are destroy callbacks too many and through freed
  memory. `wid` is the id `msg.c` has of a watch: an address in an `unsigned int`,
  which loses bits where addresses are `Wide`, or an error. A second watch on a
  connection and the closing of one that is watched are part of the behaviours; they,
  and a stop with an id that lost bits, are remembered in `mishap`.
* **Watch** is the abstract specification of a driver's watches: on from `async`
  to one destroy callback, as long as the contract has not ended (`void`).
  `ImplementsWatch` in Daemon is the refinement, with `ended` mapped to the exit of
  main and `void` to a mishap.
* **Credentials** is the abstract specification of `msg.c`: a connection is good
  for at most one device, from a successful register or authenticate to the
  hang-up or unregister. `ImplementsCredentials` in Trust is the refinement, which
  reads the device of a connection off the map and the trusts.
* **InetBridge** (`inetbr`): both families, with the family as a parameter of the
  actions, as `inet4.c` and `inet6.c` are one program twice. A message is the
  thing that sent it. Datagram sockets (`udp`) and sockets to knotd have their
  descriptors from one pool; the entry of a host keeps the number of the datagram
  socket it was made for (`cli_sock`), and `dead` remembers the numbers of datagram
  sockets closed on an error. `Patient` things repeat a message until knotd has had it.
* **Ktool** (`ktool.c`): `pc` is the call the tool is blocked in, or where it is
  between calls; `opt` is the command line; the contents of the files are good,
  bad or missing. Without a connection (`NoConnection`) the tool goes on over a
  descriptor that carries nothing, as `main` does.
* **TrustProofs**, **SessionProofs**, **ConfigProofs** (ConfigSync and KnotValue),
  **SensorDataProofs**, **DevicePairingProofs**, **ProtoWsProofs**, **DaemonProofs** and
  **ClientProofs** (InetBridge and Ktool): the theorems. Where a module is about two
  specifications they share neither variables nor names, and each theorem is about
  one of them; this is why the specification of KnotValue is called `ValueSpec` and
  that of Ktool `KtoolSpec`.
* **MC...**: what TLC instantiates; `MCTrust` adds the symmetry of the trust
  addresses, everything else is in the `.cfg` files.

### Taken from outside `src/`

ell: each `l_io` of a descriptor is an object of its own; when the peer hangs up
each gets its disconnect handler and then its destroy callback, once, in no
particular order; `l_io_destroy` runs the destroy callback only and closes the
descriptor if asked to; other `l_io`s of a descriptor closed on this side get no
event; a read handler that returns false is removed; pushing to a null queue does
nothing; a descriptor number is used again only after the hang-ups pending for it
were served; `l_io_destroy` of an `l_io` that hung up before only frees it; a timeout
expires once unless it is set again. That several `l_io`s on one descriptor each
get its hang-up is what `msg.c` and `session.c` rely on; the epoll of a kernel may
refuse the second registration. lws: a callback that returns -1 closes its
connection; a connection that ends is reported to the callback, and its websocket
freed; descriptors are not used twice. The cloud pushes a copy of the record to a
watch at every change of it (`proto-ws.c:682`). D-Bus: dropping a proxy drops its
outstanding calls. json-c keeps the text of a double. The protocol library:
`KNOT_EVT_FLAG_NONE` is 0, and the union of values is packed, the multiplier first.
A transfer of libcurl does not succeed on a socket the cloud has ended. glib: a
source whose callback returns false, or that is removed, has its destroy callback
run once and its channel closed with it. Sockets: a new one gets the lowest free
descriptor; `sendto` on the seqpacket socket to knotd leaves the address aside.
`Trust` assumes of a driver what `Watch` says.

## Runs

Passing:

| Run | Shows | Bounds |
|---|---|---|
| `trust_any` | `TypeOK`, `RefsExact`, `MapEntryIsKept`, `SameCredentials` with things that switch ids, data errors and a stop, over unix sockets and TCP | 1 socket, 3 trusts, 2 ids, 3 devices of which one foreign: enough for a trust in the map, a replaced one and one whose hang-up is pending |
| `trust_orderly` | `OnlineOnly`, `NoZombies`, `WatchFeedsOwner`, `CredentialsRevoked`, and the refinement `ImplementsCredentials`, when a connection (of a peer with a pid) keeps to one id and ends by hang-up | 2 sockets, 2 trusts, 3 devices |
| `config` | `ConfirmedIsHeld`, `InvalidStaysOut`, `SettledAgree` over a lossy radio, with copies of the record that are older than it; `ConfigReachesThing`: what the radio loses gets to the sensor as long as updates go on being handed to `msg.c` | 2 sensors, 2 valid values and 1 invalid, 2 messages and 2 copies in flight: an answer to an old configuration can meet a new one |
| `data` | `SetDataNotLost`, `GetDataNotLost` when requests fail and the user writes at any time; `SetDataReaches`: as long as the websocket is served, the sensors end up with what was asked for last | 2 sensors, one with a bad unit, 2 values, 2 messages: a value can be written while the list with its predecessor is held |
| `value` | `AcceptedIsOrdered`, `OrderedIsAccepted`, `RoundTrip` for every document of the instance | doubles, ints and booleans, both signs, integer parts 0, 1, 127, up to two digits of 0, 5, exponents 0, 1, an 8-bit int: the difference of 127 and -127 overflows, a fraction does not |
| `session` | `RefsExact`, `PointersLive` in every order of events | 3 sessions, the websocket driver |
| `pairing` | `ReplyHasCall`, `InProgress`, `SignalsAgree`, `MirrorsRadio`, `PairAnswered` with every failure | 1 device (devices share nothing), announced with any of 2 names, 2 calls, 2 messages |
| `ws` | `IndexFindsWs`, `AnswerIsMine`, `RequestReturns` with connections refused, lost and given up, or with a message nobody asked for | 2 connections, 2 requests: a stale flag or answer needs two requests, a foreign one two connections; 1 such message, after which (`Loses`) no connection is lost, so that the two do not multiply |
| `daemon` | `ImplementsWatch`, `HangUpReported` with either driver, from start to stop | 2 watches, 2 sockets, 4 calls of `http_async` (so that an id outlives its watch), 2 access technologies, addresses wider than an id |
| `inet` | `TablesExact`, `RepliesStayHome`, `ThingHeard` with a knotd that closes connections, stops and starts, and failing IPv4 sockets | two things on one host and one with the same address in the other family, 5 descriptors for their addresses, the zeroed one and the datagram sockets: descriptors are reused but do not run out; 1 message per direction |
| `tool` | `BlockedIsAnswered`, `CallReturns`, `SetDataAnswered` for every command line, with and without a knotd to connect to | schema of 2 entries, 3 messages to knotd, 2 messages of knotd's own, 1 timer: an answer left over from a schema meets a later call |

The type invariants of the other modules are part of their inductive invariants
where there is a proof, and hold in these runs as well.

The run `data_race` shows a violation of `SetDataSentAgain`, which is what a comment of
`msg.c` says and `findings` quotes: the user writes a value for one sensor while the
clean-up for another holds the list with its predecessor, which is written back and
sent.

`CHECK_DEADLOCK FALSE` is used where the daemon, the bridge or the tool may stop
or crash, where the jobs of `KnotValue` end, and where a fault or the bound on
requests ends a behaviour of `ProtoWs`.

### Known deviations

What the models show the code to do and the properties of the passing runs
therefore excuse. Where this differs from a comment or a document of the repository,
its line is given.

* `OnlineOnly`, left out of `trust_orderly` by `Env`: a channel destroyed by the
  gateway after a data error (`session.c:134`) runs no disconnect handler, so the
  trust stays in the map (`msg.c:321`) and serves the next thing on the descriptor.
* `Trust`, left out of `trust_orderly` by `Env` and `PeerPid`: a second
  registration on one connection replaces the trust and its rollback flag
  (`msg.c:1438`), so the first device stays in the cloud, and `trust_map_replace`
  (`msg.c:277`) keeps the watch of the replaced trust, whose updates go to the new
  one. For a TCP peer `get_socket_credentials` leaves pid 0 and the trust stores
  `INT32_MAX` (`msg.c:1258`): a repeated register request is not recognised and
  makes a second device.
* `ConfirmedIsHeld` and `SettledAgree` except `missed`: `msg_config_resp`
  (`msg.c:1944`) confirms whatever is stored for the sensor, so the answer to an
  older configuration confirms a newer one that was lost.
* `OnDeviceChanged` of ConfigSync: the stored list is replaced with every entry
  unconfirmed (`msg.c:1170`), so an unchanged configuration is sent again with
  every second notification, and a record that cannot be parsed empties the list
  (`msg.c:1197`) although its comment says that it is discarded.
* Updates are not repeated: the poll of the http driver is a timeout that expires
  once (`proto-http.c:595`), and so is the timer of the websocket driver
  (`proto-ws.c:947`), so that a websocket is served only inside requests; the comment
  at `proto-ws.c:984` says that device data are constantly fetched. What the
  radio lost is sent again only with a later update; `ConfigReachesThing` and
  `SetDataReaches` say this as a condition.
* SensorData: `schema_tmp` is null from `trust_new` on (`msg.c:431`), so every
  completed transfer leaves an empty schema, after which no data is accepted; the
  comment at `msg.c:1661` speaks of a temporary list that is filled until the schema
  is complete.
  `SetDataNotLost` except `raced` (`msg.c:2021`). `GetDataNotLost` except `failed`:
  the get request is taken out of the record also when publishing failed. A fetch
  that fails goes through `json_object_put` of pointers that were never set
  (`msg.c:1763`), where the daemon may crash.
* `Comparable` and `Held`: fractions are compared and formatted as integers
  (`msg.c:582`, `msg.c:623`), so 0.5 .. 0.22 is in order and 0.05 becomes 0.5; the
  sign belongs to the integer part; an exponent after a fraction is not read, and a
  double without a point becomes 0; the difference of the limits may overflow
  (`msg.c:579`); a limit that is left out is 0, and a positive lower threshold alone
  is refused; booleans compare as 0; a value of another type than the sensor's is
  read back from the wrong member of the union. That `sscanf` overflows on a longer
  number (`msg.c:622`, a FIXME of the code) is left out: `ValueAssumption` has integer
  parts and fractions that fit an `int`.
* Session: `http_close` is empty (`proto-http.c:435`) and `ws_close` gives a
  connection up without closing its socket (`proto-ws.c:247`), so a session and its
  descriptor are kept until the cloud ends the connection; the comment at
  `session.c:263` counts on a disconnect callback, and nothing in the code makes it
  come, so that no property says that a session is freed. A session whose node channel
  is destroyed after a data error (`session.c:134`) keeps its proto channel. The
  destroy timeout is not cancelled by a hang-up (`session.c:117`) and is then given a
  channel whose callbacks have run. From the second data error on channels are left
  open and deaf (`session.c:143`).
* `InProgress` and `PairAnswered` except `"pair"`: after a failed Pair
  `pair_reply` (`device.c:55`) neither answers nor clears the call, and the device
  stays busy; so it does when the bus refuses the call, whose result is ignored
  (`device.c:86`). `MirrorsRadio` except `"name"` and `"paired"`: the properties a
  device has when it is announced are not read (`proxy.c:67`), and it shows as
  `device:unknown` and not paired until the next change. The signals are called
  `Name` and `Paired` (`device.c:276`, `device.c:302`): `SignalsAgree` is about the
  values they carry, and a client that follows `doc/knotd-api.txt` and waits for
  `PropertiesChanged` is told nothing.
* `IndexFindsWs` except refused connections: one uses up an index
  (`proto-ws.c:896`), and the table leads to the wrong websocket from then on.
* `IndexFindsWs` and `AnswerIsMine` except `"crossed"`: an update or a ping written
  while a connection is made puts the session data of another thing into the table,
  and one written while a request waits makes it read another session's answer
  (`proto-ws.c:768`), although the comment at `proto-ws.c:318` says that the global
  `psd` is not overwritten.
* `AnswerIsMine` except `"pushed"`: a message that is none of those
  `handle_cloud_response` knows is taken for the answer (`proto-ws.c:718`), and the
  answer itself then for that of the next request.
* `AnswerIsMine` while no connection ended: `ws_mknode` and `ws_rmnode` overwrite
  the error of a failed write and hand out an earlier answer (`proto-ws.c:326`); a
  ping whose write fails leaves `connection_error` for the next request, whose
  late answer goes to a later one; `ws_close` writes the last message of the
  session again, whose answer may come in during another request.
* `RequestReturns` except faults and closed connections: `LWS_CALLBACK_CLOSED`
  (`proto-ws.c:750`) sets no flag, so a request on a connection the server closes
  never returns. The faults, which end a behaviour: after `ws_close` the global `psd`
  points to freed memory, and the next write or answer uses it (`"dangling"`); a
  websocket that lws freed is still in `wsis` (`proto-ws.c:155`, `proto-ws.c:322`) for
  the next request, ping or close (`"freed"`); a failed write of the first request
  of a session leaves `ws_mknode` and `ws_rmnode` with no answer at all
  (`proto-ws.c:330`), and so does a write of another connection that moved `psd`; a
  connection given up with a write pending is looked up in the table, where it no
  longer is (`proto-ws.c:768`; `"null"`). No property says that the faults do not
  happen, because they do.
* `ImplementsWatch` and `HangUpReported` until a mishap. `"second"`: a second
  `ws_async` on a connection, which `msg.c` makes when a thing registers or
  authenticates again (`msg.c:1438`), overwrites its only slot (`proto-ws.c:1000`),
  and both destroy callbacks find the second watch. `"closed"`: `ws_close` frees the
  session data that the `l_io` of a watch uses when it ends (`proto-ws.c:271`);
  whether the watch is stopped before depends on the order of two disconnect
  handlers. `"wide"`: the id of a watch is an address cast to an `unsigned int`
  (`proto-http.c:602`, `proto-ws.c:1010`), which loses its upper half on a 64-bit
  machine; a stop with it destroys what is not an `l_io`.
* When `proxy_start` fails (`manager.c:185`) its error is returned without stopping
  the driver and the accept channels, and main exits.
* A watch ends with its connection and is not made again when `session.c`
  reconnects (`session.c:175`, `msg.c:214`).
* InetBridge: peers are known by host alone, so of two things on one address each
  gets the replies to the other if that sent last (`inet4.c:149`); replies not yet
  read are lost at a hang-up (`inet4.c:72`); an unchecked `recvfrom` makes a peer
  of the zeroed address (`inet4.c:118`); peers are forgotten only when knotd closes
  their connection, so descriptors may run out, and `ThingHeard` counts on a free
  one; an error of a datagram socket leaves its family deaf, which `ThingHeard`
  excuses, and its number in `cli_sock` of the entries (`inet4.c:88`), which
  `RepliesStayHome` excuses for the socket that takes the number: a reply may then be
  written to knotd over the connection of another host; `inet4_stop` removes
  the first source only (`inet4.c:224`), and the end of the process does the rest.
  Datagrams of length zero are left out.
* Ktool: after the end of the connection `receive` may read nothing for ever
  (`ktool.c:83`, label `"spin"`), which `CallReturns` excuses; any message is taken
  for the answer (`ktool.c:462`), which `SetDataAnswered` excuses by `swallowed`;
  every configuration starts another timer (`ktool.c:808`); commands go on after a
  failed authentication; `main` compares a negative error with -1
  (`ktool.c:1044`), so that without a connection a command that writes nothing, or
  whose result is not looked at, ends in the main loop; the result of `cmd_schema` for
  a bad file may never have been set; a signal waits until the blocked call has
  returned.

### Fairness

Weak fairness of what the event loop serves once it is due: hang-ups and
messages of the things; of the second of two requests of one handler; of
loops of the websocket driver and the cloud's answer on a connection that is up; and
of the radio daemon's answer to Pair. In Daemon the hang-up of a watch's socket; in
InetBridge hang-ups, reads of knotd, and its restart; in Ktool what knotd serves, the
steps of the command, and reads of what has come in.

No fairness is given to notifications of the cloud: timers of ell expire once, and
nothing in the code makes a driver look again. The two properties that need
updates to go on have this as a premise of their own (`ConfigReachesThing`:
updates are handed to `msg.c` again and again; `SetDataReaches`: the websocket is
served until nothing is left to read, again and again). Nor is the end of a
connection that `ws_close` gave up assumed: Session states no liveness and has no
fairness.

Strong fairness in two modules. In ConfigSync, of the thing receiving a
configuration of each sensor: a message that is sent again and again is not lost
for ever. In InetBridge, of a patient thing's message being sent, forwarded and read
while its connection stands: the thing sends for ever, and the connection is not
down each time just then. Users, things that speak on their own account, and
failures are never fair.

## Proofs

`TrustProofs`, for any sets of sockets, trusts, ids and devices and any `Env`:

* `TypeCorrect`, `RefsCorrect`, `MapEntryKept`. `RefsExact` is not inductive:
  nothing in it keeps one trust out of two map entries, whose removal would drop
  two references. `TrustInv` adds `MapStructure` (a mapped trust knows its socket
  and has its channel; hang-ups to be served are of existing channels) and
  `MapEntryIsKept`, and is preserved action by action. The counting step is a
  lemma about the holders of one trust before and after an entry is removed.
* `OnlineDevicesOnly`: if `"data_error"` is not in `Env`, then `OnlineOnly`.
* `CredentialsImplemented`: if `Env` is empty and neither a peer's pid nor an id is
  0, Trust implements Credentials. Besides `TrustInv` and `OnlineInv` this needs
  `PeerInv`: hang-ups to be served are of sockets that hung up, and a registered
  trust has the pid of its peer, so that a register request that is not a
  retransmission finds no trust to replace. Every action maps to one abstract
  action; the second hang-up of a socket and the loss of a watch to none.
* `WatchFeedsItsOwner` and `ZombiesRemoved`, for the same orderly things:
  `WatchFeedsOwner` and `NoZombies`. The first needs `WatchInv`, that a watch is of a
  device that has been in the cloud, so that a new device is nobody's; the second
  follows the one connection that may still complete or roll back a device
  (`Curable`) through every action.
* `CredentialsRepeated`: the action property `SameCredentials`, for any `Env`. By
  `AnswerInv` the trust in the map of an open connection is the one its last
  register answer came from, for a peer that has a pid; whatever hangs up
  meanwhile, a repeated request finds it.

`SessionProofs`, for any set of sessions, driver and failures:
`SessionTypeCorrect`, `SessionRefsCorrect` and `SessionPointersLive`, all from
`SessionInv`: the type invariant, in which counters are natural numbers, with the two
others, as the counter is right only if the pointers and the event sources agree, and
`TimerInv`, that a destroy timeout whose channel did not hang up finds it.

`ConfigProofs`, about ConfigSync for any finite set of sensors (`sensor_id` is a
`uint8_t`), any values and any number of messages and copies of the record:

* `InvalidRefused`: `InvalidStaysOut`, with the fact that no invalid entry is under
  way (`ValidInv`).
* `ConfirmedHeld` and `SettledAgreed`, from `SyncInv`: the last message on its way to
  a sensor carries what is stored for it, and where there is none the sensor runs
  it, unless the last one was lost (`FinalInv`); before the first notification
  nothing is under way or confirmed (`QuietInv`). What makes it a proof is that
  `msg_config` may leave out a confirmed entry (`ChangedTo`) and that the rest is sent
  once each, in any order (`OrderHoldsAll`).

and about KnotValue, for any integer parts, any digits and any width of an `int` that
a fraction fits in:

* `AcceptedOrdered`, `OrderedAccepted` and `ValuesComeBack`: `AcceptedIsOrdered`,
  `OrderedIsAccepted` and `RoundTrip`, for ints and booleans as well as doubles. The invariant (`ValueInv`) only says that what a
  job has so far is what the functions of the code make of its input; the work is
  about those functions. `DigitsValue` and `Exp` are recursive functions. The
  induction theorems of the library cannot be used, so a set of numbers is shown
  to be `Nat` by its least counterexample (`SetInduction`, from the well-foundedness of
  `<`): that way the functions exist (`RecursionExists`), n digits spell a number below
  10 to the n, and not below 10 to the n - 1 unless the first is 0 (`DigitsBound`), and
  powers add up (`ExpSum`). From there: the length `sprintf` finds is the number of
  digits (`LengthIs`), the fraction is less than 1 (`FractionBound`), so unequal integer
  parts decide a comparison and equal ones leave it to the fractions (`IntDecides`,
  `SplitDecides`), and within an `int` the build has no choice (`NoOverflow`).

`SensorDataProofs`, for any finite set of sensors, any values, any number of messages
and a user who writes at any time:

* `GetDataKept`: `GetDataNotLost`, which with the types is inductive (`GetInv`): a
  request leaves an update only for the socket, the socket only for its answer, and
  whatever list a handler writes back, the updates pushed before still carry the
  request. The work is about queues that are extended and shortened (`UnderWay`).
* `SetDataKept`: `SetDataNotLost`, from `SetInv`: besides the property itself, what the
  record holds for a sensor, and what a handler for another one may write back there,
  is the value last asked for or nothing (`Current`). This is what a write during the
  clean-up for another sensor breaks, and why `raced` is excused; a copy of the record
  that is pushed then carries nothing older (`PushedEnds`).

`DevicePairingProofs`, for any number of objects, clients and messages:

* `RepliesHaveCalls`, from `PairingInv`: per object at most one call or one answer is
  under way, its caller is in `device->msg` and waits, and no two objects hold one
  call; an object that is not there has nothing under way. An event of one object
  leaves the others alone (`OthersSame`), so each action is treated for its object.
* `BusyIsInProgress` (`InProgress`) and `SignalsTellState` (`SignalsAgree`) on top of it.
* `ObjectMirrorsRadio` (`MirrorsRadio`). It speaks of an empty inbox; the invariant
  `MirrorInv` says of any inbox that the last message of each kind in it carries the
  radio's value, or there is none and the object shows it, or the value is the one
  the device was announced with (`"name"`, `"paired"`), which a change ends.

`ProtoWsProofs`, for any number of connections and requests and any `Env`:

* `IndexFindsItsWebsocket` (`IndexFindsWs`), from `IndexInv`: while nothing was refused
  or crossed, descriptors, indexes and places in the list are numbered alike, and
  the call that serves events has its own session in the global `psd`.
* `AnswersAreMine` (`AnswerIsMine`), from `WsInv`, which follows a request through
  three states: to be written, its one answer under way, its answer stored and
  flagged. In none of them is there another answer on any connection, or a message
  still to be written that will get one, and at rest no flag is left over
  (`CallInv`). `RefusedInv` and `FreshInv` are there because `AnswerIsMine` reads off
  the session data and the links that no connection was refused, lost or given up;
  what they show once they show for ever.

`DaemonProofs`, for any sets of watches, sockets, access technologies, any number of
timeouts and any order of calls:

* `WatchContract`: both drivers implement Watch, whose contract ends with the first
  mishap. Until then `DaemonInv` says that a watch exists as long as its `l_io`, for
  http that the ids of watches and the watches of ids are inverse and no id is used
  before its turn, for websockets that slot and socket are; a destroy callback is
  then that of the right watch, which is the heart of the mapping.
* `ContractEndsOnlySo`: which mishaps there can be. With http only `"wide"`, and where an
  `unsigned int` holds an address not even that, with either driver. `EndsInv` adds that
  the proto channel of a session has session data, so `ws_async` never returns its
  error as an id, and that the ids `msg.c` holds are good ones.

`ClientProofs`, about InetBridge for any things and any number of descriptors and messages:
`TablesCorrect` and `RepliesCorrect`, from `BridgeInv`: the tables are inverse to
each other and the last address of a peer is one of its own (`Tables`); whatever is on
a socket is of its peer, unless the socket has the number of a dead datagram socket
(`Home`); an entry holds the number of the datagram socket of its family or of a dead
one, and that of an open one is no socket to knotd (`Datagram`).

and about Ktool for any schema and any number of messages: `BlockedAnswered`. A call
blocks only after its request was written, and the answer takes its place in the
same step.

The proofs use the named assumptions on the constants (`TrustAssumption`,
`SessionAssumption`, `ConfigAssumption`, `NoConfigAssumption`, `ValueAssumption`,
`JsonAssumption`, `DataAssumption`, `PairingAssumption`, `WsAssumption`,
`DaemonAssumption`, `BridgeAssumption`, `KtoolAssumption`), which TLC evaluates in
every run of the module. TLC also checked each inductive invariant named above on
the instances of the runs.

Model-checked only: the liveness properties, since fairness and `ENABLED` are beyond
the prover (`CredentialsRevoked`, `ConfigReachesThing`, `SetDataReaches`,
`PairAnswered`, `RequestReturns`, `HangUpReported`, `ThingHeard`, `CallReturns`,
`SetDataAnswered`). Every other property of a passing run is stated by
a theorem.

## Not modelled

* `node-serial.c`, which the table of `node.c` leaves out, and the socket calls of
  `node-unix.c` and `node-tcp.c`: each is one call whose success or failure is a
  choice in Daemon.
* `settings.c`, the command line and the configuration file: read once at start,
  constants here. `dbus.c` makes one connection and the error replies.
* `nrf2serial`, a sketch without state; `unit`, the tests.
* The requests of `proto-http.c` other than fetch: they differ in method and url,
  and what they do to the cloud is in Trust, ConfigSync and SensorData.
* Raw values (base64) in KnotValue.
* Descriptor numbers of websockets that lws has closed and that are used again, and
  what becomes of memory after it was used freed: a fault ends the behaviour.
* Forget, Online and Registered of `device.c`, which nothing sets.

## Plan

Done: every component with logic of its own, in the order of the modules above, the
abstract specifications Watch and Credentials with their refinements, and the
proofs listed.

Left, in this order:

1. A gateway module that composes Session and Trust on shared descriptors, to
   derive from it in which orders of the two disconnect handlers a connection is
   closed before its watch is stopped (the mishap `"closed"` of Daemon).
2. An abstract specification of a blocking request. ProtoWs implements it only until
   a connection is lost or written for another, so the abstract one has to allow for
   these; `CallInv` of ProtoWsProofs is the invariant its refinement needs.
