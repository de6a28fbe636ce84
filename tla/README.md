# RentMate protocol: TLA+ specifications

RentMate connects small WiFi devices (*nodes*: smart lock, noise monitor,
presence detector) with a *main server* in the same house. Nodes find the
server by UDP broadcast, exchange a key once, and from then on wake up at
intervals, open a TCP session, send their state (*beacons*), receive the
commands that users have asked for, and hang up. Users reach the server over a
websocket to a cloud service.

This directory holds specifications of that protocol as the C code implements
it, TLC models that check them on small instances, and TLAPS proofs of the main
results for all instances. `PROJECT.json` relates every definition to the source
lines it models and lists runs, mutants, findings, hazards and theorems.

## 1. Inventory

| Component | Source | State | Operations | Hard behaviour |
|---|---|---|---|---|
| Sessions | `socketThread.c`, `client.c` (node); `server.c`, `epollRecievingThread.c` (server); `encryptAndSendAll`, `accept1`, `close1` in `pckData.c` | `connInfo_t` at both ends (nonces, sessionId, send counter), queues of beacons | connect, exchange nonces, send, receive, close | two threads per node and two in the server; reuse of connections; byte order of nonces; wrap-around of 32-bit sums; restarts |
| Command queue | `addToCommandQueue`, `sendQueuedMessages` in `server.c`; `arrayList.c` | `commandsQueue` under `commandsQueueMux` | add, send and remove | removal while walking; commands added between sessions |
| Message reassembly | `recvAll`, `handleMsgLen`, `handleMsgData`, `circulateBuffer` in `pckData.c` | `recvHolder`s: ring buffer, position, current message | receive a chunk, deliver, circulate, free a holder | any split of the stream; wrap-around; holders reused by other sockets |
| Discovery, key exchange, registry | `socketThread.c`, `client.c`, `processMsg`, `saveDevInfoToConfigFile`, `loadInServerSettings` in `server.c`; `broadcastThread.c` | node: server address, devId, key, open sockets; server: `devInfos`, `deviceInfos.json` | broadcast, exchange, save, load, reboot | crashes between save, add and answer; late answers; torn file; sockets that run out |
| Epoll thread | `epollRecievingThread.c`, `accept1`, `close1` | epoll set, `connectionsInfo`, `sockNodeRemote` | wait, accept, receive, close | edge-triggered listening sockets with one `accept` per event; batches of events and reused descriptors; LAN sockets; exits of the thread |
| Websocket client | `webSocketThread.c` | `web_socket`, `connectionAuthenticated`, callbacks that are due | connect, authenticate, receive commands, report devices | reads `devInfos` while the epoll thread adds to it; authentication withdrawn at any time; reconnection |
| Server command handlers | `mainServer/commands.c` | entries of `devInfos` | store a beacon's status | writes field by field while a report reads |
| Message layout | `pckData.c` | – | compose, append, find element, encrypt, decrypt | offsets and capacities at their limits |
| ArrayList | `arrayList.c` | array, length, capacity | add, remove, grow | growth |
| Smart lock | `smartLockCore.c` (ESP32) | lock and door state, motor, lights, flags of timers | motor, limit switches, door sensor, their timers | interrupts between the steps of timer callbacks; the bounded queue of the timer service |
| Keypad | `matrixKeyboard.c`, `passcodeEntered`, `setPasscode`, `changePasscode` | entry buffer, passcode | key presses, verdict, change of passcode | the passcode is overwritten while it is compared; full and empty buffers |
| Node main loop | `client.c` | settings, sensor state | load settings, queue beacons | reads the session of the socket thread without a lock |

**How they interact.** The epoll thread owns all node connections. For each
readable socket it calls `recvAll`, which calls `processMsg` for each complete
message; `processMsg` enrols unknown devices, answers a node's nonce, runs
`sendQueuedMessages`, and stores beacons in `devInfos`. The websocket thread adds
to `commandsQueue`; the mutex of the queue is held for the whole of
`sendQueuedMessages`. In a node the socket thread runs one connection after the
other through the same `recvAll` and its own `processMsg`, and the main loop
adds beacons to `nodeCommandsQueue` while a session lasts. In a smart lock the
GPIO interrupts, the task of the FreeRTOS timer service and the socket thread
share the lock's state and the passcode without a lock.

**What makes them correct.** Both ends of a connection compute the same session
and use nonces in step; no message is dropped unnoticed; a command is neither
lost in the queue nor sent to the wrong device nor out of order; what is
delivered is what was sent, whatever TCP does to the stream; a node and the
server agree on the key through crashes and retries; a node is never stuck for
good; the remote service and the server agree on whether their link is
authenticated, and a report tells what the devices last said; a motor that was
started stops, the states of door and lock are those of their sensors, and the
lock opens for its passcode only. Where the code falls short of what its comments say, section 6 lists it.

## 2. Modules

| Module | Models |
|---|---|
| `CommandQueue` | the server's queue as functions on sequences of requests |
| `Session` (extends `CommandQueue`) | nodes, connections and server from connect to close |
| `RecvAll` | `recvAll` of one thread and the byte streams it reads |
| `Enrolment` | one node's discovery, key exchange and sessions; the registry and its file |
| `Delivery` | what the server promises about commands; implemented by `Session` |
| `EpollSet` | the event loop of the epoll thread, listening sockets and descriptors |
| `DeviceReport` | the list of devices between the epoll thread and the report |
| `WebSocketClient` (extends `DeviceReport`) | the link to the remote service |
| `SmartLock` | timers and interrupts of the lock's mechanism |
| `Keypad` | key scan, entry, verdict and change of the passcode |
| `SessionProofs` | theorems about `Session`: types, agreement of the two ends |
| `DeliveryProofs` (extends `SessionProofs`) | `Session` implements `Delivery`; the order of commands, nonces and requests |
| `RecvAllProofs`, `EnrolmentProofs`, `EpollSetProofs`, `WebSocketProofs`, `SmartLockProofs`, `KeypadProofs` | theorems about the module of that name (`WebSocketProofs`: `WebSocketClient` with `DeviceReport`) |
| `MCSession`, `MCRecvAll`, `MCEnrolment`, `MCEpollSet`, `MCWebSocketClient`, `MCSmartLock`, `MCKeypad` | the instances for TLC |

Some definitions are followed or preceded by a *wrong version*, named as such in
its comment. No specification uses them; substituted for the right one they
make a property fail, which shows that the property depends on that code
(`mutants` in `PROJECT.json`).

### Session

A node's socket thread has three positions: `sleep`, `nonce` (the loop at
`socketThread.c:260` that waits for the server's nonce) and `send` (the sending
loop and the one `recvAll` after it). `info[n]` and `sinfo[c]` are the two
`connInfo_t`. A TCP connection is a slot with one FIFO channel per direction and
a status; slots are reused just as file descriptors are. The server's threads
are interleaved at the granularity of `commandsQueueMux`: `sendQueuedMessages`
is a loop with the position `epoll.i`, `epoll.j`, and every other action of the
epoll and the websocket thread waits until it ends (`Idle`). The main loop's
check of `connInfo.sessionId` and its `addToCommandQueue` are two actions, since
no lock covers both. Nonces are words modulo `Modulus`; `Swap` is
`htonl`/`ntohl`, applied exactly where the code applies it (twice on the way out:
in `encryptAndSendAll` and in `encryptPckData`).

Abstractions: all nodes are enrolled, so decryption succeeds; messages arrive
whole. A message is its nonce field, the device ID in its ADD section and a
body. A beacon's handler stores the reading in `devInfo`. LAN connections are
left out (see `EpollSet`). `served`, `executed`, `sent`, `everSent`, `dropped` and `target` are
history that no action reads.

### RecvAll

A byte is identified by its socket, a tag and the length of its message, and its
position in the message, so that a delivered message can be compared with the
one sent. A holder is a record with the fields of `recvHolder`; pointers are
offsets into `recvQueue`. `Recv` is one `recv()` with the storing of the chunk
and `handleMsgLen`; `handleMsgData` is one activation of that function (it calls
itself for a second message in the chunk). A length read where there is no
length field is arbitrary (`Garbage`). A `recv` beyond the buffer, and a copy
with a negative length, set `overrun`: behaviour is undefined from there, and the
process starts again. `RecvNothing` is a `recv` that returns -1 (sockets of the
server are non-blocking, the node's have a timeout); it may leave a new holder
behind.

Since the code does not handle every split of the stream (section 6), the
operator `Handled` states which chunks it does handle, and `stray` and `astray`
record when a holder or a socket has met another one. The properties say that
`recvAll` is right on all streams that stay within `Handled`. These include all
splits of single messages, in particular wherever the message wraps around the
ring buffer, and two complete messages in one chunk if the buffer has room.

### Enrolment

One node and the server. The node's positions are those of the socket thread:
`top` (of its loop), `discover`, `dhWait`, `nonceWait`, `session`; in `stuck` its
UDP socket is closed and the loop can never end; in `bogus` it has computed a
session from a nonce that it could not decrypt. `devId` is the number of the boot
that generated it, since `loadInNodeSettings` restores factory settings at every
start. A socket used for a key exchange is never closed by the node; `held`
counts them. `Sockets` is what the build allows (`CONFIG_LWIP_MAX_SOCKETS=10` in
`nodeClient/testEsp32/sdkconfig`; at least two are needed for anything to work).

The server's `spc` marks the points between which it can crash: while
`saveDevInfoToConfigFile` rewrites the file (`startWrite`, `write`: the file is
not `readable`), and after that until the device is in `devInfos` and the answer
sent (`added`). `file` is what the file will hold when it is complete. Keys are
pairs of private keys; a message decrypts with its own key only. A message of
another kind taken for a key exchange yields the key of a `Junk` point:
`ecdh_shared_secret` fails and leaves some value, about which nothing is assumed
except that the node does not have it. Key bytes survive the JSON file (json-c
escapes and unescapes them).

Faults (`MaxFaults`) are: a server crash, a power cycle of the node, an answer
later than the receive timeout of an exchange.

### Delivery

A requested command waits in the server; it may be sent or discarded while it
waits, any number of times, and leaves only after one of both; a node runs only
commands that were sent and are meant for it. `Session` implements this with
`waiting` mapped to `Waiting`, the commands in a request queued for the device
they were requested for (`Abstract` and `ImplementsDelivery` in `Session`).
Sessions, connections, the duplicated requests of `addToCommandQueue` and the
walk of `sendQueuedMessages` over a list that shrinks are all stutters or steps
of it. What it does not promise is as telling: a command that was sent may
never be run (`HangUp`).

### EpollSet

`backlog` and `edge` are the kernel's side of a listening socket: the
connections that wait, and whether one has arrived since the last
`epoll_wait`. That call reports listening sockets with an edge and connections
with something to read, in any order, as the batch `events`; the handlers are
the branches of the loop over it. `opened` maps descriptors to connections, so
that reuse of a descriptor shows, `connectionsInfo` is keyed by descriptor as in
the code, and `merged` counts, as history, the arrivals that shared an event with
an earlier one. Every `pthread_exit` of the loop that can be reached is
`thread = "exited"`. Epoll, accept queues and peers are external.

### DeviceReport and WebSocketClient

`DeviceReport` takes `addToList`, `nodeToServerBeacon` and the report of the
devices apart into their accesses to the shared list: `block` is the memory that
holds the list, `data` the one that the `arrayList` points to (they differ between
`realloc` and the assignment after it), and a pointer that the report took is the
block it points into. A field of an entry holds the number of the beacon that
wrote it, so that a mixture shows. Reading a freed block or an entry that has
not been written gives `junk`.

`WebSocketClient` adds the link: the loop around `lws_service` and the callbacks
of the connection, which that function runs one at a time. `writable` stands for
a WRITEABLE callback that libwebsockets owes the thread. The remote service is
not part of the repository and is external: it answers credentials, sends
requests while it considers the connection authenticated, may withdraw that, and
closes when it likes. `Requests` lists the messages that make a difference.

### SmartLock

The contexts are the GPIO interrupts, which run to their end, and the task of
the FreeRTOS timer service, which they preempt. A start of a timer from an
interrupt is a command in a bounded queue (`queue`, `QueueLength`), refused when
it is full; a running timer may expire at any time. A callback is two actions,
between its accesses to a pin and to the state. `lost` records, as history, why
the last event of a pin will not be seen: the properties name these cases, and
hold in all others.

### Keypad

`KeypadInterrupt` is the whole handler past its debounce check: the scan, which
may read a lower column than the key's or none (`ScanResults`), the key's code,
and what the code does to the entry. The socket thread may run on the other core:
`setPasscode` therefore writes each element of the array and the length in a
step of its own, in any order (`todo`). `entry`, `codes` and `verdict` are history.

## 3. Runs

All were made with TLC and finish within three minutes each with two workers.

| Run | Instance | Properties | What it shows |
|---|---|---|---|
| `session` | 2 nodes (both kinds), 2 slots, 2 commands, queue of 2 beacons, 2-digit words, 1 restart | `TypeOK`, `SessionAgreement`, `NoncesInStep`, `EveryMessageHandled`, `CommandsInOrder` | both ends agree on the session and on the nonce of each message of either direction; `server.c:311` is dead code; a node runs only its own commands, in the order they were sent and without gaps |
| `session_queue` | 1 node, 1 slot, 3 commands, 1 restart, fair | `SentOrQueued`, `QueueSuffixes`, `ImplementsDelivery`, `NodeCycleEnds`, `QueuedEventuallyTaken` | although requests are skipped and sent repeatedly, none is lost in the queue, repetitions keep the order, and a skipped request is taken in a later session; a node always goes back to sleep; all of it implements `Delivery` |
| `recv_all` | 1 socket, lengths 5 and 6, buffer 18 | `TypeOK`, `IntactWhenInFrame`, `InFrameInBounds`, `NothingHeldBack` | reassembly is right within `Handled`, across wrap-around |
| `recv_all_two` | 2 sockets, 1 shared holder, length 3, buffer 10 | `IntactWhenInFrame` | a holder that changes hands starts afresh |
| `enrolment` | 2 sockets, 2 private keys, 2 faults, fair | `TypeOK`, `KeysAgree`, `NoBogusSession`, `RebootsHaveCauses`, `SelfHealing` | keys agree in spite of crashes and late answers; a node loses its identity only because of a fault; a node that the server ignores after a lost answer recovers: its sockets run out, and it reboots with a new identity |
| `smart_lock` | timer queue of 3, 4 interrupts, fair | `TypeOK`, `OutputsGuarded`, `StatesFollow`, `FlagsMatchTimers`, `KeypadComesBack` | whatever is switched on is switched off, states follow their sensors and the keypad comes back, unless a timer's start was refused, nothing has moved since the boot, or (limit switches only) an edge fell between the read of the pin and the clearing of the flag |
| `keypad` | keys 1, 2, 3, *, 0, #; 3 digits; 5 arguments | `TypeOK`, `OpensForPasscodes`, `VerdictsRight` | neither length leaves its array; a verdict is right unless the passcode is being changed, and then the lock can open for a mixture of passcodes only |
| `websocket` | 2 devices, list that grows at the second, 2 beacons, 2 messages each way, fair | `TypeOK`, `ReportAges`, `ReportComplete`, `CredentialsOnce`, `ViewsAgree`, `ReportsOnRequest`, `Authenticates` | both ends agree on authentication once nothing is on the way; reports are sent when asked for and are complete; a report reads freed memory only if the list moved, and otherwise mixes at most two consecutive beacons |
| `epoll` | 2 nodes, 1 LAN user, 2 descriptors, fair | `TypeOK`, `BacklogAccounted`, `InfosMatchSockets`, `EventsCurrent`, `NodesAccepted` | no event is about another connection than the one that caused it, no connection inherits a `connInfo`, `accept` never blocks; a node is accepted unless two arrived together or the thread has exited |

The runs that are expected to find a violation are those of section 6.

**Bounds and why they suffice.** *Session*: two nodes and two slots give every
pair of node and connection, reuse of a slot by the other node, and a session
next to another; with `Randoms = {0, 3}` over two-digit words the nonces 1 and 3
include a word that byte order changes, one that it does not, `getrandom`
returning 0, and sums that wrap around to 0. Two commands and two
beacons of a noise monitor can pass in one session, so that counters go past 1 in
both directions, the sums wrap around in the middle of a session, and order and gaps
show. The state constraint `FewWhenParallel` of `MCSession` keeps this finite in
practice: while both slots are in use, at most one command has been requested and a
node has at most one beacon queued; one slot in use has the full load. Commands and
slots are interchangeable and therefore symmetry sets (the run has no temporal
property). In `session_queue` three commands are the fewest for
which a removal shifts a request that is then shifted again. *RecvAll*: the
buffer has room for three of the longest messages, as in the code, and lengths 5
and 6, or 3 in a buffer of 10, make every offset in the buffer the start of a message; two tags tell a message
from its neighbours. `MaxStray = 1` in the passing runs stops a holder after its
first chunk outside of `Handled` (the properties do not speak of it from there
on); the violation runs use 3. *Enrolment*: two faults allow each pair, such as a
crash during the write that repairs the effects of an earlier crash, or a late
answer and then a crash. *SmartLock*: three commands are what a correct passcode
posts, so a queue of three is full, just full and partly full; four interrupts
give two events on each side of a callback (the build has a queue of ten).
*Keypad*: a passcode shorter than the factory's, one as long, one longer, an
empty one and two that are rejected, in a buffer that three digits fill.
*WebSocketClient*: the second device finds the list full, and two beacons are
what a mixture needs. *EpollSet*: two nodes arrive together or apart, and with
two descriptors and three connections descriptors are reused and run out. The
safety properties were also checked with three nodes.

**Deadlock** is checked in `Session` and `RecvAll`. It is not in `Enrolment`: a
node that is `stuck` with an idle server has no step left (in the code it polls a
closed socket for ever); nor in `SmartLock` and `EpollSet`, where interrupts and
connections are bounded and the system comes to rest.

## 4. Fairness

*Session*. A node's socket thread is weakly fair: every receive has a timeout
(`socketThread.c:88`). The epoll thread is level-triggered on connections, so it
keeps serving them, and it is not late in *every* session of a node: strong
fairness of accepting, of closing and of answering a node's nonce. Strong
fairness of accepting is justified only while one connection at a time is
pending, because the listening socket is edge-triggered with one `accept` per
event (`epollRecievingThread.c:149,199`; `NodesAccepted` in `EpollSet` says what
holds otherwise); `session_queue` has a single slot for that reason. Sending to a closed connection does not kill the server:
libwebsockets ignores SIGPIPE.

*Enrolment*. The threads go on (weak fairness of `Node`, `Server`) and a broadcast
sent every three seconds is received at some time. The network lets a
connection through, a first message be answered in time and an answer arrive
now and then (strong fairness). Nothing is assumed of faults.

*SmartLock*. Weak fairness of the timer service: its task is scheduled, and a
timer that runs expires after a fixed time. Nothing is assumed of interrupts.

*WebSocketClient*. Weak fairness of the thread, whose loop never blocks for more
than 250 ms and whose callbacks `lws_service` runs when they are due. Of the
remote service: it reads reports (weak), and it does not reject credentials for
ever (strong). It may close the connection or withdraw the authentication at
any time.

*EpollSet*. Weak fairness of the thread, which waits in `epoll_wait` only.

## 5. Proofs

Every type and safety invariant that a run checks is a theorem, and so is the
refinement of `Delivery`. The theorems hold for every value of the constants that
satisfies the named assumptions: any number of nodes, connections, commands,
devices, any word size, any `Swap` that is its own inverse and maps 0 to 0, any
buffer and queue size, any bound. The assumptions that say more than that a
constant is a number or a name of its own are: a buffer is larger than 0 and
holds three of the longest messages, and a message is longer than its length
field (`RecvAll`, as in `pckData.h`); a node has two sockets or more (`Enrolment`);
there are finitely many descriptors (`EpollSet`); arrays and the timer queue have room
for one element (`Keypad`, `SmartLock`).

*`SessionProofs!TypeCorrect`* (`Spec => []TypeOK`). Types alone are not
inductive: `conn[n]` must be a connection where it is used, and the sending loop
pops `toSend` elements while the main loop appends. `SocketInv` adds both.

*`SessionProofs!Agreement`, `Handled`* (`SessionAgreement`,
`EveryMessageHandled`). The node computes its session from the first message on
its way down, so the invariant `ConnInv` describes each stage of the exchange:
before the answer the only message up is the nonce of the node that holds the
connection and nothing is on its way down (`Fresh`); after it, the first message
down carries the server's nonce until the node has read it, and then the two
`connInfo_t` mirror each other. It also says that nobody else holds the
connection (`OneHolder`), that nothing is left on a free slot, so that reuse is
safe, and that a session whose sum is 0 stays without further messages, from
which `Handled` follows. `ConnCorrect` states it as an invariant.

*`EnrolmentProofs!EnrolmentTypes`* (`Spec => []TypeOK`); it includes where the
node has a socket and the server an exchange in hand.

*`EnrolmentProofs!KeyAgreement`, `SessionsAuthentic`* (`KeysAgree`,
`NoBogusSession`). `KeyInv` follows a key on its way: the request on the socket
carries the node's current private key and devId; a pending exchange of that
socket leads to the same secret, for a device not yet known; the file is the
registry plus the pending entry; an answer on the way, or a key in the node,
means that the secret is `Stored`, that is, in the registry of a running server or
in the readable file of one that is down. `Stored` is kept because the server
only ever adds unknown devices. `forgot` excludes servers that started with a
torn file: this is the point where the properties stop holding.

*`DeliveryProofs!DeliveryRefined`* (`Spec => ImplementsDelivery`). Each step of
`Session` is mapped to a step of `Delivery` or leaves what it sees alone. Three
steps need an invariant, `DeliveryInv`: `SendCommand` must send a command that
waits, so every request is filed under the device its commands were requested
for (`QueueFiled`); `RemoveRequest` must remove only commands that were sent or
discarded, so in the middle of the walk the commands before position `epoll.j` of
the request at `epoll.i` have been (`WalkInStep`), although other requests hold
the same commands; `NodeExecute` must run a command meant for the node, so what is
in flight on its connection is (`InFlight`), because the walk serves the node that
holds the connection (`ServesHolder`, which rests on `ConnInv`). Lemmas state what
`addToCommandQueue` and `removeFromList` do to the set of queued commands.

*`DeliveryProofs!NoCommandLost`* (`Spec => []SentOrQueued`) follows from the same
invariant.

*`KeypadProofs!KeypadTypes`, `OpensOnly`, `VerdictsCorrect`* (`TypeOK`,
`OpensForPasscodes`, `VerdictsRight`). The invariant `KeypadInv` says that the
buffer holds what was typed since the last verdict (`BufferHoldsEntry`), that what
`setPasscode` has written so far agrees with the new passcode (`WrittenSoFar`), and
that each digit of the array, and its length, come from passcodes that were set or
are the zeros of the start (`Origins`). No key types a zero (`NoZeros`), so those
zeros never match an entry. With nothing left to write the array is the passcode,
and what `passcodeEntered` compares is the passcode and the entry.

*`DeliveryProofs!CommandsCorrect`, `NoncesCorrect`* (`CommandsInOrder`,
`NoncesInStep`). What a node has run is a prefix of what was sent only because the
rest is on its way, in order, and a nonce is right only because the counter of its
sender counts what was sent. `OrderInv` therefore relates four things: what was
sent on a connection, what is in flight on it, what was run, and the counters
modulo 2^32 (`ServerBooks`, `DownInOrder`, `UpInOrder`). The hard state is `Offered`: the server's
nonce and commands after it are on their way to a node that does not know the
sessionId with which they are numbered; `Sum` is the one it will compute.
`OrderCorrect` states the invariant; it rests on `ConnInv` and `DeliveryInv`.

*`DeliveryProofs!QueueInOrder`* (`QueueSuffixes`): inductive together with the fact
that no request is empty. The lemmas say how `addToCommandQueue` extends every
request of a device by one command, and that removal from the middle keeps order.

*`EnrolmentProofs!RebootsCaused`* (`RebootsHaveCauses`). A node reboots when its
sockets run out. `RebootInv` says that a node which has used up its faults, one for
each boot after the first, is `Calm`: the server has not heard of its new identity
before its first request, answers that one, and no socket but one stays open. Two
sockets are therefore enough, and needed. The server may still hear late of
requests on closed connections, but those are of earlier boots (`PastDevices`).

*`RecvAllProofs!ReassemblyIntact`, `BoundsKept`, `NothingHeld`*
(`IntactWhenInFrame`, `InFrameInBounds`, `NothingHeldBack`; `RecvAllTypes` for
`TypeOK`). `RecvInv` describes a holder in frame up to its last byte. A stream
consists of whole messages with consecutive tags (`Streams`). Between two calls a
holder is idle, or has the first bytes of one message at their places around the
end of the ring buffer, and the stream goes on with the next byte (`Settled`);
in a call it has one message with the bytes of the chunk, or exactly two complete
ones (`InCall`; for these `Handled` compares the size of the chunk with the lengths
of the messages it begins and ends with). `LengthRead` shows that a length is read
only where a whole length field has been stored, `DataOne` and `DataTwo` that what
is copied, in one part or two, is the message, and `TagsInStep` that it is the next
one. Steps for other sockets leave this alone: a socket has one holder at most
(`OneOwner`), and the holder with a socket's bytes is the one that `recvAll` takes
for that socket again (`ServesChosen`, `Others`).

*`EpollSetProofs!BatchCurrent`, `InfosCorrect`, `BacklogCorrect`* (`EventsCurrent`,
`InfosMatchSockets`, `BacklogAccounted`; `EpollTypes` for `TypeOK`). They are
inductive together with `EventsDistinct`: a batch has at most one event about a
descriptor, so a descriptor that is still to come in it is not closed and
`accept` cannot give it away. That the batch has each once follows from lemmas
about `SetToSeqs` and needs finitely many descriptors. The backlog is counted per
listening socket, and a connection waits at its own port (`BacklogPorts`).

*`WebSocketProofs`* (`ReportAges`, `ReportComplete`, `CredentialsOnce`, `ViewsAgree`,
`ReportsOnRequest`, `TypeOK`). The invariant has three parts. `ListInv`: the list is
what is counted and, in the middle of `addToList`, one entry more, and in an entry
the time is not newer than the door state, nor that than the lock state.
`ReportInv`: what the report has read of its current entry is not newer than what
is there, and memory is read that does not hold an entry only if the list has
moved. `LinkInv`: while authentication is in progress, either the credentials are
on the way or the first message to be received is the answer (`AuthStates`); a
withdrawal is the last message on its way (`Withdrawal`); a callback is due only
for a report that is owed, or to authenticate (`Owing`).

*`SmartLockProofs!OutputsEnd`, `SensorsFollowed`, `FlagsCorrect`*
(`OutputsGuarded`, `StatesFollow`, `FlagsMatchTimers`; `LockTypes` for `TypeOK`).
`LockInv` adds that a timer with a flag is in one place only, queued once,
running, or in its callback (`StartedOnce`), that the bolt presses one switch at a
time (`OnePressed`), and what is known of the pins while a callback holds a value
it has read before an interrupt (`ReadingsKnown`).

Only model-checked: the liveness properties (`NodeCycleEnds`,
`QueuedEventuallyTaken`, `SelfHealing`, `KeypadComesBack`, `Authenticates`,
`NodesAccepted`), because fairness is beyond TLAPS. The violations of section 6
are counterexamples on instances.

## 6. Where code and comments disagree

Each line is a run that TLC refutes; `PROJECT.json` quotes the text.

| Run | The code |
|---|---|
| `closes_after_receiving_all` | a node hangs up after one `recvAll`; commands still on their way are lost |
| `defragments_messages` | the end of a message together with more than one complete message is delivered garbled (`pckData.c:1139`) |
| `discovery_ends` | any other datagram on the port ends discovery for good (`socketThread.c:144`) |

The models show more that no run singles out:
- a new request is created even if one for the device exists (`server.c:439`),
  although the comment says "If no corresponding commandRequest for the DEVID was
  found", so a command may be sent twice; the request after a removed one is
  skipped (`server.c:414`) by a function that "Empties the server message queue for
  specific device". `QueueSuffixes`, `SentOrQueued` and `QueuedEventuallyTaken`
  tell what holds nevertheless;
- a free holder is used without being claimed (`pckData.c:973`), so two
  connections may share it and have their bytes assembled into one message
  (excluded from `Handled`);
- a file torn by a crash during its rewrite is never written again
  (`server.c:501`), though the repository's README says that the devices are saved
  "whenever a new nodeData is added";
- a LAN connection is added to the epoll set under the number of the last node
  connection (`epollRecievingThread.c:250`): unless the new descriptor happens to
  have that number, `epoll_ctl` fails and the thread exits, and with it the whole
  server's side of the protocol (`HandleLan`);
- of two connections that arrive together the second is accepted only when a
  third arrives, and one stays behind for good (`merged`);
- the scan leaves the pin of column 3 high (`matrixKeyboard.c:141`) and nothing
  resets it, so after the first key press 3, 6, 9 and # cause no interrupt; the
  comment at `matrixKeyboard.c:159` says "# is submit code (11)". The code of the 0
  key is 11, too (`matrixKeyboard.c:213`): it is 0 that submits, and the digit 0
  cannot be typed although a passcode may contain it;
- if the start of a timer is refused, the motor, a light or the buzzer stays on
  (`smartLockCore.c:205`), or the keypad stays dead (`matrixKeyboard.c:102`);
- an edge of a limit switch between the read of its pin and the clearing of its
  flag leaves `currentLockState` stale until the bolt moves again
  (`smartLockCore.c:352-360`), and both states are 0 after a boot whatever the
  sensors say;
- an empty passcode is accepted by `changePasscode`, and a changed one is gone
  after the next boot, because `loadInNodeSettings` erases the flash before it
  reads it (`client.c:588`);
- authentication in progress counts as authenticated for requests
  (`webSocketThread.c:195`), although the comment above says that a message is
  ignored "If connection not authenticated"; the report repeats the first digit of
  the passcode in the place of the others (`webSocketThread.c:377`);
- if the nonces add up to 0, nothing can be sent and the queued commands are
  removed all the same (`SendCommand`, `dropped` in `SentOrQueued`), although the
  comment at `server.c:413` says they are removed "after sending them";
- two messages in one chunk advance `sizeUsed` twice, since `hasBufferCirculated`
  is local to each activation of `handleMsgData`, and then past the end of the
  buffer (the last line of `Handled`, `RecvOutside`);
- each boot makes a new devId (`Boot`), which the repository's README calls a "one
  time randomly generated" number; `client.c:588` marks this as temporary;
- a late answer leaves the server with a key for a devId that the node can never
  obtain (`ExchangeFails`); `SelfHealing` tells how it gets over that.

## 7. Not modelled

Vendored code (mbedtls, tinyECDH, libwebsockets, json-c) is used as it promises
to work. AES-GCM is key equality. The opcode table in `protocol/pckData/commands.c`
is not used by the message paths. `MainServerOld`, `mainClient_bak`, `pckData_bak`
and the `backup` directories are former versions; `testing/` and `helpers/` are
manual tools. WiFi and flash set-up and sensor sampling are hardware I/O. The
byte layout of a message (`initPckData`, `appendToPckData`, element lookup) is
straight-line code without state of its own; the models treat a message as its
fields. The text of websocket messages is left out. `matrixKeyboard2.c` is not
compiled, and `rotateMotorAnticlockwise` is never called.

Most of the lines of this repository are those libraries and former versions,
some of them in several copies: the program's own code, which is what the modules
model, is a few thousand lines of `mainserver/mainServer`, `nodeClient/mainClient`,
`nodeClient/testEsp32/main`, `protocol/pckData` and `misc/ArrayList`.

## 8. Plan

Done, in this order: command queue and sessions; reassembly; enrolment; types
and agreement of sessions; types and key agreement of enrolment; the abstract
specification of delivery and the proof that sessions implement it; smart lock;
keypad; the websocket client with the device report; the epoll set; the theorems
about the keypad. Then the proofs of all other invariants: smart lock, epoll set,
websocket client, order of commands and nonces in a session, the reboots of a
node, reassembly.

Next. Action properties about what a step may never do (a session's nonces once
set, an entry of the registry, the sending counters), stated for the runs in place
of shallower invariants and proved from the invariants above; an abstract
specification of reassembly, a reliable channel of messages per socket, that
`RecvAll` implements within `Handled`, with `RecvInv` for its proof.
