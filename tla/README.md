# A verification project for bramble-go

TLA+ modules that model the concurrent core of the Bramble SDK for Go, the TLC
configurations that check them on small instances, and proofs, checked by TLAPS,
that the main safety properties hold for every value of the constants.

- Parts of the system: [Inventory](#inventory)
- What is modelled: [Modules](#modules)
- What is checked: [Runs](#runs), [Fairness](#fairness), [Disagreements](#disagreements-between-code-and-comments)
- What is proved: [Proofs](#proofs)
- What is left: [Not modelled](#not-modelled), [Plan](#plan)

## Inventory

A `Client` holds one `Transport` and one `Protocol`. The transport moves whole
JSON messages to and from a device; the protocol multiplexes calls and
notifications over it; the client gives both a typed surface.

```
 goroutines of the program        Client.Call, typed wrappers, Screenshot
        |                                     |
        v                                     v
  Protocol.Call  --Send-->  Transport  --->  device (and its console)
        ^                       |
        | pending[id]           | Receive
        +---- reader goroutine -+
                |
                v notifyCh (64)
          Client.notifyLoop --> callbacks
```

| Component (source) | State | Operations | Interacts through | Hard behaviour | Correct when |
|---|---|---|---|---|---|
| JSON-RPC protocol (`protocol.go`) | next id, pending table, one channel per call, notification queue, `done` | `Call`, reader goroutine, watcher goroutine, `Notifications`, `Stop` | transport's `Send`/`Receive`, channels to the callers, queue to the consumer | answers late, lost, echoed, repeated; retry on `ErrReconnecting`; contexts ending; `Stop` at any moment; a slow consumer | every call ends once, with its own answer or with a cause; the reader never depends on a caller or on the consumer; order of notifications kept |
| WebSocket transport (`transport/websocket.go`) | current connection, `reconnecting`, `done` | `Connect`, `Send`, `Receive`, `reconnect`, `Close` | called by the protocol's reader, by callers, by goroutines its own failed writes start; callbacks | everything outside the mutex works on a captured connection; several goroutines find it broken; `Close` during the sleep or the dial | one reconnects at a time; backoff as documented; connections only get newer; after `Close` everything ends |
| Serial transport (`transport/serial.go`, `auth.go`) | port, scanner, `recvCh` (32), `errCh` (1), `reconnecting`, `done` | `Connect` with authentication, reader goroutine, `reconnect`, `Send`, `Receive`, `Close` | as above; device console on the same line | queue full blocks the reader; authentication reads the first JSON line; `Close` during reconnect; end of stream without an error | no line lost or reordered; nothing used before it is authenticated; reader ends after `Close` |
| BLE transport (`transport/ble.go`) | device, characteristics, `connected`, `reconnecting`, `closing`, `closeCh`, `recvCh` (32), line buffer | `Connect`, `connect`, `authenticate`, `handleConnectionStateChange`, `reconnectLoop`, `Send` in chunks, `onNotification`, `Receive`, `Close` | callbacks of the adapter in goroutines of its own | state-change events in any order; the authentication goes through `Send` and `Receive` themselves; buffer and channel outlive the link; writes that vanish without an error; `Close` during `reconnectLoop` | loops bounded by the flag; losses repaired; loops end after `Close`; lines in order; the token never written in part; a link opened by the device's acceptance |
| Client session (`client.go` 1-247, 1200-1349) | protocol, callbacks, mutex | `NewClient`, `Connect` with version check, `Close`, `notifyLoop`, `On...` setters, `Call` | protocol, transport, callbacks | version check that fails half way; second `Connect`; callbacks replaced while they run | a late loop serves no older session; a replaced callback is called at most once more; only a version the SDK speaks is accepted; a call in a callback returns |
| Typed wrappers (`client.go` 249-1199, `types.go`) | none | one RPC each, encode and decode | `Protocol.Call` | results absent, null or of another format; `Airtime` reads two formats | a success was said by the device; names and tiers are not lost |
| Screenshot (`screenshot.go`) | pixels so far, announced size | capture, paged fetches | `Client.Call`; one frame held on the device | an untrusted device; two callers share the frame | no overrun, no gap, one frame, an end |
| Version check (`version.go`) | none | `IsCompatible` | used by `Connect` | malformed versions | order of triples |
| Network key, anchor (`network_key.go`, `anchor.go`) | none | derive, encode, sign, verify | arguments of wrappers | none beyond cryptography | test vectors |
| Options, interface (`transport/options.go`, `transport.go`) | configuration | setters | constructors | none | – |
| Mock and examples (`transport/transporttest`, `examples/`) | – | – | – | – | – |

The hazards, each at its line, are in `PROJECT.json`.

## Modules

| Module | Models | Role |
|---|---|---|
| `RpcService` | what `protocol.go` promises its users | abstract specification |
| `RpcProtocol` | `protocol.go` | detailed specification, implements `RpcService` |
| `RpcProtocolProofs` | | theorems about `RpcProtocol` |
| `WebSocketTransport` | `transport/websocket.go` | detailed specification |
| `WebSocketTransportProofs` | | theorems about `WebSocketTransport` |
| `SerialLink` | what `transport/serial.go` promises the protocol | abstract specification |
| `SerialTransport` | `transport/serial.go`, `transport/auth.go` | detailed specification, implements `SerialLink` |
| `SerialTransportProofs` | | theorems about `SerialTransport` |
| `ScreenshotTransfer` | `screenshot.go` | detailed specification |
| `ScreenshotTransferProofs` | | theorems about `ScreenshotTransfer` |
| `BleTransport` | `transport/ble.go`: link, loops, reports | detailed specification |
| `BleLines` | `transport/ble.go`: lines, chunks, the token's write | functions of their inputs |
| `BleMessages` | `transport/ble.go`: messages and tokens over several links | detailed specification, uses `BleLines` |
| `BleTransportProofs` | | theorems about `BleTransport` |
| `BleLinesProofs` | | theorems about `BleLines` and `BleMessages` |
| `ClientSession` | `client.go`: session, dispatch, callbacks | detailed specification, uses `VersionRange` |
| `VersionRange` | `version.go` | functions of their inputs |
| `ClientResults` | `client.go`: typed methods | functions of their inputs |
| `ClientSessionProofs` | | theorems about `ClientSession` |
| `ClientAnswersProofs` | | theorems about `VersionRange` and `ClientResults` |
| `MC...` | | model values and symmetry for TLC; the functions' properties as invariants of the initial states |

### RpcProtocol and RpcService

`RpcProtocol` has one variable per field of `Protocol` that matters (`nextID`,
`pending`, `notifyCh`, `done`), one channel per call (`chan[i]`, made by `Call`),
the place and hand of the reader, the place, id and outcome of each caller, and
the device's side.

- **Call** is cut at every point where another goroutine can act: taking the id
  (`BeginCall`), encoding (`MarshalFails`), registering (`Register`), each `Send`
  (`Send`, with its three ways to return), the backoff (`BackoffElapsed`,
  `BackoffAborted`), the final select (`WaitAnswer`, `WaitAborted`) and the deferred
  delete with the return (`Leave`). A select with several ready cases takes any.
- **The reader** looks at `done` (`ReaderCheckDone`), receives (`ReaderReceive`,
  `ReaderReceiveError`), classifies and looks the id up (`RouteResponse`,
  `RouteNotification`, `RouteDiscard`), and, separately from the look-up, sends to the
  channel it found (`ReaderDeliver`), so that a caller may leave in between.
- **Messages** are records of what the reader tells apart: id or none, method or
  none, decodable or not; the body of an answer is 0 for a result and 1 for an error.
- **The transport** is the interface of `transport.go` and nothing more: it may fail
  any `Send` after the bytes have gone out, fail any `Receive`, and lose what is in
  flight (`WireLost`). Messages are not reordered: every transport of the repository
  is a stream or a sequence of frames.
- **The device** answers what it has received, in any order, late or never; with
  `Duplicates` more than once. It notifies, echoes (a serial console does), and
  emits noise. The code being modelled from its uses, these actions are external.

`RpcService` says the same without reader, channels or transport: a call has an id
that no other call has, settles once with an outcome it is entitled to (a result or
an error the device gave to that id, an expired context, a stopped protocol, a
failed encoding or send), and returns; notifications are consumed in increasing
order. The refinement mapping (`Service` in `RpcProtocol`) takes `used` to `nextID`,
`op[c]` to the id and outcome of `c`, and drops the rest; reader, registration,
sends and the transport are stuttering steps.

### WebSocketTransport

A connection is a number, and `status` tells whether it is up, broken by the
network or closed by us. Each section under `mu` is one step; what the code does
outside `mu` (read, write, callbacks, sleep and dial) is a step of its own on the
connection captured before. `job[w]` is where a goroutine is in `reconnect`: the
receiver runs it inline, a failed write starts a goroutine for it. The receiver loop
(`rxPc`) is the protocol's reader as the transport sees it. `Client.Close` first
stops that loop (`StopLoop`) and then calls `Close`, in two steps (`CloseDone`,
`CloseConn`) because `done` is closed before the mutex is taken. A write on a
connection the network has dropped may still return nil, as a buffered write does,
and reading or writing with a cancelled context closes the connection, as the
library documents. The callbacks are steps (`OnDisconnect`, `OnReconnect`) that
return: a callback that never returns would stop the reconnect, which is the
application's fault. A panic-free `Connect` happens once, or again after a dial that
failed; a second successful `Connect` is not modelled.

### SerialTransport

`Connect` and the reader never run at the same time, so one variable, `pc`, says where
whichever of them there is stands; `starting` says that it is `Connect`, which holds
`mu` from the open until `authenticate` has returned. The reader's loop is cut at
every point where `Send`, `Receive`, `Close` or the device can act: the look at `done`
(`ReaderCheckDone`), `Scan` and its failures (`ScanFails`, `FailedDone`, `FailedEof`,
`FailedError`), the select on `recvCh` and `done` (`Push`, `PushDone`), and the steps of
`reconnect` (`Enter`, `Callback`, `CheckDone`, `OpenFails`, `OpenSucceeds`). Both
authenticate with the same actions (`AuthSend`, `AuthSkips`, `AuthAccepts`,
`AuthRefuses`, `AuthReadFails`), which differ in who goes on afterwards and in `mu`: the
reader does not hold it.

A port is a number, its `status` what has become of it, and a line a record of its
port, its number and its kind: what the device answers to the token, the console's echo of
the token (an answer for `validateAuthResponse`, which asks for id 0 and no error),
any other JSON, or a log line. A port may be lost at any time, with or without what it
had in its buffer; a read may come to a clean end at any time. `Deadlines` says whether the
port has `SetReadDeadline`, which the code asks for with a type assertion: `serial.Port`
does not have it. A `Send` that fails changes nothing and a second `Connect` is not modelled.

`SerialLink` says the same without goroutines, channel, scanner and flags: the device sends lines, `Receive`
returns them in that order, each at most once, with a gap only at a port opened anew, and what is
read and written belongs, with a token, to a port on which it was granted. The mapping takes `written` to
`requested`, drops the kind of the line in `last`, and leaves `lines` and `granted`; everything but
the device's lines, `Send` and `Receive` is a stuttering step. (`Link` in `SerialTransport`)

### BleTransport, BleLines and BleMessages

`BleTransport` has the fields `connected`, `reconnecting`, `closing` and `closeCh` (as
`closed`) of `BLE`, the link itself, and the queue of link changes that the adapter has
not reported yet: the handler runs in a goroutine of the adapter's and knows links by
their address only, so a report may be about a link that is long gone. `Connect` and each
`reconnectLoop` go through the same steps of `connect` (`Dial`, `SetConnectHandler`,
`Discovered`, `Install`, `Authenticated`, and their failures); `Report` and `AuthDrops` run
`handleConnectionStateChange`, whose section under `mu` (`HandleLoss`) and whose
start of a loop (`StartLoop`) are two steps with `OnDisconnect` between them. `OnReconnect`
and `OnDisconnect` only return and change nothing. `Close` is one step, since it holds
`mu` over `Disconnect`. The device is one, so every link has the same address.

`BleLines` has what needs the bytes: `TakeByte` is the body of `onNotification`'s loop, `Chunk`
and `Write` the one of `Send`, `retrySend` repeats a `Send` whose writes end as a given list
says. A write may succeed, be busy, fail, or be lost: it returns no error and never reaches the
device, and neither does a later one on that link, which is what becomes of writes without
a bond (`ble.go:95-102`). These have no state of their own. Each loop is a recursive function of the number of its steps
(`Loop`). `MCBleMessages` checks them over all short inputs, `BleLinesProofs` proves them for all.

`BleMessages` puts them together over several links of one transport. `Connect` keeps the line buffer and
`recvCh` of the link before, as the code does. `WriteToken` is the write of `authenticate`
with its retries, `TakeAck` its `Receive` with the check of what it took, `Drop` the end of a link
or of the wait. The bytes of a link wait in `wire` and are notified one by one (`Notify`), `Read` is a
`Receive` of anybody else, also while `authenticate` waits. A message is a line of two letters that
carry what it says and the link it was sent on, so that a piece, and an answer of another
link, can be told from the right ones. The device answers the first line of a link and says
nothing of ok to a link whose token it has not accepted. That a link is lost or closed says
`BleTransport`; here it is down or not, and one link follows another.

### ClientSession, VersionRange and ClientResults

A session is one call of `Connect` that got as far as `NewProtocol`. `Client.proto` is the last
one, and each has a reader (`ReaderTakes`, `ReaderEnds`), a queue and a goroutine
`notifyLoop` of its own, which reads `c.proto` when it first runs (`LoopStarts`) and not when
it was started. All readers receive from one transport. `LoopTakes` is the receive
and the copy of the callbacks under `mu`, `LoopCalls` the dispatch, with a callback that is nil or
a payload that does not decode as ways back. A callback may make calls (`CallbackCalls`), which go
through `c.proto` as it is then. `Close` stops the current Protocol (`CloseStops`) and then closes the
transport (`CloseCloses`). One goroutine calls `Connect` and then `Close`; `Close` may
overlap with the version check, not with `t.Connect`, and nobody calls `Connect` while it runs. What happens
inside a Protocol is `RpcProtocol`'s: here an answer is handed over in one step, nothing
is retried and an echo is not seen.

`VersionRange` takes a version as the sequence of its segments. `ClientResults` takes the result
member of an answer as the members it has, `null` being an object without any, since that is what
`json.Unmarshal` makes of it: a query answered with `null` returns a zero value and no error,
a command, whose zero value is `ok: false`, an error.

### ScreenshotTransfer

One action per fetch outcome and one per verdict. The seven checks of the loop are
named (`TotalAccepted`, `InOrder`, `Fits`, `Advances`, and the `flaw` of a chunk that
carries an error or does not decode) and `Acceptable` is their conjunction. A pixel
is the pair of its frame and its position, so that "single consistent image" and
"no gap" can be stated. With `Honest = FALSE` the device answers any size, offset
and length; with `Honest = TRUE` it serves the frame it holds.

## Runs

All runs set `CHECK_DEADLOCK FALSE`: the systems stop for good when the bounds are
used up and everything is closed, and a program that calls nothing is not wrong.
What must not stop is stated as a liveness property.

| Run | Question | Bounds | Result |
|---|---|---|---|
| `RpcCalls` | Do racing calls each get their own answer, does the reader ever wait, is the service implemented? | 2 callers, 2 calls, 1 message in flight, lossy | holds, 0.6 M states |
| `RpcNotes` | Do notifications keep their order, does `Stop` end the reader, do ended calls return, do answers arrive? | 1 caller, 1 call, 4 notifications, queue of 2, nothing lost, fair | holds, 0.11 M states |
| `RpcJam` | Does `Stop` end the reader when an id is answered twice? | 1 call | violated, see below |
| `WebSocket` | One reconnector, backoff, only newer connections, a last one after `Close`, does everything end then, does a reconnect end? | 1 sender, 1 reconnect goroutine, 3 connections, fair | holds, 0.19 M states |
| `WebSocketLost` | Is `OnDisconnect` called only for a lost connection? | 2 senders, 2 reconnect goroutines, 3 connections | violated, see below |
| `Serial` | No line skipped, nothing used unauthenticated, does `Close` return and end the reader, is a loss noticed? | 2 ports, 4 JSON lines, channel for 1, 2 lines unread, with deadlines | holds, 0.16 M states |
| `SerialClose` | Does `Close` do so on a port without deadlines? | 1 port, a silent device | violated, see below |
| `Ble` | Loops bounded, a loop for every refusal, losses repaired, loops ended by `Close`? What can a token not do? | 2 loops, 2 losses, 2 `Connect`s, 1 `Close`, 2 unreported changes | holds, 58 k states |
| `BleMessages` | What opens a link? Is the framing kept? | 2 links, 2 messages on each besides the answer, no token, a right and a wrong one, five ends of its writes; texts of up to 5 bytes, chunks of 2, channel of 2, 3 tries | holds, 0.14 M states |
| `ClientSession` | Which session does a loop serve, how often is a replaced callback called, what does `Connect` accept, does a call in a callback return? Are versions and results read right? | 2 sessions, 3 notifications, queue of 1, 1 `Close`, 1 replacement, 2 ids each; at most 4 of these inputs together | holds, 0.39 M states |
| `Screenshot` | No overrun, no gap, an end? | 1 caller, 2 captures, sizes -1 to 4 with a cap of 3, chunks up to 4 | holds, 24 k states |
| `ScreenshotComposite` | Is an image of one frame with two callers? | 2 callers, honest device | violated, see below |

Why the bounds are enough. Two callers and two ids are what a mix-up needs, and a
caller that starts its second call covers the late answer to its first; the third
call would only repeat it. One message in flight is enough for each message to
meet every state of the callers, since the reader takes them one at a time; the
order of messages matters for notifications only, and that run has four and
a queue of two, so that a drop happens between two deliveries. Three
connections are the first, the one a reconnect installs and the one a stale
goroutine installs over it; a reconnect goroutine and the receiver compete for the
flag, two goroutines and the receiver in the run of the violation, and any number in the theorem. Six failed dials, counted by `fails`, walk the whole
backoff schedule. Two ports
are one that is lost and the one opened for it; of four lines one answers the token, and
the other three are in the channel, in the reader's hand and still unread. Two reconnect
loops are what `LoopsBounded` speaks of, one that a `Close` has lost track of and its
successor; two losses are one that starts a loop and one that meets it at work, and two unreported
changes let a report of each kind be late. Texts of five bytes are three chunks with
their newline and three lines with what is left in the buffer, one more than the channel holds. Two links are
one that leaves something behind and one that finds it; with its answer and two messages the first can fill the channel
and leave a piece as well. Two
sessions are the one that `c.proto` forgets and the one it holds; a callback that is called, the
notification that fills the queue behind it and one more in front of the answer are three
notifications. A screenshot cap of three with sizes and chunks on both sides of
it meets every comparison at, below and above its boundary. The theorems remove the
bounds for the safety properties.

The constants stand for: `NotifyCap` the capacity of `notifyCh` (64 in the code),
`MaxCalls`, `MaxEvents`, `WireCap`, `MaxConns`, `MaxFrames` and `MaxChunk` bounds of the
instance, `MaxBytes` the cap `maxScreenshotBytes` (32 MiB); in `BleLines` `ChunkSize` `bleChunkSize` (240),
`Retries` `bleAuthWriteRetries` (5) and `RecvCap` the capacity of `recvCh` (32), and `MaxLosses`,
`MaxConnects`, `MaxCloses`, `MaxReports`, `MaxLinks`, `MaxMessages`, `MaxSessions`, `MaxIds`, `MaxSets`, `MaxInputs` and
`MaxLen` are bounds. `Endings` lists the ends of a token's writes that a run considers; the theorem takes any.

Every property of a passing run has a mutant: an operator marked `Mutant:` in the
module, next to the definition it would replace, that has a bug this code could
have. With it in place, TLC finds the property violated.

## Fairness

`RpcCalls`, `BleMessages` and the runs of safety violations use none. The others assume:

- **RpcProtocol.** A goroutine that can run does (weak fairness of each caller's
  code, of the reader and of the watcher). `Send` and `Receive` come back:
  `Receive` returns with an error once its context is cancelled (each transport
  selects on it), and a reader that keeps finding messages gets one (strong fairness
  of `ReaderReceive`, since a failing `Receive` may intervene). A call that is sent
  to its backoff again and again does not lose the select to the timer for ever
  (strong fairness of `BackoffAborted`; a select with two ready cases picks at random, and `ctx.Done`
  is ready for the whole 50 ms before the timer is). Nothing makes a call begin, a context end, `Stop` be called,
  the consumer take a notification or the device speak.
- **WebSocketTransport.** A goroutine in `reconnect` runs, callbacks and `Sleep` return and
  a dial returns (it has a timeout of 10 s); one that is tried again and again
  succeeds at some point (strong fairness of `DialSucceeds`, only `ReconnectEnds` needs it).
  `Close` is called once the protocol is stopped, as `Client.Close` does. No
  fairness for writes, for the network or for messages.
- **SerialTransport.** Goroutines run, callbacks and opens return, `mu` is given to the
  `Close` that waits for it, and the protocol's reader receives until `Close`. With
  deadlines, the one of `readAuthResponse` passes even while the device logs (weak
  fairness of `AuthReadFails`: it is absolute). Reads that fail do not look like the end of
  the stream for ever (strong fairness of `FailedError`): a lost port that did would be
  read in a loop without end (`serial.go:193`), a hazard the code has if the library ever
  reports a loss that way. Nothing makes `Close` be called, an open succeed or a device
  speak.
- **BleTransport.** Goroutines run and the adapter reports what has changed. A loop that
  dials again and again links the device, and one that looks for its services again and again finds them
  (strong fairness of `Dial` and `Discovered`; only `LossIsRepaired` needs it, as nothing is
  repaired while the device is away). Nothing makes an authentication succeed, a link
  break, or `Connect` or `Close` be called.
- **ClientSession.** A reader for which there is a message takes it. That is all: that
  `CallbackCallsReturn` holds without any fairness of a `notifyLoop` or a callback is what it says.
- **ScreenshotTransfer.** A fetch comes back, with a chunk or with an error, because
  its RPC ends when its context does, and its caller goes on.

## Disagreements between code and comments

Four places where the code does not do what a comment says; each has a run whose
counterexample shows it.

1. `RpcJam`: `protocol.go:187`, "Stop signals the reader goroutine to exit". A second
   answer to an id blocks the reader in the send at line 118, where neither `done` nor the
   cancelled context is looked at.
2. `WebSocketLost`: `websocket.go:41`, "called (if non-nil) when the connection is lost
   unexpectedly". A goroutine that failed on the old connection and reaches the guard after
   another has reconnected reports a loss of a healthy connection and replaces it.
3. `SerialClose`: `serial.go:318`, "Close stops the background reader and closes the serial
   port". On a port without a read deadline, as `go.bug.st` opens it, `Connect` holds `mu` in `readAuthResponse`
   until the device speaks, and `Close` waits for `mu`: with a silent device neither returns. The
   reader waits in the same place for ever when `Close` comes during the sleep of `reconnect`: it finds no
   port to close, and the loop then opens one and waits without a look at `done`.
4. `ScreenshotComposite`: `screenshot.go:50-53`, "a single consistent image rather than
   a composite of several". True for one caller (`SingleCallerSingleImage`), not for two.

Five more, which the models show as well and which a property of a passing run names as the exception it makes:

- `websocket.go:149`, "Stops if Close() is called", and `transport.go:23`, "closes the connection and releases
  any associated resources". A `Close` during the sleep or the dial is not seen; the connection dialled
  then is installed and stays open. It is the last one (`LastInstall`).
- `ble.go:120`, `OnDisconnect` "is called (if non-nil) when the BLE link is lost unexpectedly". A loss handled before
  `connect` sets `connected` finds it false and is forgotten; the link is then taken to be up for ever (`Missed` in
  `LossIsRepaired`).
- `ble.go:530`, "Close disconnects from the BLE device", and `transport.go:23`. While a loop is inside `connect`, `Close`
  finds `connected` false and disconnects nothing; the loop installs the link, ends and leaves it up. Only that the loops end is
  a property (`CloseEndsLoops`).
- `ble.go:280-283`, "a bad token gets a -32603 error". `authenticate` takes the oldest line in `recvCh`, which is not
  emptied between links, and checks no id: an ok that an earlier link has left opens a link with a token that the device
  refuses. There is no other way (`AuthByAcceptance`).
- `ble.go:518`, "Receive blocks until a complete JSON-RPC message arrives". What a lost link has left in `lineBuf` is
  returned in front of the first message of the next, as one line, and in front of no other (`LinesKeepOrder`).

Three things the models show that no comment of the code speaks of:

- **A token ends automatic reconnects over BLE** (`TokenNeverReconnects`, also proved). `authenticate`
  writes the token with `Send`, which returns `ErrReconnecting` as long as
  `reconnecting` is set, and `reconnectLoop` clears it only after `connect` has succeeded. Every
  round links the device and cuts the link again.
- **A loss over BLE that nobody repairs**, besides the forgotten one above: one reported between the
  success of `connect` and the clearing of `reconnecting` (`LostBeforeDone` in `LossIsRepaired`) is told to `OnDisconnect`, but
  starts no loop.
- **A second `Connect` of a `Client` without `Close` leaves the first reader running** on the same
  transport: it takes messages of the second, whose calls then wait for their contexts. `CallbackCallsReturn`
  therefore speaks of one reader.

## Proofs

Proved by TLAPS, for every number of goroutines and every value of the bounds. Where the
table names no other, the only assumptions are those of the modules on their constants.

| Theorem | Statement |
|---|---|
| `TypeCorrect` | `RpcProtocol!Spec => []TypeOK` |
| `CallsGetTheirOwnAnswer` | `Spec => []OwnAnswer` |
| `ReaderDoesNotBlock` | `Spec => []ReaderNeverBlocks`, assuming `~Duplicates` |
| `NotificationsStayInOrder` | `Spec => []NotesInOrder` |
| `ProtocolImplementsService` | `Spec => ImplementsService` |
| `OneReconnectorAtATime` | `WebSocketTransport!Spec => []OneReconnector` |
| `ConnectionsGetNewer` | `Spec => ConnOnlyGetsNewer` |
| `BackoffKeepsSchedule` | `Spec => []BackoffSchedule` |
| `TypesHold` | `Spec => []TypeOK` |
| `CloseStopsDialling` | `Spec => LastInstall` |
| `SerialTypes` | `SerialTransport!Spec => []TypeOK` |
| `NothingUsedUnauthenticated` | `Spec => []AuthBeforeUse` |
| `LinesArriveInOrder` | `Spec => []NoLineSkipped` |
| `SerialImplementsLink` | `Spec => ImplementsLink` |
| `BleTypeSafe` | `BleTransport!Spec => []TypeOK` |
| `ReconnectLoopsBounded` | `Spec => []LoopsBounded` |
| `RefusalsHaveLoops` | `Spec => []RefusalHasLoop`: there is a loop, not that it ends the refusal |
| `TokenBlocksReconnect` | `Spec => []TokenNeverReconnects` |
| `LinesOnEveryLink` | `BleMessages!Spec => []LinesKeepOrder`, the lines of `BleLines` |
| `SpoiledOnEveryLink` | `Spec => []SendSpoilsOne` |
| `TokenOnEveryLink` | `Spec => []TokenWrittenOnce` |
| `AuthIsAcceptance` | `Spec => []AuthByAcceptance` |
| `ClientTypes` | `ClientSession!Spec => []TypeOK` |
| `LoopsServeLater` | `Spec => []LoopNeverBehind` |
| `ReplacedCalledOnceMore` | `Spec => []StaleAtMostOnce` |
| `NilMeansVersionSpoken` | `Spec => []NilMeansCompatible` |
| `RangeIsTheOrder` | `InRange` of `VersionRange` is the lexicographic order of triples of integers |
| `AnswersRead` | `ClientSession!Spec => []AnswersAreRead` |
| `ScreenshotTypes` | `ScreenshotTransfer!Spec => []TypeOK` |
| `ScreenshotsNeverOverrun` | `Spec => []NeverOverruns` |
| `ShotsAreComplete` | `Spec => []ShotIsComplete` |
| `SingleCallerSingleImage` | `Spec => []SingleImage`, assuming that there is one caller |

**RpcProtocol.** None of the properties is inductive. `TypeInv` adds to `TypeOK` that
ids in use have been handed out (`IdsHandedOut`) and that the reader in its
channel send holds a response (`DeliversResponses`). `AnswerInv` says that every
response anywhere (on the wire, in the reader's hand, in a channel) is one the
device gave to its id, and that channel `i` holds answers to `i` only; an echo or an
error cannot become a response because of its method. From it `OwnAnswer` is preserved by `WaitAnswer`, the
only action that could break it. For `ReaderNeverBlocks` the invariant `SingleInv`
counts: without duplicates there is at most one response with a given id in the
whole system, so the channel it is sent to is empty. `NotesOrdered` lines up the
queue, the reader's hand and the wire as one increasing sequence that starts above
`consumed` and ends at most at `emitted`; dropping from it keeps it increasing. For
the refinement `Coupled` relates outcomes to places in the code: a call is open
exactly until it reaches a return statement. Each action is then shown to be an
action of `RpcService` or a stutter.

**WebSocketTransport.** `LockInv`: the flag is set exactly while one goroutine is past
the guard (this is the property itself; types and the link between the receiver and
its `reconnect` make it inductive). `ConnInv`: connections are dialled in the order
of their numbers (`DialsInOrder`), so the one just dialled is greater than `conn`
(`FreshIsNewer`), and stays so until it is installed because nobody else is past the
guard. That is where `OneReconnector` is needed. `BackoffInv` adds that a reconnect
begins with no failures. `RestInv` types what these leave out and says in which order the steps of
closing come (`ClosesInOrder`). `LastInstall` is an action property: once `done` is closed nobody begins to dial,
and when `conn` is replaced nobody is dialling any more. At most one goroutine can have been at it, by
`LockInv`, so at most one connection comes up after `Close`: the comment of `reconnect` is
wrong by no more than that.

**SerialTransport.** `AuthInv`: one of the two flags is up wherever a port can be installed
without being accepted (`FlagsCover`), away from `authenticate` the port there is has been
granted (`InstalledIsGranted`), and what can be read comes from that port
(`WireFromPort`), so an answer left over from an older port cannot pass a new one. From
these, what `Send` writes to and what the reader takes belongs to a granted port. "Granted"
includes the echo: the theorem says what the code can tell, not that the device agreed.

For `LinesArriveInOrder`, `OrderInv` looks at the lines that have been taken from the port as one sequence: the
last that was returned, the channel, and the one in the reader's hand (`Taken`). Each follows the one before,
as successor on the same port or as a line of another port (`TakenInOrder`); what is unread ends at
the latest line the device sent (`WireInOrder`), and its first line follows the newest taken, as long
as the reader is there (`SeamInOrder`). A port is never opened twice, so the first line of a new port
follows whatever came before. The refinement (`SerialImplementsLink`) takes its facts from both invariants and from
`JsonInv`, which says that only lines with a brace, of a port, are on the way to `Receive`: a log line has no number of
its own. Seen from outside, the refinement is what `NoLineSkipped` and
`AuthBeforeUse` mean together; the run checks those two.

**BleTransport.** `LoopInv` counts the loops at work and the goroutines about to start one, as cardinalities
of two sets: steps between labels of the same kind keep them, a start moves one from the second to the first,
and only the section of `HandleLoss` that sets the flag adds one. `RefusalHasLoop` and `LoopsBounded` are its
two sides. For `TokenNeverReconnects` the count shows that without a `Close` the flag is set while
a loop works, so the step `Authenticated` is not enabled for it.

**BleLines.** What a loop computes is shown step by step: a set of natural numbers has a least element
(`LeastNumber`, from `WFMin`), so there is no first step at which the claim about a loop fails (`Induction`,
`StaysIn`). The claims are sets, which keeps the argument first-order. For reception, the lines
of a text followed by a byte are those of the text, and one more if the byte ends a line
(`LinesOfAppend`, `RestOfAppend`); hence the bytes of any notifications give the lines of their
concatenation, up to what a full channel drops (`NotificationsDeliver`). For sending, `SendSends` says how many chunks
a `Send` with given outcomes puts on the link, and the device reads their concatenation as one line with what
follows. A token that fits one chunk with its newline leaves nothing on the link when its write fails, and a longer
one is tried once, so no piece of it stands in front of another try (`Tried`). A lost write ends what reaches the
device (`Vanished`), while the `Send` goes on: what is there then is a beginning of the token without its newline. Chunks,
alphabets, capacities and lengths are arbitrary.

**BleMessages.** `MessagesInv` follows the letters. Whatever is on the wire, in the buffer or in the channel is of this link
or an older one, and a letter that says ok is of this link only if the device takes calls on it (`Vouched`): without
a token, or with one it has read and accepted. A step that keeps the link keeps what is vouched for, the token's write adds the
device's answer to what it has read (`DeviceReadsToken`), and a new link makes all letters older ones. A line
that passes `validateBLEAuthAck` is a message whose first letter says ok, so it is the device's acceptance of this
token or older than the link (`OkIsVouched`). Pieces that are glued together decode to nothing.

**ClientSession.** `LoopsInOrder` says that loops are started in the order of the sessions, so what a
loop reads in `c.proto` is its own session or a later one. `StaleInv` strengthens `StaleAtMostOnce` for a loop
that holds a callback which has been replaced: it has been stale less often than there were
replacements. `VersionInv` says that any answer in flight has the device's version or none, and no version is
incompatible (`NoTextIsIncompatible`).

**VersionRange and ClientResults.** These are functions, and the theorems about them need no state. The
comparison of `compareVersion` is the lexicographic order on all integers, one case for each
position at which two triples first differ; a text that is not three numbers is in no range.
`SegmentAssumption` says that the mark of a segment that is no number is not a number, `ValuesAssumption` that the
marks of an absent or undecodable member are none of the values they stand beside.

**ScreenshotTransfer.** `FillInv`: what has been collected is gapless and within the
announced size, the pending chunk says of its own pixels where they belong, and only
a full buffer is `done`. The device is arbitrary in this proof. `SingleCallerSingleImage` adds
`OfHeldFrame`: what has been collected, and the chunk on its way, is of the frame the device holds. Only
a capture changes that frame, and with one caller it begins with nothing collected; the
assumption is the one that `ScreenshotComposite` shows to be needed.

Checked by TLC only: liveness (`StopStopsReader`, `EndedCallsReturn`, `AnsweredCallsReturn`,
`CloseEndsAll`, `ReconnectEnds`, `CaptureEnds`, `CloseStops`,
`LossIsNoticed`, `LossIsRepaired`, `CloseEndsLoops`, `CallbackCallsReturn`), since fairness and ENABLED are beyond
the prover. Every invariant and action property that a passing run checks is a theorem, `ReaderNeverBlocks` under the
assumption of its run.

## Not modelled

- Of the typed methods, the field lists of `types.go`, optional parameters that are sent or not,
  and `SendProbe`'s hexadecimal id: conversions without control.
- That the goroutine of a `notifyLoop` never ends (`client.go:124`): no action ends it, and no comment says
  that it does.
- Over BLE: the scan and names of several devices; more than one device; a `Send` of another goroutine while
  `authenticate` waits, whose line the device would take for the token; the callbacks as calls that can be counted.
- What a late `notifyLoop` of an earlier session does to the order of notifications, and callbacks that run
  after `Close` from a queue that is still full: allowed by `ClientSession`, excluded by no property.
- Two goroutines in `Connect` or `Close` of one `Client` at the same time.
- Network keys and anchors: cryptography and hexadecimal checks on their arguments.
- Contents of messages, wording of errors, logging, TLS and HTTP headers.
- `SetAuthToken` while connected: the interface says it must be called before `Connect`.
- The busy loop of `Receive` while another goroutine reconnects: a matter of
  processor time, not of state.

## Plan

1. The composition of `ClientSession` with a transport that reconnects, where calls are lost with the
   connection and `Connect` is called again.
2. Messages on the WebSocket transport, which has connections only, and the composition of `BleMessages` with
   `BleTransport`. With them, both would implement a specification like `SerialLink`.
3. Theorems: what remains of each liveness property without fairness, as safety: that nothing but the steps a
   fairness condition names can keep the system from going on.
