# TLA+ models of goeip

This directory holds TLA+ models of the goeip EtherNet/IP stack (`src/`). TLC
checks them. Every module is written from the Go source. Every definition that
models code is listed in `PROJECT.json` ("map") with the file and lines it
translates.

## The system

goeip has an adapter (target) side and a scanner/client (originator) side.

| Part | Source | State it keeps | Concurrency |
|---|---|---|---|
| Encapsulation server | `unnamed/part_001` (server) | per-TCP-connection session handle | one goroutine per TCP connection |
| CIP message router | `pkg/cip/router.go` | registered objects by class | called from server goroutines |
| Assembly object | `pkg/cip/encode.go` (package assembly) | instances and their data buffers, `sync.RWMutex` | server goroutines, UDP listener, scheduler |
| Connection manager | `unnamed/part_008` | connection table, `nextConnID` | server goroutines under a mutex |
| I/O runtime | `pkg/runtime/runtime.go` | `connections` map of `*IOConnection`, `sync.RWMutex` | UDP listener goroutine, watchdog goroutine (100 ms ticker), application calls |
| Scheduler | `pkg/runtime/scheduler.go` | per-connection `LastSend`, `SequenceCount` | one goroutine, 5 ms ticker |
| Session / transport | `pkg/session`, `pkg/transport` | session handle, one TCP stream | shared by every caller of a Client, no lock |
| Client, tag listing | `pkg/client/client.go`, `discovery.go`, symbol codecs in `pkg/cip/encode_test.go` | a Session | caller goroutines |
| Reconnecting client | `pkg/client/reconnect.go` | current Client, mutex | caller goroutines |
| Tag monitor | `unnamed/part_002` | subscriptions, event channel, WaitGroup | one poller goroutine per subscription |
| Codecs | `pkg/eip/cpf.go`, `pkg/eip/discovery.go`, `unnamed/part_005`, `part_006` | none (pure) | none |

How they interact:
- On the adapter, the server decodes encapsulation and CPF and hands CIP
  requests to the router. The router dispatches them to the assembly object and
  the connection manager.
- The I/O runtime writes consumed UDP data into assembly instances through
  `AssemblyObject.SetAttributeSingle`. The scheduler reads produced data from
  them directly.
- On the originator, the scanner tool registers a session and sends
  Forward_Open. It then installs an `IOConnection` in its own runtime with
  `AddConnection`.
- The command-line tools wire these parts together: `cmd/adapter`
  registers two 32-byte assemblies, the assembly object and the connection
  manager with the router, and starts the runtime and the server.
  `cmd/scanner` builds its Forward_Open by hand (`encodeForwardOpen`).

## Hard behaviour (inventory)

- **Pointer kept across an unlock.** `handlePacket` looks a connection up under
  RLock, releases the lock, refreshes `LastReceive` under a second lock, and
  applies the payload through the pointer from the first lookup
  (runtime.go:190-267). Meanwhile the watchdog, `RemoveConnection` or a
  replacing `AddConnection` may have dropped that connection.
- **Snapshot scheduling.** `processTick` snapshots the producers under RLock and
  then sends from the snapshot without the lock (scheduler.go:49-81).
  `LastSend` is set after the send.
- **Unlocked buffer read.** `sendPacket` reads `conn.Assembly.Data` without the
  assembly lock (scheduler.go:154,175). A writer copies into the same slice
  under that lock (encode.go:170).
- **Watchdog.** Under Lock, `checkTimeouts` removes every consumer silent for
  longer than `RPI * (4 << TimeoutMult)` (runtime.go:88-123).
- **Run/Idle header.** The header is skipped, never interpreted
  (runtime.go:230-237).
- **Reused receive buffer.** `handlePacket` reads the id and the data length
  at offsets 6..13 of `buf[:n]` even when `n` is smaller. The bytes it
  reads are left over from an earlier datagram (runtime.go:127-188).
- **Sequence count.** `sendPacket` prefixes the data with the sequence
  count, and `handlePacket` never removes it (scheduler.go:156-175,
  runtime.go:188).
- **Server session handling.** Every connection gets the same constant handle.
  SendRRData is served before RegisterSession. UnRegisterSession closes without
  a reply.
- **Router errors.** A bad class segment becomes a Go error, so the server
  replies with encapsulation status 0x01.
- **Connection manager.** The table only grows. `nextConnID` is a wrapping
  uint32.
- **Client side.**
  - Session request/reply has no lock, and `TCPTransport.Send` makes two writes.
  - `executeWithRetry` retries operations that may already have taken effect.
  - The tag monitor's `emit` can block forever on a full buffer.
  - `ListTags` continues after transport errors.

`PROJECT.json` lists each of these in "hazards" at the line where it bites.

## Modules

### IORuntime (`IORuntime.tla`, instantiated by `MCIORuntime.tla`)

IORuntime models the I/O runtime, the scheduler, and the assembly writes
they race with.

State:
- `conns`: `Runtime.connections`, a partial function from id to an object. The
  object holds its config (RPI, TimeoutMult, IsProducer, IsConsumer,
  RunIdleHeader, RemoteAddr set?, Assembly) and ages.
- `sendAge` / `recvAge`: time since `LastSend` / `LastReceive`. `frameAge`
  (history) is the time since the object was last sent. Ages are capped at the
  first value every comparison of the code treats alike. They advance only
  where the code reads them: receive ages for consumers, send ages for
  producers.
- Pointer identity: when an object leaves the map, holders keep a detached copy.
  - The scheduler's snapshot `stodo` maps each id to "attached" or to that copy.
  - The listener's `lst.attached` records the same for the listener.
- `asmData`: each assembly's buffer as two halves, because `copy()` is not
  atomic against an unlocked reader. `aoLock` is `AssemblyObject.mu`.
- `lpc`/`lst`: the listener's place in `handlePacket`. `spc`/`scur`: the
  scheduler's place in `processTick`. `xst`: an explicit Set_Attribute_Single in
  progress.
- `wdAge`, `schedAge`: time since each ticker fired.
- `event`: a history variable naming what a step made observable (send, apply,
  watchdog). The action properties are stated over it.

Actions follow the code step by step, and each lock-free gap of the code is a
point where other actions may interleave:
- Listener: `Receive` (lookup under RLock, lines 190-209), then `Refresh`
  (re-lookup under Lock, 214-218), then one of:
  - `ApplyDiscard` (Run/Idle header too short, or nil Assembly);
  - `ApplyRejected` (size mismatch in `SetAttributeSingle`);
  - `ApplyBegin`, then `ApplyEnd` (the two halves of `copy` under the lock).
- Explicit Set_Attribute_Single: `ExplicitSetBegin`, `ExplicitSetEnd`.
- `WatchdogTick`: `checkTimeouts`, atomic under Lock.
- Scheduler: `SchedStart` (snapshot), then per id `SchedSkip` or `SchedSend`,
  then `SchedMark` (`LastSend = time.Now()`), and finally `SchedDone`.
- Application: `AddConnection`, `RemoveConnection`.
- Time: `Tick`.

Datagrams are abstract records: connection id, Run bit, header present, size
matches, value. A datagram that fails framing or names an unknown id changes
nothing, so the model does not enumerate it.

**Timing and fairness.**
- `Tick` may not pass a watchdog tick that is due: the watchdog runs as soon as
  its ticker fires. `checkTimeouts` is short and runs under one lock, so the
  100 ms ticker is not delayed by it.
- The scheduler's ticker period is one time unit. A tick that arrives while
  `processTick` runs waits in the ticker channel, so the next tick starts at
  once. The model gets this by letting `schedAge` grow during the loop.
- Weak fairness covers the listener's steps after `Receive`, the explicit
  writer's second half, the watchdog, every scheduler step and `Tick`.
  Runnable goroutines are eventually run, and time passes.
- Receiving datagrams, add/remove and explicit writes are environment steps
  with no fairness.

### IOFraming (`IOFraming.tla`, instantiated by `MCIOFraming.tla`)

The bytes of implicit I/O. IORuntime abstracts a datagram to a record,
and this module keeps the bytes:
- `ProducerFrame` is the frame `Scheduler.sendPacket` builds
  (`scheduler.go:85-182`): count 2, the Connected-Address item, and the
  Connected-Data item with the uint16 `SequenceCount`, the Run/Idle word
  and the assembly data;
- `ReadInto` is `listenLoop`'s `ReadFromUDP` into one buffer allocated
  once. `handlePacket` gets `buf[:n]`, a slice whose capacity runs to the
  end of the buffer. A read past `n` is therefore legal Go and returns
  what an earlier datagram left there;
- `HandlePacket` is `handlePacket`'s parse and its Run/Idle skip, followed
  by `SetAttributeSingle`'s size check. It drops, refreshes only,
  rejects, or applies.

State:
- `seq`: each producer's `SequenceCount`;
- `net`: the datagrams on the network;
- `buf`: the listener's buffer;
- `asm`: the consumers' assembly data;
- `event`: a history of the last step.

Actions:
- `SendPacket`: `SequenceCount++`, then the frame. Nothing is written when
  `RemoteAddr` is nil;
- `Deliver`: a datagram is read and handled.

A delivery leaves its datagram on the network. So UDP loss, duplication
and reordering need no actions of their own: any datagram may arrive any
number of times, in any order, or never. The consumer map is fixed here;
its changes, `LastReceive` and the locks are IORuntime's.

**Bounds.** Two consumers with 2-byte assemblies, one with a Run/Idle
header and one without. Producers:
- one with the same id and setting as each consumer;
- one with a nil `RemoteAddr`.

Each producer starts at `SequenceCount` 0 or 65535, so the wrap is taken.
There are at most 2 sends and a 24-byte buffer, which is longer than every
datagram (the code's is 2048 bytes). The foreign datagrams are:
- a well-formed frame for each consumer, with no sequence count;
- a frame too short for the Run/Idle header;
- frames cut at 10 and at 6 bytes. Their id and length come from the
  stale buffer;
- a frame with an unknown id.

No fairness is needed, because every property is a safety property.
Deadlock is checked. The listener can always receive another copy.

### ExplicitTarget (`ExplicitTarget.tla`, instantiated by `MCExplicitTarget.tla`)

The adapter's explicit-messaging side: the TCP server
(`unnamed/part_001`), the message router (`pkg/cip/router.go`), the
assembly object's Get/Set (`pkg/cip/encode.go`) and the connection manager
(`unnamed/part_008`). Every TCP connection has its own goroutine, so the
interleavings are between connections that share the assembly's RWMutex and
the connection manager's mutex, table and id counter.

State:
- `tcp[c]`, `sess[c]`, `pc[c]`: the socket, the `sessionHandle` local of
  `handleConnection`, and where its goroutine is (idle, blocked in `Lock`,
  or inside a Get/Set copy).
- `asmData`, `wlock`, `rlocks`, `wq`: the assembly buffer (two halves, so a
  copy can be seen half done), the RWMutex's writer and readers, and the
  writers blocked in `Lock`, in the order they called it.
- `table`, `nextConnID`, `opens`, `issued`: the connection manager's map,
  its counter (width scaled to `IdBits`), the number of opens, and a
  history of the ids handed out.
- `event`: the last reply or close, which the action properties read.

Requests are abstracted to one representative per code branch: for the
router, missing/malformed/unknown class segments; for the assembly, every
status `HandleRequest` can return, for Get and for Set alike (a Set to an
unknown instance or of attribute 4 takes the `Lock` before it fails); for the connection manager, four request
shapes (well-formed, truncated path, empty path at the end of the data,
short fixed part) for Forward_Open, Large_Forward_Open and Forward_Close.
Frame length is "max" (4096 bytes, served) or "over" (closed).

The actions are `Accept`, `PeerClose`, and one action per branch of the
frame loop and the dispatch it calls: `ServeOversize`, `ServeRegister`,
`ServeUnregister`, `ServeEncapError` (decode errors and router Go errors,
answered with encapsulation status 1), `ServeUnknownClass`,
`ServeAsmStatus` (assembly errors), `AsmSetCall/AsmSetLocked/AsmSetEnd`
and `AsmGetBegin/AsmGetEnd` (lock taken, copy in two halves, lock
released), `ServeCm` (Forward_Close and failed parses) and `ForwardOpen`.
A Set runs in two steps before its copy. `AsmSetCall` is the goroutine
calling `ao.mu.Lock` and queueing in `wq`. `AsmSetLocked` is the lock
being granted: a failing Set then answers with its status and unlocks, and
a matching one starts its copy. `ReadFree` follows `sync.RWMutex`: a new
reader waits while any writer waits. Writers are granted the lock in the
order they called `Lock`. This is `sync.Mutex`'s starvation mode, which
takes over once a waiter has waited 1 ms. The model does not let a newly
arriving writer overtake one that is waiting.

Fairness is weak, on granting the lock to the writer at the head of the
queue and on finishing a copy: a goroutine inside a copy runs on, and its
unlock is deferred. Nothing else in the server is forced to happen.
`SetsComplete` says that a Set blocked in `Lock` completes. It is violated
if readers may overtake a waiting writer, or if a path returns with the
lock held.

**Refinement.** `AssemblyAccess.tla` is the abstract specification of the
instance's data (spec sections 4.4 and 4.7): one value, which a Set
replaces at once and a Get returns whole. `ExplicitTarget` instantiates it
as `Assembly` with this mapping:
- `data` is `asmData[2]`, the half a Set writes last;
- `done` is `AsmAccess(event)`: the value a successful Get returned or a
  successful Set wrote, and `NoEvent` for every other step.

`AssemblySpec == Assembly!Spec` is checked as a PROPERTY. It is violated if
a Get returns a torn value or one already replaced, or if a Set replies
before all of its value is in place.

### ClientSession (`ClientSession.tla`, instantiated by `MCClientSession.tla`)

The client side of explicit messaging: `ReconnectingClient`
(`pkg/client/reconnect.go`), the `Client` it hands out
(`pkg/client/client.go`: `NewClient`, `ReadTag`, `Close`), the `Session`
(`pkg/session/session.go`: `Register`, `SendRRData`) and the TCP transport
(`pkg/transport/tcp.go`: `Send` is two writes, header then payload). The
callers are goroutines of the application, for instance one poller per tag
of a monitor whose reader is the reconnecting client, as
`docs/handling_disconnects.md` recommends. They share one `Client` and one
TCP stream.

State:
- `rcClient`, `rcClosed`: the reconnecting client's `client` field (a link
  number, 0 for nil) and `closed` flag; `dials` counts `NewClient` calls,
  and link `l` is the stream of the `l`-th dial.
- `tcp[l]`, `wire[l]`, `back[l]`: the socket state and the two directions
  of the stream, as FIFO sequences of chunks (a header or a payload, tagged
  with the call it belongs to) and of replies.
- `pc[c]`, `held[c]`, `tries[c]`, `lastErr[c]`, `calls[c]`: where caller
  `c` is inside `ReadTag`/`executeWithRetry`, the client it got from
  `getClient`, the loop counter `i`, `lastErr`, and how many calls it has
  made.
- `resets` bounds network failures; `event` records what the last step
  returned or served, and the properties read it.

Actions:
- `Call` starts a `ReadTag`.
- `GetRead` is the read-locked half of `getClient`.
- `GetLock` is the write-locked half, with its re-check of `closed` and
  `client`.
- `Connect` dials and registers.
- `SendHeader` and `SendData` are the two writes of `Send`.
- `Recv` reads a reply and maps its status to a result or an error.
- `Invalidate` is the compare-and-close after a failure, followed by the
  retry decision.
- `RcClose` is `ReconnectingClient.Close`.
- The peer is a target that answers frames in order (`Serve`, after the
  server loop of `unnamed/part_001`). When a payload sits where a header
  should be, the target reads it as a header: either its garbage Length
  exceeds 4096 and the target drops the link, or it answers the unknown
  command with encapsulation status 1 and reads on.
- `NetFail` is a lost connection.

Fairness: weak fairness on each caller's steps (a goroutine that can run
eventually runs) and on the target's `Serve`. Starting a call and `Close`
are application decisions and have none.

### TagMonitor (`TagMonitor.tla`, instantiated by `MCTagMonitor.tla`)

The tag monitor of `unnamed/part_002`.

State:
- `subs`, `closed`, `nextID`: the map, flag and counter kept under `m.mu`.
- `mStop`: the closed `m.stopCh`.
- `evBuf`, `evClosed`: the buffered `events` channel (capacity `Cap`) and
  whether it is closed.
- `wg`: the WaitGroup count.
- Per subscription:
  - `spc[s]`: where its goroutine is (`created`, `go`, `emit`, `loop`,
    `done`);
  - `sStop`: its `stopCh` is closed;
  - `polls`: the ticks it has taken.
- Per application goroutine `g`:
  - `cpc[g]`, `carg[g]`, `clist[g]`: where it is inside `AddTag`, `Stop` or
    `Close`, and its arguments.
- History variables for the properties:
  - `handles`: returned subscriptions;
  - `hStop`: `Stop` called;
  - `stopped`: `Stop` returned;
  - `closeCalled`;
  - `panicked`: a send on the closed channel.

Actions:
- `AddTag` runs up to the unlock, and `AddGo` does `wg.Add` and starts the
  goroutine.
- `Stop` is `removeSubscription` up to its unlock, and `StopWait` is
  `sub.stop()` waiting on `doneCh`.
- `Close` closes `stopCh` once. `CloseLock` takes the snapshot, `CloseSub`
  stops each subscription in turn, and `CloseWait` waits for the WaitGroup
  and closes `events`.
- `Run`, `Loop` and `Emit` model the poller. A poll always produces an
  event, because the reader's result only changes the event's content.
  `emit` is the two selects, and when both cases are ready the choice is
  nondeterministic, as in Go.
- `Consume` is a receive from `Wait()`, either by a dedicated consumer or
  (`Reader` = a control goroutine) by a goroutine that also calls `Stop`.

Fairness: weak fairness on every goroutine step and on the consumer. The
package documentation tells consumers to range over `Wait()`. Ticks stop
after `MaxPolls`, and the application may stop calling, so the monitor may
stop: deadlock is not checked.

### Codecs (`Codecs.tla`, instantiated by `MCCodecs.tla`)

The byte encodings of one explicit request, from the client's path builder
to the target and back:
- `Path`'s `Add*` methods and `LenWords` (`unnamed/part_005`);
- `MessageRouterRequest.Encode` and `DecodeMessageRouterResponse`
  (`unnamed/part_006`);
- the CPF codec (`pkg/eip/cpf.go`) and the encapsulation header;
- `Session.SendRRData`, the target's `handleSendRRData`, and
  `Client.ReadTimer` with `DecodeTimer`, and `Client.ReadTagInto` of a
  `Counter` with `DecodeCounter` (`pkg/client/client.go`);
- `Session.ListIdentity` and `ListServices` with the item decoders of
  `pkg/eip/discovery.go`. A device's replies are built by encoders written
  from the layouts of spec section 6;
- `Session.Register` (`pkg/session/session.go`) with
  `RegisterSessionData` (`pkg/eip/commands.go`), and the way
  `handleConnection` (`unnamed/part_001`) copies the request header's
  session field into every reply;
- `cmd/scanner`'s Forward_Open: the request its flags build, its
  hand-written `encodeForwardOpen`, and the parse at the top of
  `HandleForwardOpen` (`unnamed/part_008`).

Bytes are integers in 0..255, and every width is kept: `byte(...)` is
`% 256` and `uint16(...)` is `% 65536`. Signed int32s are written and read
in two's complement. The only abstraction is the Timer and Counter status
words: their flags (three for a Timer, five for a Counter) live in the top
byte, and the other three bytes are always zero.

State:
- `path` and `segs`: the bytes built so far, and the Add calls that built
  them.
- `req` and `wire`: the request sent and its frame.
- `served`: what `handleSendRRData` decoded.
- `answered` and `back`: the router's answer and the reply frame.
- `got`: what `ReadTag` returned.
- `listing`: the last discovery call, the items the device offered, the
  encapsulation status and what the session returned.
- `handle` and `reg`: the session handle `Register` kept, and the
  RegisterSession reply frame. `phase` starts at `"unregistered"`, as
  `NewClient` registers before any request.

Actions:
- `Register`: the RegisterSession exchange, answered with status 0 (the
  handle is kept and requests may follow) or 1 (the session stays
  unregistered);
- one action per Add method;
- `SendRequest`: a Read Tag or a Get Attribute Single request, or the
  scanner's Forward_Open for one of its flag sets, framed with `handle`;
- `Serve`: the target decodes;
- `Respond`: the router answers with a Timer or a Counter tag, or with a
  failure status, and
  the target encodes the reply;
- `Receive`: the client decodes;
- `ListIdentity` and `ListServices`: between requests, a discovery call
  with up to `MaxItems` items and status 0 or 1;
- `NextCall`: a new path.

The decoders are operators. `ParsePath` is a reference parser of the EPATH
grammar of spec section 3, and `RequestDecoded` compares the target's path
with it. Two further invariants:
- `SessionHandleEchoed`: once registered, the handle is not 0, the request
  frame carries it, and the reply frame carries it back.
- `ForwardOpenDecoded`: `HandleForwardOpen`'s parse of the scanner's bytes
  gives back every field of the request the scanner built, the path
  included.

**Refinement.** `ExplicitMessaging.tla` is the abstract specification of
what the two sides promise each other, with no bytes in it (spec sections
3, 6 and 8):
- a request is a service, the list of segments added and the data;
- the target serves exactly that request;
- `ReadTag` returns the tag value the router read, or its general and
  extended status;
- a discovery call returns the identity items or service items the
  device listed, or an error when the encapsulation status is not 0.

`Codecs` instantiates it as `Messaging` with this refinement mapping:
- `served` becomes `ServedRequest`, the target's path parsed back into
  segments;
- `got` becomes `ReadTagOutcome`, whose data is read back by
  `Client.ReadTimer` or `Client.ReadTagInto`, whichever the application
  calls for the tag's type;
- the segments are those the Add calls of `Next` stand for;
- `"unregistered"` maps to the abstract `"build"` (registration is below
  the abstract exchange), and the Forward_Open requests join its request
  set;
- every other abstract variable is the `Codecs` variable of the same name.

`path`, `wire` and `back` are hidden. `MessagingSpec == Messaging!Spec`
is checked as a PROPERTY. It holds only if every step of `Codecs`, with
every codec on both sides, is a step of the abstract exchange or a
stutter. It replaces the four per-direction invariants the project had
before. No fairness is needed, because every property is a safety
property.

### TagListing (`TagListing.tla`, instantiated by `MCTagListing.tla`)

`Client.ListTags` (`pkg/client/discovery.go`) on one client. It makes one
`Get_Attribute_List` on the Symbol class (0x6B, instance 0) for the highest
instance id, then one request per instance from 1 to that id.

The device's Symbol object is fixed when the listing starts (`table`). For
each instance it holds the CIP status of the reply, the status and value of
its name and type attributes, and whether the reply arrives cut. The
device's replies are bytes, built from the Get_Attribute_List layout of
spec section 6. `DecodeSymbolClassAttributesResponse` and
`DecodeSymbolAttributesResponse` (`pkg/cip/encode_test.go`) are recursive
operators that decode them as the code does. The TCP stream (`link`) may
break at any step (`NetFail`). The transport sets no deadline, so after a
break every later request fails.

Actions:
- `GetClassAttributes`: the class request, returning an error on a
  transport failure or a CIP error;
- `FetchInstance`: one loop iteration, with every skip case of the code;
- `ReturnTags`: the loop ends and the call returns a nil error.

`lost` is a history variable: the ids whose request failed on the
transport. Fairness: weak fairness on the loop's steps, because `ListTags`
runs on the caller's goroutine and every request returns. Nothing is fair
about `NetFail`. The call returns and the model stops there, so deadlock is
not checked.

## Runs

| Run | cfg | Expect | What it shows |
|---|---|---|---|
| runtime_core | `MCIORuntime.cfg` | pass | No consumer stays in the map longer than its timeout plus one watchdog period (`WatchdogExpiryBound`). Two frames of one connection are at least RPI apart (`ProducerSpacing`). Every producer with an assembly is eventually sent (`ProducersProduce`). |
| runtime_ingress_stale | `MCIORuntime_IngressOnlyForLiveConnections.cfg` | violation | A datagram is applied through a connection the map no longer holds. |
| runtime_torn_frame | `MCIORuntime_ProducedFramesWhole.cfg` | violation | A produced frame carries half of one write and half of another. |
| framing_core | `MCIOFraming.cfg` | pass | Datagrams arrive duplicated, reordered, never, or cut short after a longer one filled the shared buffer. Even so, `handlePacket` writes to an assembly only bytes of the datagram it is handling (`AppliedFromDatagram`). `sendPacket`'s frames have the layout of spec §9 scenario 4, across the `SequenceCount` wrap (`ProducerFrameLayout`). |
| framing_round_trip | `MCIOFraming_ProducedFramesApplied.cfg` | violation | A goeip producer's frame is rejected by a goeip consumer with the same id, Run/Idle setting and assembly size. `handlePacket` never skips the sequence count, so the data is always 2 bytes longer than the assembly. |
| target_core | `MCExplicitTarget.cfg` | pass | The assembly's data behaves as one atomic value: a Get returns the whole value held when it replies, and a Set's value is all there when it replies (`AssemblySpec`, the refinement of `AssemblyAccess`). A Set blocked in the assembly's `Lock` always completes, however the other connection reads and writes (`SetsComplete`). |
| session_core | `MCClientSession.cfg` | pass | Every transport the client replaces or abandons is closed (`NoLeakedTransport`), no connection is made after `Close` (`ClosedStaysClosed`), and every `ReadTag` returns after at most `maxRetries+1` attempts (`ReadTagReturns`). |
| session_replies_swapped | `MCClientSession_RepliesToOwnCall.cfg` | violation | Two concurrent `ReadTag`s on the shared Client can each return the other's reply. |
| monitor_core | `MCTagMonitor.cfg` | pass | `events` is never sent on after it is closed (`NoSendOnClosedChannel`). With a dedicated consumer, every `AddTag`, `Stop` and `Close` returns (`ControlCallsReturn`). |
| codecs_core | `MCCodecs.cfg` | pass | For every path of up to two segments at the 8/16/32-bit boundaries, the target decodes the service, data and segments the client meant (`RequestDecoded`). The byte-level codecs also implement the message-level `ExplicitMessaging` spec (`MessagingSpec`). `ReadTag` returns the router's Timer or Counter, with negative values and each flag, or its status and extended status. `ListIdentity` returns the identity items in order and skips other items by length. `ListServices` returns the names with their NUL padding trimmed. Every request and reply carries the handle `RegisterSession` returned (`SessionHandleEchoed`), and `HandleForwardOpen` decodes every field of `cmd/scanner`'s Forward_Open (`ForwardOpenDecoded`). |
| tags_core | `MCTagListing.cfg` | pass | When no request was lost to the transport, it returns exactly the named instances up to the reported maximum, in id order (`ListingExactWithoutLoss`). |
| tags_transport_continue | `MCTagListing_OkMeansComplete.cfg` | violation | After the connection breaks, `ListTags` skips every remaining instance and returns the partial list with a nil error. Spec §6 says transport failures end the enumeration. |

**Bounds.**
- One connection id. Every hazard above involves one connection and the
  goroutines that touch it; a second id multiplied the state space by about
  fifty without adding any interleaving of a different kind.
- One assembly, and one payload value besides the initial content (enough to
  see a half-written buffer).
- Three configurations:
  - a Run/Idle-less producer with RPI 2;
  - a Run/Idle consumer with RPI 1 (timeout 4);
  - a producer without an assembly (exercises the nil-assembly branches).
- Scheduler period 1 and watchdog period 2. With RPI 2, a producer is
  sometimes not yet due at a scheduler tick. The consumer's timeout of 4 spans
  two watchdog periods.
- TimeoutMult is 0 in the runs. The multiplier only scales the timeout, and
  larger values only lengthen the behaviours.

For ExplicitTarget:
- Two TCP connections, two triads and two payload values. Payloads and
  triads are symmetric. Connections are not: `SetsComplete` names a
  connection, and under symmetry TLC reported a lasso that only swapped the
  two connections' roles. Two of each is the least that shows shared
  handles, a torn read, a duplicate id and a writer overtaken by a reader.
- The id counter is 3 bits wide, starting at 4, with one open in
  `target_core` (the reproductions allow 3); that run checks only the
  assembly, and a second open only multiplied its states. The counter does not wrap in
  `target_core`. `MCExplicitTarget_IdWrap.cfg` uses 2 bits
  starting at 2, with 5 opens, so that it does wrap.

For ClientSession:
- Two callers with two calls each, `maxRetries` 1 (two attempts), three
  dials and one network reset.
- Two callers are what every concurrency hazard needs. Three dials let one
  session be replaced twice (a failure and then a failed redial).
- `maxRetries` 1 already separates a counted retry from an uncounted one.
  The code's default of 3 only lengthens the loops.
- `autoConnect` is either value in `Init`.

For TagMonitor:
- Two application goroutines and two subscriptions, so that `Stop` and
  `Close` can race over one subscription while another polls.
- An event buffer of 1 and two ticks per poller. A full buffer, where
  `emit` blocks, is reached with two pending events. The code's buffer of
  64 only takes longer to fill.

For Codecs:
- Two segments per path.
- Values on both sides of every width switch: class 255/256, instance
  1/65535, instance32 65535/65536, attribute 1/256, member 300.
- Names of odd and even length, which exercise the pad byte.
- One failure status with and without an extended-status word.
- Timers with PRE -1 and ACC -2^31, and flags that differ from each other.
- Two Counters, each of whose five flags differs from the other's, with
  ACC at -2^31 and at 2^31-1.
- Discovery replies of up to two items. Identity items have empty and
  non-empty product names, and they are mixed with items of another type,
  with and without data. Service names are 0, 5 and 16 characters long.
- Two scanner flag sets: the defaults (150, 100, 100 ms) and 300/256 with
  1 ms, where `byte(...)` wraps the assembly ids.
- The violation run uses names of 255 and 256 characters, the first lengths
  where a byte wraps.

For TagListing:
- Two instances. Each can be named or unnamed, missing (0x16 or 0x05),
  failing otherwise, or cut short. Its name and type attributes can each
  fail (attribute status 0x08). Two instances are enough for a break
  between a listed tag and a lost one. Three took ten minutes and added no
  new kind of case.
- A reported maximum of 0 to 2, whose attribute may fail, and a class reply
  of 0 or 0x08.

## Further counterexamples

These cfgs check one property each, and TLC finds it violated. They
reproduce disagreements between the code and spec.md that a single request
already exposes, except the torn frame, which has the same cause as
`session_replies_swapped`. They are kept beside the runs as reproductions.

| cfg | What it shows |
|---|---|
| `MCIORuntime_IdleDataNotApplied.cfg` | Idle data is written to the assembly. |
| `MCExplicitTarget_SessionHandlesUnique.cfg` | Two registered connections share the handle 0x01020304. |
| `MCExplicitTarget_ServeOnlyRegistered.cfg` | SendRRData is served with no registered session. |
| `MCExplicitTarget_RouterAlwaysResponds.cfg` | A bad class segment is answered with encapsulation status 1, not CIP 0x04. |
| `MCExplicitTarget_ForwardOpenStatus.cfg` | Forward_Open accepts a truncated path, refuses an empty path at the end of the data, and answers failures 0x08 and not 0x01. |
| `MCExplicitTarget_IdWrap.cfg` | With a 2-bit counter, the fifth open reuses a live id. |
| `MCClientSession_FramesWhole.cfg` | The two writes of concurrent `Send`s interleave, and the target reads a torn frame. |
| `MCExplicitTarget_ForwardCloseRetires.cfg` | Forward_Close answers success and leaves the entry in the table (spec §4.6 says it retires the connection). |
| `MCTagMonitor_ReaderStops.cfg` | A goroutine that reads `Wait()` and calls `Stop` deadlocks with a poller blocked on the full buffer. |
| `MCClientSession_SessionSurvivesAnswers.cfg` | A CIP or encapsulation error status closes a healthy session (spec §7 says it should not). |
| `MCTagMonitor_NoEventAfterStop.cfg` | A `Stop` racing `Close` returns at once, and an event from that subscription can still arrive. |
| `MCCodecs_LongPath.cfg` | A 256-character tag name is sent with symbol length 0, and the target decodes another path (`RequestDecoded`). |

## Not modelled, and why

- Byte layouts, `SequenceCount`, logging and hex dumps: data no control
  depends on.
- `Start`/`Stop` of the goroutines, and socket errors in `listenLoop`.
- Multiplier overflow at `mult >= 62` (`4 << TimeoutMult` in
  `checkTimeouts` becomes 0): beyond TLC's 32-bit integers, and outside the
  range 0..7 that spec section 4.6 and the code's comment give the
  multiplier.
- `WriteTag`: it calls `Client.WriteTag`, which is not in the source tree.
- Connected (class 3)
  messaging, and the byte encodings of the client.
- Tag options (frequency, `immediate`, handler, refreshable): they change
  an event's content, not the monitor's control. A handler calling `Stop`
  on its own subscription waits on its own `doneCh`. This is listed as a
  hazard.
- A second `Stop` of the same subscription, and a second `Close`: each is
  guarded by a `sync.Once`, so a concurrent second call blocks until the
  first has finished and a later one returns at once, without touching
  the state.
- Identity items whose Length covers more than their fields: the decoder
  ignores Length, and the spec gives no layout for such items (a hazard).
- The hex dump (`pkg/utils/hexdump.go`): formatting for logs only. The
  tests appended to that file and to `pkg/transport/tcp.go` are test code.
- The command-line tools beyond the codecs: their flag parsing, logging and
  the adapter's wiring. One consequence is recorded as a hazard: the
  adapter never hands its `Runtime` to the connection manager, and
  `HandleForwardOpen` installs no I/O connection, so the scanner's O->T
  frames are dropped as unknown ids.
- The `Unregister` write in `Client.Close`: it goes to a stream that is
  closed right after it.

## Plan for the remaining parts

In order of importance:
1. **I/O framing with a changing map.** IOFraming fixes the consumer map.
   Its byte parse could replace the abstract `Frames` of IORuntime if the
   state space allows.
2. **Symbol codecs.** An attribute with status 0 and an id the decoders
   do not know consumes no bytes, so later attributes are misread. The
   device model answers only the attributes asked for, so no run reaches
   this.
3. **More abstract specifications.** The explicit exchange already has
   one (`ExplicitMessaging`, refined by `Codecs`), and so does the
   assembly's data (`AssemblyAccess`, refined by `ExplicitTarget`). Still
   to do:
   - A connection-manager spec (open and close of a triad), refined by
     ExplicitTarget for the part without Forward_Close.
   - A request/reply spec for one session, which the model shows the
     shared client does not implement under concurrency.
