# Formal models of go-SOMEIP

TLA+ models, TLC runs and TLAPS proofs for the Go SOME/IP library under `src/`.
Every definition of a model is translated from the source; `PROJECT.json` maps
it to the lines it stands for (`map`), and lists the components, the runs, one
mutation per checked property that a plausible bug would amount to (`mutants`),
the hazards of the code and the theorems.

To check one run: `tlc -workers 2 -config UdpCalls.cfg MCUdpCalls`; to check the
proofs of a module: `tlapm UdpCallsProofs.tla`, and so on for each `*Proofs.tla`.

## 1. Inventory

The library implements one contract, `src/someip.go`, over several transports.

| component | state | operations | interacts with |
|---|---|---|---|
| someip (`src/someip.go`) | none: interfaces, types, errors | - | the contract of every transport |
| udp service (`src/udp/udp.go`) | `sessionID`, `pending`, `subs` under `mu`; `closed`; socket; one read loop | Call, CallNoReturn, Subscribe, Close, readLoop/dispatchFrame; Unsubscribe, Close and C of a subscription | server, by datagrams; callers, by channels |
| udp server (same file) | `handlers`, `subs` under `mu`; `closed`; socket; a read loop and a goroutine per datagram | RegisterMethod, Emit, RegisterSubscriber, UnregisterSubscriber, Close, handleFrame | service, by datagrams; application handlers, by callback |
| tcp (`src/tcp/tcp.go`) | as udp, without events; a listener and connections | Call, CallNoReturn, Close, readLoop; acceptLoop, serveConn, handleMessage, RegisterMethod, Close | one stream per service |
| tp (`src/tp/tp.go`) | `windows`, `tombstones` under `mu`; a ticker and the gcLoop goroutine | Segment (pure), Add, gcLoop, Close | fed by whoever receives TP segments |
| mock (`src/mock/mock.go`) | the bus's map of servers; a server's handlers and subscriptions; a subscription's `closed`, `closeOnce` and channel | NewServer, NewService, Call, Subscribe, Emit, Unsubscribe, the three Close operations | shared memory |
| sd registry (`src/sd/sd.go`) | `services` under `mu`: records with an expiry time | Offer (a TTL of 0 deletes), Find | daemon |
| sd daemon (`src/sd/udp/sdudp.go`) | registry; `offers` under `mu`, each with a ticker, a `done` channel and a goroutine; `closed`; multicast socket | Offer, Find, SubscribeEventgroup, Close, readLoop with a goroutine per datagram | other daemons, by multicast |
| adapt (`src/adapt.go`) | a pump goroutine per subscription | Subscribe with three back-pressure policies | any Service |
| codec, SD codec, e2e (`src/codec`, `src/sd`, `src/e2e`) | none, or a counter | pure encoding, decoding, checking | transports, daemon |
| cmd, examples | none | command line, demonstrations | all of the above |

What is hard in this code:

* **calls**: each call passes through five separate critical sections (closed
  check, number, registration, write, select), and the deferred delete is a
  sixth. Over TCP the write has no deadline and waits for a peer that is slow to read. The read loop looks a channel up under `svc.mu` and sends to it after
  releasing it. The 16-bit session counter wraps. The UDP network loses,
  duplicates, delays and reorders; a late response may meet another call.
* **events**: the read loop holds `svc.mu` across a fan-out to channels that
  Unsubscribe and Close remove and close. Subscribe and stop datagrams are sent
  once and not acknowledged; the server handles each on a goroutine of its own.
* **closing**: Close races with everything, waits for some goroutines and not for
  others.
* **reassembly**: expiry is noticed by two goroutines; keys are reused; the
  number of bytes received stands for coverage.
* **mock**: Emit works on a snapshot without a lock.
* **service discovery**: an Offer checks `closed`, sends, and only then takes `d.mu`;
  ticker goroutines check `closed` and then send; a Find is answered from a snapshot;
  a StopOffer is sent once, and a daemon that dies sends none. The registry reads
  the clock before it has the lock.
* **adapter**: the pump takes from the channel that its consumer takes from too.
* **bytes**: a length on the wire decides where the next frame begins; entries refer
  to options by counts that saturate; a checksum has to notice what it can.

The full list, with lines, is `hazards` in `PROJECT.json`.

What makes each component correct:

* calls: a call returns the answer to its own request or a local error; once its request
  is written it returns within its deadline whatever the peer does (over UDP a write does not
  wait for the peer; over TCP it does, see section 6); leaks no entry; is executed before
  a verdict is reported; a fire-and-forget is never answered.
* events: no send on a closed channel; nothing is delivered after Unsubscribe;
  one Emit is delivered at most once; live subscriptions stay registered and
  ended ones do not; nobody waits for a slow consumer.
* reassembly: what is returned was sent, whole; segments further apart than the
  timeout are never joined; a timed-out key stays refused; windows do not
  accumulate.
* mock: a channel is closed once; a service never finds a closed server; Emit
  does not wait.
* SD: Find returns what is on offer and no more; one goroutine announces a key; what
  is replaced falls silent; every peer ends up with the newest offer, and with none
  after Close or a crash.
* adapter: the consumer gets events in order, gaps only where the policy puts them,
  the newest sample last; the pump does not get stuck.
* bytes: a reader stays in step with the writer; an entry means to the receiver what
  it meant to the sender; damage within the strength of the checksum is noticed.

## 2. Modules

| module | models | its state and actions in the code |
|---|---|---|
| `UdpFrames` | datagrams and the UDP network | the network is the set of all datagrams ever sent: not receiving one is loss, receiving it twice is duplication, receipt is in any order |
| `UdpService` | the client half of method calls | `sessionID`, `pending`, `closePc` (the atomic `closed` and the socket); per call a program counter, the local `sessionID`, the capacity-1 channel; the read loop's frame and looked-up channel. One action per critical section, channel operation or system call |
| `UdpServer` | the server half | `handlers`, the read loop, the set of handleFrame goroutines (`jobs`), RegisterMethod in two steps, Close |
| `UdpCalls` | both halves, fairness, properties, the inductive invariant | |
| `CallPromise` | abstract: what `someip.Service.Call` promises | `phase`, `verdict`, `executed` |
| `UdpCallsProofs` | theorems about `UdpCalls` | |
| `UdpEventsProofs` | theorems about `UdpEvents` | |
| `UdpEvents` | events over UDP, both ends | `svc.subs` (`listed`), the channels (`got`, `taken`, `chanClosed`), the fan-out in progress (`toSend`), the server's lists (`srvSubs`), the Emit calls in progress, FIFO links with faults |
| `TcpCalls` | calls over one TCP connection, both ends | as `UdpCalls`, with `toServer`/`toClient` as FIFO streams of at most `Window` frames, in which a write waits for room (`Put`); a listener, accept and serve loops, refused requests, a severed connection |
| `TpReassembly` | `tp.Reassembler` with time | `windows`, `tombstones`, the ticker, gcLoop (which reads the clock before it takes the lock), Close in three steps |
| `MockBus` | the in-process transport's events | servers that replace each other under one key, subscriptions, Emit in snapshot, check and send steps, the Close operations |
| `SdRecords` | the records of a registry | `services` as a function from keys; how long a record has left instead of when it expires, and for how long it has been expired |
| `SdRegistry` | `sd.Registry` | Offer; Find in two steps, the clock and the lock; history of what was on offer while a Find waited |
| `SdDaemon` | an offering `sdudp.Daemon`, the network, a peer's registry | `offers`, the `done` channels, tickers and the tick each may hold, one program counter per Offer, per ticker goroutine, per handler goroutine and for Close; `air`, the datagrams on their way |
| `EventStream` | abstract: what a subscription promises its consumer | a buffer that keeps order and may lose |
| `AdaptPump` | `serviceAdapter.Subscribe` | the two channels, the message in the goroutine's hand, the policy; the Service in front of it is external |
| `SdDaemonProofs` | theorems about `SdDaemon` and `SdRegistry` | |
| `AdaptPumpProofs` | theorems about `AdaptPump` | |
| `TcpCallsProofs`, `TpReassemblyProofs`, `MockBusProofs` | theorems about `TcpCalls`, `TpReassembly` and `MockBus` | |
| `Wire` | frames: `codec.Encode`, `Decode`, `tcp.readFrame`, ToMessage and FromMessage | sequences of bytes |
| `SdWire` | entries, options, option runs, the SD payload, the event socket's entries | sequences of bytes |
| `E2e` | Profile 01 and Profile 05 with CRC-8 and CRC-32 | a byte is the set of its bits, so that xor is symmetric difference |
| `Transfers` | the three kinds of bytes under way: a TCP stream, an SD datagram, a protected frame that bits flip in | the sender's and the receiver's operations on them |
| `TransfersProofs` | theorems about all three transfers of `Transfers` | |
| `MC*` | instances for TLC | values of the function-valued constants, symmetry |

Abstractions made throughout: payloads and headers are reduced to what the
properties tell apart (the SessionID, and the operation a frame belongs to, a
history field that no guard of the code reads except for the method and message
type it stands for); error values are one value `failed` where nothing tells
them apart; time is a counter in `TpReassembly` and a free choice elsewhere (a
deadline may expire at any moment); a message in TP has segments of one unit.

`UdpCalls` and `UdpEvents` model the two uses of one socket separately. They meet
in `svc.mu`, in the read loop and in Close: `UdpEvents` shows that the read loop is
never stuck in a fan-out and that `svc.mu` keeps coming free
(`EndingReturns`, `CloseReturns`), which is what `UdpCalls` needs in taking each of its critical
sections as one step.

No module declares a RECURSIVE operator: a loop over bytes is a recursive function, whose
value at `i` is what the loop has reached after `i` rounds.

The SD daemon is modelled twice. `SdDaemon` has the interleavings and treats a
datagram as a record that says whose offer it is and where the service is;
`Transfers` takes the datagrams of the same operations to bytes and back, and
`SdUnderstood` is what allows `SdDaemon` to leave the bytes out. `InStep` does the
same for `TcpCalls`, whose streams carry whole frames.

## 3. Runs

| run | instance and bounds | what it shows |
|---|---|---|
| `udp_calls` | 2 calls, 1 post, SessionIDs 0 and 1, 1 handler goroutine at a time, no Close | correlation (`SessionMatch`, `Correlated`, `WaiterReachable`) and execution (`AnswerWasExecuted`, `PostsUnanswered`) |
| `udp_calls_live` | 1 call, 2 concurrent handler goroutines, both Close operations | `CloseReturns`, `CloseQuiet`, and that Call implements `CallPromise` (`KeepsPromise`), with which every call returns |
| `udp_events` | 2 subscriptions of 1 service to 1 event, depth 1, 2 Emits, each ended once, both Close operations | `NoSendOnClosed`, `DeliveredOnce`, `QuietAfterUnsubscribe` |
| `udp_events_live` | 1 subscription ended up to twice, one lost or duplicated datagram, reordering | `EndingReturns`, `CloseReturns` |
| `tp_reassembly` | 1 message of 3 segments, duplicates, timeout 1, arrivals until time 3, one Close | `WholeMessages`, `JoinedInTime`, `LateSegmentsRefused`, `WindowsEnd` |
| `tcp_calls` | 2 calls, 1 post, SessionIDs 0 and 1, a window of 2 frames, matching and other interface version | `SessionMatch`, `Correlated`, `RefusedNotRun` |
| `tcp_calls_live` | 1 call, 1 post, a window of 1 frame, both Close operations, the connection may be cut | `CloseReturns`, `ServerCloseQuiet`, `ServerDrains`, `KeepsPromise` |
| `mock_bus` | 2 servers under one key, 1 subscription, 1 subscription.Close, 2 Emits, depth 1 | `ClosedOnce`, `LaterEmitsQuiet`, `BoundIsLive`, `EmitReturns` |
| `sd_registry` | 2 services, TTLs 0..2, 1 Find for one and 1 for all | `FindExact` |
| `sd_daemon` | 1 key, 2 Offers, 1 request of a peer, TTL of 1 tick, Close, crash | `OneAnnouncer`, `StaleBound`, `NewestWins`, `ClosedForgotten`, `CloseReturns` |
| `adapt_pump` | 5 events, depth 2, each of the three policies | `NewestKept`, `KeepsStream`, `PumpMovesOn` |
| `transfers` | 3 writes to a stream, a limit of 52 bytes; 31 kinds of SD datagram; up to 2 flipped bits | `InStep`, `SdUnderstood`, `DamageDetected` |

The type invariants and the strengthened invariants are not checked by runs: where
there are proofs they are theorems (section 5).

Why the bounds are enough. Two calls and a post take three numbers and there are two:
the counter wraps while all three are in flight, the third operation is given the number
of the first, and when both are calls they share a slot of `pending`. Which operations these are is
left to the order in which they come, so that there is a call that shares its number, one that does not,
and a call that shares it with a post. A third call adds no new pair. A window of two frames has room for
two writes and makes the third wait; a window of one makes every write wait for the one before it.
One handler goroutine at a time does not serialise the answers, because the network reorders them anyway; two
at a time are in `udp_calls_live`. Depth 1 makes every channel full as early as
possible (64 in the code; nothing else depends on it). Three segments have a
first, a middle and a last one. With a timeout of 1 and arrivals until 3, a window
may have its segments at three different times, the last of them too late; a window that times out at 2 leaves
a tombstone until 4, and segments arrive while it stands. (With arrivals until 4 the run passes
as well, with a segment that comes when the tombstone has ended; it takes three times as long.)

Two Offers of one key are what replacement needs, and keys share only the lock;
an Offer of TTL 1 expires between two ticks as often as it is renewed, so losses
show at once (the code's default is three). Five events through two channels of
depth two and a hand fill everything and leave one to drop; two slots are the
least in which an older and a newer sample can wait. A depth of 0 (unbuffered, where
DropOldest can only spin until the consumer comes) is excluded by `PumpAssumption`.
The limit of 52 bytes stands for `maxFrameSize` (64 MiB): one message of the
instance is exactly that long. Garbage is bytes whose header is refused; after
it nothing may be read. Flipped bits: CRC-8 with 0x1D and CRC-32
detect any two in frames this short; CRC-8 does not detect every three, so
that is the bound and not only the instance. A check with another DataID *and* flipped bits is
excluded from `DamageDetected`, because the one can make up for the other; Profile 01
does not tell DataIDs apart whose CRC-8 agrees (0x0000 and 0x1D01), and the instance has none of these; the DataIDs
of Profile 05 are one byte, and its CRC always tells two of them apart.
TLC's integers bound the 4-byte fields to below 2^31.

The bounds are in the guards they limit: `MaxJobs` (`ServerRead`), `Window` (`Put`; a bound
of the connection in the code too), `MaxEmits`
(`EmitBegin`), `MaxStops` (`End`), `MaxFaults` (`Lose`, `Duplicate`), `MaxTime`
(`Arrives`, `Pass`), `MaxEmissions` (`AddStored`), `MaxLate` (`SendTick`, a counter that
stops), `MaxAgo` and `MaxTTL` (`SdRecords`), `MaxEvents` (`Emit`), `MaxWritten`
(`WriteMessage`, `WriteGarbage`), `MaxFlips` (`Flip`). Deadlock is checked
where time never stops (`sd_registry`, `sd_daemon`) and not elsewhere: the other instances perform
finitely many operations and then stop.

Further instances to run by hand: `UdpEventsApart.cfg` (two
services: ending one subscription leaves the other registered),
`TpReassemblyTwo.cfg` (two interleaved messages), which pass, and the instances of section 6, which do not.

## 4. Fairness

* A goroutine that can run does run: weak fairness on each step of a call that
  has begun, on the read loops' steps that need no input, on Close's steps, on a
  fan-out's sends and on the collector.
* A deadline expires (`GiveUp`): `time.NewTimer` fires.
* A read on a closed socket fails (`ReadFails`).
* A `sync.Mutex` that keeps coming free is acquired: strong fairness on
  `SubscribeList` and `Unlist`, justified by the mutex's starvation mode. It is
  needed because the read loop may take `svc.mu` again and again.
* Over TCP the accept loop runs, and a loop whose connection has ended notices; nothing makes a client
  close. That the serve loop reads what has arrived is assumed in `FairSpec` only, beyond `StallSpec`: a
  `tcp.Server` handles each frame on a goroutine of its own, so nothing holds up `serveConn`. `KeepsPromise` needs it, because
  a write waits for room and has no deadline; under `StallSpec` alone `CallReturns` fails
  (section 6), while `CloseReturns` and `ServerDrains` hold under it too.
* `SdDaemon`: time passes; goroutines of a living process run; a datagram does not
  stay on its way for ever; of the announcements of one record that are sent again
  and again some arrive (strong fairness). The last is assumed of the network, and
  only `NewestWins` needs it: `ClosedForgotten` holds although every StopOffer is lost.
  (`NewestWins` counts a record that has expired as one the peer has: at a TTL of one tick an
  announcement that is lost lets it expire until the next one.)
* `AdaptPump`: the goroutine runs, and a consumer that has not left reads. It may leave.
* Nothing else is assumed of the application (nobody must call, receive from C() or
  close), of handlers (they need not return), or of the network (it need not
  deliver).

## 5. Proofs

`UdpCallsProofs` proves, for every finite or infinite set of calls and posts,
every counter width, any number of handler goroutines and both Close operations:

| theorem | says |
|---|---|
| `TypeCorrect` | `Spec => []TypeOK` |
| `Inductive` | `Spec => [](TypeOK /\ IInv)` |
| `SessionMatchHolds` | a call only returns a message with its own SessionID, wraps included |
| `NoStrayEntryHolds` | the pending map holds no channel of a returned call, wraps included |
| `CorrelatedHolds`, `WaiterReachableHolds`, `AnswerWasExecutedHolds` | as long as the call's number is its own (`OwnNumber`): the answer is its own; its slot is its own; a verdict is backed by an execution |
| `PostsUnansweredHolds` | a fire-and-forget is never answered |
| `CloseQuietHolds` | once Service.Close has returned, the read loop hands nothing to any call |
| `PromiseKept` | until the counter wraps, every step is a step of `CallPromise` or changes nothing there |

Assumptions: calls and posts are disjoint, `MaxSession` is a positive natural
number, every operation addresses a method, handlers end with OK or NotOK.

Why a strengthening is needed. `SessionMatch` speaks of what a call has returned;
that depends on its channel, which the read loop fills from a slot it looked up
earlier. So `ReaderInv` states what the read loop knows after it has released
`svc.mu`: the call it is about to hand its frame to bears the frame's number,
*even if the slot has changed hands*. That follows from `SlotInv`, a slot of number s
only ever holds a call of number s. For `Correlated`, the call's number must also be
its own and every frame must bear the number of its operation (`FrameInv`). Until the counter wraps, which the
history variable `wrapped` records, all numbers are different (`NumberInv`); after that a call's number is its own
as long as no other operation has been given it (`Sole`). `OwnNumber` is the one or the other, so that
the properties also speak of the calls that do not share a number after a wrap.
`OwnerInv` (a registered call whose number is its own owns its slot) gives
`WaiterReachable` and needs this for the deferred delete of *other* calls.
`AnswerInv` ties answers to executions. Each group of actions has a lemma that it
preserves `IInv`; `Inductive` combines them, and each invariant follows from
`IInv` alone.

`UdpEventsProofs` proves, for every number of services, subscriptions, Emits and
network faults and every depth of the channels, `NoSendOnClosedHolds` (the read
loop never sends on a closed channel), `QuietAfterUnsubscribeHolds` (nothing enters a channel
after Unsubscribe has removed it from `svc.subs`) and the invariant `Inductive` they
follow from: a listed channel is open and its subscription is not past its removal
(`ListedInv`, with `FreshInv` for channels not listed yet), and a fan-out in progress
only holds channels that are still listed (`FanOutInv`). The last part is the one
that needs `svc.mu` to be held from the snapshot to the last send: `Unlist` waits
for `MuFree`.

It also proves `DeliveredOnceHolds` (without faults no channel gets one Emit's notification twice),
`OwnEventOnlyHolds` (a channel gets notifications of its own event only, faults or not) and
`TypeCorrect`, from `FullInductive`. `CountInv` is what the types need beyond themselves: a
subscription that has not been listed has sent no stop entry. `PathInv` says that whatever is on a downlink, in the read loop or in
a channel has been emitted, and that a fan-out only has subscriptions of the event in hand. `OnceInv`
follows a notification of one Emit to one service: it is still on the Emit's list, or on the downlink, or
in the read loop's hand, or in channels, and in one of these places only (`EmitOnce`, `LinkOnce`,
`GotOnce`). It starts with the server's list having no address twice: `RegisterSubscriber`
looks before it appends, and `UnregisterSubscriber`, which copies the other addresses over, keeps that. The removal is
written as the loop over the list that it is, a recursive function; that it yields a list without
repetition and without new elements (`RemovedOnce`, `Filtered`) is an induction over the length of
the list. The induction principle of the library cannot be instantiated here, so the module proves one for sets of
numbers (`Least`, `SetInduction`) and with it that a function defined by recursion exists (`Recursion`).

`SdDaemonProofs` extends both `SdRegistry` and `SdDaemon`, which share the records and are otherwise
apart. It proves `FindExactHolds` for any keys, TTLs and number of Finds. `FindExact`
compares what a Find returns with the history of what was on offer while it waited
for the lock; the strengthening (`RegistryInv`) says how the age of a record and the age of the
clock reading belong together, which decides what counts as expired.

The same module proves `OneAnnouncerHolds` and `StaleBoundHolds` for any keys and Offers. `OneAnnouncer`
alone is not inductive: `Held` says that a record in `d.offers` has been stored, and that only
stored records have tickers, ticks and goroutines; `PanicLate` excludes the second close of a
`done` channel before Close, and with it the interleavings in which a store would not end the record
before it. `StaleCount` is the sum behind `StaleBound`: announcements made after `done`
was closed, plus the tick that waits, plus the one about to be sent, never exceed two, because a
stopped ticker puts in no more.

`AdaptPumpProofs` proves `NewestKeptHolds` and `KeepsStreamHolds` for any number of events and any depth: the
stream of `EventStream` is the concatenation of the caller's channel, the goroutine's hand and the
subscription's channel; a drop in the middle of the pump is a loss at the position between them
(`MiddleLost`), the drop of DropOldest the loss of the first.

`TcpCallsProofs` proves the same correlation over TCP (`SessionMatchHolds`, `CorrelatedHolds`,
`NoStrayEntryHolds`), for a connection of any size (`WindowAssumption`), from the same `SlotInv`, `ReaderInv` and `NumberInv`, and `RefusedNotRunHolds`. A request that
has been refused could still run later if there were a second copy of it. `OnceInv`
excludes that: before it is decided a request is on the wire or with one goroutine, not both;
it is decided once, and each answer under way says which way. The stream delivers in
order and once each, which is why this holds for TCP and cannot be said of UDP, where a repeated
datagram runs the handler again and may find it registered in the meantime. `ServerCloseQuietHolds`:
after Server.Close has returned nothing is taken off a connection.

`TransfersProofs` proves `InStepHolds` for any messages that fit `maxFrameSize`, any garbage with a
header that is none, any number of writes and a stream cut anywhere. The lemmas it rests on are
about the codec: a frame says all of its message (`EncodeFramed`) and nothing else can be read from it
(`DecodeFramed`), up to the width of a Length of 32 bits; a message survives the relay's envelope
(`EnvelopeKept`); and what `readFrame` does depends only on the bytes up to the end of the first frame
(`ReadWhole`), fails if that end is not there yet (`ReadPart`), and fails on garbage (`ReadBad`).
The invariant, `StreamInv`, has to say what the bytes on the wire are, which `InStep` does not. It says
that there are positions `at`, the ends of the writes relative to the head of the wire, such that each
write that has not been read stands on the wire at its own (`Placed`), as far as the wire
reaches; that the head is where the last write that was read ends; and, once nothing more is read, that
the connection is down or the next write is no message (`Stuck`). A cut leaves `at` as it is and
shortens the wire, which is why the positions are not derived from the length of the wire. (TLC
evaluates the invariant on the instance of the run with `at` computed from the writes.)
`StreamAssumption`, which the run evaluates, says what messages and garbage are; garbage is 16 bytes or
more because `readFrame` takes no decision before it has a header.

The same module proves `DamageDetectedHolds`: with all flipped bits in one byte, of the checksum, the
header or the payload, and for payloads of any length, both profiles give the verdict that `DamageDetected`
asks for. `FrameInv` says that the frame on its way is the one that Protect built but for the bits
in `flips` (`Damaged`), and that `got` is what Check says of it. The rest is about the CRCs, each a register that
takes a step per byte. A step of either loses nothing (`Lossless`): neither of the register, for the same byte, nor of
the byte, for the same register. For crc8 this is so because no byte is twice in the table
(`Table8Injective`), and for crc32 because no two entries of the table have the same highest byte (`Table32Top`), so
that the part of the old register which is shifted down can be told from the entry. Registers that
are equal stay equal over the same bytes, registers that differ keep differing (`Meet`), and so one byte that differs
shows at the end, wherever it is (`LoopTells`). For the same reason another DataID is refused exactly when its CRC-8 alone
differs (`OtherID01`), and under Profile 05, where it is one byte, always (`OtherID05`): that
is `ToldApart` in the theorem. crc8 and crc32 are recursive functions, and that the equation each is chosen by
has a solution is proved by induction over the length (`LoopExists`, with `SetInduction` as in `UdpEventsProofs`).
`ProtectedAssumption` gives the types: a DataID of two bytes or of one, byte counters.

Its third theorem, `SdUnderstoodHolds`, is `SdUnderstood` for every datagram that this code sends (`~FromForeign(wire)`): offers
and withdrawals, answers to a Find, Subscribes and acknowledgements, with any identifiers, versions, groups, TTLs and
endpoints, and any references to options that the entry had before it was sent. `MeaningInv` says that the datagram
on the wire says what was meant (`Understood`) and that `got` is what the receivers make of it. The lemmas go
through the bytes: what stands in a part of a sequence stands in the whole, further on (`HasInner`), so that
each field is where the reader looks for it (`EntryStands`, `OptionLaid`, `PayloadLaid`). The loops over entries and options
are finished after one round (`OneEntry`, `OneOption`), which avoids an induction over data, and the entry's references lead to
the endpoint that was sent with it (`ResolveOne`), or nowhere (`ResolveNone`). `SdAssumption`, which the run evaluates,
says which entries fit on the wire: a TTL of 24 bits (section 7), a minor version of 32 bits in an offer and none
in a Subscribe (`src/sd/sd.go:99`), and the endpoint protocol that the code defaults to (`src/sd/udp/sdudp.go:162`); with
another, receivers of this code would not find the endpoint. `NoneAssumption` sets None apart from what it stands in for.

`PromiseKept`, in `UdpCallsProofs` and in `TcpCallsProofs`, is the safety part of `KeepsPromise`:

    Spec /\ []~wrapped => Promise!Init /\ [][Promise!Next]_(Promise!vars)

Each step of the transport is Open, Refuse, Execute or Return of some call in `CallPromise`, or
changes nothing there. `PromiseReturn` is the step with content: that a call which returns OK or
NotOK was executed follows from `Correlated` and from what ties answers to executions
(`AnswerInv`, `OnceInv`). `[]~wrapped` is a hypothesis and not an
abbreviation of convenience: after a wrap two calls may share a number, and the promise fails.

`TpReassemblyProofs` proves, for any messages, keys, timeouts and limits, `JoinedInTimeHolds` and
`LateSegmentsRefusedHolds`, and `WholeMessagesHolds` under `Apart`: messages under way have keys of their
own. (Without it the theorem is false, as `NoGaps` in section 6 shows.) `Sound` says that
`received` counts the chunks a window has; a message is returned when `received` reaches `total`, so
for `WholeMessages` the set of its chunks, all of which lie below `total` (`PureInv`), has as many
elements as there are offsets, and is therefore all of them. `JoinedInTime` compares the time of the return with
that of the arrival which opened the window, a history of its own (`opened`); `Sound` also says that the
deadline stays where that arrival put it, `Timeout` later, through every segment stored since. `LateInv` relates the tombstone, the
last timeout and the opening of the current window, with the collector's clock reading older than
the sweep that uses it.

`MockBusProofs` proves `ClosedOnceHolds`, `BoundIsLiveHolds` and `LaterEmitsQuietHolds` for any servers, services,
subscriptions, closers and Emits. `OnceInv`: whoever has set `sub.closed` is alone between
that and the close of the channel. `BoundInv`: a server's Close unbinds before it shuts anything. `ListInv` and
`EmitInv`: a subscription that is gone when an Emit is called is on no list, so no snapshot of that Emit has it.

Only model-checked: all liveness (`CloseReturns`, `EndingReturns`, `EmitReturns`, `KeepsPromise`'s liveness half,
`NewestWins`, `ClosedForgotten`, `PumpMovesOn`, `WindowsEnd`, `ServerDrains`), which the provers do not reach;
`SdUnderstood` for datagrams of other daemons, each of which has its own number of entries and options, so that a proof
would be an induction over the loops; and `DamageDetected` for bits that flip in two bytes, which depends on the
polynomial and on the length of the frame.

## 6. Divergences between code and documentation

Each instance is run by hand with `-continue`, and TLC finds each of its properties
violated: `tlc -continue -config UdpEventsDocs.cfg MCUdpEvents`. The first ten
rows are in `findings` of `PROJECT.json`.

| cfg | property | code | documentation |
|---|---|---|---|
| `UdpEventsDocs` | `LiveMeansRegistered` | a stop entry is sent for the address, which another live subscription of the service to the event still uses (`src/udp/udp.go:658`, `:175`) | "Emit publishes event eventID to all current subscribers" (`src/someip.go:338`) |
| `TpReassemblyDocs` | `NoGaps` | completion compares byte counts (`src/tp/tp.go:293`), so a stale chunk can stand in for a missing one | "all byte ranges have been received and contiguous" (`src/.fusa-reqs.json:610`) |
| `TcpServerHang` | `ServerCloseReturns` | Server.Close waits for serveConn goroutines that wait for their clients (`src/tcp/tcp.go:129`) | "Close stops the server and releases all resources" (`src/someip.go:342`) |
| `TcpCallsStall` | `CallReturns` | the write has no deadline, ignores ctx and comes before the timer (`src/tcp/tcp.go:333`), so a full connection holds the call for as long as the peer does not read | "the caller is never blocked indefinitely" (`src/.fusa-hara.json:96`) |
| `MockBusDocs` | `NoSendOnClosed` | Emit checks `closed` and then sends without a lock (`src/mock/mock.go:137-141`) | "A Server is safe for concurrent use" (`src/someip.go:332`) |
| `SdDaemonDocs` | `NoPanic` | an Offer that passed its closed check before Close closes `old.done` again (`src/sd/udp/sdudp.go:291`) | "safe for concurrent use from multiple goroutines" (`src/sd/udp/sdudp.go:202`) |
| `SdDaemonDocs` | `AllStopped` | the same Offer stores its record after Close has sent the StopOffers (`src/sd/udp/sdudp.go:293`) | "A stop-offer (TTL=0) is sent automatically when [Daemon.Close] is called" (`src/sd/udp/sdudp.go:259`) |
| `SdDaemonDocs` | `ReplacedIsStopped` | no StopOffer for a record that is replaced (`src/sd/udp/sdudp.go:289`) | "after sending a StopOffer for the old configuration" (`src/.fusa-reqs.json:352`) |
| `SdDaemonDocs` | `Reachable` | the answer to a Find carries 0.0.0.0 for an offer without an IP (`src/sd/udp/sdudp.go:441`) | "fall back to the SD source address/port" (`src/sd/udp/sdudp.go:419`) |
| `AdaptPumpBlock` | `BlockLosesNothing` | the Service drops in front of a pump that blocks (`src/udp/udp.go:608`) | "block until space is available" (`src/someip.go:281`) |
| `UdpCallsUnique` | `UniqueSessions` | the counter wraps (`src/udp/udp.go:439`) | "each gets a unique SessionID" (`src/udp/udp.go:20`) |
| `UdpServerClose`, `TcpCallsDocs` | `NoHandlerAfterClose` | handler goroutines are not waited for (`src/udp/udp.go:194`, `src/tcp/tcp.go:129`) | "Close stops the server" (`src/someip.go:342`) |
| `UdpEventsDocs` | `GoneMeansUnregistered` | a goroutine per datagram may handle the stop entry first (`src/udp/udp.go:216`) | "shall remove addr from eventID's subscriber list" (`src/.fusa-reqs.json:759`) |
| `UdpEventsDocs` | `RegisteredBeforeReturn` | Subscribe does not wait for the ack (`src/udp/udp.go:545`) | "registers the caller's address ... before returning" (`src/udp/udp.go:300`) |
| `UdpEventsDocs` | `CloseClosesChannels` | Service.Close leaves the channels open (`src/udp/udp.go:558`) | "closed when the subscription or owning Service is closed" (`src/someip.go:353`) |
| `TpReassemblyDocs` | `EmittedOnce` | a completed key leaves no trace (`src/tp/tp.go:312`) | duplicates are ignored (`src/.fusa-reqs.json:624`) |
| `TpReassemblyDocs` | `CloseIdempotent` | `close(r.done)` twice (`src/tp/tp.go:325`) | "Close shall be idempotent" (`src/.fusa-reqs.json:575`) |
| `MockBusDocs` | `RegisteredRoutes` | Close deletes by key (`src/mock/mock.go:155`) | `src/.fusa-reqs.json:138` |
| `MockBusDocs` | `ServiceCloseShuts` | only a flag is set (`src/mock/mock.go:315`) | `src/.fusa-reqs.json:194` |
| `TcpCallsDocs` | `PendingGetsErrClosed` | nothing wakes a pending call (`src/tcp/tcp.go:390`) | "any pending Call shall return ErrClosed" (`src/.fusa-reqs.json:540`) |
| `TcpCallsDocs` | `DroppedNotConnected` | `svc.conn` is never nil (`src/tcp/tcp.go:320`) | "calls return ErrNotConnected" (`src/tcp/tcp.go:23`) |

Read in the source and not stated as a property: SubscribeEventgroup returns as soon as
it has sent (`src/sd/udp/sdudp.go:481`), where the requirement has it "block until an Ack is received"
(`src/.fusa-reqs.json:373`), and it turns a TTL of 0, which would end a subscription, into the default
(line 477); an Ack is sent for services that are not offered (line 450); ToMessage shares the
payload (`src/adapt.go:37`), where the requirement says "copied" (`src/.fusa-reqs.json:10`). On the mock bus an
Emit under way when Unsubscribe returns still sends (`src/mock/mock.go:136`); `LaterEmitsQuiet` is what does hold.

## 7. Not modelled

* More than one connection per TCP server (connections share only the handler map).
* Unsubscribe and Close of one UDP subscription at the same time: `UdpEvents` has them one after
  the other, in any order and repeatedly (`End`). Of different subscriptions they overlap.
* A UDP write that fails on an open socket where the code ignores the error: the datagram is lost, which is
  `Lose`. Where Subscribe looks at the error it is an action (`SubscribeFails`).
* The mock transport's method calls: they run the handler on the caller's goroutine.
* `tp.Segment`'s rounding to 16 bytes: arithmetic on one input. The offsets and More flags
  it produces are in `TpReassembly`.
* Call and Send of the adapter: conversions (in `Wire`) around the Service's own.
* TTLs of 2^24 and more, which `EncodeEntry` truncates (`src/sd/sd.go:139`), and fields of 4 bytes beyond 2^31.
* `cmd` and `examples`: sequential, no state.

## 8. What could follow

* Method calls of the mock bus, and `CallPromise` for it.
* Several connections of a TCP server, which share the handler map.
