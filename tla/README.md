# Formal model of xbslink-ng

xbslink-ng bridges the System Link traffic of two Xbox consoles over UDP. This
directory holds TLA+ modules translated from its Go source, TLC configurations
that check them on small instances, and TLAPS proofs for every value of the
constants.

## The system and its parts

| Part | Source | Role |
|---|---|---|
| Supervisor | `cmd/xbslink-ng/main.go` | flags, signals, reconnection loop, backoff, discovery |
| Bridge | `internal/bridge/bridge.go` | `Run`: handshake, seven goroutines, teardown; keep-alive; statistics |
| Transport | `internal/transport/transport.go` | UDP socket, HELLO/HELLO_ACK handshake, BYE |
| Codec | `internal/protocol/protocol.go` | wire format, HMAC, nonces, challenge response |
| Capture | `internal/capture/capture.go` | pcap read and injection |
| Discovery | `internal/discovery/discovery.go` | finds the console's MAC by its traffic |
| Events | `internal/events/` | JSON lines for a front end, written asynchronously |
| Config, logging | `internal/config/`, `internal/logging/` | saved MAC; log output |

One process listens, the other connects. `main` builds a transport and a bridge
per connection and calls `Bridge.Run`. `Run` performs the handshake, then starts
`captureLoop` → `framesToSend` → `sendLoop` towards the peer, `recvLoop` →
`framesToInject` → `injectLoop` towards the console, and `pingLoop`, `statsLoop`,
`stdinLoop`. A BYE (`handleBye`) or too many missed PONGs (`sendPing`) close
`b.done`; a signal cancels the context. In listen mode the console may be unknown
at first: a background discovery then calls `SetCapture` while `Run` is going on.

## Modules

| Module | Models | Checked against |
|---|---|---|
| Bridge | one `Run` with its goroutines | BridgeLife (abstract contract) |
| KeepAlive | PING/PONG with a clock; uses Stats | |
| Codec, Session | handshake and session of two processes | |
| Wire | the byte format | Codec |
| FramePath | frames from `ReadPacket` to `WritePacket` | LossyFifo (abstract queue) |
| EventWriter | `AsyncJSONLineWriter` | LossyFifo |
| Supervisor | `runBridge`, discovery, config file | uses BridgeLife for `Run` |
| Device | interface look-up, opening pcap handles, `Discover` | |
| Console | `statsLoop`, `stdinLoop`, `printStats` | |
| Stats | RTT window, average, spike (operators) | reference definitions |

`MC<Module>` instantiates a module for TLC, `<Module>Proofs` holds its theorems.
Two of these hold the proofs of more than one module: `ProcessProofs` those of
EventWriter and Console, `KeepAliveProofs` those of KeepAlive, Stats and Device. That
is why Console and Device have names of their own for what other modules call `Init`,
`Next`, `Spec` and `TypeOK` (`ConsoleInit`, `DeviceSpec`...). `FrameCountProofs` is the
second half of `FramePathProofs`. Mutants stand beside the definition they would
replace, with the
mistake in their name.

### Bridge: one `Run` call

State: `run` is the program counter of `Run`, `pc[l]` that of each goroutine;
`doneBy` is the channel `b.done` with who closed it, `cause` remembers why;
`capture` is unset, open or closed (a nil handle), `trans` the transport. Frames
are counted, which is all the life cycle depends on.

* `Run` is split where another goroutine can get in between: the handshake, the
  start of the loops, the two selects, `SendBye`, `close(b.done)`,
  `Transport.Close`, `Capture.Close`, `wg.Wait`, the return.
* `setState` has two steps: the change under `stateMu`, then `Emit`. `toEmit[c]` is
  the event that caller c (`Run`, `recvLoop` or `pingLoop`) still owes; c does nothing
  else before. The handlers close `b.done` (`SignalLoss`) after that.
* `recvLoop` reads and decodes in one step (`RecvMessage`) and handles in the
  next, since the context, `b.done` and the transport may change between them.
  `sendPing` is split where it releases `pingMu`.
* A panic of any goroutine ends the process: `panicked` disables every action.
  Closing a closed channel panics; so does a read or a write on a nil pcap handle.
* `Stop(l)` is the `ctx.Done()` case, the only exit the loops have (`recvLoop`
  also leaves on a receive error once the context is done).
* `statsLoop` and `stdinLoop` only wait for the context here; Console has the rest.
  The goroutine that `stdinLoop` starts to read stdin (`bridge.go:745`) is not in
  `Run`'s WaitGroup and outlives `Run`; it is in Console.

`BridgeLife` is the contract of one `Run` call as the reconnection loop sees it:
idle, connecting, connected, lost, over; what may be returned when; where a panic
may happen. `KeepsContract` says that Bridge implements it with `LossReturns`
false, because today `Run` does not return on a lost peer alone (see
`DisconnectReturns`). Supervisor uses the contract with `LossReturns` true, which
allows everything the other allows and also what the comments promise; no fairness
of Supervisor demands that a loss make `Run` return.

### KeepAlive: PING and PONG with a clock

`pingLoop`/`sendPing`, the peer's `handlePing`, `handlePong`, and a network that
loses, duplicates, delays and reorders. Time is discrete. `lastPongAt` and
`gaveUpAt` are history variables. The clock does not pass a tick that the ping
loop has still to serve: a tick is assumed to be served at once.

### Codec and Session: two processes and the network

`Codec` gives `protocol.Codec` as operators on a record of key and two nonces; the
HMAC of a message is the key it was made with. `Session` composes a listener and a
connector with every handshake path of the transport, data, BYE, shutdown, crash
and restart. `net` keeps every message ever sent, so it covers delay, reordering,
duplication and loss. Challenges are random in the code; the model numbers them,
so equal means repeated. A BYE carries its sender's incarnation as a history field
(the wire format has none) for `ResetByeObeyed`.

In Session a process leaves "connected" at the step that handles a BYE. It stays
"ended" until it is restarted, because `Run` does not return by itself after a peer
loss (`DisconnectReturns` below).

### Wire: the bytes

Every encoder, `encode`, `decode` and `Decode` with the sizes of the code. A byte of
an HMAC is a triple of key, data and index, so equal HMACs mean equal key and data;
other bytes are numbers. `CodecAbstracts` is the refinement that justifies Codec:
what the bytes let through, Codec's conditions on records let through, with the same
nonce afterwards. A codec without a key may take the payload of a keyed FRAME, PING
or BYE for its own, as Codec allows too, but never a keyed HELLO: where the version
should be it finds the upper bytes of a nonce.

### FramePath: frames with contents

One direction: `captureLoop`, `framesToSend`, `sendLoop`; the network; `recvLoop`,
`framesToInject`, `injectLoop`. Other goroutines send PINGs and PONGs with the same
codec. Drawing a nonce (`Encoded`) and sending (`Transmit`) are separate steps.
`recvLoop`'s buffer is an array of cells, a queued frame is a slice (a length) of
it, and receiving may be observed half done. `taken` records the frames whose slices
`injectLoop` has received; what it then writes are the contents of the buffer at that
moment, and `intact` remembers whether they still were the frame. `disordered` remembers whether the
network has duplicated or reordered, which `OvertakenBounded` excludes.

### EventWriter

`Emit` with its non-blocking send, the writer's select and its draining loop, `Close`.
`main` and the goroutines of `Run` emit as long as `Close`, which `runBridge` defers,
has not been called: `Run` waits for those that emit. A background discovery is waited
for by nobody and emits once, at any time. An event is numbered when it reaches the
channel, so LossyFifo says: lines appear in that order and none twice. The time stamp
of a line is the wall clock when it is written; nothing is claimed of it.

### Supervisor

`runBridge` from the config file to its exits, with the reconnection loop, both
kinds of discovery and the signal handler. `file` outlives the process; `Kill` and
`Restart` may come at any step. Saving is truncation and writing, and either may
fail or be interrupted; a background discovery saves while `main` goes on, and two
of them may save at once. `capture[c]` is what the bridge of connection c has:
nothing, `main`'s capture, or one that a background discovery opened and handed over
with `SetCapture`, at any time, after `Run` too. The teardown of a connection closes
it; a handshake that fails or is cancelled never gets there. `Run` is BridgeLife.

### Device

The `--interface` flag is looked up by `main`, by `Discover` (with a copy of the
rules) and by `capture.New`; each handle is created, configured, activated and
filtered, and every step may fail. A name is a text in some spelling, a description
the set of texts in it. The list of devices does not change between the look-ups.

### Console

The goroutine on stdin, `stdinLoop` and `statsLoop` with two unbuffered channels and
non-blocking sends, which succeed only if the receiver is parked in its select; the
ticker's channel of capacity one; `printStats` loading counters that `sendLoop` is
adding to. `unanswered` and `lostIdle` are history variables, both about an Enter
pressed on an idle console. With `--stats-interval 0` there is no `statsLoop`, the only
receiver of `stdinCh`: no console is idle then, and an Enter is dropped.

### Stats

What `handlePong` does with a sample, as operators on the RTT fields, and what they
should compute, as reference definitions. KeepAlive extends it: two of its properties
say of each sample the keep-alive measures that, after every session of bounded length
that ends in it, average and spike warning are right. Earlier samples
may be negative, since the code reads the wall clock. The window is a constant (20
in the code).

## Runs

| Run | Checks | Result |
|---|---|---|
| `bridge_safety` | `EventOrder`, `ReturnReported`, `ByeOnlyOnShutdown`, `PeerLossExplained`, `CrashOnlyInTeardown`, `KeepsContract` | hold |
| `bridge_liveness` | `ShutdownReturns`, `PeerLossClosesTransport` | hold |
| `keepalive` | `SilenceBound`, `GiveUpNotEarly`, `RTTBelowInterval`, `AverageOfLastSamples`, `SpikeIsHalfMore` | hold |
| `session` | `KeysMustMatch`, `ChallengeAgreement`, `InOrderOnce` | hold |
| `wire` | `RoundTrip`, `CodecAbstracts` | hold |
| `framepath` | `RxAtMostTx`, `OvertakenBounded`, `ForwardsInOrder` | hold |
| `event_writer` | `CloseDrains`, `WritesInOrder`, `CloseReturns` | hold |
| `supervisor` | `MACIsReal`, `CaptureReleased`, `HandOverAccepted`, `BackoffGrows`, `SignalEnds` | hold |
| `device` | `SameInterface`, `HandlesReleased`, `DiscoveryCancellable` | hold |
| `console` | `PacketsAtMostOneAhead`, `IdleEnterKept`, `IdleEnterAnswered`, `ConsoleEnds` | hold |
| `bridge_disconnect` | `DisconnectReturns` | violated |
| `frame_contents` | `InjectedIntact` | violated |

What they show, in a sentence each:

* `bridge_safety`, `bridge_liveness`: whatever the order of its goroutines, `Run`
  reports its states in order and the last one before it returns, says BYE only when
  it should, returns after a signal, and closes its socket after a loss.
* `keepalive`: a silent peer is given up neither late nor early; the statistics are
  those of the samples measured.
* `session`, `wire`: processes with different keys do not connect, a session accepts
  each message once and in order, and the bytes do what the records say.
* `framepath`: although a nonce is drawn in one step and used in another, `injectLoop`
  receives the slices of frames in the order of capture, for none twice, and a PING or
  PONG costs at most one of them. What the slices hold is `frame_contents`.
* `event_writer`: nothing queued before `Close` is lost or reordered, and `Close`
  returns although discoveries may still emit.
* `supervisor`: no exit leaves the capture that `main` opened open, no capture that a
  background discovery opened is refused by its bridge, no torn file becomes a MAC,
  the backoff is as documented, and a signal ends the process. Not covered: a capture
  that a discovery sets during the handshake, which nobody closes when a signal ends
  `Run` there; the process ends then.
* `device`: all parts open the same interface and release what they opened.
* `console`: an Enter on an idle console is answered without waiting for the ticker (a
  busy one may drop it); a line shows at most one packet more than its bytes account
  for, while the bytes may run ahead by any number of frames.

`DisconnectReturns` states the comment at `bridge.go:621` and fails: after a BYE or a
timeout `Run` waits in `wg.Wait` for loops that only the context stops, and the
context is cancelled after `Run` returns. `KeepsContract` is the exact statement of
what `Run` does instead. So nothing is claimed of a second connection of a process: the
branch of the loop that reconnects is checked against its contract only (`BackoffGrows`).

`InjectedIntact` states the repository's `README.md:39` and fails: `recvLoop` receives
into one buffer (`bridge.go:484`) and `handleFrame` queues slices of it
(`bridge.go:553`), so the next datagram overwrites a frame that `injectLoop` has not
written yet. One frame may then be injected twice and another never; the captured side
is safe, since `ReadPacket` copies. `ForwardsInOrder` is the exact statement of what
holds: the slices are in order, whatever their bytes.

The type invariants (`TypeOK`) are in no run: each of them is proved. They hold as well
when they are added to a module's configuration.

Every property of a passing run has a mutant: a definition named for the mistake,
beside the definition it would replace, under which TLC reports a violation.

### Other disagreements

Six more sentences of comments and documents are stated as properties beside the
models and are in no run. TLC refutes each in a few seconds when it replaces the
properties of the configuration named:

* `DoneClosedOnce` (`MCBridge.cfg`; `bridge.go:150`): `Run` closes `b.done` outside
  `doneOnce`; a BYE handled at that moment closes it again and the process panics.
* `ShutdownDoesNotCrash` (`MCBridge.cfg`; `bridge.go:348`): `Run` closes the capture
  before its loops have stopped; one of them may then use the nil handle.
  `CrashOnlyInTeardown` says that there is no other panic than these two.
* `SetCaptureBeforeReturn` (`MCBridge.cfg`; `bridge.go:219`): a discovery that ends
  late sets a capture on a bridge whose `Run` is over; nobody closes it.
* `PongWithinTimeout` (`MCKeepAlive.cfg`; `bridge.go:29`): `PongTimeout` is declared
  and never read; a PONG counts until the next ping (`RTTBelowInterval`).
* `ResetByeObeyed` (`MCSession.cfg`; `transport.go:205`): with a key, the BYE by
  which a restarted listener asks for a new handshake has a low nonce and is rejected
  as a replay. The missed PONGs end the session instead.
* `PacketSizeAsDocumented` (`MCWire.cfg`; the repository's `README.md:317`): frames
  have up to 1514 bytes, not 1500, so a packet reaches 1583 bytes, not 1569.

### Bounds

* Bridge: queues of length 1 are full and empty in turn; both modes;
  `MaxMissedPongs = 2` has a miss that does not lead to the give-up and one that does
  (the code's 3 is KeepAlive's); the liveness runs use 1, listen mode, which has
  every way to a capture, and a peer that only says BYE, since only the way to the
  disconnect matters there.
* KeepAlive: an interval of 3 ticks leaves room for PONGs before, at and after the
  next ping; `MaxTime = 26` covers two complete give-ups (12 ticks each);
  two messages in flight per direction give loss, duplication and overtaking.
* Session: two keys and none; `MaxNonce = 3` messages per process life,
  `MaxChallenge = 2` attempts, `MaxRestart = 1`. Keys are interchangeable, hence
  the symmetry set. With `FixedPort` a restarted connector keeps its address, so
  old messages still reach it; without it they do not, which allows less.
* Wire: frames below, at and above both size limits, two keys and none on each side,
  two messages with a copy each.
* FramePath: queues of length 2, so that order inside a queue matters, and three
  frames, so that both channels are full when a frame comes; one control message of
  another goroutine is enough for a frame to be overtaken. Frames have one cell;
  `frame_contents` has two frames of up to two cells, so that one may be overwritten in
  part, and no control messages.
* EventWriter: a buffer of 2, four events of `main` and `Run` and two discoveries fill
  and overflow it, before and after `Close`. The bound on `main`'s events does not
  carry `CloseReturns`: they end with `Close` anyway.
* Supervisor: six connections run past the end of the backoff table; two processes,
  two Xboxes and three background discoveries per process let several of them race
  on the file, and one process find what another left of it.
* Device: every list of at most two devices with two names in two spellings.
* Console: three keys (one each in stdin, the reader and `stdinLoop`), three frames.
* Stats: a window of 3 and up to five samples, so two leave the window; the values
  include a negative one, zero and both sides of a spike.

Deadlock checking is off: `Run` returns, processes end, the clocks stop at their
bounds, and messages and restarts are bounded, so these models really stop.

### Fairness

Used by the liveness properties only. In Bridge, `Run`, `captureLoop` and
`recvLoop` are weakly fair: the Go scheduler runs what is runnable, and reads have
deadlines (100 ms for the socket, 10 ms for pcap). A `select` picks at random among its ready cases, so
a `ctx.Done()` that is ready again and again is taken in the end: strong fairness
of `Stop`. Nothing is assumed of the peer, the user or the discovery.

The other modules follow the same rule: code that is runnable runs (weak fairness of
the writer and `Close`, of `main`, of opening a handle, of the console's goroutines),
reads time out (a cancelled `Discover` gets to look at its context), and a select
that finds `ctx.Done()` ready again and again takes it (strong fairness of the
console loops' exits). Supervisor assumes of `Run` that it begins, and that it returns
once its context is cancelled, which `ShutdownReturns` shows of Bridge; a lost peer need
not make it return. In Console the ticker is not fair: `IdleEnterAnswered` holds without
it. Nothing is assumed of the user, of consoles, of a background discovery's emits, or
of the network.

## Proofs

The eight `*Proofs` modules prove every safety property of the passing runs,
refinements included, for all values of the constants that satisfy the modules' `ASSUME`s
(positive buffer sizes, window, miss limit and interval; natural bounds; `NoKey` is not
a key, `NoMAC` not a MAC; a list of devices is a sequence; nonces encode in 8 bytes,
differently, and never look like a version). Most have an inductive invariant, a lemma
for the initial states, a lemma for steps with one case per action, and the temporal
step.

* Bridge. `EventOrder` is not inductive: `EventsInv` ties the events emitted and the
  one still due to the state and to `run`, so that a second DISCONNECTED is never a
  transition. `LossInv` adds that a handler owes its event only on its way to closing
  `b.done`, hence before its loop ends and `wg.Wait` returns: `ReturnReported`.
  `OutcomeInv` ties the branch taken by the second select to `done` and the
  context, `DoneInv` says who can have closed `done` at each point, `LifeInv` that
  goroutines exist only between handshake and return, `PanicInv` which states a
  panic needs. Most steps of a goroutine only move its program counter (`Moved`), and
  one lemma shows that such a move keeps all of this.
* KeepAlive. `ClockInv` keeps the clock within one interval of the ticker and every
  timestamp behind the clock. `MissInv` says that the miss counter measures the
  silence: with m misses and a ping pending, the last PONG that counted is between
  m + 1 and m + 2 intervals before the next tick. Both bounds follow from it.
* Session. `NetInv` says what every message in the network, however old, still
  tells: a HELLO was made with the connector's key, a HELLO_ACK with the listener's
  key for a challenge it answered, a keyed message has a nonce. `LogInv` keeps the
  nonce window at or above everything the session accepted, which makes
  `InOrderOnce` inductive.
* Bridge, `BridgeKeepsContract`: initial states map to initial states, and every
  action to a step of BridgeLife or to a stutter, under the invariant above.
* FramePath, with a key and without. `PathInv`: frames on the way carry a number of a
  captured frame and are not empty (`FlightInv`); what waits to be sent is newer than all
  of them (`QueueInv`) and than everything queued for injection or taken (`AheadInv`).
  It is inductive for every key, and gives `TypeCorrect`.
* FramePath, with a key, whatever the network does. `NonceInv`: among the frames that can
  still be received, a larger nonce means a later frame. `FreshInv`: what `Decode` would
  still accept is newer than everything queued or taken. `InjectInv`: the receiver's
  queue and the slices taken from it ascend. Hence `ForwardsInOrder`: `injectLoop`'s
  receive is a `Deliver` of LossyFifo, capturing is its `Offer`, every other step a stutter.
* FramePath on a network that keeps the order, with a key or without
  (`OrderedNetworkKeepsOrder`): until the first duplicate or reordering every step is one
  of LossyFifo, so the channels and goroutines never disorder the slices. The nonces are
  of no use here. Instead `LineInv` has the frames stand in line: queued or taken, being received,
  in the network in the order of sending, held by `sendLoop`. This needs that `sendLoop`
  alone sends frames and holds one at a time (`WireInv`). TLC checked the invariant without
  a key on three frames before it was proved.
* FrameCountProofs, on top of these invariants and for a codec with a key. `HoldInv` adds
  to `WireInv` that no two messages held have the same nonce. `CountInv`
  bounds the receiver's counter plus the frames that `Decode` would still accept by the
  sender's counter (plus the frame sent and not yet counted), so a duplicate can only
  use up what was counted once: `RxAtMostTx`. For `OvertakenBounded`, `OrderInv`
  counts the frames that were overtaken together with those that are bound to be
  (`Doomed`: a larger nonce is ahead of them), against the PINGs and PONGs that were
  sent or are waiting to overtake (`Waiting`). TLC checked both invariants on the
  instance of the run before they were proved.
* EventWriter. `OrderInv`: channel, event in hand and log ascend. `CloseInv`: an event
  that was queued when `Close` was called is still in the channel, in hand, written
  or failed, and the writer returns only with the first two empty.
* Supervisor. `MACInv`: the file, the MAC in use and every MAC on its way into the
  file were found by a discovery (or given). `CaptureInv`: there is no capture of `main`
  before it is opened, and none open after an exit. `HandOverInv`: a background
  discovery exists only while `main` has no capture, so the bridge it works for has
  none either.
  `BackoffInv`: the last delay is at most what the next attempt would wait.
  `TypeInv` adds to the types that a connection begins below its bound.
* Wire. Lemmas take a datagram apart at its offsets; `Carried` says that the datagram
  is the encoding of the last message, `Window` where the receiver's nonce stands.
  `RoundTrip` and the refinement of Codec follow by cases on the message type. The sizes
  of the encodings add up to the bound in `TypeOK`: no datagram is longer than a full
  frame with type, nonce and HMAC, 1555 bytes.
* Console. `LoadsInv`: the packets `printStats` has loaded are at most one ahead of the
  bytes it will load. `EnterInv`: an Enter pressed on an idle console is in front of all
  others, and both receivers on its way are parked, unless a line is about to answer it
  or the bridge stops. The types (`KeyTypes`, `CountTypes`) need that `sendLoop` never has
  counted more bytes than frames.
* Device. `LookUpInv`: the flag and the list do not change, and the two copies of the
  look-up are the same function of them. `HandleInv` gives the handles that are open at
  each step of an opening. `FlagNamesBestMatch` says what that function is: of the
  devices that answer to the flag by the strongest rule (name, name in another case,
  description) the first one, although the code is three loops that each stop at their
  first hit. It rests on the least element of a set of indices (`LeastElement`).
* Stats. The window, its sum and the last two samples are exact after every prefix of a
  session (`Tracked`), and the sum of the last samples is a difference of two prefix sums
  (`TotalOfLast`). Both are inductions over a sequence. `UpTo` is the induction
  principle, stated for a set of numbers and derived from the fact that every set of
  numbers has a least element; `LoopExists` shows that the recursive functions of the
  model exist. `AverageIsMean` and `SpikeIsExact` hold for sessions of any length and
  any integers; the second needs a window of at least two samples, since `CheckRTTSpike`
  wants two samples in it.

Only model-checked: the leads-to properties (liveness and ENABLED are out of the
prover's reach), which are `ShutdownReturns`, `PeerLossClosesTransport`,
`CloseReturns`, `SignalEnds`, `IdleEnterAnswered`, `ConsoleEnds` and
`DiscoveryCancellable`; and the refuted ones. Without a key there is no
nonce to reject a duplicate, so `ForwardsInOrder` and the two counting theorems are for a
codec with a key; `TypeCorrect` and `OrderedNetworkKeepsOrder` are for both.

## Not modelled

* Logging (`internal/logging`): each call formats one line and writes it under one
  mutex. No other part reads its state.
* Flag parsing, usage and help texts, the Npcap check, the layout of the interface
  list, `formatNumber`, `formatBytes`, `createEmitter`: straight-line code without
  state of its own.
* libpcap, the kernel's filter and the socket options are external; what the code
  sees of them (a frame, nothing, an error) is in Device, Bridge and FramePath.
* 64-bit counters and nonces do not wrap at the rates of a network.
* The list of devices changing between two look-ups of one start.
* `os.Exit` on a fatal error skips the deferred `emitter.Close`: queued events are
  lost then. Nothing promises otherwise.
* Two peers finding each other again, and what a second session in one process would
  meet (a capture that the first session closed, an older goroutine on stdin): `Run`
  has to return after a peer loss first.
* The wall clock that stamps the event lines (`jsonline.go:30`) may be set back.
* `test/e2e/xbox-sim` is the simulator of the end-to-end tests.
