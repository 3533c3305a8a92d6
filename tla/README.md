# A TLA+ verification of faster-serialport

`faster-serialport` gives Node programs serial ports. JavaScript calls go through a C++
addon into Go, where every call becomes a goroutine working on a port of the library
`go.bug.st/serial`; the answers come back through thread-safe queues of Node. The code that
is hard to get right is where these threads meet: two one-slot channels that serialise
readers and writers, buffers that change owner between Go, C++ and JavaScript, and
operations registered on one thread, completed on a second and settled on the first. This
directory models that code, checks it with TLC, and proves with TLAPS what TLC checks of its
safety - every invariant of a passing run, the two refinements and one action property - for
any number of calls, bytes and events. Liveness stays with TLC.

To run a check: `tlc -config MCPortHandle_duplex.cfg MCPortHandle`, and likewise for the
other configurations; `tlapm PortHandleProofs.tla` checks the proofs of that module, and
likewise for the other `*Proofs` modules and `PortHandleRefinement`.

## 1. The system

```
 FastSerial (lib/index.js) -> SerialBinding (lib/bindings.js)      JS loop thread
        |  promisify: one native call, one callback
 addon (src/addon.cc): g_pending, g_tsfns                          JS loop thread down,
        |  fsp_*_async (cbId)        ^ fsp_complete, fsp_emit_chunk   any thread up
 go-serial/api.go: one goroutine per call, autoRecover             goroutines
        |
 portHandle (serial.go)   manager (manager.go)   eventWatcher (events_*.go)
        |
 go.bug.st/serial (external)
```

| component | state | operations | what makes it correct |
|---|---|---|---|
| portHandle, `serial.go` | `readConch`, `writeConch`, `muMode`, `mode`, the port | Read, Write (plain, echo), BufferedRead, SetBaudRate, BaudRate, Flush, Close, ApplyControlLines, ModemStatus, Drain | frames stay whole, readers do not steal bytes, mode changes exclude I/O, no lost conch, no deadlock, every wait ends |
| bufferedRead stream, `serial.go`, `api.go`, `addon.cc` | batch, fill level, chunk queue, the stream's ThreadSafeFunction | newBatch, flush/emit, free; fsp_emit_chunk; delivery on the loop | one owner per batch, no leak, bytes in order and complete, bounded memory, the end of the stream |
| pending operations, `addon.cc` | `g_pending`, `g_tsfns` | registerPending, takePending, resolvePending, registerTsfn, releaseTsfn | an operation is there while Go has the call, completed once, gone afterwards |
| exported functions, `api.go` | none | fsp_*_async, autoRecover | one completion on each path, the event slot returned once |
| manager, `manager.go` | `ports`, `idCounter` | Open, get, remove | a handle names one open port |
| SerialBinding, FastSerial, `lib/` | `fd`, `writeOperation`, `isOpen`, `timeout`, `settings` | open, close, read, write, update, drain, ... | what JS believes about the port is so; every promise settles |
| options, `index.js`, `api.go`, `serial.go` | the settings object, `mode`, the device's mode and lines | constructor, modeFromOpts, update, set | what the program asked for is what the device does, after failures and reopens too |
| eventWatcher, `events_windows.go`, `fsp_emit_event` | stop event, `done`, the overlapped wait, the events queue | run, Stop, emit, delivery | handles valid while in use; each event once and in order; none after close; Stop returns |
| logging, mock, build | - | - | not modelled, section 8 |

Interactions: a call is a plain function call down to `fsp_*_async`, which looks the handle
up on the loop thread and starts a goroutine (`getBaudRate` works on the loop thread
itself); a completion takes the operation out of `g_pending` and queues it without waiting;
a chunk is queued with waiting (`BlockingCall`), which parks the goroutine and lets a slow
consumer hold the device back. Close takes no conch.

The hard behaviours are listed as `hazards` in `PROJECT.json`, each at its line with the
properties that cover it.

## 2. Modules

| module | models | variables and the code's state |
|---|---|---|
| `PortAccess` | abstract: what the conches promise. A port has a read and a write side, one call inside each; only inside may bytes be received or sent, only inside both may the rate change | `status`: which side each call is in |
| `PortHandle` | `serial.go` and its callers in `api.go`: calls of eleven kinds on one port | `token`: the channels and `muMode`; `held`: how many of its locks a call holds (releases are deferred, so they are a prefix of those it takes, `LocksOf`); `pc`, `count`: place and byte counter of a goroutine; `expired`: its deadline is past; `modeBaud`, `devBaud`: `p.mode.BaudRate` and the device's rate; `wire`, `rx`, `got`: history of the bytes |
| `PortAccessProofs`, `PortHandleProofs`, `PortHandleRefinement`, `AsyncLoopProofs`, `ChunkStreamProofs`, `EventWatcherProofs`, `PortLifecycleProofs`, `PortSettingsProofs` | theorems, section 5; the refinement is that of `PortAccess` by `PortHandle` | |
| `AsyncLoop` | external: the JS loop thread as ThreadSafeFunctions see it, extended by the next two | `pending`, `todo`: wake-ups of libuv's handles; `running`, `left`: the dispatch in progress and its quota |
| `ByteStream` | abstract: what a bufferedRead promises, a bounded FIFO of bytes that ends | `arrived`, `transit`, `delivered`, `reading`, `settled` |
| `ChunkStream` | one bufferedRead from Go's reader to the JS callback | `batch`, `filled`: the reader's variables; `queue`, `posted`: the two ThreadSafeFunctions; `allocated`, `frees`: the C heap |
| `EventWatcher` | the comm events of a port on Windows and its close | `overlapped`, `mask`, `history`: the wait and what the driver remembers; `pc`, `last`, `handing`: run; `queue`, `calling`, `delivered`: the events ThreadSafeFunction; `closer`, `stopEvent`, `portOpen`, `slot`: fsp_close_async and what it takes away |
| `PortLifecycle` | open, close and the calls between through all layers | `op`: an entry of `g_pending`; `slot`: an events entry of `g_tsfns`; `ports`, `idCounter`: the manager; `fd`, `isOpen`, `writeOp`: the JS objects; `stage`: how far a call is |
| `PortSettings` | options from the constructor to the device, updates, control lines | `settings`, `fd`: the JS objects; `sent`, `target`: the JSON of a call and the port it was made on; `opened`: which port is open; `mode`, `device`, `lines`: `p.mode` and what the port is set to |
| `MCPortHandle`, `MCChunkStream`, `MCEventWatcher`, `MCPortLifecycle`, `MCPortSettings` | instances for TLC | |

`PortHandle` is the heart. It has one action for each stretch of code between two points
where another thread can be seen: a lock taken (`Acquire`, `AcquireTimeout`), a port call
and what the code does with its result (`ReadSome`, `WriteSome`, `EchoReceive`,
`BufferedReadData`, `SetMode`, ...), the handoff of a chunk (`Emitted`), a deferred release
(`Unwind`), the completion. The port is free to deliver, to accept less than it was given,
to time out, to fail and to panic. It is related to `PortAccess` by the mapping `Status`: a
call is inside a side while it holds that side's conch. `PortAccess` lets a call change the
rate only before it has sent anything, which is what an update does; a call that did both
could break a frame of its own. `wire` holds what `port.Write` accepted, with the rate the
device had then; the driver's output buffer is not modelled (section 8).

`ChunkStream` looks into the step `Emitted` of `PortHandle`: there the emit of a chunk just
returns; here it waits for room in the queue, and the loop makes room. `PortLifecycle` looks
at a call from the outside: its goroutine comes back with a result; that it does is
`EveryCallCompletes` of `PortHandle` and `StreamEnds` of `ChunkStream`; what its steps
`StartEvents` to `ReleaseEvent` mean to the watcher is `EventWatcher`. `PortSettings` looks at
the same calls for what they carry; `SetBaudRate` is one step there, `PortHandle` having
shown that nothing gets between its parts.

`ChunkStream` implements `ByteStream`: the bytes in transit are those of the chunk being
delivered, of the queue, of the chunk being handed over and of the reader's batch, in this
order. That every step of reader, queue and loop is a step of a FIFO, or none, says in one
formula what its invariants say piece by piece, and says it of each step.

In `EventWatcher` an event is a number, in the order in which the driver raised them, and a
report the set of those it stands for: `WaitCommEvent` returns one mask for all that
happened since the last. The watcher's `pc` has one place per point where it can be
overtaken: before WaitCommEvent, in WaitForMultipleObjects, before the slot is looked up,
before the push. A wait may complete at once, later, with nothing, or with an error of
either kind. The close is a goroutine of its own beside it.

`PortSettings` keeps the values of options as strings that name the cases the code tells
apart. "zero" is a rate Go sees as 0: 0 itself, NaN (null in JSON) and, in an update, an
absent one. The options a program starts from are a constant, `Tried`; in the run they are
the defaults with any rate, and frame formats among which each value of each field occurs,
the wrong ones one at a time, since no check of either side looks at two fields together;
the theorems hold of any. A set may name any combination of the lines, each to be
raised or lowered. Opens and closes may overlap with every other call, and with each other,
in a program that does not await: a call works on the port that `fd` named when it was made
(`OnPort`), and can only fail once that is closed. An open of a port that is open fails, as
the operating system has it.

Operators whose comment calls them a *variant* are slips a change to the code could make (a
conch forgotten, locks taken in another order, a missing free). No specification uses them;
`PROJECT.json` says for which property each shows that the property notices.

## 3. What the runs show

| run | instance | shows |
|---|---|---|
| `MCPortHandle_duplex.cfg` | 3 calls out of write, echo, update; frames of 2 bytes; 2 rates; 1.3 million states | `FramesIntact`, `ModeChangeExclusive`, `LockInv`, `NoCircularWait` |
| `MCPortHandle_stream.cfg` | 3 calls out of read, bufferedRead, update, getBaudRate, flush; 3 bytes received; 0.9 million states | `NoStolenBytes`, `LoopNeverWaitsForItself`, `BaudRateIsDevices` |
| `MCPortHandle_live.cfg` | 2 calls out of all eleven kinds, with fairness; 140 thousand states | `EveryCallCompletes`; `ImplementsAccess`: `PortHandle` implements `PortAccess` |
| `MCPortHandle_readtimeout.cfg` | as above | finding 1 |
| `MCChunkStream_stream.cfg` | batches of 2 bytes, a queue of 2 chunks, a quota of 3, 7 bytes, both kinds of event loop; 42 thousand states | `OneOwner`, `NoBatchLeaks`, `InOrder`, `NothingLost`, `MemoryBounded`, `DoneAfterChunksFifo`, `StreamEnds`; `ImplementsStream`: `ChunkStream` implements `ByteStream` |
| `MCChunkStream_order.cfg` | one loop that looks at all handles in a pass | finding 2 |
| `MCPortLifecycle_lifecycle.cfg` | 4 calls out of open, close, write, drain, 2 handles, disciplined programs and others; 1 million states | `DisciplinedOpsMatchCalls`, `EventSlotReleased`, `PortsRegistered`, `PortsReachable`, `IsOpenAgrees`, `EveryCallSettles` |
| `MCPortLifecycle_reopen.cfg` | 5 calls out of open, close, read, list, getBaudRate, disciplined programs; 0.5 million states | `CanceledMeansClosed`, `CloseCancels`: what `err.canceled` says when a port is closed, and perhaps opened again, under a read |
| `MCPortLifecycle_closed.cfg` | 3 calls of every kind, undisciplined programs | finding 3 |
| `MCEventWatcher_events.cfg` | 3 events, 2 failing waits, a queue of 2, a quota of 3, with fairness; 54 thousand states | `HandlesStayValid`, `NoEventAfterClose`, `EventsInOrder`, `EventReported`, `CloseSettles` |
| `MCEventWatcher_broken.cfg` | a device whose waits fail for ever | finding 4 |
| `MCPortSettings_settings.cfg` | 4 calls out of open, update, set, close; 2 rates and the three kinds of wrong ones; every combination of lines; 4.3 million states | `RefusedOnlyForRate`, `FrameFormatKept`, `RateFollowsSettings`, `LinesFollowSets` |

What a reader may not expect of the properties that hold:

- `NoEventAfterClose` needs `reports <= Quota`. The completion of close is another
  ThreadSafeFunction, as in finding 2, and with more reports than one dispatch delivers it
  can get in between. The queue holds 16 and Node's quota is 1000, so this takes a JS side
  that is slow while a watcher goes on filling the queue.
- An event may be delivered before the promise of open settles: the watcher starts first.
- `FramesIntact` ends where the port accepts a byte. `SetBaudRate` does not drain, so bytes
  of a write that has *returned* may leave the driver's buffer at the new rate; a program
  that minds drains before it updates.
- `RateFollowsSettings` and `LinesFollowSets` are about programs that await each call: calls
  that overlap reach the port in any order. After an update that failed, the settings object
  has its rate and the device that of the last call that succeeded; the next open uses the
  object's. An update without a rate sends the device what is in `p.mode`, which a failed
  update may have left there, and a later open falls back to 9600. Of the lines a failed set
  named, `LinesFollowSets` only says that they are as before or as it asked.
- `BaudRateIsDevices` says that only a SetMode that failed parts `p.mode` from the device.
- `IsOpenAgrees`, `PortsReachable` and `DisciplinedOpsMatchCalls` are about disciplined
  programs. One that closes before its open has settled can leave `isOpen` true with `fd`
  null; one with two opens under way loses the port of the first; one that closes during
  drain's await runs into finding 3. The hazards in `PROJECT.json` say so at their lines.
- `CloseCancels` is about disciplined programs, and has an exception for a later open:
  `read` looks at `fd` when its promise is rejected, and finds the new one.

**Bounds.** *Calls* are 3 where the question is one of exclusion: two that must exclude each
other and one that holds what they wait for; calls only meet in the conches, of which there
are two. `DataLen` is 2: the least that has a middle another call could get into, and a partial
write. `MaxRx` is one more than a read asks for where reads compete. Two rates suffice to
tell a change from none. The chunk queue of 64 is 2 and the quota of a dispatch (1000 calls
in Node) 3, with bytes enough to fill queue, batch and handoff and to make a dispatch end by
its quota. Handles wrap at 2 instead of 2^31 - 11, so that with four calls a number is used
again. The events queue of 16 is 2: three events fill it with one more in the watcher's
hand. Two errors let a failing wait come before and after an event. Four calls on a port's
settings are enough for an open, a failed update or set, a close and the next open, or for
an open and a line lowered, raised again and left alone, and five
for two reads that a close and a reopen meet. `MaxRx`, `MaxEvents`, `MaxErrors`, `NumCalls`
and the set `Calls` bound the behaviours; nothing else does, and no state constraint is
used. For the safety properties the bounds only limit what TLC looks at, since section 5
proves them for all; for liveness they are what the result rests on. The specifications
allow stuttering at the end only when all
calls have settled (`Finished`), so TLC's deadlock check is on everywhere.

**Symmetry** over the calls is used in the two safety runs of `PortHandle` only, where calls
are model values that nothing distinguishes; never with liveness.

**Fairness.** `PortHandle`: weak fairness of the steps of each goroutine (the Go scheduler
runs what can run; a port call comes back, reads having a timeout set before each) and of
time (`Expire`). Failures are not fair: an open port need never return an error and nothing
need panic, so no call is completed by an error it happens to run into; only the operations
of a *closed* port fail (`~portOpen /\ PortFails(c)`). A call waiting for a conch completes
because its deadline comes, or because the holder does; both are what the code relies on.
That the device stops sending is the bound `MaxRx`: a bufferedRead of an endless stream does
not end in the code either. Making calls is not fair, a program may stop. `ChunkStream`:
weak fairness of the reader, failures again excepted, and of the loop; a program that blocks
the loop thread for ever stops its own stream. `EventWatcher`: weak
fairness of the watcher's and the closer's goroutines and of the loop; the device need not
do anything (a pending wait may stay pending, which is what Stop is for), no call need fail
and the program need not close. `PortLifecycle`: weak fairness of the progress of all calls
together, of which every outcome leads on. `PortSettings` states no liveness: every call is
one or two steps, and whether they end is `PortHandle`'s.

## 4. Findings

1. *A read timeout can be an error* (`ReadTimeoutNotAnError`). The deadline of Read covers
   the wait for the read conch, and passing there is `context.DeadlineExceeded`.
   The repository's README.md:88 and the comments at serial.go:92 and api.go:330 say a
   timeout of read is never an error. The shortest trace is a single read whose deadline is past when it
   reaches `select`; one behind a bufferedRead has no choice. A write has the like: waiting
   for the write conch, it fails with that text instead of the one of README.md:80; texts
   are not modelled, so no run states it.
2. *The done resolution can overtake the last chunk* (`DoneAfterChunks`). addon.cc:328 and
   :486 rely on the order in which the two ThreadSafeFunctions were created. Each has its
   own wake-up: a pass over the handles that has passed the data handle when the last chunk
   is queued still serves the done handle. The chunk is delivered later, after the promise
   has settled. What holds is `DoneAfterChunksFifo`: with wake-ups in the order they were
   sent (Windows) and a stream that fits one dispatch, the order is as the comment says. No
   chunk is ever lost (`NothingLost`).
3. *A call on a port that is not open leaks its PendingOp* (`OpsMatchCalls`). Close, Get,
   GetBaudRate, Drain and Flush register the operation before `asHandle` throws on null.
   Reading the handle first, as Read, Write, BufferedRead, Update and Set do, cures it.
   `DisciplinedOpsMatchCalls` shows that programs which only call on open ports never see
   it.
4. *A close can wait for ever* (`CloseSettles` in `MCEventWatcher_broken.cfg`). The watcher
   looks at its stop event only inside WaitForMultipleObjects, that is, after a wait that did
   not complete at once. A wait that fails at once with an error `isFatal` does not list is
   reported and tried again (events_windows.go:151); if it always fails, `Stop` waits for
   `done` in vain, although it "signals the watcher loop and waits for it to exit" (:73).
   The port stays open and the callback is called again and again. When such waits end some
   time (`StaysBroken = FALSE`), close settles, whatever else the device does.

In passing: addon.cc:107 and :551 say a chunk is wrapped in a JS buffer "without copying" and
freed by its finalizer; the code copies and frees at once (:579-580, where it says why). The
model follows the code.

## 5. What is proved

Every invariant of a passing run is a theorem of its specification, and so are
`ImplementsAccess`, `ImplementsStream` and `CloseCancels`. The constants are arbitrary; the
assumptions are the named `ASSUME`s of the modules, which only type them (sizes and quotas
are positive, bounds natural numbers, rates are no error cases). The set of calls of
`PortHandle` may be infinite. No theorem assumes fairness. Each follows from an inductive
invariant whose parts are defined before the proofs that need them.

**Port handle** (`PortHandleProofs`). `TypeCorrect`, `Locking` (`LockInv`), `ModeExclusion`,
`DeadlockFreedom` (`NoCircularWait`), `LoopFreedom` (`LoopNeverWaitsForItself`) and
`RateAgreement` (`BaudRateIsDevices`). That a token is missing says nothing by itself of
*which* call is in its port I/O; the invariant needed, `IInv`, is `TypeOK`, `LockInv` and
`PcInv`, which ties the three counters of a call together: a call at `io` or later holds all
its locks, one at `acquire` fewer than all, one that is `idle` or `done` none, and a place
in the code belongs to the operations that have it. `Inductive` proves it in layers: types,
then `PcStep`, then `LockStep`, where only `Acquire` and `Unwind` move a token, and what a
call holds is a prefix of its lock order (`PrefixGrows`, `PrefixShrinks`). From `IInv` mode
exclusion follows by holding all locks (`FullHands`). Deadlock freedom is the rank argument
the comment at serial.go:330 appeals to: the locks have one order - write, read, mode -
every call takes its locks upwards in it (`RanksRise`), so in any set of calls the one
holding the highest lock waits for none of the others. `LoopFreedom` uses that muMode is the
last lock of whoever takes it (`ModeIsLast`): who holds it waits for nobody, and is no
bufferedRead. `RateAgreement` adds `RatesPartedBy`: a difference between `p.mode` and the
device is the doing of one call, still in SetMode or failed there.

**What the conches are for** (`PortAccessProofs`, `PortHandleRefinement`). `FramesIntact` and
`NoStolenBytes` speak of calls long gone, and to prove them among conches, deferred releases
and partial writes would mix two concerns. `AccessSafe` proves them of `PortAccess`: whoever
is inside a side has the newest bytes of it, at the present rate, and who has not been inside
has none. `Refinement` proves that each action of `PortHandle` is a step of `PortAccess` or
none: first what becomes of `Status`, where a call that works is inside all its sides, so
that only taking and giving back locks changes it; then which bytes and rates change
(`Traffic`); `Writers` says which calls can be found in `wire`. `Frames` and `NoTheft` carry
the guarantees back.

**Stream** (`ChunkStreamProofs`). `Ownership`, `NoLeaks` and `Backpressure` rest on `HeapInv`:
`Parted`, no batch in two places, and `Accounted`, a batch was freed once exactly if it has
been allocated and nobody owns it. `TypeOK` itself needs an argument, since batches are
numbered: each that was handed over took a byte with it (`Counted`). `Order` and `Delivery`
rest on `Ordered`, which says from which byte on each stage is numbered; that a chunk in the
queue is never left without a wake-up is `Woken`. `Implementation` proves `ImplementsStream`:
by `Ordered` the bytes in transit are the run of numbers from the last delivered to the
newest (`TransitIs`), so a step is known by what it does to the two ends; that a full reader,
queue and callback keep within the capacity is `Sized`. Flattening the queue is the one
recursive function a proof has to look into: `FlattenRuns` shows that of chunks that follow
each other it is one run, counting up to a least counterexample (`CountUp`).
`SettlesLast` proves `DoneAfterChunksFifo`: with wake-ups in a FIFO and a dispatch that takes
all chunks (`InTime`), the wake-up of the completion stays behind those of the data
(`DoneLast`).

**Events** (`EventWatcherProofs`). `ValidHandles` from `Closing`, how far the close may be
while the watcher runs; `EventOrder` from `Sorted`, where on its way each event may be;
`SilentAfterClose` as `SettlesLast`, from the same lemmas about wake-ups (`AsyncLoopProofs`,
which proves what libuv's FIFO keeps to for any two handles).

**Lifecycle** (`PortLifecycleProofs`). `LifeInv` holds of every program: where each operation
may be, when its PendingOp is there, that the table holds opens under their handles and that
no two closes work on one port (`Closes`), which is what makes handles that wrap harmless.
It gives `SlotReleased` and `Registered`. What a disciplined program adds is in `Alone`,
`OnOpenPort`, `Reachable` and `Reads`, and gives `OpsMatch`, `OpenAgrees`, `NoPortLost`,
`CanceledClosed`, and `ClosedCanceled` for the action property `CloseCancels`; the last has
`disciplined` as a hypothesis, as the run of that property has by its configuration.

**Settings** (`PortSettingsProofs`). `RefusedForRate` and `FormatKept` hold of all programs,
those whose opens, closes and updates overlap included, by `Format` and `InStep`: the port is
closed, or mode and device have the format of the settings object. `Names` says that what
calls are made on are ports an open got, so that no call made before an open is on its port.
`RateFollows` and `LinesFollow` are about programs that await their calls: by `Single` the
call in flight is the last, and `fd` names the open port but while that is closed. `SetLines`
adds to `LinesFollowSets` the set that has done RTS and not yet DTR.

## 6. What is only model-checked

Liveness - `EveryCallCompletes`, `StreamEnds`, `EveryCallSettles`, `EventReported`,
`CloseSettles` - stays with TLC for good: fairness and ENABLED are out of the prover's reach.
So do the four findings, which are counterexamples.

## 7. Plan

Modules were written in the order of what most depends on them: `PortAccess`, `PortHandle`,
`ChunkStream`, `PortLifecycle`, `AsyncLoop`, `EventWatcher`, `ByteStream`, `PortSettings`;
then the proofs of section 5. Left to prove are facts that liveness rests on and that are
safety properties themselves: that no state of a stream, a watcher or a call short of its
end is one in which nothing of the system can move (what TLC's deadlock check looks at).
## 8. Not modelled

- Logging, `mock.js`, `legacy.js`, build scripts: no state that another component reads, or
  no logic of their own. Of the lists of ports only the call is modelled.
- The wording of errors, and data bits beyond "one of the right ones or not".
- `setTimeout` of FastSerial: a deadline in the model is past at any moment, so every value
  is covered, those that Int32Value (addon.cc:303) makes 0 or negative among them. It does
  not reach bufferedRead, update, drain, set and flush, which have limits of their own or
  none; a drain that a device holds up for ever is excluded by the assumption that port
  operations come back.
- A break pulse (250 ms, without a conch) leaves no state; that it may cut into a frame is
  listed as a hazard.
- The memory WaitCommEvent writes to. CancelIoEx is not followed by a wait for the cancelled
  operation; `EventWatcher` has the order of the calls, not the lifetime of `ov` and
  `evtMask`.
- The teardown of Node's environment, the only time NonBlockingCall and BlockingCall fail;
  what becomes of a ThreadSafeFunction then is decided in Node.
- The output buffer of the driver: when bytes that `port.Write` accepted are sent, what
  `ResetOutputBuffer` throws away of them, and that a mode change does not wait for them. It
  is listed as a hazard.
- `go.bug.st/serial`, Node and libuv are external. A port operation that fails leaves what
  it was to change as it was, and one on a closed port fails. The model of libuv and of Node's
  ThreadSafeFunction in `AsyncLoop` follows what the addon's comments and the order of its
  calls rely on, on the two kinds of loop libuv has.
