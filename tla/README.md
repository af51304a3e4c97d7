# od_esphome: specification and proofs

TLA+ modules for the OpenDisplay component of this repository
(`src/components/opendisplay`), which lets an ESP32 running ESPHome accept e-paper
frames over BLE: what its parts do and what they promise, model-checked with TLC on small
instances and, for the engine, the RX ring, the safety of the component, of its entities and
of the PIPE link, and the protocol's arithmetic, proved with TLAPS for every value of the
constants.

## 1. The system

| Component | State | Operations | Talks to |
|---|---|---|---|
| **Transfer engine** `transfer_engine.*` | the transaction (mode, state, byte and chunk counters, negotiated window and cadence, deadlines, `pipe_fatal`), `hw_owned_`, the connection generation, the staged tail SACK | `on_direct_start/data/end`, `on_pipe_start/data/end`, `tick`, `abort`, `on_disconnect`, `set_connection_generation` | calls the backend; returns an `EngineResult` to the component |
| **Backends** `backend_epaper_spi.*`, `backend_it8951.*` | geometry, `refresh_started_` or the settle deadline; the driver's framebuffer | `init`, `capabilities`, `begin_frame`, `write_contiguous`, `finish_frame`, `begin_refresh`, `poll_refresh`, `abort_transfer` | an ESPHome display driver, which runs by itself and can be used by local automations |
| **RX queue** `ble_transport.*` | ring of 24 slots, `head_`, `tail_` | `push` (BLE callback), `pop` (loop) | shared memory between two contexts |
| **TX queue** `ble_transport.*` | ring of 16 slots, 4 kept for terminal frames | `push`, `pop`, both in loop | |
| **Component** `opendisplay.*` | `connected_`, `connection_generation_`, the queues | BLE callbacks; `loop`: disconnect check, up to 8 packets, `tick`, up to 4 notifications, publishing | all of the above, the BLE stack, YAML triggers |
| **Entities** `opendisplay.*` | `published_state_`, `published_busy_`, `error_pending_`, `msd_`, `reboot_flag_` | `publish_state_`, `update_msd_`, READ_MSD | Home Assistant sensors, the advertisement |
| **Protocol** `protocol.*` | none | opcodes, parsing of a 0x80 request, SACK mask, MSD record, config blob and its chunks, CRC, response lengths | the vendored headers `opendisplay_protocol.h`, `opendisplay_structs.h` |
| Client, driver, local automations | external | | |

A frame travels: BLE write -> `RxQueue::push` -> `loop` -> `RxQueue::pop` ->
`handle_packet_` -> engine handler -> backend -> `EngineResult` -> `apply_result_` ->
`TxQueue::push` -> `drain_tx_` -> notification. After the last byte the engine starts the
refresh, acknowledges the END, and `tick` polls the backend until it can say 0x73, or
0x74 when the refresh timeout comes first.

What is hard: the engine's transaction and the panel have different lifetimes (a refresh
cannot be cancelled, while its transaction can time out, be aborted or lose its client);
deadlines, completion, local updates and new STARTs race; two contexts share the RX ring
and the connection flags; the TX queue drops what does not fit; chunk numbers wrap modulo
256 while chunks are lost, repeated and late; the clock wraps modulo 2^32; what is shown is
published at other moments than it changes. The hazards, each with its line and its
properties, are listed in `PROJECT.json`.

What makes each part correct: the engine accounts for every byte of the frame, holds the
panel while it is read, says 0x73 only when the frame is shown and always gets back to
idle; the backend draws every pixel from exactly one byte; the RX ring is a FIFO that loses
only what it refuses; the component never mixes two clients' frames, never loses an outcome
and answers every command of the client that is there in full; a client that keeps the PIPE
contract learns only the truth from SACKs and gets to an end; the sensors follow the state;
responses fit, chunks of the configuration cover it, and a request is read from its own bytes.

## 2. Modules

| Module | Models | Notes |
|---|---|---|
| `Backend` | both adapters and the driver | `ObservesCompletion` selects epaper_spi (TRUE) or it8951 (FALSE) |
| `TransferEngine` | the engine over `Backend` | one action per public method |
| `PanelUpdate` | abstract: what client and panel may rely on | implemented by `TransferEngine` |
| `Framebuffer` | the geometry checks of `init()`, capabilities, pixels of a byte | operators |
| `PanelImage` | the engine's bytes as pixels of the panel | EXTENDS `TransferEngine`, `Framebuffer` |
| `RxQueue` | the ring, access by access | |
| `PacketQueue` | abstract bounded FIFO | implemented by `RxQueue` |
| `Protocol` | opcodes, 0x80 request, SACK mask, MSD, config blob, CRC, deadlines | operators |
| `OpenDisplay` | component: callbacks, queues, `loop` | EXTENDS `TransferEngine`, `Protocol`, `Framebuffer` |
| `Entities` | sensors, MSD record, reboot flag | EXTENDS `OpenDisplay` |
| `Dialogue` | clients that come, go and wait for their answers | EXTENDS `Entities` |
| `PipeLink` | a PIPE client over one connection | EXTENDS `Entities` |
| `TransferEngineProofs`, `PanelUpdateProofs`, `PanelImageProofs`, `RxQueueProofs`, `OpenDisplayProofs`, `EntitiesProofs`, `PipeLinkProofs`, `ProtocolProofs` | theorems | see section 5 |
| `MCTransferEngine`, `MCFatalNack`, `MCOpenDisplay`, `MCDialogue`, `MCEndAckDropped`, `MCPipeLink`, `MCStaleError` | instances for TLC | `MCTransferEngine` is an instance of `PanelImage`, `MCDialogue` of `Dialogue` |

**Backend.** `driver` is the display component: idle, busy with our refresh (`ours`), busy
with somebody else's (`other`), or failed for good. `refresh_mark` is `refresh_started_`
for epaper_spi and the settle deadline for it8951. `loaded` is the set of framebuffer
offsets written since the last `begin_frame`; colours are abstracted away, the offsets are
not, and `PanelImage` says which pixels they are. `shown` is a ghost: the driver finished
the last refresh we began. Milliseconds are abstracted to what `deadline_passed` tells
apart: unset (the value 0), pending, passed; `ClockMayWrap` lets `now + timeout` be the
value 0.

**TransferEngine.** `txn` has the fields of `Transaction` that influence behaviour.
VALIDATING and WRITING exist only inside `finish_and_refresh_` and are never seen between
two calls. `reply` holds what the last call put on the wire (staged tail SACK, response,
0x73 or 0x74) and whether it failed. `accepted_packets` is capped where the SACK mask stops
changing. A 0x80 request is taken as parsed; `Protocol` has the parsing. The negotiated
frame size and `last_error_` influence nothing and are left out. The tail SACK is part of
`reply`, since `apply_result_` always takes it in the same call.

**OpenDisplay.** `stage` says what `loop` does next (disconnect check, packets, tick,
drain), and the BLE callbacks may run between any two steps; `on_ble_connect` is three
steps, one for each of its assignments. The RX ring is used as the FIFO that `RxQueue` is
proved to implement. A queued packet is the session stamped on it and its command, one of
the kinds that `CommandOf` distinguishes. A config read is answered by the frames of
`send_config_`, of which the TX queue may take only the first; the MSD record is any of
`MsdStatuses`, which `Entities` narrows to the one that `update_msd_` built last. One ghost
describes the world outside: `noticed`, whether loop() has seen the link down with an empty
ring. Clients may write any command at any time.

**Entities.** Refines the steps of loop(): `publish_state_` runs after the drain and only
if state or busy differs from what was published; `error_pending` is set by failed calls and
refresh timeouts; the record is rebuilt by `update_msd_` in some iterations and READ_MSD
clears the reboot flag. `EntitiesSpec` is the component with its entities for whatever
clients and automations there are; `Dialogue` and `PipeLink` add particular clients to it.

**Dialogue.** The clients of `OpenDisplay` with an account of the answers they are owed.
`waiting` counts them; `due` holds the positions in the TX queue of the frames that end one.
A command is paid for only when the last frame of its own answer, accepted there in full, is
drained to the client that sent it. What an earlier client left in the TX queue, 0x73 and
0x74, and an answer that was dropped or cut short pay for nothing; a 0x81 to which silence
is the documented answer is owed nothing. Connects, disconnects, local aborts and local
updates may happen at any time.

**PipeLink.** One client that keeps the contract of `opendisplay_protocol.h:600-640`: it
connects, reads the configuration and the MSD record, asks for a transfer, keeps at most its
window of chunks on their way, believes the SACKs it hears (`acked`), sends the lowest open
chunk again when nothing has come back (`ResendBase`, its timeout), may repeat open chunks
early (`ResendEarly`, a bounded number of times), and waits for its END ACK and for 0x73.
`air` are the notifications under way. The radio link is reliable, as a BLE connection is;
chunks are lost in a full RX ring, answers in a full TX queue. The absolute number a chunk
carries is history: the component sees it modulo `SeqMod`. Local automations may abort the
transfer or update the display, `MaxLocals` times (`locals` counts them); `silenced` records
that an abort ended a refresh, after which no 0x73 or 0x74 will come.

**Protocol** and **Framebuffer** have no state. A buffer is a function from positions
counted from 0, so a request can be read from the bytes an earlier packet left in its slot,
which is what `parse_pipe_start` does with 8 or 9 bytes.

## 3. Runs

| Run | Bounds | Shows |
|---|---|---|
| `engine` | panel of 12x2 pixels (frame of 4 bytes, rows padded), payloads 0, 1, 2, 5, chunk numbers mod 4, mask of 2 bits, window and cadence up to 2, 2 connection numbers, every backend call may fail | type, frame accounting, panel ownership, every pixel drawn before a refresh, honest 0x73, SACK cadence, `PanelUpdate` implemented, refreshes end, silent clients are released |
| `settle` | the same with it8951 and a wrapping clock | frame accounting, `PanelUpdate` without observed completion |
| `stuck_busy` | as `engine`, no failures | **violation**: the panel is never released after an abort in mid-refresh |
| `fatal_nack` | with a counter of NACKs | **violation**: two fatal NACKs without a START between them |
| `sack_before_data` | as `engine` | **violation**: a SACK for a chunk that never came |
| `rx_queue` | 3 slots, 3 packets | ring is a FIFO, slots are apart, every packet is handled |
| `rx_weak_order` | the same, stores in any order | **violation**: a slot is read before it is filled |
| `component` | `MCDialogue`: 2 connections, a frame of one chunk, 7 TX slots with 2 kept, 1 packet and 2 frames per loop, a configuration of two frames, the client waits for each answer, any number of aborts and local updates | no mixed frames, no orphaned transfer, every command answered in full, the busy sensor follows, the reboot flag is cleared by a record that shows it |
| `mixed_clients` | `MCOpenDisplay`: 2 connections, DIRECT, frame of 2 bytes, loop() may miss a disconnect | **violation**: the second client's bytes in the first client's frame |
| `end_ack_dropped` | the source's sizes: window 16, 24 RX and 16 TX slots, 4 kept, 8 packets and 4 frames per loop, one client that keeps to the protocol | **violation**: the END ACK is dropped |
| `pipe_link` | 5 chunks numbered mod 4, mask of 3 bits, window up to 3, cadence up to 2, 3 RX slots, 8 TX slots with 4 kept, 2 packets and 1 frame per loop, 1 early repetition, 1 local abort or update; a client that asks for window 4 and cadence 3, and one that asks for window 1 and cadence 2 | no misplaced chunk, true SACKs, none before the first chunk, the tail SACK before the END ACK, outcomes find room, the transfer gets to an end |
| `stale_error` | one byte, one DIRECT client, no failures of the driver and no timeouts | **violation**: an old error is shown after a transfer that succeeded |

Why the bounds are enough. The frame of the engine run has an empty, a partial and a whole
state, payloads that fit, one that ends the frame early and one that overruns it, and the
panel's rows do not end on a byte. Numbers modulo 4 wrap within stray and repeated chunks,
and window and cadence take the requested value and the maximum. Two connection numbers
distinguish "mine" from "another's". Three slots give an empty, a partial and a full ring,
and indices that wrap. For the component two connections and one outstanding command leave
every callback free to fall between any two steps of loop(). In `component` the client
waits for each answer and loop() runs between a disconnect and the next connect
(`Pipelining = 1`, `PromptLoop = TRUE`): these are assumptions about the environment, and
`mixed_clients` and `end_ack_dropped` show what happens when either is given up.

`ClientAnswered` holds by the bounds of `component`: whatever the first client left unread in
the TX queue, the second one's configuration still fits behind it. With one slot fewer TLC
finds a configuration cut short. The source has 16 slots, so it takes more than one such
predecessor there; but a disconnect does not empty the queue, and a row of connections that
each leave their answers unread would fill it. `OutcomesQueued` is likewise asked only where
the answers that can wait in front of an outcome fit: in `pipe_link`, whose window is 3, and
not of the source's window of 16, for which `end_ack_dropped` refutes it.

In `pipe_link` the frame is longer than the range of the numbers, so a late repetition can
carry the number of a later chunk; the window is smaller than that range
(`LinkAssumption`), as 16 is smaller than 256. A window of 3 overfills the RX ring, which
holds two packets, so chunks are lost wherever loop() is late. The cadence of the second
client exceeds its window: the code does not limit one by the other, so that client gets
its SACK only because its timeout sends a duplicate, and the run shows that this is enough.
The TX queue has 4 normal slots because with fewer the END ACK is dropped, which is the
finding of `end_ack_dropped` and not this run's question. The run also has TLC evaluate
three assumptions on `Protocol`: the SACK mask's word is the set of chunks the engine
reports (for masks up to 12 bits), the CRC of the digits 1 to 9 is the documented check
value, and the struct sizes are those that `opendisplay_structs.h` asserts.

Deadlock is checked in every run: loop(), or for the ring its two sides, never stops.

Each property of a passing run has a mutant: an operator marked "Mutant:" in its module,
which replaces a definition in the way a plausible bug would, and with which the run fails.

### Fairness

`tick` is called by every iteration of `loop`, and the ESPHome main loop never stops: weak
fairness of `Tick` (of `LoopServes` in `Dialogue`, of `LinkLoop` in `PipeLink`). Time passes:
weak fairness of `DeadlinePasses` and `SettlePasses`, except in `PipeLink`, where a deadline
may or may not be reached. A driver that is neither failed nor stuck finishes: weak fairness
of `DriverFinishes`, which the driver's own failure can disable. A callback that has started
returns. Of the clients of `OpenDisplay` and `Dialogue`, of disconnects, local automations and
aborts nothing is assumed: they may happen at any time, any number of times, or never. In
`PipeLink` the connection lasts and there are at most `MaxLocals` aborts and updates, at any
time or never. The fair actions of `Dialogue` are `LoopServes`, `Connecting` (a callback that
has started), `DeadlinePasses` and `DriverFinishes`; the one client of `PipeLink` connects,
listens to its notifications, sends what its window allows and has a timeout (weak fairness of
`Connect`, `AskConfig`, `Hear`, `SendNext`, `ResendBase`), and is never obliged to repeat
anything early.

## 4. Disagreements found

1. *Panel never released* (`stuck_busy`). `abort()` in REFRESHING clears the adapter's mark,
   so `poll_refresh()` stays PENDING, and `hw_owned_` stays set. `transfer_engine.h:136-138`
   and `docs/TODO.md:436-437` promise release once the driver is idle. The epaper_spi and
   it8951 adapters share this.
2. *Fatal latch lost* (`fatal_nack`). `pipe_fatal` is set before `abort()` resets it.
3. *SACK for nothing* (`sack_before_data`). Before the first accepted chunk, the answer to an
   out-of-order chunk acknowledges chunk 0.
4. *Unordered handoff* (`rx_weak_order`). `volatile` indices do not order the slot's bytes.
5. *Missed disconnect* (`mixed_clients`). A reconnect between two iterations hides it.
6. *END ACK is not terminal* (`end_ack_dropped`). `apply_result_` pushes it as a normal frame.
7. *Stale error* (`stale_error`). A START refused in IDLE sets `error_pending_` and changes
   no state, so nothing is published; the next transfer, though it ends with 0x73, is then
   published as "error".

Met while modelling, without a run of their own:

- `parse_pipe_start` accepts 8 bytes (`protocol.h:59` calls the header 10 bytes) and reads
  `total_size` from bytes 6 to 9: theorem `ShortRequestReadsStale`.
- The reboot flag is "cleared once the host has read it" (`opendisplay.h:146`). READ_MSD
  clears it in the call that hands the record to `send_` (`opendisplay.cpp:261-263`), although
  `send_` drops the record when the TX queue is full, and although the client may be gone
  before the record is drained. What does hold is `FlagClearedShown`: the record so handed
  over shows the flag, however old it is.
- `docs/OpenDisplay_ESPHome_Component_Plan.md:417` has a transfer timeout "emit terminal error
  if connected", and line 421 a backend error "issue canonical error if connected". A transfer
  timeout, and a driver that fails during a refresh, are reported to YAML only. The client
  learns of the first from the NACK that its next chunk draws and of the second never;
  `TransferSucceeds` and `ClientReleased` except a failed driver for this reason.
- `opendisplay.abort` during a refresh resets the transaction and sends nothing
  (`transfer_engine.cpp:56-68`), so a client that has its END ACK waits for 0x73 for as long
  as its own patience lasts; `ClientReleased` excepts it (`silenced`).
- Line 422 of the Plan (and line 162) has "New start while active | Reject without
  mutating active transaction"; `opendisplay_protocol.h:615` and item 12 of `docs/TODO.md` have
  a new START abort the open transfer. The code does the latter, and does it before it looks at
  the size or asks the backend (`transfer_engine.cpp:102`), so a START refused for one of those
  ends the open transfer too, while one with a bad header leaves it alone. The model follows
  the code.
- The negotiated window is never compared with what the client sends; in-order acceptance
  makes this harmless to the frame (`ChunksInPlace`).

## 5. Proofs

All are for any values of the constants under the named assumptions, each in the module
that declares its constants and evaluated by TLC in every run above that module:

- `BackendAssumption`, `EngineAssumption`, `RxQueueAssumption`, `PanelAssumption`: positive
  sizes, sets of the right type, requests that are well formed.
- `ComponentAssumption`, `CommandAssumption`: both queues have at least two slots (one is
  always free, to tell full from empty), fewer are reserved than there are, the display is
  usable and its frame is the engine's, commands are among the engine's inputs.
- `EntitiesAssumption`: the statuses that `update_msd_` can build are among `MsdStatuses`.
- `DialogueAssumption`: a client sends at least one command before it waits.
- `LinkAssumption`, `ClientAssumption`: the window is smaller than the range of the numbers,
  and a full mask with the chunk before it covers a window; the client's commands are among
  the inputs and its requests are for the whole frame; repetitions and local actions are
  bounded by any number.

The source's values (24 and 16 slots, 4 of them reserved, windows up to 16, 32 mask bits, 256
numbers) satisfy all of them.

- `TransferEngineProofs`. The properties are not inductive by themselves. To keep
  `PanelHeld`, a START must find no refresh of ours running, which only holds if the panel
  is owned whenever the driver carries out our refresh, and RECEIVING never owns it
  (`OwnershipMatchesState`). To keep `SuccessMeansShown`, an owned panel whose driver has
  gone idle, or on to somebody else's update, must already show our frame
  (`PanelInvariant`). `IInv` joins these with `TypeOK`, `FrameAccounting` and `AckCadence`.
  `Invariance` proves `Init => IInv` and that every action preserves it, one step per
  action, with the shared pieces (`Abort`, `BeginAccepted`, `FinishAndRefresh`) as lemmas.
  `TypeCorrect`, `FrameAccountingHolds`, `PanelHeldHolds`, `SuccessMeansShownHolds` and
  `AckCadenceHolds` follow from it.
- `PanelUpdateProofs`. `Refinement`: `Spec` implements `PanelUpdate` under the mapping at
  the end of `TransferEngine` (`Phase`, `Panel`, `Said`). It uses `Invariance` in both states
  of a step and shows each action to be one abstract action or a stutter.
- `PanelImageProofs`. `PixelInOneByte`: for every width and height a pixel is drawn by
  exactly one byte of the frame, by division with remainder. With `PanelHeldHolds` (the
  framebuffer is the whole frame) this gives `PanelPaintedHolds`.
- `RxQueueProofs`. The type invariant says which local copies of the indices each program
  counter allows; `SlotsApart` needs the indices a side has tested to stay behind the other
  side's; the slots between them hold exactly the packets pushed and not yet popped, which
  gives `HandoffGuardedInOrder` and `RingImplementsQueue` under `StoresInOrder`. Without it
  only `TypeCorrect` and `SlotsApartHolds` remain, and `rx_weak_order` shows the rest fail.
- `OpenDisplayProofs`. `ComponentDrivesEngine`: every step of the component is a step of the
  engine or leaves it alone, so `ComponentSpec` implies `Spec` and the engine's theorems
  hold inside the component (`ComponentKeepsPromises`). For this `LinkInv` types all that
  reaches the engine: the connection numbers and the packets in the ring. `CountersInv`
  relates the component's and the engine's connection numbers to those of queued packets,
  `ForgetInv` says when a transfer may still be open; they are inductive if loop() sees every
  disconnect (`PromptLoop`) and give `GoneClientForgottenHolds` and
  `FrameFromOneClientHolds`. `mixed_clients` shows that the condition is needed.
  `ComponentTypeCorrect` adds what is pushed on the way out: every frame in the TX queue is
  one that the code can build and one slot stays free (`TxInv`), also when a config read
  pushes several frames at once, and loop() handles and drains no more than it may
  (`LoopInv`). What a push keeps does not depend on which frames were refused.
- `EntitiesProofs`, for any clients and automations. `EntitiesLookOn`: what the sensors and
  the record add to a step of the component leaves it a step of the component, so the
  theorems of `OpenDisplayProofs` hold here. `FlagClearedShownHolds` needs `RecordInv`: the
  record may be old when READ_MSD comes, but as long as the flag is up it shows the flag,
  since the flag is only ever cleared.
- `PipeLinkProofs`. `LinkRunsEntities`: behind the client, its losses and the automations the
  component is that of `Entities`; with `EntitiesLookOn` the engine behaves as its `Spec`
  says (`LinkDrivesEngine`). The rest is about what the client may conclude, for any frame,
  window, number range and queue sizes, and so whatever is lost in either queue. None of it
  is inductive alone; `LinkIInv` joins the engine's and the component's invariants with
  these parts:
  - `Pending`, the answers in the TX queue and in the air taken as one sequence. A drain
    moves a frame from one to the other and leaves `Pending` alone, so only a push and the
    client's reading disturb what is said of it.
  - `PipeInv`: the engine's numbers are the numbers of chunks accepted, modulo `SeqMod`, and
    its packet count is what the mask shows of them.
  - `SetupInv` and `ConnectionInv`: until the transfer starts there is one request in the
    ring or the answer to one in `Pending`, never both.
  - `InFlight`: a chunk in the ring is less than a window behind what was accepted and behind
    any chunk that follows it. Two chunks less than `SeqMod` apart with equal numbers are the
    same chunk (`NearNumbersDiffer`, `ChunkIsNext`), so a late repetition is never taken for
    a later chunk: `ChunksInPlaceHolds`.
  - `WindowInv`: what the client knows is a prefix of what was accepted, and it has sent no
    more than a window past it.
  - `Answered`: each SACK in `Pending` stands for a count of accepted chunks, counts never
    decrease along `Pending`, and none is a window ahead of what the client knows. The
    client, which has only a number modulo `SeqMod` and a mask, therefore believes exactly
    the chunks counted (`SackBelieved`): `AckedWereReceivedHolds`. An END ACK stands behind a
    SACK of all chunks. Both are pushed in one call, and where the tail SACK finds no room the
    END ACK finds none either (`TwoApplied`): `EndAfterLastSackHolds`.

  `SackMeansReceivedHolds`: the ring cannot lose chunk 0 and keep a later one that the engine
  would answer first, because a chunk that meets an empty framebuffer is chunk 0. The false
  SACK of `sack_before_data` thus needs a client that does not begin at the beginning.
- `ProtocolProofs`. Arithmetic for every input: `ChunksPartition` and `FirstEmptyChunkEnds`
  (a config read of any length), `ResponsesFit`, `UsableDisplayDescribed`,
  `ParsedRequestTyped`, `FullRequestReadsItself`, `ShortRequestReadsStale`, `DeadlineExact`
  (a wrapping clock and deadlines less than half its range away), `RebootBitSurvives`.

Only model-checked:

- Liveness (`RefreshEnds`, `SilentClientReleased`, `PacketsHandled`, `ClientAnswered`,
  `TransferSucceeds`, `ClientReleased`, `BusySensorFollows`): it needs fairness and ENABLED,
  which are beyond TLAPS here.
- `OutcomesQueued`: not a theorem. It is false for the source's own constants
  (`end_ack_dropped`), and where it holds it does so because the window and the cadence bound
  the answers under way.
- That the steps of `DialogueNext` are steps of `EntitiesNext` on the component's and the
  entities' variables, which is so by their form; the theorems are stated for `EntitiesSpec`,
  and `component` checks the same properties of `DialogueSpec`.
- The CRC and the words of the mask, which are recursive over bits.

## 6. Not modelled

GATT setup and the BLE name are one-time wiring to the Bluetooth stack; code generation runs
at build time; the chip temperature and the restart of the advertisement are read back by
nothing. In the config blob the values of the fields are left out, in the version response
its text, in the framebuffer the colours. The RX queue's refusal of oversize writes leaves
no trace but a missing packet. YAML triggers have no state. Most of the two vendored headers
describes commands and configuration packets that this component does not have.

## 7. Plan

1. (done) `Backend`, `TransferEngine`, `PanelUpdate` and their proofs.
2. (done) `RxQueue` and `PacketQueue`; `OpenDisplay` over the engine.
3. (done) `RxQueueProofs`.
4. (done) `PipeLink`.
5. (done) `Protocol`, `Framebuffer`, `PanelImage` and their proofs.
6. (done) `Entities`, config reads of several frames, `OpenDisplayProofs`.
7. (done) `PipeLinkProofs`, and the TX queue's bounds in `OpenDisplayProofs`.
8. (done) `Dialogue`, local aborts and updates in `PipeLink`, `EntitiesProofs`.
9. Left: a client of `PipeLink` that loses its connection in mid-transfer and comes back, and
   what `LinkIInv` keeps then; a bound on what earlier clients can leave in the TX queue, from
   which `ClientAnswered`'s room could be derived for every number of slots.
