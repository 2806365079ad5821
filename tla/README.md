# Verification of the USB sniffer extcap plugin

This directory holds TLA+ models of the capture program in `src/` (an extcap
plugin for Wireshark that drives a USB sniffer with an FPGA), the TLC
configurations that check them, and proofs that TLAPS checks. All paths of the
program below are relative to the repository, e.g. `src/main.c`;
`PROJECT.json` maps every definition to the lines it models.

## The system and its parts

    device --EP1 IN--> in_callback --rawq_push--> rawq_thread --stream_feed--> carver
    (FPGA)             main thread                parser thread                  |
       ^                                                       ACK -> cmd.c <----+
       |                                                data -> packet.c <-------+
       +--EP1 OUT-- tl_write <-- cmd_exec (main thread)            |
                                                        pcapng_write_* --ring--> writer_main --> pipe
                                                        parser thread            writer thread

| Part | State | Operations | Correct when |
|---|---|---|---|
| raw queue (`main.c`) | ring of filled buffers, stack of free ones, `stop`, one mutex, two conditions | `rawq_push`, `rawq_thread`, `rawq_stop` | no chunk lost, overtaken or overwritten while it is parsed; neither thread sleeps for good; stop drains |
| pcapng writer (`pcapng.c`) | staging chunk, ring, free stack, staged blocks, `wr_err` | `pcapng_begin`, `pcapng_write_*`, `pcapng_flush`, `pcapng_close`, `writer_main` | file is what was accepted, in order, header first; every call returns even when the pipe breaks |
| libusb transport (`transport_libusb.c`) | pools of IN and OUT transfers, the spare buffer, `closing`, `alive` | `tl_stream_mode`, `tl_events`, `tl_write`, `in_callback`, `out_callback`, `tl_reset_device`, `tl_close` | the device never writes into memory in use, data stays in order, nothing is freed before its callback |
| stream layer (`stream.c`) | staging buffer, `SCAN`/`BLOCK`, last sequence number | `stream_feed` | finds every block wherever transfers end; reports every loss and only losses |
| command layer (`cmd.c`) | `waiting`, `ack_seen` | `cmd_exec`, `cmd_tx_quiet`, `cmd_ack_event` | an acknowledged command was executed |
| packet interpreter (`packet.c`) | frame assembler, line state, speed, trigger gate, fold buffer and count, limit | `packet_feed`, `packet_announce`, `packet_rsync`, `packet_info`, `packet_stop_info` | output does not go back in time, folding hides nothing, the gate obeys the trigger |
| session (`main.c`) | `g_stop`, startup attempt, suppression of input | `run_capture_gen2` | the FPGA runs with the settings asked for, startup ends, stop stops |
| replay transport (`transport_replay.c`) | file position, ACKs owed | `tr_events` | same contract as the libusb transport |
| gen1 capture (`gen1/capture.c`, `gen1/usb.c`) | its own transfers and its own copy of the interpreter; one thread, which may end the process inside a callback | `capture_start`, `usb_capture_callback`, `usb_speed_test`, `usb_close` | a session sees its own data only, records keep their order, an exit leaves nothing unwritten, a signal ends it |
| gen1 loaders (`gen1/fpga.c`, `gen1/fx2lp.c`) | the buffer of JTAG clocks; TAP controller, flash and EEPROM on the device | `fpga_erase_flash`, `fpga_program_flash`, `fpga_program_sram`, `fx2lp_sram_upload`, `fx2lp_eeprom_upload` | in step with the TAP controller; nothing is made to run that was not read back |
| dispatch and device probe (`main`, `device.c`) | none | `main`, `device_probe`, `usb_open` | the engine fits the device, a capture comes before the tools |
| command line, OS helpers (`extcap.c`, `os_common.c`) | none | parsing and printing | - |
| `tools/` | - | test and measurement programs | - |

What is hard here: three threads with hand-offs through pools of buffers;
libusb callbacks that run inside any call that handles events; a link that
loses data, over which blocks are found by their header alone; commands with
time-outs and retries whose ACKs carry no identity; teardown while transfers
are in flight; an interpreter that writes records late; an older device that
keeps its state from session to session; and JTAG routines that know the state
of the other side only by counting. `PROJECT.json` lists each hazard at its line with the properties that watch it.

## Modules

| Module | Models | State and actions |
|---|---|---|
| `Channel` | what a hand-off queue promises: in order, exactly once, bounded, closed empty | abstract specification |
| `RawQueue` | raw queue of `main.c` | one action per region between lock and unlock or wait; `Push*` and `Stop*` are the main thread, `Work*` the parser thread, `SpuriousWakeup` what POSIX permits |
| `PcapngWriter` | `pcapng.c` | the producer's calls (`WriteEpb`, `WriteInfo`, `Begin`, `Flush`, `Close`) run through `sink_write`, `chunk_flush` and `buf_get_free` step by step beside `writer_main`; `WorkWriteFails` stops a write anywhere in a chunk; `out` is what left the buffer of stdio, and an `fflush` or `fclose` may fail unnoticed (`StdioFlush`) |
| `PcapngWriterProofs` | theorems about `PcapngWriter` | - |
| `UsbTransport` | `transport_libusb.c` | `InCallback` and `Cb*` are the steps of `in_callback`, `Teardown`/`DrainSpin`/`TeardownFree` those of `tl_teardown_io`, which only asks for the cancellation; `DeviceCompletes`, `DeviceGone`, `OutCompletes` are libusb, the kernel and the device (external) and complete cancelled transfers at any round or too late (phase `raced`) |
| `UsbTransportProofs` | theorems about `UsbTransport` | - |
| `Stream` | `stream.c` | one action per turn of the loops of `stream_feed` and `process_available`; `DeviceSend` and `LinkLoses` are the link (external) |
| `StreamProofs` | theorems about `Stream` | - |
| `CmdLink` | `cmd.c`, startup and end of `run_capture_gen2` | the startup is a script of steps; the FPGA (external) executes and acknowledges commands and sends data; commands, ACKs and the device can be lost, and a deadline passes by the clock, whatever is under way; what the host did too early (`late`, `cut`) and what was lost (`quietLost`, `execLost`) is kept as history |
| `CmdLinkProofs` | theorems about `CmdLink` | - |
| `Session` | `run_capture_gen2` from the enabling command to the end: main loop, stop reasons, `data_cb`, `sig_handler` | the main thread moves through `enabling`, `loop`, `drain`, `why`, `stopping`; beside it the parser thread (`Parse`, `Wake`), a signal, a write error, the end of the device or of the replay file |
| `Packet` | `packet.c` above the byte walk | the functions of the C code are operators from one packet state to the next; one action per frame, payload or session record; `Stamp` rebuilds the time from the counter of a header and its overflow flag, so time may go back, and `slack` remembers that it did |
| `Gen1Capture` | `gen1/capture.c` above the byte walk | extends `Packet`; the functions that differ from `packet.c` are defined anew (`G1...`), and a behaviour is of one generation or the other (`AnySpec`) |
| `PacketMC` | - | the option sets and inputs the run of `Packet` and `Gen1Capture` uses |
| `PacketProofs` | theorems about `RawQueue`, `Packet` and `Gen1Capture` | - |
| `FrameWalk` | the byte walk of `capture_sm` in `packet.c` and in `gen1/capture.c` | one action per byte; frames with a broken toggle, zero bit or size, and lost frames, are the device (external) |
| `FrameWalkProofs` | theorems about `FrameWalk` and `Session` | - |
| `HostMC` | - | one instance for `FrameWalk` and `Session`, which share no state: a behaviour is of one of them while the other rests |
| `Gen1Usb` | `gen1/usb.c` and `capture_start` | the control sequence step by step (`UsbCtrl`, `UsbFlushData`), the event loop, the callback, the teardown; the FPGA, its FIFO and the completion of transfers are external |
| `Gen1Loader` | `gen1/fpga.c`, `gen1/fx2lp.c` | a tool is a sequence of operations, an operation a sequence of clocks, transfers of the buffer and responses; `ExecuteClock` is the TAP controller and the FPGA (external); a write may go wrong unnoticed, a transfer may fail before or after the device got it |
| `Gen1Main` | `main`, `run_selected_capture`, `device_probe`, the `maint_*` tools | composes `Gen1Usb` and `Gen1Loader`: picks one, opens the device, and lets it run to the end of the process |
| `Gen1LoaderProofs` | lemmas about `Gen1Loader`: what every clock of every operation does | - |
| `Gen1Proofs` | theorems about `Gen1Main`, with `Gen1Usb` and `Gen1Loader` in it | - |
| `Gen1MC` | - | the configuration rows the run of `Gen1Main` uses |

How the data is abstracted: a chunk, unit or transfer carries its number, so
that loss, repetition, reordering and overwriting are visible; a block of
`Stream` is a few units (magic half-word, crc, other words, payload, which
may look like a magic half-word), and a crc matches exactly the words it was
computed from; frames of `Packet` have a class of PID, error flags and a time
stamp. The bytes of `FrameWalk` are numbers of which every one can be taken
for a first byte of a header, so that a walk out of step acts on them. A bit
on the JTAG line is a value and a place in it: a bit that arrives at another
place than it was sent to makes the value unreadable (`Junk`).

`UsbTransport`, `RawQueue`, `Stream`, `Packet` and `PcapngWriter` meet at
interfaces that are checked on both sides: `UsbTransport!FedInOrder` is what
`RawQueue` assumes of its producer (chunks are numbered as they arrive),
`RawQueue!ImplementsChannel` is why `Stream` may take its input as one
sequence cut into pieces, and `CmdLink` abstracts the whole upward path to a
sequence of blocks. `Session` composes the others' control: it relies on
`RawQueue!StopDrains` (its `Drain`) and on `CmdLink!StartupEnds`, and sees of
`Packet` only the limit and of `PcapngWriter` only the write error.

## Runs

Every property has a mutant in `PROJECT.json`: a changed form of one action,
the way a plausible mistake would change the code, with which TLC finds the
property violated.

| Run | Module, configuration | Question | Size |
|---|---|---|---|
| `raw_queue` | `RawQueue` | Is every chunk parsed once, in order and intact, does nobody sleep for good, does stop drain, is it a `Channel`? | 17 thousand states |
| `pcapng_writer` | `PcapngWriter` | Same for the writer, with write errors; header first; every call returns; info records are delivered without later traffic, and what is lost is lost to a failed write or flush | 0.3 million |
| `usb_transport` | `UsbTransport` | Buffers apart, data in order, no transfer leaks, OUT slots owned, nothing freed before its callback although cancelled transfers complete when they like | 2.4 million |
| `usb_teardown` | `UsbTeardown.cfg` | Is nothing fed to deleted layers during `tl_close`? (it can be) | |
| `stream` | `Stream` | Buffer bounds, blocks found at once, losses reported, no false alarm, `stream_feed` returns | 1.7 million |
| `cmd_link` | `CmdLink` | ACK means executed, the settings in force are the ones asked for, no stale data, startup ends, with deadlines that pass at any time | 2.9 million |
| `cmd_late_ack` | `CmdLate.cfg` | Does every ACK resolve its own command once the flush left nothing under way? (not after a late ACK) | |
| `session_early_limit` | `SessionLimit.cfg` | Is the reason true also when the limit is reached before the announcement? (no) | |
| `packet` | `PacketMC` | Both generations: output in time order and frame order, folding conserves, keep-alives short, gate follows the trigger; for the older device records in the order of their causes, and nothing held back at an exit | 4.3 million |
| `walk_and_session` | `HostMC`, `Host.cfg` | Are only broken frames lost, and does nothing act on a frame that was not sent? Does a session end, within its limit, and with a true reason, whatever stops it and when? | 171 thousand |
| `frame_desync` | `FrameDesync.cfg` | Does the walk start afresh after every rejected header? (not after a status header) | |
| `gen1` | `Gen1MC` | Own data in order after any earlier session, JTAG in step, only verified memories run, the process ends | 0.5 million |

### Bounds, and why they are enough

- `RawQueue`: 3 slots and 8 chunks, in calls of up to 3 chunks: the ring wraps
  twice, both threads meet full and empty pools, and a call is split more
  often than there are slots. The proofs have no bound on the slots.
- `PcapngWriter`: 2 buffers of 2 units, blocks of up to 3 units (longer than a
  chunk), one unit staged before `pcapng_begin`, 4 units in all: the ring
  wraps, both waits occur, and blocks straddle chunks.
- `UsbTransport`: 2 IN transfers, 1 OUT slot, 3 pieces of data, 5 rounds of
  the drain loop (the code has 50 rounds for 16 + 4 transfers): short, full,
  failed and vanished transfers in every order, in the callback of either
  transfer. Cancelled transfers complete in any round, so that all of them are
  served, or the last one is not, or a completion comes only after the loop.
- `Stream`: a buffer of 6 units, blocks of 3, 4 and 6, transfers of up to 8,
  sequence numbers modulo 3, 4 blocks, up to 4 units lost: transfers exceed
  the buffer, blocks fill it exactly, headers are cut at each unit, and a loss
  may swallow a following header or make the sequence number wrap.
- `CmdLink`: the 3 tries of the code, 2 losses, 1 data block, and flushes of
  at most 3 reads (`DiscardCap`; 50 in the code), which an earlier session and
  the probe can exceed. A deadline may pass at every moment, so that all tries
  of both attempts can fail without any loss; a loss serves to remove one of
  several copies of a command or of an ACK.
- `Session`: no limit and limits of 2 and 3, 5 packets, one of them counted
  before the announcement: the limit is reached in the loop, while the queue is
  drained, while the stop command is awaited, or not at all, with a signal, a
  write error and a lost device before, between and after. The violating run
  has a limit of 1, which the early packet reaches.
- `Packet`: a fold buffer of 2, fold limits of 2 and 3, time in units of half
  a keep-alive, a counter of 4 units read as 0, as 2 or as 0 with the overflow
  flag, so that time stands still, goes on by less than a keep-alive window or
  by more, and goes back; a periodic update after 4 units, and an int that wraps
  after 8; 5 frames for the folding cases, 3 frames with every trigger, input
  and flag for the gate cases. Each constant keeps its order relative to the
  others.
- `Packet` for the older device: the same, with limits that end the process.
- `FrameWalk`: headers of 2 and 3 bytes for 4 and 7, frames of up to 5 bytes,
  4 frames, 2 of them broken or lost: a status header is shorter than a data
  header, as in the code, a payload can hide a whole frame, and the second
  fault may hit the recovery from the first. A frame without payload counts as
  seen with its header. Shortened frames (`packet.c:468-469`) are not among the
  faults.
- `Gen1Usb`: 2 transfers, an endpoint FIFO of 2 words, both bits of the speed,
  3 words after a reset. `FlushReads` (100 in the code) is not below
  the FIFO and `DrainRounds` (50) not below the transfers: both are named
  assumptions about the device. Cancelled transfers are taken to complete at
  once here; `UsbTransport` has the same loop with a kernel that takes its time. For the 128 transfers of one build the second
  is true only because one round of event handling runs every callback that
  is due.
- `Gen1Loader`: instructions and values of 2 bits and a buffer of 5 clocks (8
  to 128 and 255 in the code), so that the buffer is cut at every place of an
  operation; 2 configuration rows beside feature row and FEABITS, 2 blocks of
  firmware, one busy answer and one write that goes wrong. What is read
  fits into one request (`BitsAssumption`), as it does in the code. The TAP
  controller starts idle or in any state that a stopped tool can leave it in.

Deadlock is checked except in `Stream` and `Packet`, whose input ends at the
bound, in `Gen1Main`, whose process ends, and in `frame_desync`.

### Fairness

- `RawQueue`: the operating system runs both threads. Nothing obliges the
  main thread to push or stop, and no spurious wake-up is relied on.
- `PcapngWriter`: both threads run, and the consumer reads or closes the pipe,
  so that `fwrite` returns. Calls are not obliged to happen.
- `Stream`: `stream_feed` runs to its end; nothing of the link.
- `CmdLink`: the host is one thread all of whose waits have a time-out.
  Nothing is assumed of the FPGA or of the link.
- `Session`: the operating system runs the main and the parser thread; the
  waits of commands and of `transport_events` have time-outs. Signals, errors,
  the loss of the device and its data are not obliged to happen.
- `Gen1Main`: the thread runs, a control transfer ends (its time-out is
  250 ms), and `libusb_handle_events` returns, after its own time-out of a
  minute at the latest. The flash is busy a bounded number of times. Data,
  signals and failures are not obliged to happen.

### Where the program and its comments disagree

1. `usb_teardown`: the control transfer at the start of `tl_close` handles
   events while `closing` is still false, and `run_capture_gen2` has deleted
   stream and packet layers before. The comment of `in_callback` rules
   exactly this out.
2. `session_early_limit`: a packet parsed while the ACK of the enabling
   command is awaited may reach a small limit. `data_cb` raises `g_stop`, then
   `packet_announce` clears `done`, and the session ends at once as a "host
   stop" nobody asked for. The comment above the choice of the reason says that
   this cannot happen.
3. `frame_desync`: `desync_error` clears `capture_status` and resets the
   assembler, but `capture_sm` goes on with the header it holds. A rejected
   status header is read as a data header, and what follows is swallowed as
   its payload; the comment promises a fresh walk from the next header. A
   rejected data header is interpreted as if nothing had happened, which is
   why the toggle, once wrong, is right again after two frames
   (`OnlyBrokenLost`).
4. `cmd_late_ack`: `cmd_exec` counts 200 ms and then sends again. When the
   first ACK was only late there are two, and the second one resolves the next
   command before the FPGA executed it; from there on every command is one
   ahead, up to a capture that runs before it is enabled. The comment of
   `capture_init_cmds` says that every command is acknowledged before the next
   one is issued. `SettingsInForce` shows how far the harm goes: without a loss
   on top of it the settings still come into force, with the commands under
   way.

Disagreements without a run of their own:

- `pcapng_flush` waits for `q_count == 0`, which `writer_main` brings about
  when it takes the last chunk, before it writes it (`pcapng.c:81`, `412`);
  the comments speak of a queue written out and flushed. `pcapng_close` joins
  the writer and is right nevertheless (`CloseComplete`).
- The results of `fflush` and `fclose` are ignored (`pcapng.c:102-103`, `416`,
  `439`) and only `fwrite` raises `wr_err`. A full disk or a closed pipe that
  shows in the flush loses data silently, while `pcapng.h:38-41` says that
  `pcapng_write_failed` is true once a write error was hit. `CloseComplete` and
  `InfoDelivered` name this case (`stdio`).
- The teardown of the transport gives cancelled transfers a fixed number of
  rounds (`transport_libusb.c:316`) and then frees them, completed or not.
  `FreedAfterCallbacks` says how late the kernel may be; when it is later, a
  transfer is freed under it.
- The time stamp of a frame may go back (`packet.c:550-553`). Folded frames are
  clamped to the last one written so that captures are monotone (`325-333`),
  the other records are not (`MonotoneOutput`).
- The fold limits are tested for equality (`packet.c:442`), so a change of
  speed at the wrong count leaves the folding without limit until the speed
  changes again.
- A sequence jump is reported by `stream.c` but no scan follows, although
  `stream.h:28-30` and `docs/protocol.md:235` say that one does (the block is
  valid, so this is harmless).
- The end of a replay file is recorded as "uplink/device lost": `tr_events`
  clears `alive`, so the reason "stream ended" never occurs (`ReasonTrue`
  includes this).
- After `fpga_erase_flash`, whose last clocks stay in the buffer, the first
  instruction of the next JTAG tool is lost. `fpga_program_flash` enables the
  flash later and verifies, so it is not harmed; `fpga_program_sram` verifies
  nothing and reports success either way.

## Proofs

`PacketProofs` proves of `RawQueue`, for every number of slots from two on
(`SlotsAssumption`; the program has `RAWQ_SLOTS`) and for all values of the
bounds `MaxPieces` and `MaxChunks`:

- `TypeCorrect`, `OwnedOnce`, `ChunkOrder`, `NeverStranded`, `StopDrained`: the
  type invariant `TypeOK` and the invariants `BufferOwnership`,
  `ChunksInOrder`, `NoStrandedThread` and `StopDrains` of the run;
- `Refinement`: `QueueSpec` implements `Channel`, with the chunks put into the
  ring as sent, the ones parsed as received, and the return of `rawq_stop` as
  the closing.

The argument is one inductive invariant, `QueueInv`, the conjunction of the
five and of `PiecesLeft` (a `rawq_push` under way has a chunk left to copy). None of the
parts is inductive by itself: that a chunk in the ring is intact needs to know
that the buffer being filled is not in the ring (ownership); that a sleeping
pusher is not stranded needs the count of buffers, since "no free buffer, and
one at most in the worker's hands" leaves one in the ring only when there are
two or more slots, and this is where `Slots >= 2` comes from; the refinement
needs order and drainage together. Each action that moves a buffer has a lemma
that shows `QueueInv` preserved, the ones that only move control share one, and the
ring arithmetic (`(i + 1) % Slots`, ages of slots) is kept in lemmas of its own.

`PcapngWriterProofs` proves, for every number of slots and every chunk size
from one on (`SizesAssumption`), any number of header blocks and any bound on
the blocks, with a write that fails at any point of any chunk and flushes that
fail unnoticed:

- `TypeCorrect`, `OwnedOnce`, `InOrder`, `NeverStranded`, `CloseLeavesAll`:
  `TypeOK` and the invariants `BufferOwnership`, `OutputInOrder`,
  `NoStrandedThread` and `CloseComplete` of the run. The last one says that
  without a write error stdio was given all of the output, and that all of it
  was delivered if no flush failed.

Beside three of these, `IInv` has three parts that the code relies on without
saying so. `HeaderFirst`: until `pcapng_begin` has put every staged header block
into the sink, nothing else is accepted, unless a write error has shut the sink
for good. `NothingStaged`: there is no staging chunk only at the start or after
a write error, and whoever waits for the ring to drain has nothing staged
(otherwise `pcapng_flush` could wait for a chunk that it holds itself).
`WriterLast`: the writer leaves only a drained ring into which nothing is put
any more. One slot suffices here, unlike in the raw queue, because each wait is
signalled by the side that ends it.

`UsbTransportProofs` proves, for any finite pools of IN transfers and OUT slots
(`PoolAssumption`) and any number of rounds of the drain loop:

- `NeverShared`, `InOrder`, `SlotsOwned`: the invariants `BuffersApart`,
  `FedInOrder`, `OutSlotOwned`;
- `FreedLast`: the action property `FreedAfterCallbacks`. It has a condition,
  `InTime`: the kernel completed the cancelled transfers, at whatever moments,
  while as many rounds were left as there are transfers. The code assures
  nothing of the kind, and the model goes on when it fails (`raced`).

`IInv` says where every transfer is (`OncePlaced`: submitted, completed or with
its callback, never twice), whose buffer is whose (`OwnBuffer`: the swap of
`in_callback` is a permutation of transfers and spare), what is at rest in
which phase (`AtRest`), how many callbacks the drain loop still owes
(`Draining`: since the last completion every round served one callback, or none
was due; there are never more of them than transfers, by cardinality), and which
data is where (`DataInOrder`: the pieces
not yet fed are those of the callback and of the completions, each once and in
the order of their numbers).

`StreamProofs` proves, for every staging buffer that holds the largest block
(`ConstantsAssumption`), every range of the sequence number, and transfers,
blocks and losses of any number and size:

- `LossIsReported`, `AlarmMeansLoss`, `NoneHeldBack`: the invariants
  `LossReported`, `NoFalseAlarm` and `NothingHeldBack`.

The argument is about one sequence, `All`: the staging buffer, the rest of the
transfer and what is on the wire, one after the other. Every step of
`stream_feed` takes something from the front of it, and the link may take
something out of it, so that it stays `Ordered` (units that the device sent, in
their order). As long as nothing was lost it is also `Whole` (gapless, and
ending with a block), holds the header of every block that was not handed on
(`Headers`), and starts with one when the carver is aligned (`Aligned`). A scan
that starts in the middle of a block stops at a header and not at a payload
that looks like one, because a crc matches only the words it was computed from.
That a gap is seen is arithmetic modulo `SeqRange`, kept in lemmas of its own.

`CmdLinkProofs` proves, for any number of retries, losses, data blocks and reads
of a flush, and for deadlines that pass at any time:

- `AckedIsExecuted`: the invariant `AckMeansExecuted`. A command taken for
  acknowledged was executed, or a flush or a time-out came while something was
  still under way (`cut`, `late`); `cmd_late_ack` shows that it can;
- `SettingsHold`: the invariant `SettingsInForce`. Its first part has the same
  condition. The second part holds with late ACKs too: the settings come into
  force with the commands under way, unless one of `cmd_exec`'s was lost;
- `StaleStaysOut`: the invariant `NoStaleData`, which late ACKs cannot harm.

ACKs carry no identity. As long as the host was patient (`Patient`), `IInv`
replaces it by `OneAtATime`: from the second flush of the startup on, either one
command is under way and no ACK, or no command and at most one ACK, and then
the register has the value awaited; `Settled` keeps what was acknowledged. For
an impatient host there is `Ordered`: commands are executed in the order sent,
so the last one under way for a register decides (`Ends`: the value a register
has once they are executed). `Silenced` uses the same of the unacknowledged
commands, so that the FPGA is silent when the second flush ends.

`FrameWalkProofs` proves, for frames and glitches of any number in any order
and for all header lengths and largest sizes that the size field of the model
can hold (`SizesAssumption`; the field is scaled down to three bits):

- `BrokenFramesOnly`, `NoPhantoms`: the invariants `OnlyBrokenLost` and
  `NoPhantomFrame`.

`IInv` relates the walk to the frame that is being sent: unless a status header
was rejected, the walk is between frames, in a status header, in a data header
or in a payload exactly when the device is (`InStep`), and what it has read
together with what is still to come is that frame (`FrameByte`), so that the
size it will read is the one that was sent (`Declared`). `Agreed` follows the
toggle while there was no glitch, which is why the older device never ends a
sound capture.

The same module proves of `Session`, for every set of limits, number of packets
and interleaving, under `LimitsAboveEarly` (every limit is above the number of
packets counted before the announcement; `session_early_limit` shows that this
is needed):

- `LimitHeld`: the invariant `LimitKept` of the run;
- `ReasonRecorded`: its action property `ReasonTrue`.

`SessionIInv` joins `Counters` (types), `LimitAccount` (what is left and what was
captured add up to the limit, and `done` is set exactly when nothing is left),
`EarlyShort` (before the announcement the limit is not reached, so that
clearing `done` forgets nothing) and `CauseKept` (a cause that ended the loop
is still there when the reason is chosen, and `g_stop` without a signal means
`done`). The last part is what makes the reason true: the main thread leaves
the loop on one reading of four flags and chooses the reason on another one,
after the parser thread has changed some of them.

`PacketProofs` proves of the interpreter, for both generations of the device
(`AnySpec`), for every set of options, size of the fold buffer, fold limit,
reading and range of the counter and number of frames, and for a keep-alive window, an update interval and a range of
the int in the order they have in the code (`ConstantsAssumption`):

- `OutputMonotone`, `InOrder`, `Conservation`, `KeepalivesShort`: the invariants
  `MonotoneOutput`, `FramesInOrder`, `FoldConservation` and `KeepaliveIsShort`;
- `CausalOutput`, `NothingLeft`: the invariants `RecordsInOrder` and
  `ExitWritesAll` of the older device;
- `GateHolds`: the action property `GatedOutput`.

The functions of the code are operators on states, and each has a lemma with
what it leaves alone, what it does to the account of the folding and to the
order of time stamps and causes; an action is a chain of these lemmas.
`IInv` is `Sound` of the state between two frames. `Folding`: the buffer holds
a start of frame, or a keep-alive, and what followed it, all later than the
last frame written; what is owed is the count and that one frame; and nothing is
counted while the buffer is empty, which is why `data_event` need not look at
the count when it finds no frame buffered. `Times`: a saved line state is not
earlier than the last record, by more than the `slack`, and nothing held back is
later than the present reaches. The present reaches as far as the time stamp of
the frame as long as that never went back, and to the end of the current round
of the counter afterwards (`Reach`); the upper part of the time never falls, so
a frame is always within one range of the counter (`Pace`), and this is the bound
in `MonotoneOutput` once the slack is used. `KeepaliveIsShort` also needs
`Window`, which holds within a status frame only: after the periodic update a
saved line state is not older than the update interval and a range of the
counter, so that its width has not wrapped. `Causes` orders what the older
device holds back: the last record, then the count, then the buffer, then the
saved line state, which is written behind the others although the record of the
count has a later time stamp. `Shut`: no frame is held back while the gate is shut, so that a
record that ends the folding then writes none; it is what the last clause of
`GatedOutput` depends on, and it is kept because the change of the trigger
itself ends the folding. The loop of `stop_folding` is a function of the
position in the buffer (`PutAll`); what holds after every position is shown by
a least counterexample (`PutAllKeeps`, `LeastNumber`).

`Gen1Proofs` proves, for any number of transfers, depth of the FIFO, speed and
amount of data, whatever an earlier session left in registers and FIFO, and
under `RoundsAssumption` (the flush has a round for every word of the FIFO, the
drain loop one for every transfer) and with a kernel that cancels transfers at
once (`UsbClose`):

- `OwnData`: the invariant `OwnDataInOrder`.

`IInv` follows the position in the control sequence. `Settled`: which registers
have their value after which command. `Held`: from the first command to the one
that releases the reset, the capture logic makes nothing, so that the flush,
which takes out a word per round, leaves the FIFO empty. `InFlow`: after it, the
FIFO holds the newest words made and the callbacks that are due those before
them, in order and without a gap, from the next one to be handed on.
`TransfersPlaced` counts submitted and completed transfers, and with them the
rounds that the drain loop still needs.

The same module proves of the maintenance tools, for any number of rows,
blocks, busy answers and flaws, any length of a register and any size of a
request that holds one (`BitsAssumption`, which also says that no row is one of
the words that stand for something else, such as `Junk`):

- `InStep`: the invariant `TapInStep`;
- `VerifiedRuns`: the invariant `OnlyVerifiedRuns`.

The argument is about places. A place is an operation of the routine and an item
of it: a clock, a transfer of the buffer or a response. `Known` says, for the
first item of every operation, which instruction the device holds and what is in
its memories. `StateAt` and `DataAt` say it for every item, the place of each
bit in the register included, and together they make `At`. The lemmas of
`Gen1LoaderProofs` show that a clock takes a device that is `At` a place to the
next one, and that the last clock of an operation makes `Known` of the next
operation true. The routines of the flash are as long as there are rows, so this
goes by the kind of operation and the row it belongs to (`FlashOp`), and not
place by place.

Host and device are at different places, because the clocks are buffered.
`Placed` joins the two: the clocks in the buffer and on their way are a `Trail`
of places that starts where the device is and ends just before the host. `Hosted`
ties the place of the host to `op` and `items`. `TapAlong` follows a trail to
its end and so gives `TapInStep`. That a response is whole is `Echo`: the clocks
that shift a register out are one request of their own, whatever was in the
buffer before. The device may start in any state with anything in its registers
(`FirstState`, `SecondState`, `StrayData`): the first two operations bring it to
`RunTestIdle` from everywhere, and all that can take effect on the way are
instructions that do no harm (`Mild`). The flash
is marked as bootable by one instruction, and `Known` at that operation has all
rows equal to the file, since every one was read back before. `McuInv` is the
same for the controller, where every operation is a single transfer.

With that, every invariant and every action property that a run is expected to
pass is stated by a theorem, and so is the refinement. Only model-checked are the
liveness properties: fairness and `ENABLED` are out of the prover's reach.

## Left out

- the byte layout of pcapng blocks and the texts of info records;
- `tl_open_handle`, `extcap.c`, `os_common.c`: searches and parsing without
  lasting state; the files that the maintenance tools read are accepted or
  rejected as a whole (`Accepted`);
- the sequence counter of commands, which the FPGA does not look at;
- spurious failures of allocation, which end the program (`os_error`);
- the replay transport but for its end of file in `Session`: it has no second
  actor, its two phases follow the file;
- `tools/`, which is not part of the plugin.

## Plan

Done: `RawQueue`, `Channel`; `PcapngWriter`; `UsbTransport`; `Stream`;
`CmdLink`; `Packet`; `Session`; `FrameWalk`; `Gen1Capture`; `Gen1Usb`,
`Gen1Loader` and `Gen1Main`; proofs for all of them.

Next: that the ring of `PcapngWriter` implements `Channel` in behaviours in
which no write fails, with the chunks put into it as sent and those written as
received; its order and completeness are already theorems (`InOrder`,
`CloseLeavesAll`).
