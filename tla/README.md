# TLA+ models of metamix

metamix reads several live H.264 streams ("inputs"). It extracts their closed-caption SEI payloads and SCTE-35 sections, and injects the captions of the selected input into an output stream, frame by frame. This directory holds TLA+ models of that pipeline, the TLC configurations that check them, and `PROJECT.json`, which maps every definition to the source lines it models.

## The system

The sources are under `src/src/`. Six parts interact:

| Part | Source | State | Operations |
|---|---|---|---|
| Metadata queue group | `metadata_queue.h` | One mutex-guarded heap per kind (SEI, SCTE), keyed on (pts, input id, order). | `push`, `pop`, `pop_all`, `drop_id` |
| Clock | `clock.h`, `clock.cpp` | One atomic 90 kHz counter. `TSTicker` keeps the last ts. `TSRescaler` keeps its base (`clock.now()` when built) and `ts_zero` (set by the first sample). | `increment`, `tick`, `rescale_to_clock` |
| Extractor thread, one per input | `proc/extractor.cpp`, `io/remux_loop.cpp` | The processors' rescalers, plus the read and remux retry counters. | Per packet: `MaintenanceProcessor` (restart flag), `SeiExtractor` (push one record per CC payload, order 0, 1, …), `ScteExtractor`. On exit, `post_exit` does `drop_id`, then `clock.now()`, then pushes a CC reset at now+1. |
| Injector thread | `proc/injector.cpp` | `ClockTicker` (ticker and rescaler) and `SeiInjector` (rescaler, `prev_pts`, `prev_input_id`). | Per output packet: tick the clock; then prepend a reset if the selected input changed; query `[prev_pts, pts+1)`; set `prev_pts`; rewrite the SEI NALU. |
| Inputs and selection | `abstract_input.*`, `clear_input.cpp`, `user_defined_input.*`, `input_manager.h` | The current input per kind (atomics), capabilities, and the restart flag. | `query` (`pop_all`, or the empty-padding fallback). The clear input (id 0) answers with a reset. `set_current_inputs`, `schedule_restart`. |
| Controller, supervisor, main | `proc/controller.cpp`, `supervisor.h`, `main.cpp`, `application_context.*` | `ts_adjustment`, `running`. | `POST /input/current`, `/input/restart`, `/config`. The supervisor restarts a thread body that returned or threw. `main` joins the primary threads, then calls `exit()`. |

The threads interact only through the queues, the clock, the current-input atomics, the restart flags and `ts_adjustment`.

The behaviours that are hard to test:
- the interleaving of extractors, the injector and the controller;
- restarts of either kind of thread;
- read, remux and parse failures with their retries;
- the three non-atomic steps of `post_exit`;
- the query window moving when `ts_adjustment` changes.

## Modules

- **`Clock.tla`** holds pure operators for `rescale_ts` (`av_rescale_q`: round to nearest, halves away from zero, as FFmpeg computes it; the rounding is the library's and no property is stated about it), `Clock::increment`, `TSTicker::tick` and `TSRescaler::rescale_to_clock`. The state these operators act on lives in the thread records of `Metamix`.
- **`MetadataQueue.tla`** models one queue.
  - The heap is abstracted to the set of its records. `Top` is the element that `comparator` puts first.
  - `pop_impl` and `pop_all` are `RECURSIVE` operators that follow the loops line by line, including the collision loop.
  - Each public operation holds the mutex for its whole body, so each is one step.
- **`Metamix.tla`** composes all the threads.
  - **Variables:** `clock`, `queue` (per kind), `current`, `tsAdj`, `restartReq`, `caps`, `ex` (per extractor: pc, run, frame count, rescaler base and zeros, retry counters), `inj` (the same, plus `prevPts` and `prevInput`), `running`, `ctl` (requests served) and `out` (history of written frames).
  - **Extractor actions:** `ExStart` (extractor() up to remux_loop), `ExSeiPacket` / `ExSctePacket` (one remux_loop iteration: processors, then the remux and its retry, then the break check), `ExReadError`, `ExStreamEnd`, and `ExDropId` / `ExReadNow` / `ExPushReset` (post_exit's three steps; the last one includes the supervisor's restart-or-return).
  - **Injector actions:** `InjStart`, `InjPacket` (ClockTicker, then SeiInjector::process, then the remux), `InjReadError` and `InjStreamEnd`.
  - **Pushes and drops:** `InputPush` is `UserDefinedInput::push` (declare the kind's capability, then push into the kind's queue); `GroupDropId` is `MetadataQueueGroup::drop_id`, `drop_id` on every queue of the group.
  - **Controller actions:** `CtlSelect`, `CtlRestart` and `CtlConfig`. `CtlSelect` takes any changeset the handler can build (every kind, or any subset of the kinds, each to an existing input) and applies `SetCurrentInputs`, the translation of `InputManager::set_current_inputs`: every id is validated before any kind is exchanged.
  - **Main:** `MainExit`, then `Terminated`.
  - **Data abstraction:**
    - A packet is its pts: frame number × `InStep` / `OutStep`.
    - An input frame carries `cc` CC payloads (0..`MaxCC`), or one SCTE section.
    - A record carries ghost fields (`what`, `run`, `frame`, `slot`, `at`) that name the payload and its frame time.
    - `at` is the clock time of the record's frame: the extractor's base plus the frame's distance from the run's first packet.
  - **Faults** (`Faults = TRUE`): the remux can fail and output NALUs can fail to parse. A source's dts/pts check failure or EOF is `ExStreamEnd` / `InjStreamEnd`.
- **`SeiCodec.tla`** holds the H.264 byte codecs as pure operators over byte sequences (naturals 0..255).
  - **rbsp.h:** `CopyFromEbsp` (stop-bit trim, then 03 removal) and `CopyToEbsp` (03 insertion, then the stop bit). `CountEpb` is `count_emulation_prevention_bytes`.
  - **emitter.h:** `EmitVarInt`, `SizeHint`, `EmitSeiPayload`, `EmitSeiNalu` and `EmitAvccNalu`.
  - **Parsers:** `ParseVarInt` and `SeiParserNext` (sei_parser.cpp), `NextAvccBounds` (nalu_parser.cpp). The `BinaryParser` loops are the `RECURSIVE` operators `ParseSeiFrom` and `SplitAvccFrom`.
  - **Processors:** `InjectSei` is the rewrite half of `SeiInjector::process` (NALU collection, `strip_cc` of the first SEI after the parameter sets, the new SEI NALU, the re-emitted packet). `ExtractCc` is the NALU loop of `SeiExtractor::process`.
  - **Exceptions** are a result tag: `"error"` is `BinaryParseError`; `"thrown"` is the `std::runtime_error` of a missing stop bit, which the processors' handlers do not catch; `"overrun"` is a read past the end in `parse_variadic_length_int` (undefined behaviour). Results handed out before an exception are kept, as the extractor pushes while it parses. `assert`s are taken as compiled out.
- **`Scte35.tla`** holds the SCTE-35 codec as pure operators over byte sequences, with the same result tags as `SeiCodec`.
  - **binary_parser_util.h / binary_emitter_util.h:** `Read8` … `Read48` and `Write8` … `Write48`. Values of 32 bits and more are sequences of 16-bit digits (`Read32` gives `<<hi, lo>>`, `Read33` `<<bit32, hi, lo>>`), because TLC integers are 32-bit.
  - **crc32.h:** `Crc32` is CRC-32/MPEG-2 (polynomial 0x04C11DB7, initial 0xFFFFFFFF, no reflection, no final xor). `CRC32::update(uint8_t)` is declared but not defined in the sources, so the table step (`CrcTable`, `CrcUpdate`) is written from the MPEG-2 definition and checked against its test vector; the loop over the bytes (`CrcOver`) is the code's.
  - **parser.cpp:** one operator per `parse_*` function, `ReadUntilLength` (pointer field, table id, flags, section_length checks), `ScteParserNext` and `ScteParserPack` (header, command with the 4095 unknown-length rule, descriptor loop, CRC over the section). `ScteExtract` is the `while (parser)` loop of `ScteExtractor::process` over `BinaryParser::next`: sections are pushed as they are parsed, and an exception ends the packet.
  - **Argument order:** `parse_time_descriptor` reads its three fields as constructor arguments, whose evaluation order C++ leaves to the compiler; the constant `ArgOrder` chooses it.
  - **scte35.h:** the records as sets (`SpliceInfoSection`, one set per command and descriptor struct): an optional is `<<>>` or `<<x>>`, a variant the union of its alternatives. The header fields carry the widths the struct's comments give.
  - **emitter.h:** the size hints (`CommandHint`, `DescriptorHint`, `SectionLength`) and `EmitSection`, which ends with the CRC of what was written. The program never calls the emitter.
- **`Shutdown.tla`** models how the process stops (main.cpp:70-97, `ApplicationContext::exit`, `supervised`, `controller()`).
  - **Variables:** `running`, `slot` (the controller's `on_exit_conn` is connected), `accept` (the acceptor's accept: none, armed, aborted), `ctl` (the controller thread's pc), `prim` (each primary thread running or done) and `main` (main's pc).
  - **Controller actions:** `CtlBind` (bind, or the throw of a taken port), `CtlConnect` (the on_exit slot), `CtlArm` (listen, `do_accept`, `ioc.run`), `CtlSession` (a client connects; the handler calls `process_session`), `CtlSessionEnd` (the session returns and the handler re-arms the accept), `CtlAborted` (the aborted accept's handler does not re-arm, `ioc.run` and `controller()` return). `CtlReturn` is the supervisor's restart-or-return around it.
  - **Main actions:** `PrimaryReturn` (a primary thread's supervised loop returns under --norestart), `MainExit` (all primaries joined, `exit()` exchanges `m_running` and runs the slot's `acceptor.cancel()`, which aborts only a pending accept), `MainJoinSecondary`, then `Exited`.
  - The REST requests are modelled in `Metamix`; here a session is one opaque step.
- **`MCComponents.tla`** drives the codecs and the queue on their own. An initial choice picks a SEI packet, an SCTE packet or the queue. For the queue it takes any sequence of push, pop, pop_all and drop_id calls over `Ids` × `Times` × `Orders`, with up to `MaxLen` records, and in every reachable queue compares the loops with the contract. For SEI it assembles a source packet NALU by NALU and the list of payloads found for it, and runs every reachable pair through `InjectSei` and `ExtractCc`. For SCTE it appends up to `MaxSections` sections from a universe of seven (splice_null; splice_insert with an avail descriptor; a component splice_insert with a segmentation descriptor; time_signal with a time descriptor; splice_schedule with a cancelled and a component event; bandwidth_reservation with a DTMF descriptor; private_command), optionally after a 00 pointer field, encodes them with `StdSection`, a reference encoder written from the SCTE 35 standard, and runs `ScteExtract` on the bytes. Source SEI NALUs come from `StdSeiNalu`, a reference encoder written from H.264 7.3.2.3 / 7.4.1 (one stop bit per RBSP, escapes decided on the bytes written). The NALU set also has a forbidden-bit NALU, an SEI whose size runs past the end and an SEI without a stop bit. A packet of one SCTE section can then have one bit flipped (`FlipBit`: the top or bottom bit of any byte), standing for damage in transport.
- **`MCMetamix.tla`** gives the time bases (input 1/1000, output 1/90000; 40 ms = 3600 ticks per frame) and `MinTS`. TLC integers are 32-bit, so the 32-bit minimum stands in for INT64_MIN. Any value below every pts does the same.

Abstractions worth knowing:
- All the pushes of one packet happen in one step. They all happen within one `process` call, and the injector's pop of one frame is atomic under the queue mutex.
- One extractor packet is either a SEI packet or an SCTE packet, counted on one frame counter.
- `MAX_RETRY` (10 in the code) is `MaxRetry` (0 or 1). Supervisor restarts are bounded by `MaxRestarts`.
- `CtlSelect` changes the SEI and SCTE selections in one step. The code exchanges two atomics one after the other, but the injector only reads the SEI one.

## Runs

| Run | cfg | Expect | What it shows |
|---|---|---|---|
| input_switch | MCMetamix.cfg | pass | Two inputs, one switch, extractor exits. `NoCaptionBleed`: captions of two inputs always have a reset between them. `NoCaptionAfterExitReset`: after an exited run's reset, none of that run's captions follows. |
| restarts | MCMetamixRestart.cfg | pass | Both threads restart once, and the restarted injector's window starts again at INT64_MIN. `DeliveredAtMostOnce`: no caption is written twice (spec §5). `NoStaleRunRecords`: neither queue holds a caption or SCTE record of a finished run. |
| faults | MCMetamixFaults.cfg | pass | Read, remux and parse failures, three output frames, and a `ts_adjustment` of 0 or two frames (7200 ticks) that `POST /config` may change between two output frames, moving the injector's window back or ahead. `TypeOK` keeps the retry counters within `MAX_RETRY`. `CaptionsInFrameOrder`: captions of one extractor run are written in the order of their frames. `DeliveredAtMostOnce`: a window moved back hands out no caption twice. `RestartHonoured` (under `FairSpec`): a restart request is always eventually honoured, whatever read errors and remux failures the source interleaves. |
| components | MCComponents.cfg | pass | SEI packets of up to 3 NALUs, up to 2 found captions. `RewriteKeepsVideo`: the injector keeps the valid non-SEI NALUs in order. `NoStartCodeEmulation`: no 00 00 00/01/02 in what it writes. `ExtractorReadsConformantSource`: the extractor reads exactly the captions of a conformant source, in order. SCTE packets of up to 2 sections: `ScteExtractorNoMisread`: what the SCTE extractor pushes is a prefix of the sections sent, and all of them when it reports no error (nothing is misread, reordered or invented). `ScteEmittedCrcVerifies`: every section the emitter writes has a CRC that verifies. `ScteDamageNeverPushed`: a section with one bit flipped is never pushed (the CRC check, parser.cpp:485-490, rejects it). Queue: `PopMeetsSpec`: `pop` as spec §4.5 words it: it returns the earliest record of the id in the window (nullopt when there is none), and afterwards nothing earlier than `since` and no record of another input at the popped pts is left. What happens to other records of the same input at that pts is left open here; `NoCaptionLost` (cc_collision) shows the code drops them. The sections the harness feeds are checked by an `ASSUME` to lie in scte35.h's `SpliceInfoSection`. |
| cc_collision | MCMetamixLost.cfg | violation | `NoCaptionLost`: a frame's second CC payload is discarded by pop_impl's collision loop (the assert at metadata_queue.h:157). |
| caption_stamp | MCMetamixStamp.cfg | violation | `CaptionStampedAtFrameTime`: `ts_zero` comes from the first CC-bearing packet, so captions are stamped early. |
| clock_restart | MCMetamixClock.cfg | violation | `ClockAdvancesByFrame`: a restarted injector's first tick adds the clock's whole value again. |
| exit_reset_race | MCMetamixExitReset.cfg | violation | `ExitResetNotStale`: an injector frame between post_exit's `now()` and its `push` leaves the reset behind the window (the FIXME). |
| switch_frame_lost | MCMetamixBleed.cfg | violation | `NoCaptionBleed` with faults: the switch frame fails to parse or remux, its reset is lost, and the captions bleed. |
| sei_readback | MCComponentsReadBack.cfg | violation | `InjectedCaptionsReadBack`: a rewritten SEI NALU with two payloads (a kept pic-timing SEI and a caption) does not parse. `emit_sei_payload` gives every payload its own 0x80 stop bit (emitter.h:86), so all the frame's captions are lost (spec §4.8 e, scenario 6). |
| scte_time_order | MCComponentsTimeOrder.cfg | violation | `ScteExtractorNoMisread` with `ArgOrder = "right_to_left"`: a conformant time_signal with a time descriptor is pushed with tai_seconds, tai_ns and utc_offset read from the wrong bytes, and no error (parser.cpp:264). |
| shutdown | Shutdown.cfg | violation | `ExitCompletes`: once main has called `exit()`, the process exits. Under --norestart it does not when `exit()` comes before the controller has connected its on_exit slot or armed its accept, or while it serves a session: `cancel()` finds no pending accept, the handler re-arms it, `ioc.run()` never returns and main blocks in its join of the controller (controller.cpp:324-360, main.cpp:89-93). |

Codec defects found while modelling that no run checks on its own (listed as hazards in `PROJECT.json`):
- `sei_payload_size_hint` counts existing 00 00 03 triples (so 00 00 00 and 00 00 01 both leave it short), but the encoder escapes every 00 00 0x with x ≤ 3, so the length prefix can be short;
- `copy_to_ebsp_impl` decides escapes on input bytes, so 00 00 00 00 does not survive a round trip;
- `emit_variadic_length_int` divides by 255 where H.264 subtracts, which breaks sizes of 255 and more;
- only the first SEI NALU is stripped of captions;
- a missing stop bit throws an uncaught `runtime_error`, and the thread restarts;
- `parse_dtmf_descriptor` expects descriptor_length 5+count where the standard (and the emitter) has 6+count, so every conformant DTMF descriptor is rejected together with the rest of its packet;
- `parse_private_command` copies from 4 bytes past the identifier, so a private command is always rejected and its copy reads past the command;
- a segmentation descriptor shorter than 4 throws an uncaught `std::length_error`;
- fewer than 20 bytes after a section make `operator>>` dereference an empty optional.

The SCTE defects of the parser show as `"error"` results in the components run (allowed by `ScteExtractorNoMisread`, which is about what is pushed); no run slot is left for a read-back property of the emitter, which the program never calls.

Each property of a passing run has a mutant in `PROJECT.json`: a plausible bug in the mapped code that TLC catches with that property. The mutants are:
- the collision drop left out;
- the reset emitted only for the first frame;
- `drop_id` applied to one queue only;
- query results not removed from the queue;
- the retry bound compared with `<=`;
- the restart flag ignored by the loop's break;
- escapes inserted only before 03;
- the stop bit not trimmed by the decoder;
- the rest of the NALUs always starting one past the first non-parameter NALU;
- `read_33` without its 0x01 mask on the top bit;
- `write_32` writing little-endian;
- the section's CRC field read but not checked;
- the comparator's pts test reversed, so the heap hands out the latest record first.

## Bounds

Input frames per run are capped at 2. That is the smallest number at which a caption of a second input can land in a later injector window, and at which a frame without captions can precede one with them. The 2–3 output frames per injector run let a switch happen between two written frames, and let an injector frame fall between post_exit's steps. One restart per thread is enough to reach a second run of each. In the codec run, three NALUs per packet allow a parameter set, an SEI and a slice together, or two SEI NALUs. Two found payloads give the multi-payload SEI. Payload bytes include 00 00 00, 00 00 01 and 0x80 to reach the escape and stop-bit cases. In the SCTE half, two sections give the loop a section after the first, the seven kinds cover every command type and every descriptor tag, and the pointer field reaches `chopped_prefix`. One controller request makes one switch, one restart request or one tsAdjustment change. In the faults run the adjustment is 0 or 7200 (two frames) at start and the request may change it: two frames is the smallest move that takes the window behind the previous frame's start, and three output frames let the frame after the move query the moved-back window. The faults run has no SCTE stream, which keeps it within three minutes with three output frames; the restarts run covers the SCTE stream. The flipped bit is the top or bottom bit of any byte of a one-section packet, so it lands in every field of every command and descriptor kind, and in the CRC itself. The queue half (2 ids × 3 pts × 2 orders, 4 records) gives every order of two records of two ids around a window and a pts collision. In Shutdown two primary threads let exit wait for more than one join, and `Restart = FALSE` is the only setting in which main reaches `exit()` at all: with restarts the primaries never return. The Metamix runs reach 0.2–1.1 million distinct states and the components run about 13 thousand; each finishes within about three minutes.

## Fairness

`Spec` has no fairness, and all safety runs use it. `FairSpec` (used by the faults run) adds weak fairness to the extractor thread's own steps: `ExStart`, the SEI packet step and post_exit's three steps. The extractor is an OS thread that blocks only in `read_packet`. A live source keeps sending packets on its time-source stream, so a running extractor keeps taking them. In the model, packets past `MaxFrames` carry no captions and are not counted. Read errors, SCTE packets, stream ends and failed opens are the source's choice, so they get no fairness. Neither do the injector or the controller. Fairness on `Next` would force a stream end and make `RestartHonoured` hold whatever the loop does.

In `Shutdown` the controller's and main's own steps are weakly fair: they are OS threads that run whenever they are not blocked. A client connecting (`CtlSession`) is the environment's choice and has no fairness, nor has a primary thread returning. A session is taken to end eventually, which only makes `ExitCompletes` easier to satisfy; the violation TLC reports needs no session at all (exit between `CtlConnect` and `CtlArm`).

## Not modelled

- **Not modelled:**
  - `scte35.cpp` (stream output of the SCTE records only) and `slice.h` (a bounds-checked view of a byte array: the modules index byte sequences directly, and an index out of range is the `"error"` or `"overrun"` tag of the reader that does it);
  - the GET requests (`/stats`, `/input`, `/input/current`, `/config`): they change no state. `/stats` reads each queue's `size()` without its mutex (a hazard in `PROJECT.json`);
  - SCTE packets that end with fewer than 20 bytes after a section (the undefined dereference in `operator>>`);
  - FFmpeg container I/O;
  - program options and logging;
  - the data race of the on_exit slot (main's `acceptor.cancel(ec)` against the io_context thread, and the controller's locals destroyed under a running slot): `Shutdown` makes the slot one atomic step.
- **Not checked:** all twelve run slots are taken, so the following disagreements, each of which would be a violation run of its own, are listed as hazards instead:
  - B-frame pts reordering on the output (the clock overshoots the largest pts; the model's output pts increase);
  - the halfway cases of `av_rescale_q` (FFmpeg's, halves away from zero) against the spec's nearest-even;
  - captions popped for a frame whose remux then fails (`out` records written frames only);
  - the codec's length prefixes, the EBSP round trip and varints of 255 and more;
  - the SCTE emitter round trip (the emitter is unused by the program).
- **Not bounded:** the growth of the never-consumed SCTE queue while an input runs; `NoStaleRunRecords` checks only that `drop_id` empties it of a run's records at exit.
- **No liveness for the injector** (a caption in the queue is eventually written or dropped): the injector has no fairness the code justifies, since its source may stall.
