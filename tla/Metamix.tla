------------------------------- MODULE Metamix -------------------------------
(***************************************************************************)
(* The metadata pipeline of metamix: one extractor thread per user input   *)
(* (proc/extractor.cpp) pushing into the per-kind metadata queues, the     *)
(* injector thread (proc/injector.cpp) ticking the shared clock and        *)
(* pulling the selected input's captions into each output frame, the       *)
(* controller (proc/controller.cpp) changing the selection, scheduling     *)
(* restarts and setting ts_adjustment, and the supervisor (supervisor.h)   *)
(* restarting threads whose body returned or threw.  The packet loop of    *)
(* each thread is io/remux_loop.cpp.                                       *)
(*                                                                         *)
(* Data is abstracted: a packet is its pts (frame number times a step),    *)
(* the number of closed-caption SEI payloads it carries or the SCTE-35     *)
(* section it carries; a payload is identified by ghost fields of its      *)
(* record (input, extractor run, frame, slot).                             *)
(***************************************************************************)
EXTENDS Integers, FiniteSets, SequencesExt, Clock

CONSTANTS
  UserInputs,     \* ids of the user-defined inputs; the clear input is 0
  ScteInputs,     \* user inputs whose source also has an SCTE-35 stream
  InTimeBase,     \* time base of the inputs' time-source streams
  OutTimeBase,    \* time base of the output's time-source stream
  InStep,         \* pts distance between consecutive input packets
  OutStep,        \* pts distance between consecutive output packets
  MaxCC,          \* most CC (USER_DATA_REGISTERED) payloads in one frame
  MaxFrames,      \* packets an input yields per extractor run
  MaxOutFrames,   \* packets the output yields per injector run
  MaxRestarts,    \* supervisor restarts per thread
  MaxRetry,       \* MAX_RETRY of remux_loop.cpp:20
  Restart,        \* !options.norestart
  StartInput,     \* the input selected at startup (starting-input)
  Adjustments,    \* tsAdjustment values POST /config may set
  MaxCtl,         \* controller requests
  MinTS,          \* std::numeric_limits<TS>::min()
  Faults          \* whether packets may fail to remux and output packets to parse

ClearId == 0
InputIds == {ClearId} \cup UserInputs
Kinds == {"sei", "scte"}

(* Metadata::order of the synthesised records, stdseis.cpp:34 and 86.     *)
ResetOrder == -2147483647 - 1
EmptyOrder == 2147483647

ASSUME /\ ClearId \notin UserInputs
       /\ ScteInputs \subseteq UserInputs
       /\ StartInput \in InputIds
       /\ Faults \in BOOLEAN
       /\ {MaxCC, MaxFrames, MaxOutFrames, MaxRestarts, MaxRetry, MaxCtl} \subseteq Nat

VARIABLES
  clock,      \* Clock::m_val
  queue,      \* [Kinds -> set of records]: the MetadataQueueGroup
  current,    \* [Kinds -> InputIds]: InputManager::m_current_inputs_ids
  tsAdj,      \* ApplicationContext::m_ts_adjustment
  restartReq, \* [UserInputs -> BOOLEAN]: UserDefinedInput::m_restart_scheduled
  caps,       \* set of <<input, kind>>: the declared InputCapabilities
  ex,         \* [UserInputs -> extractor thread state]
  inj,        \* injector thread state
  running,    \* ApplicationContext::m_running
  ctl,        \* controller requests served (bounded by MaxCtl)
  out         \* history: the output frames written, with their SEI metadata

vars == <<clock, queue, current, tsAdj, restartReq, caps, ex, inj, running, ctl, out>>

(* The queue operators; the queues themselves are the values of `queue`. *)
MQ == INSTANCE MetadataQueue WITH q <- queue["sei"]

(* A Metadata<K> record; the fields after `order` are ghosts naming the   *)
(* payload and the clock time of the frame it was taken from.             *)
Meta(what, id, pts, order, run, frame, slot, at) ==
  [what |-> what, input_id |-> id, pts |-> pts, order |-> order,
   run |-> run, frame |-> frame, slot |-> slot, at |-> at]

(* build_cc_reset_metadata / build_empty_metadata (h264/stdseis.cpp).     *)
CCReset(id, ts) == Meta("reset", id, ts, ResetOrder, -1, -1, 0, ts)
EmptySei(id, ts) == Meta("empty", id, ts, EmptyOrder, -1, -1, 0, ts)

Max2(a, b) == IF a >= b THEN a ELSE b

-----------------------------------------------------------------------------
(***************************************************************************)
(* Extractor threads.  pc: "start" (supervisor about to call extractor()), *)
(* "run" (in remux_loop), "drop", "now", "push" (the three steps of        *)
(* post_exit, run by BOOST_SCOPE_EXIT on every exit), "done" (the         *)
(* supervisor returned).                                                   *)
(***************************************************************************)
ExInit == [pc |-> "start", run |-> 0, frames |-> 0, base |-> 0,
           seiZero |-> {}, scteZero |-> {}, readTrial |-> 0, remuxTrial |-> 0,
           resetAt |-> 0]

(* AbstractInput::declare_capability<K> sets the kind's flag of m_caps.  *)
DeclareCapability(c, e, k) == c \cup {<<e, k>>}

(* UserDefinedInput::push<K>: declare the capability, then push each      *)
(* record into the kind's queue of the group; an extractor that found no  *)
(* metadata in the packet does not call it.                               *)
InputPush(e, k, recs) ==
  /\ queue' = [queue EXCEPT ![k] = @ \cup recs]
  /\ caps' = IF recs # {} THEN DeclareCapability(caps, e, k) ELSE caps

(* MetadataQueueGroup::drop_id: drop_id on each queue of the tuple.       *)
GroupDropId(group, e) == [k \in Kinds |-> MQ!WithoutId(group[k], e)]

(* pts of the n-th packet of an input run (the first packet has pts 0).   *)
InPts(n) == n * InStep

(* The clock time the frame's packet stands for: the extractor's base     *)
(* plus its distance from the first packet of the run.                    *)
FrameTime(e, n) == ex[e].base + RescaleTs(InPts(n), InTimeBase, ClockTimeBase)

(* The thread body leaves remux_loop (return or exception): post_exit.    *)
ExLeave(e) == ex' = [ex EXCEPT ![e].pc = "drop"]

(* extractor(), extractor.cpp:207-239 up to the start of remux_loop: the  *)
(* restart flag is cleared, the handles are opened (which may throw, and  *)
(* then post_exit runs), and remux_loop builds the processors, whose      *)
(* TSRescaler::clock_relative reads clock.now() as their base.            *)
ExStart(e) ==
  /\ ex[e].pc = "start"
  /\ restartReq' = [restartReq EXCEPT ![e] = FALSE]
  /\ \/ ex' = [ex EXCEPT ![e] = [ExInit EXCEPT !.pc = "run", !.run = ex[e].run,
                                                !.base = clock]]
     \/ ExLeave(e)
  /\ UNCHANGED <<clock, queue, current, tsAdj, caps, inj, running, ctl, out>>

(* Mutant: the retry bound compared with <=, one retry too many.         *)
RemuxTrialLate(trial, ok) ==
  CASE ok               -> 0
    [] trial <= MaxRetry -> trial + 1
    [] OTHER             -> -1

(* The outcome of sink.remux_packet at the end of a loop iteration,       *)
(* remux_loop.cpp:100-111: success resets the retry count, a failure is   *)
(* logged and counted, the MAX_RETRY-th consecutive failure is rethrown.  *)
(* Returns the new count, or -1 when the loop throws.                     *)
RemuxTrial(trial, ok) ==
  CASE ok              -> 0
    [] trial < MaxRetry -> trial + 1
    [] OTHER            -> -1

(* Mutant: the loop leaves only when the remux rethrows; the processors'  *)
(* break request is ignored.                                              *)
BreaksOnErrorOnly(e, trial) == trial < 0

(* Whether remux_loop leaves after a time-source packet: the break a      *)
(* processor requested -- MaintenanceProcessor::process returns           *)
(* is_restart_scheduled() (extractor.cpp:64) -- is honoured after the     *)
(* remux (remux_loop.cpp:113-115), and a rethrown remux failure leaves it *)
(* too.                                                                   *)
Breaks(e, trial) == restartReq[e] \/ trial < 0

(* One iteration of remux_loop on a packet of the input's H.264 stream,   *)
(* which is both its time-source and its SEI stream: MaintenanceProcessor *)
(* reads the restart flag, SeiExtractor rescales the packet's pts (the    *)
(* first call fixes the rescaler's ts_zero) and pushes one record per CC  *)
(* payload with increasing order, then the packet is remuxed; a requested *)
(* break is honoured after the remux.  cc payloads cover a frame whose    *)
(* SEI parse failed part-way: the payloads before the error were pushed.  *)
(* A live stream does not end: past MaxFrames the source keeps sending    *)
(* packets, taken to carry no captions and not counted, so only the       *)
(* restart check and the remux act on them.                               *)
ExSeiPacket(e, cc, ok) ==
  LET n     == ex[e].frames
      zero  == IF cc > 0 THEN RescalerZero(ex[e].seiZero, InPts(n)) ELSE ex[e].seiZero
      pts   == RescaleToClock(ex[e].base, ex[e].seiZero, InPts(n), InTimeBase)
      recs  == {Meta("caption", e, pts, j, ex[e].run, n, j, FrameTime(e, n)) : j \in 0..(cc - 1)}
      trial == RemuxTrial(ex[e].remuxTrial, ok)
  IN  /\ ex[e].pc = "run"
      /\ n < MaxFrames \/ cc = 0
      /\ InputPush(e, "sei", recs)
      /\ ex' = [ex EXCEPT ![e].frames = IF n < MaxFrames THEN n + 1 ELSE n,
                          ![e].seiZero = zero,
                          ![e].readTrial = 0, ![e].remuxTrial = Max2(trial, 0),
                          ![e].pc = IF Breaks(e, trial) THEN "drop" ELSE "run"]
      /\ UNCHANGED <<clock, current, tsAdj, restartReq, inj, running, ctl, out>>

(* A packet of the SCTE-35 stream: ScteExtractor parses one section and   *)
(* pushes it with order 0, rescaled by its own rescaler, which remux_loop *)
(* built with the time base of the time-source stream (line 32).  No      *)
(* restart check runs on this stream.                                     *)
ExSctePacket(e, ok) ==
  LET n     == ex[e].frames
      pts   == RescaleToClock(ex[e].base, ex[e].scteZero, InPts(n), InTimeBase)
      trial == RemuxTrial(ex[e].remuxTrial, ok)
  IN  /\ ex[e].pc = "run"
      /\ e \in ScteInputs
      /\ n < MaxFrames
      /\ InputPush(e, "scte", {Meta("scte", e, pts, 0, ex[e].run, n, 0, FrameTime(e, n))})
      /\ ex' = [ex EXCEPT ![e].frames = n + 1,
                          ![e].scteZero = RescalerZero(ex[e].scteZero, InPts(n)),
                          ![e].readTrial = 0, ![e].remuxTrial = Max2(trial, 0),
                          ![e].pc = IF trial < 0 THEN "drop" ELSE "run"]
      /\ UNCHANGED <<clock, current, tsAdj, restartReq, inj, running, ctl, out>>

(* source.read_packet throws: retried up to MAX_RETRY times, then         *)
(* rethrown (remux_loop.cpp:46-61).                                        *)
ExReadError(e) ==
  /\ ex[e].pc = "run"
  /\ IF ex[e].readTrial < MaxRetry
     THEN ex' = [ex EXCEPT ![e].readTrial = @ + 1]
     ELSE ExLeave(e)
  /\ UNCHANGED <<clock, queue, current, tsAdj, restartReq, caps, inj, running, ctl, out>>

(* A packet whose dts does not increase past the sink's, or whose pts is  *)
(* below its dts, is taken as the stream restarting: the loop throws      *)
(* (remux_loop.cpp:63-77).  End of file ends the loop (line 49-50).       *)
ExStreamEnd(e) ==
  /\ ex[e].pc = "run"
  /\ ExLeave(e)
  /\ UNCHANGED <<clock, queue, current, tsAdj, restartReq, caps, inj, running, ctl, out>>

(* Mutants: drop_id called on one queue of the group only.                *)
ExDropIdSeiOnly(e) ==
  /\ ex[e].pc = "drop"
  /\ queue' = [queue EXCEPT !["sei"] = MQ!WithoutId(@, e)]
  /\ ex' = [ex EXCEPT ![e].pc = "now"]
  /\ UNCHANGED <<clock, current, tsAdj, restartReq, caps, inj, running, ctl, out>>

ExDropIdScteOnly(e) ==
  /\ ex[e].pc = "drop"
  /\ queue' = [queue EXCEPT !["scte"] = MQ!WithoutId(@, e)]
  /\ ex' = [ex EXCEPT ![e].pc = "now"]
  /\ UNCHANGED <<clock, current, tsAdj, restartReq, caps, inj, running, ctl, out>>

(* post_exit, extractor.cpp:187-205: drop_id on every queue, then read    *)
(* clock.now(), then push a CC reset at now + 1.  The three take the      *)
(* queue mutexes and the clock separately, so other threads run between.  *)
ExDropId(e) ==
  /\ ex[e].pc = "drop"
  /\ queue' = GroupDropId(queue, e)
  /\ ex' = [ex EXCEPT ![e].pc = "now"]
  /\ UNCHANGED <<clock, current, tsAdj, restartReq, caps, inj, running, ctl, out>>

ExReadNow(e) ==
  /\ ex[e].pc = "now"
  /\ ex' = [ex EXCEPT ![e].pc = "push", ![e].resetAt = clock + 1]
  /\ UNCHANGED <<clock, queue, current, tsAdj, restartReq, caps, inj, running, ctl, out>>

(* The push ends the thread body; supervised() then restarts it, or       *)
(* returns when restarts are disabled.                                    *)
ExPushReset(e) ==
  LET reset == [CCReset(e, ex[e].resetAt) EXCEPT !.run = ex[e].run, !.frame = ex[e].frames]
  IN  /\ ex[e].pc = "push"
      /\ queue' = [queue EXCEPT !["sei"] = @ \cup {reset}]
      /\ ex' = [ex EXCEPT ![e].pc  = IF Restart /\ ex[e].run < MaxRestarts THEN "start" ELSE "done",
                          ![e].run = IF Restart /\ ex[e].run < MaxRestarts THEN @ + 1 ELSE @]
      /\ UNCHANGED <<clock, current, tsAdj, restartReq, caps, inj, running, ctl, out>>

-----------------------------------------------------------------------------
(***************************************************************************)
(* The injector thread.  Its output's H.264 stream is both the             *)
(* time-source and the SEI stream, so on each of its packets ClockTicker   *)
(* runs and then SeiInjector (the order of the processor tuple); the SCTE  *)
(* processor is NullPacketProcessor.  tick* is ClockTicker's TSTicker and  *)
(* TSRescaler, sei* / prevPts / prevInput are SeiInjector's members.       *)
(***************************************************************************)
InjInit == [pc |-> "start", run |-> 0, frames |-> 0, readTrial |-> 0, remuxTrial |-> 0,
            tickLast |-> {}, tickBase |-> 0, tickZero |-> {},
            seiBase |-> 0, seiZero |-> {}, prevPts |-> MinTS, prevInput |-> {}]

OutPts(n) == n * OutStep

(* The thread body returned or threw: supervised() restarts or returns.   *)
InjLeave ==
  inj' = [inj EXCEPT !.pc  = IF Restart /\ inj.run < MaxRestarts THEN "start" ELSE "done",
                     !.run = IF Restart /\ inj.run < MaxRestarts THEN @ + 1 ELSE @]

(* injector(), injector.cpp:233-264: open the handles (may throw), then   *)
(* remux_loop builds ClockTicker and SeiInjector, whose rescalers take    *)
(* clock.now() as their base.                                             *)
InjStart ==
  /\ inj.pc = "start"
  /\ \/ inj' = [InjInit EXCEPT !.pc = "run", !.run = inj.run,
                               !.tickBase = clock, !.seiBase = clock]
     \/ InjLeave
  /\ UNCHANGED <<clock, queue, current, tsAdj, restartReq, caps, ex, running, ctl, out>>

(* Mutant: the records found are copied out but not removed.             *)
QueryResultNoCommit(id, since, until) ==
  LET popped == MQ!PopAllImpl(queue["sei"], id, since, until)
      ts     == Max2(since, until - 1)
  IN  CASE id = ClearId       -> [vals |-> <<CCReset(id, ts)>>, rest |-> queue["sei"], collided |-> {}]
        [] popped.vals # <<>> -> [popped EXCEPT !.rest = queue["sei"]]
        [] OTHER              -> [popped EXCEPT !.vals = <<EmptySei(id, ts)>>, !.rest = queue["sei"]]

(* AbstractInput::query<SeiKind>(since, until): ClearInput answers a CC   *)
(* reset; a UserDefinedInput pops all its records in the window and, when *)
(* there are none, build_empty_metadata fills in padding.  Both stamp     *)
(* synthesised records at max(since, until - 1).                          *)
QueryResult(id, since, until) ==
  LET popped == MQ!PopAllImpl(queue["sei"], id, since, until)
      ts     == Max2(since, until - 1)
  IN  CASE id = ClearId       -> [vals |-> <<CCReset(id, ts)>>, rest |-> queue["sei"], collided |-> {}]
        [] popped.vals # <<>> -> popped
        [] OTHER              -> [popped EXCEPT !.vals = <<EmptySei(id, ts)>>]

(* Mutant: the reset only when no input was seen before.                 *)
SwitchResetFirstOnly(prev, id, ts) == IF prev # {} THEN <<>> ELSE <<CCReset(id, ts)>>

(* SeiInjector::process: a CC reset at the frame's pts when the selected  *)
(* input differs from the previous frame's (std::nullopt at first).       *)
SwitchReset(prev, id, ts) == IF prev = {id} THEN <<>> ELSE <<CCReset(id, ts)>>

(***************************************************************************)
(* One iteration of remux_loop on an output packet.  ClockTicker ticks the *)
(* clock with the rescaled pts.  SeiInjector::process (lines 108-196):     *)
(* rescaled_pts is its own rescaler's value minus ts_adjustment; it reads  *)
(* the current SEI input once, prepends a CC reset when that differs from  *)
(* the previous frame's, queries [prev_pts, rescaled_pts + 1) and moves    *)
(* prev_pts to the end of the window.  When the packet's NALUs parse       *)
(* (parsed) the metadata replaces the frame's own captions; otherwise the  *)
(* packet goes out unchanged.  The frame is written when the remux         *)
(* succeeds (ok).                                                          *)
(***************************************************************************)
InjPacket(parsed, ok) ==
  LET n        == inj.frames
      tickTs   == RescaleToClock(inj.tickBase, inj.tickZero, OutPts(n), OutTimeBase)
      rescaled == RescaleToClock(inj.seiBase, inj.seiZero, OutPts(n), OutTimeBase) - tsAdj
      id       == current["sei"]
      since    == inj.prevPts
      until    == rescaled + 1
      reset    == SwitchReset(inj.prevInput, id, rescaled)
      found    == QueryResult(id, since, until)
      trial    == RemuxTrial(inj.remuxTrial, ok)
      frame    == [run |-> inj.run, sel |-> id,
                   items |-> reset \o found.vals,
                   lost |-> {r \in found.collided : r.input_id = id}]
  IN  /\ inj.pc = "run"
      /\ n < MaxOutFrames
      /\ clock' = Tick(clock, inj.tickLast, tickTs)
      /\ queue' = [queue EXCEPT !["sei"] = found.rest]
      /\ out' = IF parsed /\ ok THEN Append(out, frame) ELSE out
      /\ inj' = [inj EXCEPT !.frames = n + 1, !.readTrial = 0,
                            !.tickLast = {tickTs},
                            !.tickZero = RescalerZero(inj.tickZero, OutPts(n)),
                            !.seiZero = RescalerZero(inj.seiZero, OutPts(n)),
                            !.prevInput = {id}, !.prevPts = until,
                            !.remuxTrial = Max2(trial, 0),
                            !.pc = IF trial >= 0 THEN "run"
                                   ELSE IF Restart /\ inj.run < MaxRestarts THEN "start" ELSE "done",
                            !.run = IF trial < 0 /\ Restart /\ inj.run < MaxRestarts THEN @ + 1 ELSE @]
      /\ UNCHANGED <<current, tsAdj, restartReq, caps, ex, running, ctl>>

(* A read error (retried MAX_RETRY times), a packet failing the dts/pts   *)
(* checks, or end of file: remux_loop.cpp:46-77.                          *)
InjReadError ==
  /\ inj.pc = "run"
  /\ IF inj.readTrial < MaxRetry
     THEN inj' = [inj EXCEPT !.readTrial = @ + 1]
     ELSE InjLeave
  /\ UNCHANGED <<clock, queue, current, tsAdj, restartReq, caps, ex, running, ctl, out>>

InjStreamEnd ==
  /\ inj.pc = "run"
  /\ InjLeave
  /\ UNCHANGED <<clock, queue, current, tsAdj, restartReq, caps, ex, running, ctl, out>>

-----------------------------------------------------------------------------
(***************************************************************************)
(* The controller thread's requests that change state (controller.cpp).   *)
(* Each handler runs on the controller thread between other threads'       *)
(* steps; it serves requests only until ctx.exit() cancels the acceptor.   *)
(* Requests naming an unknown input answer 400 and change nothing.         *)
(***************************************************************************)
CtlStep == running /\ ctl < MaxCtl /\ ctl' = ctl + 1

(* InputManager::set_current_inputs (input_manager.h:126-162): every id  *)
(* of the changeset, a function from the kinds it names to ids, is       *)
(* checked first, and an unknown one throws std::out_of_range before any *)
(* kind changes; a missing capability only logs a warning.  Then each     *)
(* kind named is exchanged.                                               *)
SetCurrentInputs(cur, changeset) ==
  IF \E k \in DOMAIN changeset : changeset[k] \notin InputIds THEN cur
  ELSE [k \in Kinds |-> IF k \in DOMAIN changeset THEN changeset[k] ELSE cur[k]]

(* POST /input/current, set_current_input (lines 152-177): {id} or {name} *)
(* names one input for every kind, {closedCaption: ..} / {adMarker: ..}   *)
(* one per kind (any subset of the kinds, none included); each reference *)
(* has been resolved to an existing input by get_input_by_json, which     *)
(* answers 400 for an unknown one before set_current_inputs is called.    *)
CtlSelect ==
  /\ CtlStep
  /\ \E named \in SUBSET Kinds :
       \E changeset \in [named -> InputIds] : current' = SetCurrentInputs(current, changeset)
  /\ UNCHANGED <<clock, queue, tsAdj, restartReq, caps, ex, inj, running, out>>

(* POST /input/restart, restart_input (lines 179-185): schedule_restart   *)
(* sets the flag of a user input; on the clear input it does nothing.     *)
CtlRestart ==
  /\ CtlStep
  /\ \E id \in UserInputs : restartReq' = [restartReq EXCEPT ![id] = TRUE]
  /\ UNCHANGED <<clock, queue, current, tsAdj, caps, ex, inj, running, out>>

(* POST /config, set_config (lines 193-206).                              *)
CtlConfig ==
  /\ CtlStep
  /\ \E a \in Adjustments : tsAdj' = a
  /\ UNCHANGED <<clock, queue, current, restartReq, caps, ex, inj, running, out>>

(* main.cpp:81-89: once every primary thread (extractors, injector) is  *)
(* joined, ctx->exit() clears the running flag and cancels the listener.  *)
MainExit ==
  /\ running
  /\ inj.pc = "done"
  /\ \A e \in UserInputs : ex[e].pc = "done"
  /\ running' = FALSE
  /\ UNCHANGED <<clock, queue, current, tsAdj, restartReq, caps, ex, inj, ctl, out>>

(* The process has exited.                                                *)
Terminated == ~running /\ UNCHANGED vars

-----------------------------------------------------------------------------
(* main.cpp:38-79: empty queues, the clock at 0, the clear input (id 0) *)
(* and the user inputs registered, starting-input selected for every kind *)
(* (the default 0 is the clear input), every thread about to start.       *)
Init ==
  /\ clock = 0
  /\ queue = [k \in Kinds |-> {}]
  /\ current = [k \in Kinds |-> StartInput]
  /\ tsAdj \in Adjustments
  /\ restartReq = [e \in UserInputs |-> FALSE]
  /\ caps = {<<ClearId, k>> : k \in Kinds}
  /\ ex = [e \in UserInputs |-> ExInit]
  /\ inj = InjInit
  /\ running = TRUE
  /\ ctl = 0
  /\ out = <<>>

(* Whether sink.remux_packet succeeds, or an output packet's NALUs parse. *)
Outcomes == IF Faults THEN BOOLEAN ELSE {TRUE}

Next ==
  \/ \E e \in UserInputs :
       \/ ExStart(e)
       \/ \E cc \in 0..MaxCC, ok \in Outcomes : ExSeiPacket(e, cc, ok)
       \/ \E ok \in Outcomes : ExSctePacket(e, ok)
       \/ ExReadError(e)
       \/ ExStreamEnd(e)
       \/ ExDropId(e)
       \/ ExReadNow(e)
       \/ ExPushReset(e)
  \/ InjStart
  \/ \E parsed, ok \in Outcomes : InjPacket(parsed, ok)
  \/ InjReadError
  \/ InjStreamEnd
  \/ CtlSelect
  \/ CtlRestart
  \/ CtlConfig
  \/ MainExit
  \/ Terminated

Spec == Init /\ [][Next]_vars

(***************************************************************************)
(* Fairness of an extractor thread.  It is an OS thread (spec section 5)  *)
(* blocked only in read_packet; a live source keeps delivering packets of *)
(* its time-source stream, so a running thread keeps taking SEI packets,  *)
(* and post_exit and the restart of supervised() are local steps the      *)
(* scheduler eventually runs.  Read errors, SCTE packets, stream ends and *)
(* failed opens are the source's choice and get no fairness; neither do   *)
(* the injector and the controller, which the properties do not need.     *)
(***************************************************************************)
ExFairness(e) ==
  /\ WF_vars(ExStart(e))
  /\ WF_vars(\E cc \in 0..MaxCC, ok \in Outcomes : ExSeiPacket(e, cc, ok))
  /\ WF_vars(ExDropId(e))
  /\ WF_vars(ExReadNow(e))
  /\ WF_vars(ExPushReset(e))

FairSpec == Spec /\ \A e \in UserInputs : ExFairness(e)

-----------------------------------------------------------------------------
(* Every variable holds a value of its kind.                              *)
MetaRec == [what: {"caption", "scte", "reset", "empty"}, input_id: InputIds,
            pts: Int, order: Int, run: Int, frame: Int, slot: Int, at: Int]

TypeOK ==
  /\ clock \in Nat
  /\ queue \in [Kinds -> SUBSET MetaRec]
  /\ current \in [Kinds -> InputIds]
  /\ tsAdj \in Adjustments
  /\ restartReq \in [UserInputs -> BOOLEAN]
  /\ caps \subseteq InputIds \X Kinds
  /\ \A e \in UserInputs :
       /\ ex[e].pc \in {"start", "run", "drop", "now", "push", "done"}
       /\ ex[e].run \in 0..MaxRestarts /\ ex[e].frames \in 0..MaxFrames
       /\ ex[e].readTrial \in 0..MaxRetry /\ ex[e].remuxTrial \in 0..MaxRetry
  /\ inj.pc \in {"start", "run", "done"} /\ inj.run \in 0..MaxRestarts
  /\ inj.readTrial \in 0..MaxRetry /\ inj.remuxTrial \in 0..MaxRetry
  /\ running \in BOOLEAN
  /\ ctl \in 0..MaxCtl
  /\ \A f \in 1..Len(out) :
       /\ out[f].sel \in InputIds
       /\ \A i \in 1..Len(out[f].items) : out[f].items[i] \in MetaRec
       /\ out[f].lost \subseteq MetaRec

(* The SEI metadata of the output frames written, in output order.        *)
Track == FlattenSeq([f \in 1..Len(out) |-> out[f].items])

IsCaption(i) == Track[i].what = "caption"

(***************************************************************************)
(* No caption bleed (spec section 1, section 4.6 step b, scenario 6):     *)
(* between a caption of one input and a later caption of another input     *)
(* the output carries a CC reset, so a decoder never shows captions of the *)
(* old source together with the new one.  SeiInjector::process prepends    *)
(* the reset when the selected input differs from the previous frame's.    *)
(***************************************************************************)
NoCaptionBleed ==
  \A i, j \in 1..Len(Track) :
    (i < j /\ IsCaption(i) /\ IsCaption(j) /\ Track[i].input_id # Track[j].input_id)
      => \E k \in (i + 1)..(j - 1) : Track[k].what = "reset"

(***************************************************************************)
(* Captions are never re-emitted (spec section 5): no caption payload is   *)
(* written into two output frames, although the query window moves back    *)
(* when tsAdjustment grows and restarts at INT64_MIN when the injector is  *)
(* restarted; it holds because pop_impl removes what it returns.           *)
(***************************************************************************)
DeliveredAtMostOnce ==
  \A i, j \in 1..Len(Track) : i < j /\ IsCaption(i) => Track[i] # Track[j]

(***************************************************************************)
(* Captions of one extractor run are written in the order of their frames,*)
(* even when POST /config moves ts_adjustment, and with it the query       *)
(* window, between two output frames: a window moved back must not hand    *)
(* out a caption older than one already written.                          *)
(***************************************************************************)
CaptionsInFrameOrder ==
  \A i, j \in 1..Len(Track) :
    (i < j /\ IsCaption(i) /\ IsCaption(j)
       /\ Track[i].input_id = Track[j].input_id /\ Track[i].run = Track[j].run)
      => Track[i].frame <= Track[j].frame

(***************************************************************************)
(* post_exit's reset clears an exiting extractor's captions for good: once *)
(* the CC reset it pushed is written, no caption of that extractor run     *)
(* follows it in the output.  drop_id must run before the push and remove  *)
(* every record of the run.                                                *)
(***************************************************************************)
NoCaptionAfterExitReset ==
  \A i, j \in 1..Len(Track) :
    (i < j /\ Track[i].what = "reset" /\ Track[i].run >= 0 /\ IsCaption(j)
       /\ Track[j].input_id = Track[i].input_id)
      => Track[j].run # Track[i].run

(***************************************************************************)
(* The queues hold no left-over metadata of a finished extractor run: a   *)
(* caption or SCTE record in either queue belongs to the current run of   *)
(* its extractor, which is still in remux_loop or has not yet dropped its *)
(* records.  Left-overs in the SCTE queue are never consumed, since the   *)
(* injector's SCTE processor is NullPacketProcessor.                      *)
(***************************************************************************)
NoStaleRunRecords ==
  \A k \in Kinds : \A r \in queue[k] :
    r.what \in {"caption", "scte"} =>
      /\ ex[r.input_id].run = r.run
      /\ ex[r.input_id].pc \in {"run", "drop"}

(***************************************************************************)
(* A restart request is honoured: after POST /inputs/{id}/restart sets the *)
(* input's flag, its extractor eventually leaves remux_loop and clears the *)
(* flag in the next extractor() (or the thread has ended for good).  Only *)
(* MaintenanceProcessor on the time-source stream reads the flag, and the *)
(* break it requests is taken after the packet's remux.                   *)
(***************************************************************************)
RestartHonoured ==
  \A e \in UserInputs : restartReq[e] ~> (~restartReq[e] \/ ex[e].pc = "done")

-----------------------------------------------------------------------------
(* Properties the code is found to violate; see README.md.                *)

(***************************************************************************)
(* No caption of the selected input is thrown away by pop_impl's collision *)
(* loop: the assert at metadata_queue.h:157 states that every other record *)
(* at the popped pts belongs to another input.  SeiExtractor pushes one    *)
(* record per CC payload of a frame, all at the frame's pts.               *)
(***************************************************************************)
NoCaptionLost == \A f \in 1..Len(out) : out[f].lost = {}

(***************************************************************************)
(* Every caption is stamped with the clock time of its frame: the         *)
(* extractor's base plus the frame's distance from the first packet of the *)
(* run (spec section 3, TSRescaler: "on first sample it records the       *)
(* source's PTS as ts_zero").  SeiExtractor only calls rescale_to_clock on *)
(* a frame that carries a CC payload.                                      *)
(***************************************************************************)
CaptionStampedAtFrameTime ==
  \A r \in queue["sei"] : r.what = "caption" => r.pts = r.at

(***************************************************************************)
(* The clock follows the output stream: one output packet advances it by  *)
(* at most the packet's pts distance (spec 4.4, "tick the clock from      *)
(* PTS").  A restarted injector builds a fresh TSTicker, whose first tick *)
(* adds the whole rescaled pts, and a fresh rescaler based at clock.now(). *)
(***************************************************************************)
FrameTicks == RescaleTs(OutStep, OutTimeBase, ClockTimeBase)

ClockAdvancesByFrame == [][clock' <= clock + FrameTicks]_vars

(***************************************************************************)
(* The CC reset post_exit pushes at clock.now() + 1 is not already behind  *)
(* the injector's window when it reaches the queue, so a query can still  *)
(* return it (the FIXME at extractor.cpp:200-201).                         *)
(***************************************************************************)
ExitResetNotStale ==
  \A r \in queue["sei"] :
    (r.what = "reset" /\ inj.pc = "run") => r.pts >= inj.prevPts

=============================================================================
