---------------------------- MODULE MCComponents ----------------------------
(***************************************************************************)
(* Model-checks the components that are checked on their own: the two    *)
(* binary codecs on whole packets, and one MetadataQueue under any         *)
(* sequence of calls.  Init chooses the component, so the state spaces of *)
(* the three add up.  For SEI the state is the *)
(* source packet being assembled, NALU by NALU, and the payloads the       *)
(* injector found in the queue for it; every reachable pair is run through *)
(* SeiInjector::process and SeiExtractor::process as SeiCodec models them. *)
(* For SCTE-35 it is the list of sections one packet carries, and whether  *)
(* a 00 pointer_field precedes them; the packet goes through              *)
(* ScteExtractor::process and each section through the emitter; a packet *)
(* of one section may also reach the extractor with one bit flipped.  For *)
(* the queue it is the set of queued records; every reachable queue is     *)
(* checked against what metadata_queue.h documents and spec section 8      *)
(* states.                                                                 *)
(*                                                                         *)
(* Source SEI NALUs are produced by StdSeiNalu, a reference encoder       *)
(* written from H.264 7.3.2.3 and 7.4.1 (one trailing stop bit per RBSP,   *)
(* emulation prevention decided on the bytes already written), so the     *)
(* code's readers are checked against streams a conformant encoder emits.  *)
(* SCTE-35 sections likewise come from StdSection, written from SCTE 35   *)
(* section 9 (splice_info_section, commands, break_duration, splice_time) *)
(* and section 10 (splice descriptors).                                    *)
(***************************************************************************)
EXTENDS SeiCodec, Scte35, MetadataQueue

CONSTANTS
  SourceNalus,     \* NALUs a source packet is assembled from
  FoundPayloads,   \* payloads the queue query may return
  MaxNalus,        \* NALUs per source packet
  MaxFound,        \* payloads found per output frame
  ScteSections,    \* splice_info_sections a packet is assembled from
  MaxSections,     \* sections per SCTE-35 packet
  Ids,             \* input ids of queued records
  Times,           \* record pts values (clock ticks)
  Orders,          \* intra-frame order values
  MaxLen           \* bound on the number of queued records

ASSUME MaxNalus \in Nat /\ MaxFound \in Nat \ {0} /\ MaxSections \in Nat /\ MaxLen \in Nat

VARIABLES codec, pkt, found, scte, pointer, flip

vars == <<codec, pkt, found, scte, pointer, flip, q>>

-----------------------------------------------------------------------------
(* Reference encoder.                                                      *)

StdVarInt(n) == [i \in 1..(n \div 255) |-> 255] \o <<n % 255>>

(* Insert 03 when the last two bytes WRITTEN are 00 00 and the next byte  *)
(* is at most 03.                                                          *)
StdEscape(s) ==
  FoldLeft(LAMBDA out, b : IF Len(out) >= 2 /\ out[Len(out) - 1] = 0 /\ Last(out) = 0 /\ b <= 3
                           THEN out \o <<3, b>> ELSE Append(out, b),
           <<>>, s)

StdSeiNalu(seis) ==
  <<SEI>> \o StdEscape(FlattenSeq([i \in DOMAIN seis |->
                                     StdVarInt(seis[i].type) \o StdVarInt(Len(seis[i].data))
                                     \o seis[i].data])
                       \o <<StopBit>>)

(* SCTE 35: fields big-endian, reserved bits 1, lengths counting the bytes *)
(* that follow them.  Values of 32 bits and more are 16-bit digits.       *)
Be8(v) == <<v>>
Be16(v) == <<v \div 256, v % 256>>
BeDigits(ds) == FlattenSeq([k \in DOMAIN ds |-> Be16(ds[k])])
Bits(flags) == FoldLeft(LAMBDA acc, f : acc + f, 0, flags)
Optional(o, Enc(_)) == IF o = <<>> THEN <<>> ELSE Enc(o[1])
StdList(seq, Enc(_)) == FlattenSeq([k \in DOMAIN seq |-> Enc(seq[k])])

StdSpliceTime(t) == IF t = <<>> THEN <<127>> ELSE <<254 + t[1][1]>> \o BeDigits(Tail(t[1]))
StdBreakDuration(d) == <<(IF d.auto_return THEN 128 ELSE 0) + 126 + d.duration[1]>> \o BeDigits(Tail(d.duration))
StdTail(m) == Be16(m.unique_program_id) \o Be8(m.avail_num) \o Be8(m.avails_expected)

StdScheduleMore(m) ==
  LET on == "utc_splice_time" \in DOMAIN m.splice
  IN  Be8(Bits(<<IF m.out_of_network THEN 128 ELSE 0, IF on THEN 64 ELSE 0,
                 IF m.break_duration # <<>> THEN 32 ELSE 0, 31>>))
        \o (IF on THEN BeDigits(m.splice.utc_splice_time)
            ELSE Be8(Len(m.splice.components))
                   \o StdList(m.splice.components, LAMBDA c : Be8(c.component_tag) \o BeDigits(c.utc_splice_time)))
        \o Optional(m.break_duration, StdBreakDuration) \o StdTail(m)

StdInsertMore(m) ==
  Be8(Bits(<<IF m.out_of_network THEN 128 ELSE 0, IF m.program_splice THEN 64 ELSE 0,
             IF m.break_duration # <<>> THEN 32 ELSE 0, IF m.splice_immediate THEN 16 ELSE 0, 15>>))
    \o Optional(m.splice_time, StdSpliceTime)
    \o Optional(m.components, LAMBDA cs : Be8(Len(cs))
                 \o StdList(cs, LAMBDA c : Be8(c.component_tag) \o Optional(c.splice_time, StdSpliceTime)))
    \o Optional(m.break_duration, StdBreakDuration) \o StdTail(m)

StdEvent(v, More(_)) == BeDigits(v.id) \o IF v.more = <<>> THEN <<255>> ELSE <<127>> \o More(v.more[1])

StdCommand(c) ==
  CASE c.type = SPLICE_SCHEDULE -> Be8(Len(c.events)) \o StdList(c.events, LAMBDA v : StdEvent(v, StdScheduleMore))
    [] c.type = SPLICE_INSERT   -> StdEvent(c, StdInsertMore)
    [] c.type = TIME_SIGNAL     -> StdSpliceTime(c.splice_time)
    [] c.type = PRIVATE_COMMAND -> BeDigits(c.identifier) \o c.bytes
    [] OTHER                    -> <<>>

StdDescriptorBody(d) ==
  CASE d.tag = AVAIL_TAG -> BeDigits(d.provider_avail_id)
    [] d.tag = DTMF_TAG  -> <<d.preroll, Len(d.dtmf_chars) * 32 + 31>> \o d.dtmf_chars
    [] d.tag = SEGMENTATION_TAG -> d.data
    [] d.tag = TIME_TAG  -> BeDigits(d.tai_seconds) \o BeDigits(d.tai_ns) \o Be16(d.utc_offset)

StdDescriptor(d) == LET body == BeDigits(CUEI) \o StdDescriptorBody(d) IN <<d.tag, Len(body)>> \o body

StdAfterLength(sec, cmd, descs) ==
  <<0, sec.pts_adjustment[1]>> \o BeDigits(Tail(sec.pts_adjustment)) \o <<sec.cw_index>>
    \o <<sec.tier \div 16, (sec.tier % 16) * 16 + Len(cmd) \div 256, Len(cmd) % 256, sec.command.type>>
    \o cmd \o Be16(Len(descs)) \o descs

StdBody(rest) == <<TABLE_ID, 48 + (Len(rest) + 4) \div 256, (Len(rest) + 4) % 256>> \o rest

StdCrc(body) == body \o BeDigits(Crc32(body))

StdSection(sec) ==
  StdCrc(StdBody(StdAfterLength(sec, StdCommand(sec.command), StdList(sec.descriptors, StdDescriptor))))

-----------------------------------------------------------------------------
(* The universe of the runs.                                               *)

PicTiming  == [type |-> 1, data |-> <<0, 0, 1>>]
SrcCaption == [type |-> 4, data |-> <<181, 0, 0>>]
CcReset    == [type |-> 4, data |-> <<181, 0, 49>>]
CcZeros    == [type |-> 4, data |-> <<181, 0, 0, 0>>]
CcText     == [type |-> 4, data |-> <<181, 128>>]

AudNalu == <<AUD, 240>>
SpsNalu == <<103, 66>>
IdrNalu == <<101, 136>>
BadNalu == <<227>>                 \* forbidden_zero_bit set
SizeTooLargeSei == <<SEI, 4, 9, 181, StopBit>>
NoStopBitSei    == <<SEI, 4, 1, 181>>

StdSeiNalus == {StdSeiNalu(l) : l \in {<<PicTiming>>, <<SrcCaption>>, <<PicTiming, SrcCaption>>}}

MCSourceNalus == {AudNalu, SpsNalu, IdrNalu, BadNalu, SizeTooLargeSei, NoStopBitSei} \cup StdSeiNalus
MCSourceNalusStd == {AudNalu, IdrNalu} \cup StdSeiNalus
MCFoundPayloads == {CcReset, CcZeros, CcText}
MCFoundNoZeros == {CcReset, CcText}

(* SCTE-35 sections: a splice_null at the default tier; a splice_insert   *)
(* at tier 0 with a splice time, a break duration and an avail descriptor;*)
(* a component-mode splice_insert with a segmentation descriptor; a        *)
(* time_signal with a time descriptor; a splice_schedule with a cancelled  *)
(* and a component event; a bandwidth_reservation with a DTMF descriptor; *)
(* a private_command.                                                      *)
Header(tier, cmd, descs) ==
  [encrypted_packet |-> FALSE, encryption_algorithm |-> 0, pts_adjustment |-> <<0, 0, 900>>,
   cw_index |-> 0, tier |-> tier, command |-> cmd, descriptors |-> descs]
Tail0 == [unique_program_id |-> 1, avail_num |-> 0, avails_expected |-> 0]

NullSec == Header(4095, [type |-> SPLICE_NULL], <<>>)
InsertSec ==
  Header(0, [type |-> SPLICE_INSERT, id |-> <<0, 7>>,
             more |-> <<[out_of_network |-> TRUE, program_splice |-> TRUE, splice_immediate |-> FALSE,
                         splice_time |-> <<<<<<1, 0, 90>>>>>>, components |-> <<>>,
                         break_duration |-> <<[auto_return |-> TRUE, duration |-> <<0, 1, 0>>]>>] @@ Tail0>>],
         <<[tag |-> AVAIL_TAG, provider_avail_id |-> <<0, 3>>]>>)
ComponentSec ==
  Header(4095, [type |-> SPLICE_INSERT, id |-> <<0, 8>>,
                more |-> <<[out_of_network |-> FALSE, program_splice |-> FALSE, splice_immediate |-> FALSE,
                            splice_time |-> <<>>, components |-> <<<<[component_tag |-> 2, splice_time |-> <<<<>>>>]>>>>,
                            break_duration |-> <<>>] @@ Tail0>>],
         <<[tag |-> SEGMENTATION_TAG, data |-> <<0, 0, 0, 1, 255>>]>>)
SignalSec ==
  Header(4095, [type |-> TIME_SIGNAL, splice_time |-> <<<<0, 0, 9>>>>],
         <<[tag |-> TIME_TAG, tai_seconds |-> <<0, 0, 37>>, tai_ns |-> <<0, 500>>, utc_offset |-> 37]>>)
ScheduleSec ==
  Header(4095, [type |-> SPLICE_SCHEDULE,
                events |-> <<[id |-> <<0, 4>>, more |-> <<>>],
                             [id |-> <<0, 5>>,
                              more |-> <<[out_of_network |-> FALSE,
                                          splice |-> [components |-> <<[component_tag |-> 1, utc_splice_time |-> <<0, 5>>]>>],
                                          break_duration |-> <<>>] @@ Tail0>>]>>],
         <<>>)
DtmfSec ==
  Header(4095, [type |-> BANDWIDTH_RESERVATION], <<[tag |-> DTMF_TAG, preroll |-> 10, dtmf_chars |-> <<49, 42>>]>>)
PrivateSec == Header(4095, [type |-> PRIVATE_COMMAND, identifier |-> CUEI, bytes |-> <<1, 2>>], <<>>)

MCScteSections == {NullSec, InsertSec, ComponentSec, SignalSec, ScheduleSec, DtmfSec, PrivateSec}

(* The sections fed to the extractor are values of scte35.h's           *)
(* SpliceInfoSection, fields within the widths its comments give.         *)
ASSUME \A sec \in ScteSections : sec \in SpliceInfoSection

-----------------------------------------------------------------------------
(* The packet the demuxer hands to the processors, in AVCC form.          *)
SourceBytes == FlattenSeq([i \in DOMAIN pkt |-> EmitAvccNalu(pkt[i])])

(* The SCTE-35 packet the demuxer hands to ScteExtractor.                 *)
ScteBytes == (IF pointer THEN <<0>> ELSE <<>>) \o FlattenSeq([i \in DOMAIN scte |-> StdSection(scte[i])])

(* A record of the queue universe, and the window bounds a caller may    *)
(* pass: every pts and one past the last.                                  *)
Records == [input_id : Ids, pts : Times, order : Orders]
Bounds == Times \cup {x + 1 : x \in Times}

(* The SCTE-35 packet with bit `mask` of byte `pos` flipped in transit.   *)
Flipped(bytes, f) == IF f = <<>> THEN bytes ELSE [bytes EXCEPT ![f[1]] = @ ^^ f[2]]

Init ==
  /\ codec \in {"sei", "scte", "queue"}
  /\ pkt = <<>> /\ found = <<>> /\ scte = <<>> /\ pointer = FALSE /\ flip = <<>> /\ q = {}

AddNalu ==
  \E n \in SourceNalus :
    codec = "sei" /\ Len(pkt) < MaxNalus /\ pkt' = Append(pkt, n) /\ UNCHANGED <<codec, found, scte, pointer, flip, q>>

AddFound ==
  \E p \in FoundPayloads :
    codec = "sei" /\ Len(found) < MaxFound /\ found' = Append(found, p) /\ UNCHANGED <<codec, pkt, scte, pointer, flip, q>>

AddSection ==
  \E sec \in ScteSections :
    /\ codec = "scte" /\ flip = <<>> /\ Len(scte) < MaxSections
    /\ scte' = Append(scte, sec)
    /\ UNCHANGED <<codec, pkt, found, pointer, flip, q>>

(* A 00 pointer_field before the first section (ISO 13818-1 2.4.4.2).     *)
AddPointerField ==
  /\ codec = "scte" /\ scte # <<>> /\ ~pointer /\ flip = <<>>
  /\ pointer' = TRUE
  /\ UNCHANGED <<codec, pkt, found, scte, flip, q>>

(* One bit of a one-section packet is damaged on the way: the lowest or   *)
(* the highest bit of any byte.                                           *)
FlipBit ==
  /\ codec = "scte" /\ Len(scte) = 1 /\ flip = <<>>
  /\ \E pos \in 1..Len(ScteBytes), mask \in {1, 128} : flip' = <<pos, mask>>
  /\ UNCHANGED <<codec, pkt, found, scte, pointer, q>>

NextPacket ==
  /\ codec \in {"sei", "scte"}
  /\ pkt' = <<>> /\ found' = <<>> /\ scte' = <<>> /\ pointer' = FALSE /\ flip' = <<>>
  /\ UNCHANGED <<codec, q>>

(* Any call of the queue's public interface, one at a time (each holds    *)
(* the mutex for its whole body).                                          *)
QueueCall ==
  /\ codec = "queue"
  /\ \/ \E m \in Records \ q : Cardinality(q) < MaxLen /\ Push(m)
     \/ \E id \in Ids, since, until \in Bounds : Pop(id, since, until)
     \/ \E id \in Ids, since, until \in Bounds : PopAll(id, since, until)
     \/ \E id \in Ids : DropId(id)
  /\ UNCHANGED <<codec, pkt, found, scte, pointer, flip>>

Next == AddNalu \/ AddFound \/ AddSection \/ AddPointerField \/ FlipBit \/ NextPacket \/ QueueCall

Spec == Init /\ [][Next]_vars

-----------------------------------------------------------------------------
IsVideo(n) == NaluTypeOf(n) # SEI

(* The injector processes a packet only with a non-empty found list: the   *)
(* query falls back to the empty-padding payload.                          *)
Injected == InjectSei(SourceBytes, found)

(***************************************************************************)
(* SeiInjector::process keeps the video: whenever it rewrites the packet,  *)
(* the valid non-SEI NALUs of the output are those of the input, in the   *)
(* same order.  Where the rewrite splits the NALU list (the leading        *)
(* parameter sets, the optional first SEI, the rest) is where a slip       *)
(* would drop or repeat a slice.                                           *)
(***************************************************************************)
RewriteKeepsVideo ==
  found # <<>> /\ Injected.res = "ok" =>
    SelectSeq(Injected.nalus, IsVideo) = SelectSeq(SelectSeq(pkt, IsValidNalu), IsVideo)

(***************************************************************************)
(* No NALU the injector writes contains a start-code prefix 00 00 00,      *)
(* 00 00 01 or 00 00 02 (H.264 7.4.1): copy_to_ebsp_impl escapes every    *)
(* payload, and the varint and stop-bit bytes between payloads must not    *)
(* complete a prefix either.                                               *)
(***************************************************************************)
NoStartCodeEmulation ==
  found # <<>> /\ Injected.res = "ok" =>
    \A j \in DOMAIN Injected.nalus :
      LET n == Injected.nalus[j]
      IN  \A i \in 1..(Len(n) - 2) : ~(n[i] = 0 /\ n[i + 1] = 0 /\ n[i + 2] <= 2)

(***************************************************************************)
(* SeiExtractor::process reads every caption of a conformant source:      *)
(* for a packet of conformant NALUs the payloads it pushes are exactly the *)
(* USER_DATA_REGISTERED payloads of its SEI NALUs, in stream order.  This *)
(* runs AVCC splitting, copy_ebsp_to_sodb (stop-bit trim and 03 removal)   *)
(* and the SEI parser loop against the reference encoder.                  *)
(***************************************************************************)
ExtractorReadsConformantSource ==
  (\A i \in DOMAIN pkt : pkt[i] \in {AudNalu, SpsNalu, IdrNalu} \cup StdSeiNalus) =>
    LET sourceSeis(n) == CHOOSE l \in {<<PicTiming>>, <<SrcCaption>>, <<PicTiming, SrcCaption>>} :
                           StdSeiNalu(l) = n
        seiNalus == SelectSeq(pkt, LAMBDA n : n \in StdSeiNalus)
    IN  ExtractCc(SourceBytes)
          = [res |-> "ok",
             ccs |-> FlattenSeq([i \in DOMAIN seiNalus |-> Captions(sourceSeis(seiNalus[i]))])]

(***************************************************************************)
(* Spec 4.8 step e and scenario 6: the rewritten SEI NALU carries the kept *)
(* payloads followed by the found ones, so a reader of the output -- here  *)
(* metamix's own extractor -- gets back exactly the captions the injector  *)
(* put in, in order (a conformant source's own captions are stripped).     *)
(***************************************************************************)
InjectedCaptionsReadBack ==
  found # <<>> /\ Injected.res = "ok" =>
    ExtractCc(Injected.pkt) = [res |-> "ok", ccs |-> Captions(found)]

(***************************************************************************)
(* ScteExtractor::process never pushes a section that differs from the    *)
(* one the source sent: for a packet of conformant sections it pushes a   *)
(* prefix of them, each equal to its source, and all of them when it ends  *)
(* without an error.  A section it cannot read may stop the packet, never  *)
(* turn into another.  This runs the pointer_field skip, the section      *)
(* bounds of scte35_parser_next, every command and descriptor parser, the  *)
(* tier/splice_command_length nibble sharing and the CRC check.           *)
(***************************************************************************)
PushesPrefixOf(r, secs) ==
  /\ r.res \in {"ok", "error"}
  /\ IsPrefix(r.sections, secs)
  /\ r.res = "ok" => r.sections = secs

ScteExtractorNoMisread == PushesPrefixOf(ScteExtract(ScteBytes), scte)

(***************************************************************************)
(* Spec 4.3 and 7: the CRC_32 the emitter appends to a section makes the   *)
(* CRC of the whole emitted section zero, which is what the parser checks *)
(* (the CRC-tapped output iterator and write_32 of the register).          *)
(***************************************************************************)
ScteEmittedCrcVerifies == \A i \in DOMAIN scte : Crc32(EmitSection(scte[i])) = <<0, 0>>

(***************************************************************************)
(* A section damaged in transit is never pushed: when one bit of a        *)
(* one-section packet is flipped -- in the pointer field, the header, a    *)
(* length, a reserved bit, the payload or the CRC itself -- ScteExtractor  *)
(* pushes nothing.  The CRC_32 check over [startptr, endptr) at the end of *)
(* scte35_parser_pack (parser.cpp:485-490) is what catches the bytes no    *)
(* other check reads; startptr must skip the pointer field and endptr must *)
(* come from the damaged section_length.                                   *)
(***************************************************************************)
ScteDamageNeverPushed ==
  flip # <<>> => ScteExtract(Flipped(ScteBytes, flip)).sections = <<>>

(***************************************************************************)
(* pop(id, since, until) as spec section 4.5 states it: it returns the    *)
(* earliest record of `id` in [since, until), or nullopt when `id` has    *)
(* none there; afterwards no record earlier than `since` is left, and no   *)
(* record of another input at the popped pts (the collision rule).  What   *)
(* happens to other records of `id` at that pts the spec does not say.     *)
(***************************************************************************)
PopMeetsSpec ==
  \A id \in Ids, since, until \in Bounds :
    LET p == PopImpl(q, id, since, until)
        mine == {r \in q : r.input_id = id /\ since <= r.pts /\ r.pts < until}
    IN  /\ mine = {} => p.val = {}
        /\ mine # {} =>
             \E v \in p.val :
               /\ v = Top(mine)
               /\ \A r \in p.rest : r.pts >= since
               /\ \A r \in p.rest : r.pts = v.pts => r.input_id = id

=============================================================================
