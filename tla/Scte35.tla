------------------------------- MODULE Scte35 -------------------------------
(***************************************************************************)
(* The SCTE-35 splice_info_section codec of scte35/: the parser the       *)
(* ScteExtractor runs on every SCTE-35 packet (parser.cpp, driven by the   *)
(* BinaryParser loop of binary_parser.h), the emitter of emitter.h, and    *)
(* the byte readers and writers of binary_parser_util.h and                *)
(* binary_emitter_util.h they are built from.                              *)
(*                                                                         *)
(* Every reader returns a result record: res "ok" with the value and the   *)
(* index after it, "error" for a BinaryParseError, "thrown" for another    *)
(* exception (which ScteExtractor::process does not catch) and "overrun"   *)
(* for a read past the packet (undefined behaviour).  Indices are 1-based *)
(* and an end index e is exclusive, like the code's endptr.  Integers of   *)
(* 32 bits and more are kept as sequences of 16-bit digits (a 33-bit value *)
(* as <<bit 32, high 16, low 16>>), so no arithmetic leaves TLC's range.   *)
(* Asserts are taken as compiled out (NDEBUG).                             *)
(*                                                                         *)
(* The order in which C++ evaluates the arguments of a call is            *)
(* unspecified; ArgOrder is the order the build uses (the one call where   *)
(* it matters is in parse_time_descriptor).                                *)
(***************************************************************************)
EXTENDS Integers, Sequences, SequencesExt, Bitwise

CONSTANT ArgOrder

ASSUME ArgOrder \in {"left_to_right", "right_to_left"}

(* Constants of scte35.h and parser.cpp.                                   *)
TABLE_ID == 252
MIN_SIS_LENGTH == 20
CUEI == <<17237, 17737>>           \* 0x43554549, the descriptors' identifier
SPLICE_NULL == 0
SPLICE_SCHEDULE == 4
SPLICE_INSERT == 5
TIME_SIGNAL == 6
BANDWIDTH_RESERVATION == 7
PRIVATE_COMMAND == 255
AVAIL_TAG == 0
DTMF_TAG == 1
SEGMENTATION_TAG == 2
TIME_TAG == 3
AVAIL_LENGTH == 8
TIME_LENGTH == 16

-----------------------------------------------------------------------------
(* scte35.h: the records the parser builds.  A std::optional is <<>> or   *)
(* <<x>>, a std::vector a sequence, a std::variant the union of its        *)
(* alternatives, told apart by their type or tag.  uint32_t is two 16-bit *)
(* digits; a UTS field holds the 33 bits read_33 reads, and tai_seconds    *)
(* the 48 bits of read_48.                                                 *)
OptionalOf(S) == {<<>>} \cup [1..1 -> S]
Uint8 == 0..255
Uint16 == 0..65535
Uint32 == Uint16 \X Uint16
Uint48 == Uint16 \X Uint16 \X Uint16
Pts33 == {0, 1} \X Uint16 \X Uint16

SpliceTime == OptionalOf(Pts33)
BreakDuration == [auto_return : BOOLEAN, duration : Pts33]
SpliceNull == [type : {SPLICE_NULL}]
ProgramSpliceOn == [utc_splice_time : Uint32]
ProgramSpliceOff == [components : Seq([component_tag : Uint8, utc_splice_time : Uint32])]
ScheduleCancelOffRecord ==
  [out_of_network : BOOLEAN, splice : ProgramSpliceOn \cup ProgramSpliceOff,
   break_duration : OptionalOf(BreakDuration),
   unique_program_id : Uint16, avail_num : Uint8, avails_expected : Uint8]
SpliceSchedule ==
  [type : {SPLICE_SCHEDULE}, events : Seq([id : Uint32, more : OptionalOf(ScheduleCancelOffRecord)])]
InsertComponent == [component_tag : Uint8, splice_time : OptionalOf(SpliceTime)]
InsertCancelOffRecord ==
  [out_of_network : BOOLEAN, program_splice : BOOLEAN, splice_immediate : BOOLEAN,
   splice_time : OptionalOf(SpliceTime), components : OptionalOf(Seq(InsertComponent)),
   break_duration : OptionalOf(BreakDuration),
   unique_program_id : Uint16, avail_num : Uint8, avails_expected : Uint8]
SpliceInsert == [type : {SPLICE_INSERT}, id : Uint32, more : OptionalOf(InsertCancelOffRecord)]
TimeSignal == [type : {TIME_SIGNAL}, splice_time : SpliceTime]
BandwidthReservation == [type : {BANDWIDTH_RESERVATION}]
PrivateCommand == [type : {PRIVATE_COMMAND}, identifier : Uint32, bytes : Seq(Uint8)]

AvailDescriptor == [tag : {AVAIL_TAG}, provider_avail_id : Uint32]
DtmfDescriptor == [tag : {DTMF_TAG}, preroll : Uint8, dtmf_chars : Seq(Uint8)]
SegmentationDescriptor == [tag : {SEGMENTATION_TAG}, data : Seq(Uint8)]
TimeDescriptor == [tag : {TIME_TAG}, tai_seconds : Uint48, tai_ns : Uint32, utc_offset : Uint16]

(* The fields of the section header keep the widths its comments give:    *)
(* a 6-bit encryption_algorithm, a 12-bit tier.                            *)
SpliceInfoSection ==
  [encrypted_packet : BOOLEAN, encryption_algorithm : 0..63, pts_adjustment : Pts33,
   cw_index : Uint8, tier : 0..4095,
   command : SpliceNull \cup SpliceSchedule \cup SpliceInsert \cup TimeSignal
               \cup BandwidthReservation \cup PrivateCommand,
   descriptors : Seq(AvailDescriptor \cup DtmfDescriptor \cup SegmentationDescriptor \cup TimeDescriptor)]

-----------------------------------------------------------------------------
(* Result records and their sequencing.                                    *)

Ok(v, n) == [res |-> "ok", val |-> v, next |-> n]
Fail(r) == [res |-> r, val |-> <<>>, next |-> 0]
Then(r, F(_)) == IF r.res = "ok" THEN F(r) ELSE r

(* The bit of a one-bit mask, as scan_flag reads it.                       *)
Bit(b, mask) == (b \div mask) % 2 = 1

-----------------------------------------------------------------------------
(* binary_parser_util.h: every reader first requires its width before e.   *)

Read8(s, i, e) == IF i + 1 <= e THEN Ok(s[i], i + 1) ELSE Fail("error")
Read12Low(s, i, e) == IF i + 2 <= e THEN Ok((s[i] % 16) * 256 + s[i + 1], i + 2) ELSE Fail("error")
Scan12High(s, i, e) == IF i + 2 <= e THEN Ok(s[i] * 16 + s[i + 1] \div 16, i) ELSE Fail("error")
Read16(s, i, e) == IF i + 2 <= e THEN Ok(s[i] * 256 + s[i + 1], i + 2) ELSE Fail("error")
Read32(s, i, e) ==
  IF i + 4 <= e THEN Ok(<<s[i] * 256 + s[i + 1], s[i + 2] * 256 + s[i + 3]>>, i + 4) ELSE Fail("error")
Read33NoMask(s, i, e) ==
  IF i + 5 <= e THEN Ok(<<s[i], s[i + 1] * 256 + s[i + 2], s[i + 3] * 256 + s[i + 4]>>, i + 5)
  ELSE Fail("error")
Read33(s, i, e) ==
  IF i + 5 <= e THEN Ok(<<s[i] % 2, s[i + 1] * 256 + s[i + 2], s[i + 3] * 256 + s[i + 4]>>, i + 5)
  ELSE Fail("error")
Read48(s, i, e) ==
  IF i + 6 <= e
  THEN Ok(<<s[i] * 256 + s[i + 1], s[i + 2] * 256 + s[i + 3], s[i + 4] * 256 + s[i + 5]>>, i + 6)
  ELSE Fail("error")

-----------------------------------------------------------------------------
(* binary_emitter_util.h.  write_8 takes a uint8_t: wider values are cut.  *)

Write8(v) == <<v % 256>>
Write12Prefix(prefix, v) == <<(prefix % 16) * 16 + ((v \div 256) % 16), v % 256>>
(* write_12_pair as written: `low & 0x0f00 >> 4` is `low & 0xf0`.           *)
Write12Pair(high, low) == <<(high \div 16) % 256, 16 * ((high % 16) | ((low \div 16) % 16)), low % 256>>
Write16(v) == <<(v \div 256) % 256, v % 256>>
Write32LittleEndian(v) == Write8(v[2]) \o Write8(v[2] \div 256) \o Write8(v[1]) \o Write8(v[1] \div 256)
Write32(v) == Write16(v[1]) \o Write16(v[2])
Write33Prefix(prefix, v) == <<((prefix % 256) \div 2) * 2 + v[1]>> \o Write16(v[2]) \o Write16(v[3])
Write48(v) == Write16(v[1]) \o Write16(v[2]) \o Write16(v[3])

-----------------------------------------------------------------------------
(* CRC-32/MPEG-2 (polynomial 0x04C11DB7, initial value 0xFFFFFFFF, no     *)
(* reflection, no final XOR), table driven, the register as 16-bit digits. *)

CrcShift(c) ==
  LET sh == <<((c[1] * 2) % 65536) + c[2] \div 32768, (c[2] * 2) % 65536>>
  IN  IF c[1] >= 32768 THEN <<sh[1] ^^ 1217, sh[2] ^^ 7607>> ELSE sh

RECURSIVE CrcShifts(_, _)
CrcShifts(c, k) == IF k = 0 THEN c ELSE CrcShifts(CrcShift(c), k - 1)

CrcTable == [i \in 0..255 |-> CrcShifts(<<i * 256, 0>>, 8)]

CrcStep(c, t) == <<((c[1] % 256) * 256 + c[2] \div 256) ^^ t[1], ((c[2] % 256) * 256) ^^ t[2]>>

CrcUpdate(c, b) == CrcStep(c, CrcTable[(c[1] \div 256) ^^ b])

(* CRC32::update over a range, byte by byte.  The register is compared   *)
(* before the next byte goes in, so that TLC computes it step by step      *)
(* rather than as one nested chain of updates at the end.                 *)
RECURSIVE CrcOver(_, _, _)
CrcOver(c, bytes, k) == IF k > Len(bytes) \/ c = <<>> THEN c ELSE CrcOver(CrcUpdate(c, bytes[k]), bytes, k + 1)

(* CRC32::compute, from the initial register 0xFFFFFFFF.                   *)
Crc32(bytes) == CrcOver(<<65535, 65535>>, bytes, 1)

-----------------------------------------------------------------------------
(* parser.cpp: splice times, break durations and the splice commands.     *)
(* An optional field is <<>> or <<x>>.                                     *)

ParseSpliceTime(s, i, e) ==
  Then(Read8(s, i, e),
       LAMBDA f : IF Bit(f.val, 128) THEN Then(Read33(s, i, e), LAMBDA t : Ok(<<t.val>>, t.next))
                  ELSE Ok(<<>>, f.next))

ParseBreakDuration(s, i, e) ==
  Then(Read8(s, i, e),
       LAMBDA f : Then(Read33(s, i, e), LAMBDA d : Ok([auto_return |-> Bit(f.val, 128), duration |-> d.val], d.next)))

(* A field present only when its flag is set.                              *)
OptSpliceTime(s, i, e, flag) ==
  IF flag THEN Then(ParseSpliceTime(s, i, e), LAMBDA t : Ok(<<t.val>>, t.next)) ELSE Ok(<<>>, i)
OptBreakDuration(s, i, e, flag) ==
  IF flag THEN Then(ParseBreakDuration(s, i, e), LAMBDA d : Ok(<<d.val>>, d.next)) ELSE Ok(<<>>, i)

(* unique_program_id, avail_num and avails_expected, closing both events. *)
ParseEventTail(s, i, e) ==
  Then(Read16(s, i, e), LAMBDA u : Then(Read8(s, u.next, e), LAMBDA n : Then(Read8(s, n.next, e),
       LAMBDA x : Ok([unique_program_id |-> u.val, avail_num |-> n.val, avails_expected |-> x.val], x.next))))

(* One component of a loop: of a ProgramSpliceOff, or of a SpliceInsert   *)
(* (with its splice time unless splice_immediate_flag is set).            *)
ParseComponent(s, i, e, kind) ==
  Then(Read8(s, i, e),
       LAMBDA t : IF kind = "schedule"
                  THEN Then(Read32(s, t.next, e), LAMBDA u : Ok([component_tag |-> t.val, utc_splice_time |-> u.val], u.next))
                  ELSE Then(OptSpliceTime(s, t.next, e, kind = "insert_timed"),
                            LAMBDA st : Ok([component_tag |-> t.val, splice_time |-> st.val], st.next)))

RECURSIVE ParseComponents(_, _, _, _, _)
ParseComponents(s, i, e, n, kind) ==
  IF n = 0 THEN Ok(<<>>, i)
  ELSE Then(ParseComponent(s, i, e, kind),
            LAMBDA c : Then(ParseComponents(s, c.next, e, n - 1, kind), LAMBDA r : Ok(<<c.val>> \o r.val, r.next)))

(* component_count, which must be at least 1, then the components.         *)
ParseComponentLoop(s, i, e, kind) ==
  Then(Read8(s, i, e),
       LAMBDA n : IF n.val < 1 THEN Fail("error") ELSE ParseComponents(s, n.next, e, n.val, kind))

ParseProgramSplice(s, i, e, programSpliceFlag) ==
  IF programSpliceFlag THEN Then(Read32(s, i, e), LAMBDA u : Ok([utc_splice_time |-> u.val], u.next))
  ELSE Then(ParseComponentLoop(s, i, e, "schedule"), LAMBDA c : Ok([components |-> c.val], c.next))

ScheduleCancelOff(s, i, e, flags) ==
  Then(ParseProgramSplice(s, i, e, Bit(flags, 64)), LAMBDA p :
  Then(OptBreakDuration(s, p.next, e, Bit(flags, 32)), LAMBDA d :
  Then(ParseEventTail(s, d.next, e), LAMBDA t :
       Ok([out_of_network |-> Bit(flags, 128), splice |-> p.val, break_duration |-> d.val] @@ t.val, t.next))))

InsertCancelOff(s, i, e, flags) ==
  LET program == Bit(flags, 64)
      immediate == Bit(flags, 16)
  IN  Then(OptSpliceTime(s, i, e, program /\ ~immediate), LAMBDA t :
      Then(IF program THEN Ok(<<>>, t.next)
           ELSE Then(ParseComponentLoop(s, t.next, e, IF immediate THEN "insert" ELSE "insert_timed"),
                     LAMBDA c : Ok(<<c.val>>, c.next)), LAMBDA c :
      Then(OptBreakDuration(s, c.next, e, Bit(flags, 32)), LAMBDA d :
      Then(ParseEventTail(s, d.next, e), LAMBDA x :
           Ok([out_of_network |-> Bit(flags, 128), program_splice |-> program, splice_immediate |-> immediate,
               splice_time |-> t.val, components |-> c.val, break_duration |-> d.val] @@ x.val, x.next)))))

(* splice_event_id, the cancel indicator, and unless it is set the flags  *)
(* byte and the rest of the event; kind tells a schedule event from an     *)
(* insert.                                                                 *)
ParseEvent(s, i, e, kind) ==
  Then(Read32(s, i, e), LAMBDA id :
  Then(Read8(s, id.next, e), LAMBDA c :
       IF Bit(c.val, 128) THEN Ok([id |-> id.val, more |-> <<>>], c.next)
       ELSE Then(Read8(s, c.next, e), LAMBDA f :
            Then(IF kind = "schedule" THEN ScheduleCancelOff(s, f.next, e, f.val)
                 ELSE InsertCancelOff(s, f.next, e, f.val),
                 LAMBDA m : Ok([id |-> id.val, more |-> <<m.val>>], m.next)))))

RECURSIVE ParseEvents(_, _, _, _)
ParseEvents(s, i, e, n) ==
  IF n = 0 THEN Ok(<<>>, i)
  ELSE Then(ParseEvent(s, i, e, "schedule"),
            LAMBDA v : Then(ParseEvents(s, v.next, e, n - 1), LAMBDA r : Ok(<<v.val>> \o r.val, r.next)))

ParseSpliceSchedule(s, i, e) ==
  Then(Read8(s, i, e), LAMBDA n :
  Then(ParseEvents(s, n.next, e, n.val), LAMBDA v : Ok([type |-> SPLICE_SCHEDULE, events |-> v.val], v.next)))

ParseSpliceInsert(s, i, e) ==
  Then(ParseEvent(s, i, e, "insert"), LAMBDA v : Ok([type |-> SPLICE_INSERT] @@ v.val, v.next))

ParseTimeSignal(s, i, e) ==
  Then(ParseSpliceTime(s, i, e), LAMBDA t : Ok([type |-> TIME_SIGNAL, splice_time |-> t.val], t.next))

(* The private bytes are taken from 4 bytes past the identifier up to      *)
(* splice_command_length bytes past it, and the pointer moves by           *)
(* splice_command_length more; a copy reaching past the packet reads       *)
(* memory the packet does not own.                                         *)
ParsePrivateCommand(s, i, e, len) ==
  IF len <= 4 \/ len >= 4095 THEN Fail("error")
  ELSE Then(Read32(s, i, e),
            LAMBDA id : IF id.next + len - 1 > Len(s) THEN Fail("overrun")
                        ELSE Ok([type |-> PRIVATE_COMMAND, identifier |-> id.val,
                                 bytes |-> SubSeq(s, id.next + 4, id.next + len - 1)], id.next + len))

ParseCommand(s, i, e, type, len) ==
  CASE type = SPLICE_NULL            -> Ok([type |-> SPLICE_NULL], i)
    [] type = SPLICE_SCHEDULE        -> ParseSpliceSchedule(s, i, e)
    [] type = SPLICE_INSERT          -> ParseSpliceInsert(s, i, e)
    [] type = TIME_SIGNAL            -> ParseTimeSignal(s, i, e)
    [] type = BANDWIDTH_RESERVATION  -> Ok([type |-> BANDWIDTH_RESERVATION], i)
    [] type = PRIVATE_COMMAND        -> ParsePrivateCommand(s, i, e, len)
    [] OTHER                         -> Fail("error")

-----------------------------------------------------------------------------
(* parser.cpp: the splice descriptors, read up to the loop's end d.        *)

ParseAvailDescriptor(s, i, d, len, id) ==
  IF len # AVAIL_LENGTH \/ id # CUEI THEN Fail("error")
  ELSE Then(Read32(s, i, d), LAMBDA a : Ok([tag |-> AVAIL_TAG, provider_avail_id |-> a.val], a.next))

(* descriptor_length is checked against 4 + 1 + dtmf_count.               *)
ParseDtmfDescriptor(s, i, d, len, id) ==
  IF id # CUEI THEN Fail("error")
  ELSE Then(Read8(s, i, d), LAMBDA p :
       Then(Read8(s, p.next, d), LAMBDA c :
            LET count == c.val \div 32
            IN  IF len # 4 + 1 + count \/ count > d - c.next THEN Fail("error")
                ELSE Ok([tag |-> DTMF_TAG, preroll |-> p.val, dtmf_chars |-> SubSeq(s, c.next, c.next + count - 1)],
                        c.next + count)))

(* The data runs to descriptor_length - 4 bytes past the identifier; for   *)
(* a descriptor_length below 4 that end lies before the start and the      *)
(* vector constructor throws std::length_error.                           *)
ParseSegmentationDescriptor(s, i, d, len, id) ==
  CASE id # CUEI        -> Fail("error")
    [] i + len - 4 > d  -> Fail("error")
    [] len < 4          -> Fail("thrown")
    [] OTHER            -> Ok([tag |-> SEGMENTATION_TAG, data |-> SubSeq(s, i, i + len - 5)], i + len - 4)

(* TimeDescriptor(read_48(ptr), read_32(ptr), read_16(ptr)): the three    *)
(* reads advance one pointer in the order the build evaluates arguments.  *)
TimeFields(sec, ns, off, n) ==
  Ok([tag |-> TIME_TAG, tai_seconds |-> sec.val, tai_ns |-> ns.val, utc_offset |-> off.val], n)

ParseTimeDescriptor(s, i, d, len, id) ==
  IF len # TIME_LENGTH \/ id # CUEI THEN Fail("error")
  ELSE IF ArgOrder = "left_to_right"
       THEN Then(Read48(s, i, d), LAMBDA a : Then(Read32(s, a.next, d), LAMBDA b :
            Then(Read16(s, b.next, d), LAMBDA c : TimeFields(a, b, c, c.next))))
       ELSE Then(Read16(s, i, d), LAMBDA c : Then(Read32(s, c.next, d), LAMBDA b :
            Then(Read48(s, b.next, d), LAMBDA a : TimeFields(a, b, c, a.next))))

DescriptorBody(s, i, d, tag, len, id) ==
  CASE tag = AVAIL_TAG        -> ParseAvailDescriptor(s, i, d, len, id)
    [] tag = DTMF_TAG         -> ParseDtmfDescriptor(s, i, d, len, id)
    [] tag = SEGMENTATION_TAG -> ParseSegmentationDescriptor(s, i, d, len, id)
    [] tag = TIME_TAG         -> ParseTimeDescriptor(s, i, d, len, id)
    [] OTHER                  -> Fail("error")

ParseDescriptor(s, i, d) ==
  Then(Read8(s, i, d), LAMBDA t :
  Then(Read8(s, t.next, d), LAMBDA l :
       IF l.val > d - l.next THEN Fail("error")
       ELSE Then(Read32(s, l.next, d), LAMBDA id : DescriptorBody(s, id.next, d, t.val, l.val, id.val))))

RECURSIVE ParseDescriptorsFrom(_, _, _)
ParseDescriptorsFrom(s, i, d) ==
  IF i >= d THEN Ok(<<>>, i)
  ELSE Then(ParseDescriptor(s, i, d),
            LAMBDA x : Then(ParseDescriptorsFrom(s, x.next, d), LAMBDA r : Ok(<<x.val>> \o r.val, r.next)))

(* parse_descriptors: the loop's end d must lie before the section's end. *)
ParseDescriptors(s, i, d, e) == IF d < e THEN ParseDescriptorsFrom(s, i, d) ELSE Fail("error")

-----------------------------------------------------------------------------
(* parser.cpp: the section header, scte35_parser_next and                 *)
(* scte35_parser_pack.                                                     *)

(* read_splice_info_section_until_length from i: val is section_length,  *)
(* next the index after it, start the index of table_id (past a 00         *)
(* pointer_field).                                                         *)
UntilLengthAt(i, e, p, len) ==
  IF len >= MIN_SIS_LENGTH - (p + 3 - i) /\ len <= 4093 /\ len <= e - (p + 3)
  THEN Ok(len, p + 3) @@ [start |-> p]
  ELSE Fail("error") @@ [start |-> p]

ReadUntilLength(s, i, e) ==
  IF e - i < MIN_SIS_LENGTH THEN Fail("error") @@ [start |-> i]
  ELSE LET p == IF s[i] = 0 THEN i + 1 ELSE i
       IN  IF s[p] # TABLE_ID \/ Bit(s[p + 1], 128) \/ Bit(s[p + 1], 64) THEN Fail("error") @@ [start |-> p]
           ELSE UntilLengthAt(i, e, p, (s[p + 1] % 16) * 256 + s[p + 2])

(* The bounds of the section at i: from table_id, 3 + section_length      *)
(* bytes; "none" when fewer than MIN_SIS_LENGTH bytes are left.           *)
ScteParserNext(s, i) ==
  IF Len(s) + 1 - i < MIN_SIS_LENGTH THEN Fail("none")
  ELSE Then(ReadUntilLength(s, i, Len(s) + 1), LAMBDA u : Ok([start |-> u.start, length |-> u.next - u.start + u.val], 0))

(* Mutant: the CRC_32 field read but never checked.                        *)
PackDescriptorsNoCrc(s, start, i, e, sec) ==
  Then(Read16(s, i, e), LAMBDA dl :
  Then(IF dl.val = 0 THEN Ok(<<>>, dl.next)
       ELSE IF dl.val < e - dl.next THEN ParseDescriptors(s, dl.next, dl.next + dl.val, e)
       ELSE Fail("error"), LAMBDA ds :
  Then(Read32(s, ds.next, e), LAMBDA crc : Ok(sec @@ [descriptors |-> ds.val], crc.next))))

(* descriptor_loop_length, the descriptors, the CRC_32 field, and the CRC *)
(* over the section from table_id to its end, which must come out zero.   *)
PackDescriptors(s, start, i, e, sec) ==
  Then(Read16(s, i, e), LAMBDA dl :
  Then(IF dl.val = 0 THEN Ok(<<>>, dl.next)
       ELSE IF dl.val < e - dl.next THEN ParseDescriptors(s, dl.next, dl.next + dl.val, e)
       ELSE Fail("error"), LAMBDA ds :
  Then(Read32(s, ds.next, e), LAMBDA crc :
       IF Crc32(SubSeq(s, start, e - 1)) # <<0, 0>> THEN Fail("error")
       ELSE Ok(sec @@ [descriptors |-> ds.val], crc.next))))

(* A splice_command_length of 0xFFF is "unknown" and skips both checks.   *)
PackCommand(s, start, i, e, hdr, type, len) ==
  IF len # 4095 /\ len >= e - i THEN Fail("error")
  ELSE Then(ParseCommand(s, i, e, type, len),
            LAMBDA c : IF len # 4095 /\ c.next - i # len THEN Fail("error")
                       ELSE PackDescriptors(s, start, c.next, e, hdr @@ [command |-> c.val]))

(* scte35_parser_pack, after its own read_splice_info_section_until_length:*)
(* protocol_version, the encryption bits, pts_adjustment, cw_index, tier  *)
(* (scanned from the byte before splice_command_length, whose high nibble *)
(* it shares) and splice_command_type.                                     *)
PackHeader(s, start, i, e) ==
  Then(Read8(s, i, e), LAMBDA v :
  IF v.val # 0 THEN Fail("error") ELSE
  Then(Read8(s, v.next, e), LAMBDA f :
  IF Bit(f.val, 128) THEN Fail("error") ELSE
  Then(Read33(s, v.next, e), LAMBDA pts :
  Then(Read8(s, pts.next, e), LAMBDA cw :
  Then(Scan12High(s, cw.next, e), LAMBDA tier :
  Then(Read8(s, cw.next, e), LAMBDA skip :
  Then(Read12Low(s, skip.next, e), LAMBDA len :
  Then(Read8(s, len.next, e), LAMBDA type :
       PackCommand(s, start, type.next, e,
                   [encrypted_packet |-> FALSE, encryption_algorithm |-> (f.val % 128) \div 2,
                    pts_adjustment |-> pts.val, cw_index |-> cw.val, tier |-> tier.val],
                   type.val, len.val)))))))))

ScteParserPack(s, b) ==
  Then(ReadUntilLength(s, b.start, b.start + b.length),
       LAMBDA u : PackHeader(s, u.start, u.next, b.start + b.length))

-----------------------------------------------------------------------------
(* ScteExtractor::process: while (parser) parser >> section, pushing each *)
(* section as soon as it is packed.  `sections` holds the ones pushed     *)
(* before the loop ended; a BinaryParseError ("error") is caught and      *)
(* logged.  operator>> dereferences next() even when it is empty (fewer   *)
(* than MIN_SIS_LENGTH bytes left): undefined behaviour.                   *)
ConsSection(x, more) == [res |-> more.res, sections |-> <<x>> \o more.sections]

RECURSIVE ScteSectionsFrom(_, _), ScteSectionsAt(_, _), ScteSectionPacked(_, _, _)
ScteSectionsFrom(s, i) ==
  IF i > Len(s) THEN [res |-> "ok", sections |-> <<>>] ELSE ScteSectionsAt(s, ScteParserNext(s, i))

ScteSectionsAt(s, n) ==
  CASE n.res = "none" -> [res |-> "overrun", sections |-> <<>>]
    [] n.res # "ok"   -> [res |-> n.res, sections |-> <<>>]
    [] OTHER          -> ScteSectionPacked(s, n.val, ScteParserPack(s, n.val))

ScteSectionPacked(s, b, p) ==
  IF p.res # "ok" THEN [res |-> p.res, sections |-> <<>>]
  ELSE ConsSection(p.val, ScteSectionsFrom(s, b.start + b.length))

ScteExtract(pkt) == ScteSectionsFrom(pkt, 1)

-----------------------------------------------------------------------------
(* emitter.h: the size hints.                                              *)

SumHints(seq, Hint(_)) == FoldLeft(LAMBDA acc, x : acc + Hint(x), 0, seq)

SpliceTimeHint(t) == IF t = <<>> THEN 1 ELSE 5
OptHint(o, Hint(_)) == IF o = <<>> THEN 0 ELSE Hint(o[1])

(* The CancelOff hint of a schedule event: the std::visit that sizes the  *)
(* program splice is evaluated and its result dropped.                     *)
ScheduleCancelOffHint(m) == 1 + 4 + OptHint(m.break_duration, LAMBDA d : 5)

InsertCancelOffHint(m) ==
  1 + 4 + OptHint(m.splice_time, SpliceTimeHint)
    + OptHint(m.components, LAMBDA cs : 1 + SumHints(cs, LAMBDA c : 1 + OptHint(c.splice_time, SpliceTimeHint)))
    + OptHint(m.break_duration, LAMBDA d : 5)

CommandHint(c) ==
  CASE c.type = SPLICE_SCHEDULE -> 1 + SumHints(c.events, LAMBDA v : 5 + OptHint(v.more, ScheduleCancelOffHint))
    [] c.type = SPLICE_INSERT   -> 5 + OptHint(c.more, InsertCancelOffHint)
    [] c.type = TIME_SIGNAL     -> SpliceTimeHint(c.splice_time)
    [] c.type = PRIVATE_COMMAND -> 4 + Len(c.bytes)
    [] OTHER                    -> 0

DescriptorHint(d) ==
  CASE d.tag = AVAIL_TAG -> 2 + AVAIL_LENGTH
    [] d.tag = DTMF_TAG  -> 8 + Len(d.dtmf_chars)
    [] d.tag = SEGMENTATION_TAG -> 6 + Len(d.data)
    [] d.tag = TIME_TAG  -> 2 + TIME_LENGTH

DescriptorsHint(ds) == SumHints(ds, DescriptorHint)

SectionLength(sec) == 17 + CommandHint(sec.command) + DescriptorsHint(sec.descriptors)

-----------------------------------------------------------------------------
(* emitter.h: emit.                                                        *)

Flag(b, mask) == IF b THEN mask ELSE 0
Opt(o, Emit(_)) == IF o = <<>> THEN <<>> ELSE Emit(o[1])
EmitAll(seq, Emit(_)) == FlattenSeq([k \in DOMAIN seq |-> Emit(seq[k])])

EmitSpliceTime(t) == IF t = <<>> THEN Write8(127) ELSE Write33Prefix(255, t[1])
EmitBreakDuration(d) == Write33Prefix(Flag(d.auto_return, 128), d.duration)
EmitEventTail(m) == Write16(m.unique_program_id) \o Write8(m.avail_num) \o Write8(m.avails_expected)

EmitProgramSplice(p) ==
  IF "utc_splice_time" \in DOMAIN p THEN Write32(p.utc_splice_time)
  ELSE Write8(Len(p.components))
         \o EmitAll(p.components, LAMBDA c : Write8(c.component_tag) \o Write32(c.utc_splice_time))

EmitScheduleCancelOff(m) ==
  Write8(Flag(m.out_of_network, 128) + Flag("utc_splice_time" \in DOMAIN m.splice, 64)
         + Flag(m.break_duration # <<>>, 32) + 31)
    \o EmitProgramSplice(m.splice) \o Opt(m.break_duration, EmitBreakDuration) \o EmitEventTail(m)

EmitInsertCancelOff(m) ==
  Write8(Flag(m.out_of_network, 128) + Flag(m.program_splice, 64) + Flag(m.break_duration # <<>>, 32)
         + Flag(m.splice_immediate, 16) + 15)
    \o Opt(m.splice_time, EmitSpliceTime)
    \o Opt(m.components, LAMBDA cs : Write8(Len(cs))
                                       \o EmitAll(cs, LAMBDA c : Write8(c.component_tag) \o Opt(c.splice_time, EmitSpliceTime)))
    \o Opt(m.break_duration, EmitBreakDuration) \o EmitEventTail(m)

(* An event: its id, then 0x7F and the rest, or 0xFF when cancelled.       *)
EmitScheduleEvent(v) ==
  Write32(v.id) \o IF v.more = <<>> THEN Write8(255) ELSE Write8(127) \o EmitScheduleCancelOff(v.more[1])

EmitSpliceInsert(c) ==
  Write32(c.id) \o IF c.more = <<>> THEN Write8(255) ELSE Write8(127) \o EmitInsertCancelOff(c.more[1])

EmitCommand(c) ==
  CASE c.type = SPLICE_SCHEDULE -> Write8(Len(c.events)) \o EmitAll(c.events, EmitScheduleEvent)
    [] c.type = SPLICE_INSERT   -> EmitSpliceInsert(c)
    [] c.type = TIME_SIGNAL     -> EmitSpliceTime(c.splice_time)
    [] c.type = PRIVATE_COMMAND -> Write32(c.identifier) \o c.bytes
    [] OTHER                    -> <<>>

EmitDescriptor(d) ==
  Write8(d.tag) \o Write8(DescriptorHint(d) - 2) \o Write32(CUEI)
    \o CASE d.tag = AVAIL_TAG -> Write32(d.provider_avail_id)
         [] d.tag = DTMF_TAG  -> Write8(d.preroll) \o Write8(Len(d.dtmf_chars) * 32) \o d.dtmf_chars
         [] d.tag = SEGMENTATION_TAG -> d.data
         [] d.tag = TIME_TAG  -> Write48(d.tai_seconds) \o Write32(d.tai_ns) \o Write16(d.utc_offset)

(* The bytes before CRC_32; section_syntax_indicator and private_indicator *)
(* are 0, so the 12-bit prefix is 0b0011.                                   *)
EmitSectionBody(sec) ==
  Write8(TABLE_ID) \o Write12Prefix(3, SectionLength(sec)) \o Write8(0)
    \o Write33Prefix(Flag(sec.encrypted_packet, 128) + ((sec.encryption_algorithm * 2) % 128), sec.pts_adjustment)
    \o Write8(sec.cw_index) \o Write12Pair(sec.tier, CommandHint(sec.command))
    \o Write8(sec.command.type) \o EmitCommand(sec.command)
    \o Write16(DescriptorsHint(sec.descriptors)) \o EmitAll(sec.descriptors, EmitDescriptor)

(* The CRC-tapped output iterator: the CRC of every byte written so far,  *)
(* appended big-endian.                                                    *)
EmitWithCrc(body) == body \o Write32(Crc32(body))

EmitSection(sec) == EmitWithCrc(EmitSectionBody(sec))

====
