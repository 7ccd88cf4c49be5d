------------------------------ MODULE SeiCodec ------------------------------
(***************************************************************************)
(* The H.264 side of the data plane as operators over byte sequences:     *)
(* AVCC framing (h264/nalu_parser.cpp, h264/emitter.h), emulation         *)
(* prevention (h264/rbsp.h), SEI message parsing and emission             *)
(* (h264/sei_parser.*, h264/emitter.h), the injector's rewrite of one      *)
(* access unit (SeiInjector::process, strip_cc) and the extractor's scan   *)
(* of one (SeiExtractor::process).                                         *)
(*                                                                         *)
(* A byte is an integer in 0..255, a NALU or a packet a sequence of bytes, *)
(* an SEI payload a record [type, data].  A C++ exception is a result      *)
(* whose `res` names it: "error" for BinaryParseError, "thrown" for the    *)
(* std::runtime_error of a missing stop bit, "overrun" for a read past the *)
(* end of the buffer (undefined behaviour, see SeiParserNext).  Asserts    *)
(* are taken as compiled out (NDEBUG).                                     *)
(***************************************************************************)
EXTENDS Integers, Sequences, SequencesExt

(* NaluType values of nalu.h and SeiType::USER_DATA_REGISTERED.           *)
IDR == 5
SEI == 6
SPS == 7
PPS == 8
AUD == 9
USER_DATA_REGISTERED == 4
StopBit == 128

(* Nalu::MAX_LENGTH, nalu.h:71.                                            *)
MAX_LENGTH == 4 * 1024 * 2014

NaluTypeOf(n) == n[1] % 32

(* Nalu::is_valid: non-empty and the forbidden_zero_bit clear.             *)
IsValidNalu(n) == n # <<>> /\ n[1] < 128

-----------------------------------------------------------------------------
(* rbsp.h.  Both loops look at the two INPUT bytes before position i.     *)

IsEpb(s, i) == i > 2 /\ s[i - 2] = 0 /\ s[i - 1] = 0 /\ s[i] = 3

(* Mutant: the encoder tests the decoder's condition (= 3, not <= 3).     *)
NeedsEpbExact(s, i) == i > 2 /\ s[i - 2] = 0 /\ s[i - 1] = 0 /\ s[i] = 3

NeedsEpb(s, i) == i > 2 /\ s[i - 2] = 0 /\ s[i - 1] = 0 /\ s[i] <= 3

RECURSIVE TrimZeros(_)
TrimZeros(s) == IF s # <<>> /\ Last(s) = 0 THEN TrimZeros(Front(s)) ELSE s

Unescape(s) ==
  FoldLeftDomain(LAMBDA out, i : IF IsEpb(s, i) THEN out ELSE Append(out, s[i]),
                 <<>>, s)

(* Mutant: the stop bit is checked but left in the output.               *)
DecodeBodyKeepStop(s, dropStopBit, body) ==
  CASE s = <<>> -> [res |-> "ok", out |-> <<>>]
    [] dropStopBit /\ Last(body) # StopBit -> [res |-> "thrown"]
    [] OTHER -> [res |-> "ok", out |-> Unescape(body)]

(* copy_from_ebsp_impl<DropStopBit> after the zero trim: the last byte     *)
(* must be the stop bit, which is dropped before unescaping.               *)
DecodeBody(s, dropStopBit, body) ==
  CASE s = <<>> -> [res |-> "ok", out |-> <<>>]
    [] dropStopBit /\ Last(body) # StopBit -> [res |-> "thrown"]
    [] OTHER -> [res |-> "ok",
                 out |-> Unescape(IF dropStopBit THEN Front(body) ELSE body)]

(* copy_from_ebsp_impl<DropStopBit>.  Callers pass SEI NALUs, whose       *)
(* header byte is not zero, so the zero-trimming loop never runs off the   *)
(* front of the buffer.                                                    *)
CopyFromEbsp(s, dropStopBit) ==
  DecodeBody(s, dropStopBit, IF dropStopBit THEN TrimZeros(s) ELSE s)

(* copy_to_ebsp_impl<AddStopBit>: an empty input yields nothing, not even *)
(* the stop bit.                                                           *)
CopyToEbsp(s, addStopBit) ==
  IF s = <<>> THEN <<>>
  ELSE FoldLeftDomain(LAMBDA out, i : out \o (IF NeedsEpb(s, i) THEN <<3, s[i]>>
                                                             ELSE <<s[i]>>),
                      <<>>, s)
       \o (IF addStopBit THEN <<StopBit>> ELSE <<>>)

(* count_emulation_prevention_bytes: the 00 00 03 triples already there.  *)
CountEpb(s) == Cardinality({i \in DOMAIN s : IsEpb(s, i)})

-----------------------------------------------------------------------------
(* emitter.h                                                               *)

VarIntSize(num) == num \div 255 + 1

(* emit_variadic_length_int: each 0xFF written divides num by 255.        *)
RECURSIVE EmitVarInt(_)
EmitVarInt(num) ==
  IF num >= 255 THEN <<255>> \o EmitVarInt(num \div 255) ELSE <<num % 255>>

(* emit_nalu_length with NaluLengthSize = 4: big-endian uint32.           *)
EmitNaluLength(len) ==
  <<(len \div 16777216) % 256, (len \div 65536) % 256, (len \div 256) % 256, len % 256>>

SizeHint(p) ==
  Len(p.data) + CountEpb(p.data) + 1 + VarIntSize(Len(p.data)) + VarIntSize(p.type)

EmitSeiPayload(p) ==
  EmitVarInt(p.type) \o EmitVarInt(Len(p.data)) \o CopyToEbsp(p.data, TRUE)

(* emit_sei_payloads_to_avcc_nalu: length prefix, header byte, payloads.  *)
EmitSeiNalu(seis) ==
  EmitNaluLength(FoldLeft(LAMBDA n, p : n + SizeHint(p), 1, seis))
  \o <<SEI>> \o FlattenSeq([i \in DOMAIN seis |-> EmitSeiPayload(seis[i])])

EmitAvccNalu(n) == EmitNaluLength(Len(n)) \o n

-----------------------------------------------------------------------------
(* sei_parser.cpp, sei_parser.h and BinaryParser::next over an SODB.       *)

(* parse_variadic_length_int from index i.  The first byte is read without *)
(* a bound check: when i is past the end the read is out of bounds.       *)
RECURSIVE ParseVarInt(_, _, _)
ParseVarInt(s, i, x) ==
  CASE i > Len(s)                  -> [res |-> "overrun"]
    [] s[i] = 255 /\ i = Len(s)    -> [res |-> "error"]
    [] s[i] = 255                  -> ParseVarInt(s, i + 1, x + 255)
    [] OTHER                       -> [res |-> "ok", val |-> x + s[i], next |-> i + 1]

(* sei_parser_pack: the payload of size z.val after the type t.val.  The  *)
(* size check compares against endptr - startptr, which an overrun of the  *)
(* size field makes -1, i.e. UINT_MAX after the cast: the overrun then     *)
(* goes unreported.                                                        *)
SeiParserPack(s, t, z) ==
  CASE z.res # "ok"                 -> z
    [] z.val > Len(s) + 1 - z.next  -> [res |-> "error"]
    [] OTHER -> [res  |-> "ok",
                 sei  |-> [type |-> t.val, data |-> SubSeq(s, z.next, z.next + z.val - 1)],
                 next |-> z.next + z.val]

SeiParserSize(s, t) ==
  IF t.res # "ok" THEN t ELSE SeiParserPack(s, t, ParseVarInt(s, t.next, 0))

(* sei_parser_next from index i: the type, then the size, then the pack.  *)
SeiParserNext(s, i) == SeiParserSize(s, ParseVarInt(s, i, 0))

(* The parser loop: next() while has_next(), from index i.  On an error   *)
(* `seis` holds the payloads the loop had already handed out.             *)
ConsSei(x, more) == [res |-> more.res, seis |-> <<x>> \o more.seis]

RECURSIVE ParseSeiFrom(_, _), ParseSeiAt(_, _)
ParseSeiFrom(s, i) ==
  IF i > Len(s) THEN [res |-> "ok", seis |-> <<>>] ELSE ParseSeiAt(s, SeiParserNext(s, i))

ParseSeiAt(s, n) ==
  IF n.res # "ok" THEN [res |-> n.res, seis |-> <<>>] ELSE ConsSei(n.sei, ParseSeiFrom(s, n.next))

(* copy_ebsp_to_sodb of the whole NALU, then SeiParser past the header.   *)
ParseSodb(sodb) ==
  IF sodb.res # "ok" THEN [res |-> sodb.res, seis |-> <<>>] ELSE ParseSeiFrom(sodb.out, 2)

ParseSeiNalu(nalu) == ParseSodb(CopyFromEbsp(nalu, TRUE))

-----------------------------------------------------------------------------
(* nalu_parser.cpp and the NALU collection loop of the processors.        *)

ParseNaluLength(b) == ((b[1] * 256 + b[2]) * 256 + b[3]) * 256 + b[4]

(* next_avcc_bounds with a 4-byte length: the checks on the length read   *)
(* at index i when `left` bytes remain.                                    *)
AvccNalu(s, i, left, len) ==
  CASE len = 0                  -> [res |-> "error"]
    [] len > MAX_LENGTH         -> [res |-> "error"]
    [] 4 + len > left           -> [res |-> "error"]
    [] OTHER -> [res |-> "ok", nalu |-> SubSeq(s, i + 4, i + 3 + len), next |-> i + 4 + len]

AvccBounds(s, i, left) ==
  IF left < 4 THEN [res |-> "error"] ELSE AvccNalu(s, i, left, ParseNaluLength(SubSeq(s, i, i + 3)))

NextAvccBounds(s, i) == AvccBounds(s, i, Len(s) + 1 - i)

(* The NALUs before a framing error are handed out before it is thrown.   *)
ConsNalu(x, more) == [res |-> more.res, nalus |-> <<x>> \o more.nalus]

RECURSIVE SplitAvccFrom(_, _), SplitAvccAt(_, _)
SplitAvccFrom(s, i) ==
  IF i > Len(s) THEN [res |-> "ok", nalus |-> <<>>] ELSE SplitAvccAt(s, NextAvccBounds(s, i))

SplitAvccAt(s, n) ==
  IF n.res # "ok" THEN [res |-> n.res, nalus |-> <<>>] ELSE ConsNalu(n.nalu, SplitAvccFrom(s, n.next))

(* The injector's collection loop: invalid NALUs are skipped.             *)
ValidOnly(r) == [res |-> r.res, nalus |-> SelectSeq(r.nalus, IsValidNalu)]

SplitAvcc(pkt) == ValidOnly(SplitAvccFrom(pkt, 1))

-----------------------------------------------------------------------------
(* proc/injector.cpp and proc/extractor.cpp                                *)

(* SeiInjector::strip_cc: parse the SEI NALU, keep the payloads that are  *)
(* not USER_DATA_REGISTERED.                                               *)
KeepNonCc(p) ==
  IF p.res # "ok" THEN p
  ELSE [res |-> "ok", seis |-> SelectSeq(p.seis, LAMBDA x : x.type # USER_DATA_REGISTERED)]

StripCc(nalu) == KeepNonCc(ParseSeiNalu(nalu))

(* Where the pass-through of the remaining NALUs starts: past the first   *)
(* SEI NALU when there is one to strip.  Mutant: always one past k.        *)
RestStartAlwaysSkip(k, hasSei) == k + 1

RestStart(k, hasSei) == IF hasSei THEN k + 1 ELSE k

IsParamNalu(n) == NaluTypeOf(n) \in {AUD, SPS, PPS}

(* The index of the first NALU that is not AUD/SPS/PPS, or one past the   *)
(* end, and whether an SEI NALU stands there.                              *)
FirstMediaNalu(nalus) ==
  IF \A i \in DOMAIN nalus : IsParamNalu(nalus[i]) THEN Len(nalus) + 1
  ELSE SelectInSeq(nalus, LAMBDA n : ~IsParamNalu(n))

HasSeiAt(nalus, k) == k <= Len(nalus) /\ NaluTypeOf(nalus[k]) = SEI

(* The rewritten packet: the leading NALUs, the new SEI NALU (emitted with *)
(* its length prefix), the rest.  `nalus` lists the output NALUs.          *)
Rewrite(lead, seiNalu, rest) ==
  [res   |-> "ok",
   nalus |-> lead \o <<SubSeq(seiNalu, 5, Len(seiNalu))>> \o rest,
   pkt   |-> FlattenSeq([i \in DOMAIN lead |-> EmitAvccNalu(lead[i])])
             \o seiNalu
             \o FlattenSeq([i \in DOMAIN rest |-> EmitAvccNalu(rest[i])])]

(* After strip_cc: a BinaryParseError leaves the packet as it was, the     *)
(* runtime_error of a missing stop bit leaves process() altogether.        *)
InjectKept(pkt, found, nalus, k, kept) ==
  CASE kept.res = "error" -> [res |-> "error", pkt |-> pkt]
    [] kept.res # "ok"    -> [res |-> kept.res]
    [] OTHER -> Rewrite(SubSeq(nalus, 1, k - 1),
                        EmitSeiNalu(kept.seis \o found),
                        SubSeq(nalus, RestStart(k, HasSeiAt(nalus, k)), Len(nalus)))

InjectAt(pkt, found, nalus, k) ==
  InjectKept(pkt, found, nalus, k,
             IF HasSeiAt(nalus, k) THEN StripCc(nalus[k]) ELSE [res |-> "ok", seis |-> <<>>])

InjectSplit(pkt, found, split) ==
  IF split.res # "ok" THEN [res |-> "error", pkt |-> pkt]
  ELSE InjectAt(pkt, found, split.nalus, FirstMediaNalu(split.nalus))

(***************************************************************************)
(* The try block of SeiInjector::process: split the packet, pass the      *)
(* leading AUD/SPS/PPS through, strip the first SEI NALU if it comes next, *)
(* emit one SEI NALU with the kept payloads followed by `found`, then the  *)
(* remaining NALUs.                                                        *)
(***************************************************************************)
InjectSei(pkt, found) == InjectSplit(pkt, found, SplitAvcc(pkt))

(***************************************************************************)
(* SeiExtractor::process: every valid SEI NALU of the packet is parsed and *)
(* each USER_DATA_REGISTERED payload pushed, in order.  A BinaryParseError *)
(* is caught after the pushes made so far; a runtime_error escapes.        *)
(* `ccs` is the sequence of payloads pushed.                               *)
(***************************************************************************)
Captions(seis) == SelectSeq(seis, LAMBDA x : x.type = USER_DATA_REGISTERED)

RECURSIVE ExtractFrom(_, _), ExtractSei(_, _, _)
ExtractFrom(nalus, ccs) ==
  CASE nalus = <<>> -> [res |-> "ok", ccs |-> ccs]
    [] ~IsValidNalu(Head(nalus)) \/ NaluTypeOf(Head(nalus)) # SEI -> ExtractFrom(Tail(nalus), ccs)
    [] OTHER -> ExtractSei(Tail(nalus), ccs, ParseSeiNalu(Head(nalus)))

ExtractSei(rest, ccs, p) ==
  IF p.res = "ok" THEN ExtractFrom(rest, ccs \o Captions(p.seis))
  ELSE [res |-> p.res, ccs |-> ccs \o Captions(p.seis)]

(* A framing error ends the NALU loop after the NALUs before it.          *)
MergeResult(r, e) == IF e.res = "ok" THEN [res |-> r.res, ccs |-> e.ccs] ELSE e

ExtractAll(r) == MergeResult(r, ExtractFrom(r.nalus, <<>>))

ExtractCc(pkt) == ExtractAll(SplitAvccFrom(pkt, 1))

=============================================================================
