----------------------------- MODULE Mp4Samples ------------------------------
(***************************************************************************)
(* The bytes of video between the encoder, packets.dat and the MP4: the    *)
(* NAL units the encoder session finds in a packet and the decoder         *)
(* configuration it makes of them (InspectMfHardwareH264Bitstream,         *)
(* BuildMfHardwareH264AvccExtradata), the record the packet becomes in the *)
(* file (PacketStore), and the sample the muxer makes of it again          *)
(* (ReadPacketPayload, ConvertAnnexBToLengthPrefixedSample).               *)
(*                                                                         *)
(* What is kept beside the file is which NAL units were written; a unit    *)
(* never ends in a zero byte nor has two zeros followed by 0, 1 or 2 in    *)
(* it, which H.264 sees to.  Lengths take one number instead of two or     *)
(* four bytes.                                                             *)
(***************************************************************************)
EXTENDS Integers, Sequences, SequencesExt, FiniteSetsExt

CONSTANTS
  HeaderSize,    \* bytes of a packet's header in the file
  NalUnits,      \* units the encoder may emit
  StartCodes,    \* what it puts before one: zeros and a one
  MaxUnits       \* bound: units in the file

ASSUME SamplesAssumption ==
  /\ HeaderSize \in Nat /\ MaxUnits \in Nat
  /\ \A c \in StartCodes : \E zeros \in {2, 3} :
       c = [i \in 1..(zeros + 1) |-> IF i > zeros THEN 1 ELSE 0]

VARIABLES
  packet,       \* the packet the encoder is writing
  units,        \* its units
  file,         \* packets.dat
  entries,      \* the index of it
  written       \* units of each entry

sampleVars == <<packet, units, file, entries, written>>

SamplesInit ==
  packet = <<>> /\ units = <<>> /\ file = <<>> /\ entries = <<>> /\ written = <<>>

UnitCount == Len(units) + FoldLeft(LAMBDA n, w : n + Len(w), 0, written)

EncoderWritesUnit ==
  /\ UnitCount < MaxUnits
  /\ \E unit \in NalUnits, code \in StartCodes :
       packet' = packet \o code \o unit /\ units' = Append(units, unit)
  /\ UNCHANGED <<file, entries, written>>

\* Zeros may follow the last unit.
StorePacket ==
  /\ packet # <<>>
  /\ \E rest \in {<<>>, <<0>>} :
       LET payload == packet \o rest
       IN /\ file' = file \o [i \in 1..HeaderSize |-> 255] \o payload
          /\ entries' = Append(entries, [offset |-> Len(file),
                                         size |-> HeaderSize + Len(payload),
                                         payload |-> Len(payload)])
  /\ written' = Append(written, units)
  /\ packet' = <<>> /\ units' = <<>>

SamplesNext == EncoderWritesUnit \/ StorePacket

-----------------------------------------------------------------------------
(* Both scans, with the same two operators.                                *)

HasAt(data, offset, code) ==
  offset + Len(code) - 1 <= Len(data) /\ SubSeq(data, offset, offset + Len(code) - 1) = code

\* Mutant: only the short start code is known.
ShortStartCodeOnly(data, offset) == IF HasAt(data, offset, <<0, 0, 1>>) THEN 3 ELSE 0

AnnexBStartCodeLength(data, offset) ==
  CASE HasAt(data, offset, <<0, 0, 1>>) -> 3
    [] HasAt(data, offset, <<0, 0, 0, 1>>) -> 4
    [] OTHER -> 0

FindNextAnnexBStartCode(data, offset) ==
  Min({Len(data) + 1} \cup {o \in offset..Len(data) : AnnexBStartCodeLength(data, o) # 0})

\* The encoder session: anything before a start code is passed over, a
\* start code at the end is no unit, the first of each kind is kept.
NoConfig == [sps |-> <<>>, pps |-> <<>>, idr |-> 0, count |-> 0]

InspectMfHardwareH264Bitstream(data) ==
  LET scan[offset \in 1..(Len(data) + 1)] ==
        LET at == FindNextAnnexBStartCode(data, offset)
            header == at + AnnexBStartCodeLength(data, at)
            next == FindNextAnnexBStartCode(data, header + 1)
            unit == SubSeq(data, header, next - 1)
            rest == scan[next]
            type == data[header] % 32
        IN IF at > Len(data) \/ header > Len(data) THEN NoConfig
           ELSE [sps |-> IF type = 7 THEN unit ELSE rest.sps,
                 pps |-> IF type = 8 THEN unit ELSE rest.pps,
                 idr |-> rest.idr + (IF type = 5 THEN 1 ELSE 0),
                 count |-> rest.count + 1]
  IN scan[1]

BuildMfHardwareH264AvccExtradata(config) ==
  IF Len(config.sps) < 4 \/ config.pps = <<>> THEN <<>>
  ELSE <<1>> \o SubSeq(config.sps, 2, 4) \o <<255, 225, Len(config.sps)>> \o config.sps
       \o <<1, Len(config.pps)>> \o config.pps

ReadPacketPayload(entry) ==
  LET header == entry.size - entry.payload
  IN SubSeq(file, entry.offset + header + 1, entry.offset + header + entry.payload)

\* The muxer: a payload with anything outside its units is refused, zeros
\* before the first and after each of them apart.
NoSample == <<-1>>
UnitEnd(data, first, next) ==
  Max({first - 1} \cup {i \in first..(next - 1) : data[i] # 0})

ConvertAnnexBToLengthPrefixedSample(data) ==
  LET scan[offset \in 1..(Len(data) + 1), sample \in BOOLEAN] ==
        LET length == AnnexBStartCodeLength(data, offset)
            first == offset + length
            next == FindNextAnnexBStartCode(data, first + 1)
            last == UnitEnd(data, first, next)
            rest == scan[next, TRUE]
        IN CASE offset > Len(data) -> IF sample THEN <<>> ELSE NoSample
             [] offset <= Len(data) /\ length = 0 ->
                  IF ~sample /\ data[offset] = 0 THEN scan[offset + 1, FALSE] ELSE NoSample
             [] offset <= Len(data) /\ length > 0 ->
                  IF first > Len(data) \/ last < first \/ rest = NoSample THEN NoSample
                  ELSE <<last - first + 1>> \o SubSeq(data, first, last) \o rest
  IN scan[1, FALSE]

-----------------------------------------------------------------------------
(* Properties.                                                             *)

FirstOfType(list, type) ==
  LET own == SelectSeq(list, LAMBDA u : u[1] % 32 = type)
  IN IF own = <<>> THEN <<>> ELSE Head(own)

\* A parameter set is found as it was written, but for zeros that follow
\* the last unit of a packet.
FoundAs(found, unit, list) ==
  \/ found = unit
  \/ unit = Last(list) /\ IsPrefix(unit, found) /\ \A i \in (Len(unit) + 1)..Len(found) : found[i] = 0

\* A reader of the decoder configuration, as its format is defined.
AvccSps(avcc) == SubSeq(avcc, 8, 7 + avcc[7])
AvccPps(avcc) == SubSeq(avcc, 10 + avcc[7], 9 + avcc[7] + avcc[9 + avcc[7]])

\* Whatever start codes and trailing zeros the encoder uses and wherever
\* in the file a packet begins, the muxer's sample is exactly the units
\* that were encoded, each under its length, and the encoder session, with
\* a scan of its own, counts the same units and makes the decoder
\* configuration of the first SPS and PPS among them: both scans would
\* have to be wrong in the same way to lose a unit unnoticed
\* (Mp4Muxer.cpp:166, MfHardwareH264EncoderSession.cpp:863).
SamplesKeepUnits ==
  \A k \in DOMAIN entries :
    LET payload == ReadPacketPayload(entries[k])
        found == InspectMfHardwareH264Bitstream(payload)
        avcc == BuildMfHardwareH264AvccExtradata(found)
        sps == FirstOfType(written[k], 7)
        pps == FirstOfType(written[k], 8)
    IN /\ ConvertAnnexBToLengthPrefixedSample(payload) =
            FlattenSeq([i \in DOMAIN written[k] |-> <<Len(written[k][i])>> \o written[k][i]])
       /\ found.count = Len(written[k])
       /\ found.idr = Cardinality({i \in DOMAIN written[k] : written[k][i][1] % 32 = 5})
       /\ FoundAs(found.sps, sps, written[k]) /\ FoundAs(found.pps, pps, written[k])
       /\ (avcc # <<>>) = (Len(found.sps) >= 4 /\ found.pps # <<>>)
       /\ avcc # <<>> => AvccSps(avcc) = found.sps /\ AvccPps(avcc) = found.pps
=============================================================================
