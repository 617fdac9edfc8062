---------------------------------- MODULE Wire ----------------------------------
(***************************************************************************)
(* The two datagram formats: audio packets (common/src/packet.rs) and      *)
(* receiver status (common/src/status.rs).  Both are a magic number and a  *)
(* list of little-endian fields; the writer and the reader of a format     *)
(* each have a list of their own.                                          *)
(*                                                                         *)
(* A byte has Byte values; with 256 the operators below are the code's,    *)
(* and TLC's integers need fewer.  A float field is its 32-bit pattern.    *)
(***************************************************************************)
EXTENDS Integers, Sequences

CONSTANT Byte

\* The constants of the two formats fit their fields.
ASSUME ByteAssumption == Byte \in Nat /\ Byte >= 15

-----------------------------------------------------------------------------
(* write_u16 ... read_u64: unsigned integers, the lower half first. *)

Byte2 == Byte * Byte
Byte4 == Byte2 * Byte2

WriteU16(v) == <<v % Byte, (v \div Byte) % Byte>>
WriteU32(v) == WriteU16(v % Byte2) \o WriteU16(v \div Byte2)
WriteU64(v) == WriteU32(v % Byte4) \o WriteU32(v \div Byte4)

ReadU16(bytes, at) == bytes[at + 1] + bytes[at + 2] * Byte
ReadU32(bytes, at) == ReadU16(bytes, at) + ReadU16(bytes, at + 2) * Byte2
ReadU64(bytes, at) == ReadU32(bytes, at) + ReadU32(bytes, at + 4) * Byte4

\* i16 samples are stored in two's complement.
WriteInt16(x) == WriteU16(x % Byte2)
ReadInt16(bytes, at) ==
  LET u == ReadU16(bytes, at)
  IN IF u < Byte2 \div 2 THEN u ELSE u - Byte2

\* A format's fields in order, each <<name, width>>; the cursor moves over them.
Cursor(fields) ==
  LET after[i \in 0 .. Len(fields)] ==
        IF i = 0 THEN 0 ELSE after[i - 1] + fields[i][2]
  IN after

WriteUint(v, width) ==
  CASE width = 2 -> WriteU16(v) [] width = 4 -> WriteU32(v) [] width = 8 -> WriteU64(v)
ReadUint(bytes, at, width) ==
  CASE width = 2 -> ReadU16(bytes, at) [] width = 4 -> ReadU32(bytes, at)
    [] width = 8 -> ReadU64(bytes, at)

Names(fields) == {fields[i][1] : i \in 1 .. Len(fields)}

\* What the types u16, u32, u64 and i16 of the fields and the samples hold.
Fits(v, width) ==
  LET half == CASE width = 2 -> Byte [] width = 4 -> Byte2 [] width = 8 -> Byte4
  IN v \in Nat /\ v \div half < half
FieldsFit(fields, r) == \A i \in 1 .. Len(fields) : Fits(r[fields[i][1]], fields[i][2])
Int16 == Byte2 \div 2 - Byte2 .. Byte2 \div 2 - 1

\* Byte j belongs to the field the cursor is in.
WriteFields(fields, r) ==
  LET at == Cursor(fields) IN
  [j \in 1 .. at[Len(fields)] |->
     LET i == CHOOSE i \in 1 .. Len(fields) : at[i - 1] < j /\ j <= at[i]
     IN WriteUint(r[fields[i][1]], fields[i][2])[j - at[i - 1]]]

\* The cursor of from_bytes starts behind the magic number.
ReadFields(fields, bytes) ==
  LET at == Cursor(fields) IN
  [name \in Names(fields) |->
     LET i == CHOOSE i \in 1 .. Len(fields) : fields[i][1] = name
     IN ReadUint(bytes, 4 + at[i - 1], fields[i][2])]

\* The Result of from_bytes.
Err == [ok |-> FALSE]
Ok(value) == [ok |-> TRUE, value |-> value]

Letters(codes) == [i \in 1 .. Len(codes) |-> codes[i] % Byte]

-----------------------------------------------------------------------------
(* Audio packets. *)

MAGIC == Letters(<<87, 50, 77, 65>>)      \* W2MA
VERSION == 1
HEADER_SIZE == 52
SAMPLE_RATE == 48000
CHANNELS == 2
SAMPLE_FORMAT_S16LE == 1

\* AudioPacketHeader::new
Header(stream_id, sequence, frames, sample_position, send_time_ns) ==
  [version |-> VERSION, header_size |-> HEADER_SIZE, stream_id |-> stream_id,
   sequence |-> sequence, flags |-> 0, sample_rate |-> SAMPLE_RATE,
   channels |-> CHANNELS, sample_format |-> SAMPLE_FORMAT_S16LE,
   frames |-> frames, reserved |-> 0, sample_position |-> sample_position,
   send_time_ns |-> send_time_ns]

\* The order of write_packet_header,
HeaderWritten ==
  <<<<"version", 2>>, <<"header_size", 2>>, <<"stream_id", 8>>, <<"sequence", 4>>,
    <<"flags", 4>>, <<"sample_rate", 4>>, <<"channels", 2>>,
    <<"sample_format", 2>>, <<"frames", 2>>, <<"reserved", 2>>,
    <<"sample_position", 8>>, <<"send_time_ns", 8>>>>

\* and the order of from_bytes.
HeaderRead ==
  <<<<"version", 2>>, <<"header_size", 2>>, <<"stream_id", 8>>, <<"sequence", 4>>,
    <<"flags", 4>>, <<"sample_rate", 4>>, <<"channels", 2>>,
    <<"sample_format", 2>>, <<"frames", 2>>, <<"reserved", 2>>,
    <<"sample_position", 8>>, <<"send_time_ns", 8>>>>

\* write_stereo_f32_packet_bytes, for samples already converted to i16.
PacketBytes(header, payload) ==
  MAGIC \o WriteFields(HeaderWritten, header)
        \o [j \in 1 .. 2 * Len(payload) |-> WriteInt16(payload[(j + 1) \div 2])[2 - (j % 2)]]

\* AudioPacket::from_bytes
BugAnyPayload(header, bytes) == TRUE
PayloadFits(header, bytes) ==
  Len(bytes) - HEADER_SIZE = header.frames * header.channels * 2

PacketFromBytes(bytes) ==
  IF Len(bytes) < HEADER_SIZE THEN Err
  ELSE LET header == ReadFields(HeaderRead, bytes) IN
       IF /\ SubSeq(bytes, 1, 4) = MAGIC
          /\ header.version = VERSION /\ header.header_size = HEADER_SIZE
          /\ header.sample_rate = SAMPLE_RATE /\ header.channels = CHANNELS
          /\ header.sample_format = SAMPLE_FORMAT_S16LE
          /\ PayloadFits(header, bytes)
         THEN Ok([header  |-> header,
                  payload |-> [i \in 1 .. (Len(bytes) - HEADER_SIZE) \div 2 |->
                                 ReadInt16(bytes, HEADER_SIZE + 2 * (i - 1))]])
         ELSE Err

-----------------------------------------------------------------------------
(* Receiver status. *)

STATUS_MAGIC == Letters(<<87, 50, 77, 83>>)      \* W2MS
STATUS_VERSION == 3
STATUS_SIZE == 168

\* The order of to_bytes,
StatusWritten ==
  <<<<"stream_id", 8>>, <<"latest_sequence", 4>>, <<"target_ms", 4>>,
    <<"output_sample_rate", 4>>, <<"reserved", 4>>, <<"target_frames", 8>>,
    <<"fixed_delay_frames", 8>>, <<"received_packets", 8>>,
    <<"steady_underruns", 8>>, <<"startup_underruns", 8>>,
    <<"callback_lock_misses", 8>>, <<"resyncs", 8>>, <<"scratch_overflows", 8>>,
    <<"ring_underruns", 8>>, <<"ring_missing_frames", 8>>,
    <<"packet_queue_drops", 8>>, <<"audio_latency_frames", 8>>,
    <<"output_queue_frames", 8>>, <<"total_buffered_frames", 8>>,
    <<"audio_latency_ms", 4>>, <<"output_queue_ms", 4>>,
    <<"total_buffered_ms", 4>>, <<"effective_ratio", 4>>,
    <<"receiver_time_ns", 8>>>>

\* and the order of from_bytes, which skips over the reserved word.
BugNoReserved == SelectSeq(StatusWritten, LAMBDA f : f[1] # "reserved")
StatusRead ==
  <<<<"stream_id", 8>>, <<"latest_sequence", 4>>, <<"target_ms", 4>>,
    <<"output_sample_rate", 4>>, <<"reserved", 4>>, <<"target_frames", 8>>,
    <<"fixed_delay_frames", 8>>, <<"received_packets", 8>>,
    <<"steady_underruns", 8>>, <<"startup_underruns", 8>>,
    <<"callback_lock_misses", 8>>, <<"resyncs", 8>>, <<"scratch_overflows", 8>>,
    <<"ring_underruns", 8>>, <<"ring_missing_frames", 8>>,
    <<"packet_queue_drops", 8>>, <<"audio_latency_frames", 8>>,
    <<"output_queue_frames", 8>>, <<"total_buffered_frames", 8>>,
    <<"audio_latency_ms", 4>>, <<"output_queue_ms", 4>>,
    <<"total_buffered_ms", 4>>, <<"effective_ratio", 4>>,
    <<"receiver_time_ns", 8>>>>

Padded(status) ==
  [f \in DOMAIN status \cup {"reserved"} |-> IF f = "reserved" THEN 0 ELSE status[f]]

StatusBytes(status) ==
  STATUS_MAGIC \o WriteU16(STATUS_VERSION) \o WriteU16(STATUS_SIZE)
               \o WriteFields(StatusWritten, Padded(status))

StatusFromBytes(bytes) ==
  IF Len(bytes) < STATUS_SIZE THEN Err
  ELSE IF /\ SubSeq(bytes, 1, 4) = STATUS_MAGIC
          /\ ReadU16(bytes, 4) = STATUS_VERSION
          /\ ReadU16(bytes, 6) = STATUS_SIZE
         THEN LET fields == ReadFields(StatusRead, SubSeq(bytes, 5, Len(bytes)))
              IN Ok([f \in DOMAIN fields \ {"reserved"} |-> fields[f]])
         ELSE Err
=============================================================================
