-------------------------------- MODULE Cdr ---------------------------------
(***************************************************************************)
(* abi/src/lib.rs: the little-endian encodings.  A byte has ByteBase       *)
(* values; the widths in bytes are the code's.                             *)
(***************************************************************************)
EXTENDS Integers, Sequences

CONSTANT ByteBase     \* 256

ASSUME ByteAssumption == ByteBase \in Nat \ {0, 1}

\* How many values an integer of that width has
SIZE16 == ByteBase * ByteBase
SIZE32 == SIZE16 * SIZE16
SIZE64 == SIZE32 * SIZE32

Unsigned(size) == 0 .. size - 1
Signed(size) == -(size \div 2) .. (size - 1) \div 2

\* `as` between a signed integer and the unsigned one of its width
AsUnsigned(x, size) == x % size
AsSigned(u, size) == IF 2 * u < size THEN u ELSE u - size

\* to_le_bytes
LeU16(v) == <<v % ByteBase, (v \div ByteBase) % ByteBase>>
LeU32(v) == LeU16(v) \o LeU16(v \div SIZE16)
LeU64(v) == LeU32(v) \o LeU32(v \div SIZE32)

\* from_le_bytes of buf[at ..], whose first index is 0 in Rust
U16At(buf, at) == buf[at + 1] + ByteBase * buf[at + 2]
U32At(buf, at) == U16At(buf, at) + SIZE16 * U16At(buf, at + 2)
U64At(buf, at) == U32At(buf, at) + SIZE32 * U32At(buf, at + 4)
I16At(buf, at) == AsSigned(U16At(buf, at), SIZE16)
I32At(buf, at) == AsSigned(U32At(buf, at), SIZE32)

-----------------------------------------------------------------------------
(* CdrSerializer<N>: what does not fit is not written, and the next value   *)
(* may still be.                                                            *)

NewCdr(n) == [cap |-> n, bytes |-> <<>>]

Write(s, b) ==
  IF Len(s.bytes) + Len(b) > s.cap THEN s ELSE [s EXCEPT !.bytes = @ \o b]

WriteU32(s, v) == Write(s, LeU32(v))
WriteU64(s, v) == Write(s, LeU64(v))

\* A plausible bug: the sign is lost on the way.
WriteI32_Magnitude(s, v) == WriteU32(s, IF v < 0 THEN -v ELSE v)

WriteI32(s, v) == WriteU32(s, AsUnsigned(v, SIZE32))
WriteI16(s, v) == Write(s, LeU16(AsUnsigned(v, SIZE16)))

-----------------------------------------------------------------------------
(* Telemetry packets.  The fields of ImuTelemetry that no producer fills    *)
(* are the sequence `rest` of its three last ones.                          *)

ImuSize == 36
OdomSize == 20

ImuToCdr(p) ==
  LET s == WriteI32(WriteI32(WriteU32(WriteU64(WriteU32(NewCdr(ImuSize),
             p.sequence), p.timestamp_us), p.loop_time_us),
             p.pitch_millideg), p.roll_millideg)
  IN WriteI32(WriteI32(WriteI32(s, p.rest[1]), p.rest[2]), p.rest[3]).bytes

NoPacket == [kind |-> "none"]

ImuFromCdr(b) ==
  IF Len(b) < ImuSize THEN NoPacket
  ELSE [kind           |-> "Imu",
        sequence       |-> U32At(b, 0),
        timestamp_us   |-> U64At(b, 4),
        loop_time_us   |-> U32At(b, 12),
        pitch_millideg |-> I32At(b, 16),
        roll_millideg  |-> I32At(b, 20),
        rest           |-> [i \in 1 .. 3 |-> I32At(b, 20 + 4 * i)]]

OdomToCdr(p) ==
  WriteI16(WriteI16(WriteU32(WriteU64(WriteU32(NewCdr(OdomSize),
    p.sequence), p.timestamp_us), p.loop_time_us),
    p.left_speed), p.right_speed).bytes

OdomFromCdr(b) ==
  IF Len(b) < OdomSize THEN NoPacket
  ELSE [kind         |-> "Odometry",
        sequence     |-> U32At(b, 0),
        timestamp_us |-> U64At(b, 4),
        loop_time_us |-> U32At(b, 12),
        left_speed   |-> I16At(b, 16),
        right_speed  |-> I16At(b, 18)]

\* TelemetryPacket::serialize and deserialize: the discriminant comes first.
TYPE_IMU == "EMIT_IMU_TELEMETRY"
TYPE_ODOMETRY == "EMIT_ODOM_TELEMETRY"

Serialize(p) ==
  IF p.kind = "Imu" THEN <<TYPE_IMU>> \o ImuToCdr(p)
  ELSE <<TYPE_ODOMETRY>> \o OdomToCdr(p)

Deserialize(b) ==
  CASE b # <<>> /\ b[1] = TYPE_IMU      -> ImuFromCdr(Tail(b))
    [] b # <<>> /\ b[1] = TYPE_ODOMETRY -> OdomFromCdr(Tail(b))
    [] OTHER -> NoPacket

-----------------------------------------------------------------------------
(* InferenceResult::to_bytes, whose three i32 are never negative, and the   *)
(* fields as their reader parses them                                       *)

ResultToBytes(r) ==
  LeU32(IF r.active THEN 1 ELSE 0) \o LeU32(r.top_class) \o LeU32(r.confidence_pct)

ResultFromBytes(b) ==
  [active         |-> I32At(b, 0) # 0,
   top_class      |-> I32At(b, 4),
   confidence_pct |-> I32At(b, 8)]
=============================================================================
