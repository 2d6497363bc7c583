-------------------------------- MODULE Wire --------------------------------
(***************************************************************************)
(* A telemetry packet from its producer to whoever hears the broadcast.    *)
(*                                                                         *)
(*   Core 1     a packet of each kind every TELEMETRY_DECIMATION ticks     *)
(*   the guest  a packet when it is told to, with flow control: it skips   *)
(*              one when the queue is nearly full                          *)
(*   radio      packets -> frames, broadcast in the clear                  *)
(*   the PC     decodes a frame by the command id in its header, which     *)
(*              does not say who made the packet (external)                *)
(*   a peer     another SandOS board: handle_frame checks the header, and  *)
(*              takes what passes for a command of the same id             *)
(*                                                                         *)
(* The firmware's linker registers none of the three functions the guest's *)
(* packets need; the guest's steps are those of wasm-apps against the      *)
(* host's own methods, as the linker of host-tests wires them.             *)
(***************************************************************************)
EXTENDS Cdr

CONSTANTS
  Readings,                \* (pitch, roll) pairs of i32
  Speeds,                  \* (left, right) pairs of i16
  Times,                   \* timestamps
  Capacity,                \* TELEMETRY_TX_CAPACITY
  TELEMETRY_QUEUE_HIGH_WATER_MARK,
  SeqBound,                \* bound: sequence numbers wrap here (2^32)
  MaxCore1Pushes           \* pushes of Core 1 while the guest builds a packet

\* The guest's handler takes less than two telemetry periods, in which Core 1
\* pushes 4 packets: the 4 slots the high-water mark leaves free.
ASSUME WireAssumption ==
  /\ Readings \subseteq Signed(SIZE32) \X Signed(SIZE32)
  /\ Speeds \subseteq Signed(SIZE16) \X Signed(SIZE16)
  /\ Times \subseteq Unsigned(SIZE64)
  /\ {Capacity, TELEMETRY_QUEUE_HIGH_WATER_MARK, SeqBound} \subseteq Nat \ {0}
  /\ SeqBound <= SIZE32 /\ MaxCore1Pushes \in Nat
  /\ TELEMETRY_QUEUE_HIGH_WATER_MARK + MaxCore1Pushes <= Capacity

Kind == {"Imu", "Odometry"}
Source == {"core1", "guest"}

VARIABLES
  queue,      \* TELEMETRY_TX_CHANNEL: [packet, before]; the last is history: how
              \* many watched ones were dropped at a full queue just before it
  seq,        \* seq[source][kind]: next sequence number; every source counts
              \* the packets of a kind on its own
  core1,      \* what Core 1 pushes next: it sends both kinds in turn
  guest,      \* the guest's packet between its queue check and its push, or
              \* NoPacket
  waited,     \* pushes of Core 1 since that check
  refused,    \* the guest's last push got ERR_BUSY
  frame,      \* the frame on air, or <<>>
  onAir,      \* history: the queue entry it was made of
  watched,    \* history: the kind the next four are about
  mixed,      \* history: the guest has built a packet of that kind
  heard,      \* the last sequence number the PC got
  dropped,    \* history: packets dropped since the last one queued
  lost,       \* history: packets lost on the way since the last one heard
  peerCmds    \* commands a peer took from the frame on air

producers == <<seq, core1, guest, waited, refused, dropped, watched, mixed>>
radio == <<frame, onAir, heard, lost, peerCmds>>
wireVars == <<queue, producers, radio>>

NoEntry == [packet |-> NoPacket, before |-> 0]

WireInit ==
  /\ queue = <<>> /\ seq = [s \in Source |-> [k \in Kind |-> 0]] /\ core1 = "Imu"
  /\ guest = NoPacket /\ waited = 0 /\ refused = FALSE
  /\ frame = <<>> /\ onAir = NoEntry
  /\ watched \in Kind /\ mixed = FALSE
  /\ heard = SeqBound - 1 /\ dropped = 0 /\ lost = 0
  /\ peerCmds = {}

\* wrapping_add(1)
NextSeq(s, k) == [seq EXCEPT ![s][k] = (@ + 1) % SeqBound]

Watched(p) == p.kind = watched

-----------------------------------------------------------------------------
(* Producers *)

NOMINAL_LOOP_TIME_US == 2

Imu(n, t, r) ==
  [kind |-> "Imu", sequence |-> n, timestamp_us |-> t,
   loop_time_us |-> NOMINAL_LOOP_TIME_US,
   pitch_millideg |-> r[1], roll_millideg |-> r[2], rest |-> <<0, 0, 0>>]
Odom(n, t, r) ==
  [kind |-> "Odometry", sequence |-> n, timestamp_us |-> t,
   loop_time_us |-> NOMINAL_LOOP_TIME_US,
   left_speed |-> r[1], right_speed |-> r[2]]

Full == Len(queue) >= Capacity

\* push_telemetry
PushTelemetry(p) ==
  IF Full
  THEN /\ dropped' = IF Watched(p) THEN (dropped + 1) % SeqBound ELSE dropped
       /\ UNCHANGED queue
  ELSE /\ queue' = Append(queue, [packet |-> p,
                                 before |-> IF Watched(p) THEN dropped ELSE 0])
       /\ dropped' = IF Watched(p) THEN 0 ELSE dropped

\* A plausible bug: a packet that is dropped gives its number to the next one.
Core1Counts_WhenPushed(k) ==
  seq' = IF Full THEN seq ELSE NextSeq("core1", k)

\* The number is used up whether push_telemetry drops the packet or not.
Core1Counts(k) == seq' = NextSeq("core1", k)

Core1Packets ==
  LET n == seq["core1"][core1]
  IN IF core1 = "Imu" THEN {Imu(n, t, r) : t \in Times, r \in Readings}
     ELSE {Odom(n, t, s) : t \in Times, s \in Speeds}

Core1Push ==
  /\ guest # NoPacket => waited < MaxCore1Pushes
  /\ \E p \in Core1Packets : PushTelemetry(p)
  /\ Core1Counts(core1)
  /\ core1' = IF core1 = "Imu" THEN "Odometry" ELSE "Imu"
  /\ waited' = IF guest # NoPacket THEN waited + 1 ELSE 0
  /\ UNCHANGED <<guest, refused, watched, mixed, radio>>

\* write_u32_le and its siblings over a zeroed buffer: the stub fields stay 0.
GuestImu(n, t, r) ==
  LeU32(n) \o LeU64(t) \o LeU32(NOMINAL_LOOP_TIME_US)
    \o LeU32(AsUnsigned(r[1], SIZE32)) \o LeU32(AsUnsigned(r[2], SIZE32))
    \o [i \in 1 .. 12 |-> 0]
GuestOdom(n, t) ==
  LeU32(n) \o LeU64(t) \o LeU32(NOMINAL_LOOP_TIME_US) \o [i \in 1 .. 4 |-> 0]

\* A plausible bug: the mark itself still lets a packet through.
FlowControl_AtMark == Len(queue) <= TELEMETRY_QUEUE_HIGH_WATER_MARK

FlowControl == Len(queue) < TELEMETRY_QUEUE_HIGH_WATER_MARK

\* emit_imu_telemetry_handler and emit_odom_telemetry_handler up to their host
\* call: the queue is looked at, and only then a number taken.
GuestBuilds(k) ==
  /\ guest = NoPacket /\ FlowControl
  /\ \E t \in Times, r \in Readings :
       guest' = IF k = "Imu" THEN ImuFromCdr(GuestImu(seq["guest"][k], t, r))
                ELSE OdomFromCdr(GuestOdom(seq["guest"][k], t))
  /\ seq' = NextSeq("guest", k)
  /\ mixed' = (mixed \/ k = watched)
  /\ waited' = 0
  /\ UNCHANGED <<queue, core1, refused, dropped, watched, radio>>

\* AbiHost::emit_imu_telemetry and emit_odom_telemetry push what they decode.
GuestEmits ==
  /\ guest # NoPacket
  /\ PushTelemetry(guest)
  /\ refused' = Full
  /\ guest' = NoPacket /\ waited' = 0
  /\ UNCHANGED <<seq, core1, watched, mixed, radio>>

-----------------------------------------------------------------------------
(* Radio *)

\* A plausible bug: the header declares the bytes that follow it.
TelemetryFrame_TrueLength(b) ==
  [cmd |-> b[1], len |-> Len(b) - 1, payload |-> Tail(b)]

\* send_telemetry_packet: the discriminant moves into the header, and the
\* length in the header still counts it.
TelemetryFrame(b) == [cmd |-> b[1], len |-> Len(b), payload |-> Tail(b)]

BeaconFrame == [cmd |-> "HEARTBEAT", len |-> 0, payload |-> <<>>]

\* The checks of handle_frame that a frame with the magic bytes can fail.
Accepted(f) == f.len <= Len(f.payload)

Broadcast(f) ==
  /\ frame' = <<f>>
  /\ peerCmds' = IF Accepted(f) THEN {f.cmd} ELSE {}

SendTelemetry ==
  /\ frame = <<>> /\ queue # <<>>
  /\ Broadcast(TelemetryFrame(Serialize(Head(queue).packet)))
  /\ onAir' = Head(queue) /\ queue' = Tail(queue)
  /\ UNCHANGED <<producers, heard, lost>>

SendBeacon ==
  /\ frame = <<>>
  /\ Broadcast(BeaconFrame)
  /\ UNCHANGED <<queue, producers, onAir, heard, lost>>

\* What the PC makes of a frame: the id in the header says how to decode it.
PcDecodes(f) == Deserialize(<<f.cmd>> \o f.payload)

OffAir == frame' = <<>> /\ peerCmds' = {} /\ onAir' = NoEntry

Received ==
  /\ frame # <<>>
  /\ LET p == PcDecodes(frame[1])
     IN IF p # NoPacket /\ Watched(p)
        THEN heard' = p.sequence /\ lost' = 0
        ELSE UNCHANGED <<heard, lost>>
  /\ OffAir
  /\ UNCHANGED <<queue, producers>>

LostOnAir ==
  /\ frame # <<>>
  /\ lost' = IF Watched(onAir.packet)
             THEN (lost + onAir.before + 1) % SeqBound ELSE lost
  /\ OffAir
  /\ UNCHANGED <<queue, producers, heard>>

Radio == SendTelemetry \/ SendBeacon \/ Received \/ LostOnAir

WireNext == Core1Push \/ (\E k \in Kind : GuestBuilds(k)) \/ GuestEmits \/ Radio

WireSpec == WireInit /\ [][WireNext]_wireVars

-----------------------------------------------------------------------------
(* Properties *)

\* What the PC decodes from a frame is the packet that was queued, field by
\* field, signs included, although the discriminant has moved and the length
\* in the header is one too many.
RoundTrip ==
  onAir # NoEntry => PcDecodes(frame[1]) = onAir.packet

\* A telemetry broadcast never becomes a command of a board that hears it,
\* although its id is that of the command that makes a guest send telemetry:
\* two boards do not answer each other forever.
PeersIgnoreTelemetry == peerCmds \subseteq {"HEARTBEAT"}

\* The gap before the number received is what the full queue refused and the
\* radio lost of the watched kind since the last one.
GapIsLoss == (heard' - heard - 1) % SeqBound = (lost + onAir.before) % SeqBound

\* While Core 1 alone sends packets of a kind, as in the firmware, whose linker
\* gives the guest no way to, the PC can count its losses: a gap in the numbers
\* it gets of the kind is exactly what was dropped or lost of it.  Once the guest sends the
\* kind too there are two series under one id, against abi/src/lib.rs:434 and 518
\* ("monotonically incrementing"), and no frame says which it continues.
GapsAreLosses ==
  [][Received /\ Watched(onAir.packet) /\ ~mixed => GapIsLoss]_wireVars

\* Flow control works: the guest looked at the queue some time before it
\* pushes, yet the push is never refused, whatever Core 1 pushed in between.
GuestIsNeverRefused == ~refused
=============================================================================
