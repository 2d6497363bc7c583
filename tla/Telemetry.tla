----------------------------- MODULE Telemetry ------------------------------
(***************************************************************************)
(* The telemetry path: Core 1 pushes an IMU and an odometry packet per     *)
(* period (core1/mod.rs step 6, telemetry.rs); espnow_rx_task on Core 0    *)
(* drains a few packets per turn of its loop, and its loop turns only when *)
(* a frame arrives or the beacon is due (espnow.rs:118-147).               *)
(*                                                                         *)
(* One unit of time is a telemetry period: TELEMETRY_DECIMATION ticks of   *)
(* Core 1, 10 ms.  A packet is its age in periods.  Core 0 is cooperative: *)
(* whenever the radio task awaits a transmission, a frame or the deadline, *)
(* the guest may hold the core before the task is polled again.            *)
(* AbiHost has pushes too, but the linker registers none of them, so the   *)
(* guest cannot call them.                                                 *)
(***************************************************************************)
EXTENDS Integers, Sequences

CONSTANTS
  Capacity,    \* TELEMETRY_TX_CAPACITY
  MaxDrain,    \* MAX_TELEMETRY_DRAIN_PER_ITER
  Beacon,      \* BEACON_INTERVAL_MS, in periods
  MaxBusy,     \* periods the guest holds Core 0 at a time; 0: it never does
  MaxFrames    \* bound: frames the antenna hears in a period

ASSUME TelemetryAssumption ==
  /\ {Capacity, MaxDrain, Beacon, MaxFrames} \subseteq Nat \ {0}
  /\ MaxBusy \in Nat /\ MaxDrain * MaxBusy <= Beacon

VARIABLES
  queue,       \* TELEMETRY_TX_CHANNEL
  toPush,      \* packets Core 1 has still to push in this period
  radio,       \* where espnow_rx_task is
  quota,       \* try_receive calls left in this turn
  beacon,      \* periods until beacon_deadline
  rx,          \* frames buffered by the driver
  heard,       \* frames heard in this period
  busy,        \* periods the guest has held the core, or Free
  yielded      \* the radio task has awaited since the guest ran last

radioVars == <<radio, quota, beacon>>
airVars == <<rx, heard>>
guestVars == <<busy, yielded>>
telemetryVars == <<queue, toPush, radioVars, airVars, guestVars>>

Free == -1

TelemetryInit ==
  /\ queue = <<>> /\ toPush = 2
  /\ radio = "drain" /\ quota = MaxDrain /\ beacon = Beacon
  /\ rx = 0 /\ heard = 0 /\ busy = Free /\ yielded = TRUE

-----------------------------------------------------------------------------
(* Core 1 *)

\* try_send, the result ignored by the caller: a full queue drops the packet.
PushTelemetry ==
  IF Len(queue) < Capacity
  THEN queue' = Append(queue, 0)
  ELSE UNCHANGED queue

\* Step 6 of the loop, one packet at a time: Core 0 may drain in between.
Push ==
  /\ toPush > 0 /\ toPush' = toPush - 1
  /\ PushTelemetry
  /\ UNCHANGED <<radioVars, airVars, guestVars>>

-----------------------------------------------------------------------------
(* espnow_rx_task *)

\* A plausible bug: one packet per turn.
Turn_One == radio' = "drain" /\ quota' = 1

\* The next turn of the loop, from its first try_receive.
Turn == radio' = "drain" /\ quota' = MaxDrain

\* try_receive is Ok: the packet is sent, and the task awaits that.
Drain ==
  /\ busy = Free /\ radio = "drain" /\ quota > 0 /\ queue # <<>>
  /\ queue' = Tail(queue) /\ quota' = quota - 1
  /\ yielded' = TRUE
  /\ UNCHANGED <<toPush, radio, beacon, airVars, busy>>

\* The quota is used up or try_receive is Err: wait for a frame or the deadline.
DrainEnds ==
  /\ busy = Free /\ radio = "drain"
  /\ quota = 0 \/ queue = <<>>
  /\ radio' = "wait"
  /\ yielded' = (yielded \/ (rx = 0 /\ beacon > 0))
  /\ UNCHANGED <<queue, toPush, quota, beacon, airVars, busy>>

\* A plausible bug: every turn waits a full beacon interval from its start.
Frame_RestartsInterval ==
  /\ busy = Free /\ radio = "wait" /\ rx > 0
  /\ rx' = rx - 1 /\ beacon' = Beacon
  /\ Turn
  /\ UNCHANGED <<queue, toPush, heard, guestVars>>

\* A frame wins over an expired deadline: with_timeout polls it first.
Frame ==
  /\ busy = Free /\ radio = "wait" /\ rx > 0
  /\ rx' = rx - 1
  /\ Turn
  /\ UNCHANGED <<queue, toPush, beacon, heard, guestVars>>

\* The deadline has passed: the beacon is sent, and the task awaits that.
SendBeacon ==
  /\ busy = Free /\ radio = "wait" /\ rx = 0 /\ beacon = 0
  /\ radio' = "beacon"
  /\ yielded' = TRUE
  /\ UNCHANGED <<queue, toPush, quota, beacon, airVars, busy>>

BeaconSent ==
  /\ busy = Free /\ radio = "beacon"
  /\ beacon' = Beacon
  /\ Turn
  /\ UNCHANGED <<queue, toPush, airVars, guestVars>>

-----------------------------------------------------------------------------
(* The air, the guest and time *)

FrameArrives ==
  /\ heard < MaxFrames /\ rx < MaxFrames
  /\ heard' = heard + 1 /\ rx' = rx + 1
  /\ UNCHANGED <<queue, toPush, radioVars, guestVars>>

\* The radio task can run.
Ready == radio # "wait" \/ rx > 0 \/ beacon = 0

\* The executor polls each woken task once per pass: between two runs of the
\* guest a radio task that is ready runs until it awaits.
GuestRuns ==
  /\ MaxBusy > 0 /\ busy = Free /\ yielded
  /\ busy' = 0 /\ yielded' = FALSE
  /\ UNCHANGED <<queue, toPush, radioVars, airVars>>

GuestYields ==
  /\ busy # Free
  /\ busy' = Free
  /\ yielded' = ~Ready
  /\ UNCHANGED <<queue, toPush, radioVars, airVars>>

\* A period passes while the guest holds the core or nothing is ready on it.
\* Core 1 has met the deadline of the last one.
Time ==
  /\ toPush = 0 /\ toPush' = 2
  /\ \/ busy \in 0 .. MaxBusy - 1 /\ busy' = busy + 1
     \/ busy = Free /\ ~Ready /\ UNCHANGED busy
  /\ queue' = [i \in DOMAIN queue |-> queue[i] + 1]
  /\ beacon' = IF beacon > 0 THEN beacon - 1 ELSE 0
  /\ heard' = 0
  /\ UNCHANGED <<radio, quota, rx, yielded>>

RadioTask == Drain \/ DrainEnds \/ Frame \/ SendBeacon \/ BeaconSent
TelemetryNext == Push \/ RadioTask \/ FrameArrives \/ GuestRuns \/ GuestYields \/ Time

\* Core 1 keeps its period, the executor polls what is woken, the guest
\* returns, time passes.  No frame need arrive.
Fairness ==
  /\ WF_telemetryVars(Push) /\ WF_telemetryVars(RadioTask)
  /\ WF_telemetryVars(GuestYields) /\ WF_telemetryVars(Time)

TelemetrySpec == TelemetryInit /\ [][TelemetryNext]_telemetryVars /\ Fairness

-----------------------------------------------------------------------------
(* Properties *)

\* A packet leaves the queue within Turns turns of the loop.  Between two turns
\* lie a beacon interval and the guest before and after the beacon; in the last
\* one the guest may run after each packet before it.
Turns == (Capacity + MaxDrain - 1) \div MaxDrain
LatencyBound == Turns * (Beacon + 2 * MaxBusy) + (MaxDrain - 1) * MaxBusy

\* A packet that is queued at all is at most LatencyBound periods old when the
\* radio takes it, however guest, frames and beacon share Core 0.
LatencyIsBounded == \A i \in DOMAIN queue : queue[i] <= LatencyBound

\* The presence beacon goes out again and again once the guest rests, whatever
\* frames win over its deadline, and with a busy guest once the frames stop.
\* (With both, a frame may be waiting at every turn and the beacon is starved.)
BeaconsGoOut ==
  <>[](busy = Free) \/ <>[](rx = 0) => []<><<SendBeacon>>_telemetryVars
=============================================================================
