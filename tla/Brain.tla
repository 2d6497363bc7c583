------------------------------- MODULE Brain --------------------------------
(***************************************************************************)
(* Core 0, "The Brain" (firmware/src/core0, router.rs, message_bus.rs):    *)
(* three tasks on ONE cooperative executor.                                *)
(*                                                                         *)
(*   espnow   radio frames -> CMD_CHANNEL (dropped when it is full);       *)
(*            between them it transmits telemetry and beacons              *)
(*   wasm     CMD_CHANNEL -> guest run_command -> INTENT_CHANNEL           *)
(*   router   INTENT_CHANNEL -> MOTOR_COMMAND, or after Dms of silence     *)
(*            (the dead-man's switch) MOTOR_COMMAND := (0, 0)              *)
(*                                                                         *)
(* A task runs until it awaits something that is not ready.  The executor  *)
(* works in passes: it polls, in any order, each task that was woken       *)
(* before the pass, then looks at the timers and the wake-ups again.       *)
(* Guest code runs synchronously inside the wasm task, so it is the only   *)
(* thing on this core that takes time; Time counts it in ticks.            *)
(***************************************************************************)
EXTENDS Motors, Sequences

CONSTANTS
  Speeds,       \* (left, right) pairs a guest asks for
  Cmd,          \* command ids a frame can carry
  Handler,      \* Handler[cmd]: the sequences of host_set_motor_speed calls
                \* the guest may make while it handles cmd
  Hanging,      \* commands on which the guest never returns
  MaxCall,      \* ticks one guest call may take, when it returns
  Dms,          \* DEAD_MANS_SWITCH_MS, in ticks
  CmdDepth,     \* CMD_QUEUE_DEPTH
  IntentDepth,  \* INTENT_QUEUE_DEPTH
  MaxFrames,    \* bound: frames on the air in one tick, received or sent
  MaxReceived,  \* bound: frames the radio driver buffers
  MaxSwitches   \* bound: changes of the routing mode

ASSUME BrainAssumption ==
  /\ Speeds \subseteq I16 \X I16
  /\ Handler \in [Cmd -> SUBSET Seq(Speeds)]
  /\ Hanging \subseteq Cmd
  /\ {MaxCall, Dms, CmdDepth, IntentDepth, MaxFrames, MaxReceived} \subseteq Nat \ {0}
  /\ MaxSwitches \in Nat

VARIABLES
  disabling,     \* Core 1 is between the two stores of set_motor_enabled(false)
  routingMode,   \* ROUTING_MODE
  switches,      \* how often it changed
  cmdQueue,      \* CMD_CHANNEL
  intentQueue,   \* INTENT_CHANNEL
  batch,         \* tasks this pass of the executor has still to poll
  woken,         \* tasks woken for the next pass
  running,       \* the task being polled, or Nobody
  guest,         \* the guest call in progress: its command and the
                 \* set_motor_speed calls it has still to make; or NoCall
  spent,         \* ticks the guest call has taken
  radio,         \* where espnow_rx_task is: see Phase
  rx,            \* frames received by the radio driver, not yet handled
  airtime,       \* frames that still fit on the air in this tick
  armed,         \* ticks since the router armed its timeout
  silence,       \* history: ticks since the router received an intent
  accepted       \* history: the last intent INTENT_CHANNEL accepted

coreVars  == <<motorVars, disabling, routingMode, switches>>
queueVars == <<cmdQueue, intentQueue, accepted>>
execVars  == <<batch, woken, running>>
guestVars == <<guest, spent>>
radioVars == <<radio, rx, airtime>>
clockVars == <<armed, silence>>
timeVars  == <<radioVars, clockVars>>
vars == <<coreVars, queueVars, execVars, guestVars, timeVars>>

Task == {"espnow", "wasm", "router"}
Nobody == "nobody"
NoCall == [cmd |-> "none", calls |-> <<>>]

\* espnow_rx_task has not set up the radio ("off"), empties the telemetry
\* channel ("drain"), waits for a frame or the beacon deadline ("receive"), has
\* found the deadline passed ("beacon"), or waits for the radio to have sent
\* what it passed to send_async ("send").
Phase == {"off", "drain", "receive", "beacon", "send"}

\* The longest silence before the router sees its timeout expired: the timeout,
\* the rest of the pass in which it expired, then the wasm task once more, each
\* with a full command queue to work through.
DmsBound == Dms - 1 + 2 * CmdDepth * MaxCall
Horizon  == DmsBound + 1     \* the clocks stop counting here

Idle == running = Nobody /\ batch = {} /\ woken = {}
Wake(t) == woken' = IF t \in batch THEN woken ELSE woken \cup {t}

Init ==
  /\ MotorsInit
  /\ disabling = FALSE
  /\ routingMode = "SingleBoard" /\ switches = 0
  /\ cmdQueue = <<>> /\ intentQueue = <<>> /\ accepted = Stop
  /\ batch = {} /\ woken = Task /\ running = Nobody
  /\ guest = NoCall /\ spent = 0
  /\ radio = "off" /\ rx = 0 /\ airtime = MaxFrames
  /\ armed = 0 /\ silence = 0

-----------------------------------------------------------------------------
(* Executor and time *)

\* Expired timers are woken, then everything woken is taken into the pass.
StartPass ==
  /\ running = Nobody /\ batch = {}
  /\ batch' = woken \cup (IF armed >= Dms THEN {"router"} ELSE {})
  /\ batch' # {}
  /\ woken' = {}
  /\ UNCHANGED <<running, coreVars, queueVars, guestVars, timeVars>>

Poll(t) ==
  /\ running = Nobody /\ t \in batch
  /\ running' = t
  /\ batch' = batch \ {t}
  /\ UNCHANGED <<woken, coreVars, queueVars, guestVars, timeVars>>

\* The task awaits something that is not ready.
Pending(t) ==
  /\ running = t
  /\ running' = Nobody
  /\ UNCHANGED <<batch, woken, coreVars, queueVars, guestVars, clockVars>>

Advance ==
  /\ armed' = IF armed < Horizon THEN armed + 1 ELSE armed
  /\ silence' = IF silence < Horizon THEN silence + 1 ELSE silence
  /\ airtime' = MaxFrames
  /\ UNCHANGED <<radio, rx, coreVars, queueVars, execVars>>

\* Time passes while the core sleeps until the next wake-up or timer ...
IdleTick ==
  /\ Idle /\ armed < Dms
  /\ Advance
  /\ UNCHANGED guestVars

\* ... and while guest code runs.
GuestTick ==
  /\ guest # NoCall
  /\ \/ guest.cmd \in Hanging /\ spent' = spent
     \/ guest.cmd \notin Hanging /\ spent < MaxCall /\ spent' = spent + 1
  /\ Advance
  /\ UNCHANGED guest

-----------------------------------------------------------------------------
(* espnow_rx_task *)

\* A frame wakes the task only where it waits for one: at send_async it does not
\* look at what the driver has received.
FrameArrives ==
  /\ radio # "off" /\ airtime > 0 /\ rx < MaxReceived
  /\ airtime' = airtime - 1
  /\ rx' = rx + 1
  /\ IF radio = "receive" THEN Wake("espnow") ELSE UNCHANGED woken
  /\ UNCHANGED <<radio, batch, running, clockVars, coreVars, queueVars, guestVars>>

\* handle_frame for a valid frame that is not an OTA one, and back to the top of
\* the loop; sender.try_send(..).ok().  with_timeout polls the receive first: a
\* frame wins over an expired beacon deadline.
HandleFrame(cmd) ==
  /\ running = "espnow" /\ radio \in {"drain", "receive", "beacon"} /\ rx > 0
  /\ radio' = "drain"
  /\ rx' = rx - 1
  /\ \/ /\ Len(cmdQueue) < CmdDepth
        /\ cmdQueue' = Append(cmdQueue, cmd)
        /\ Wake("wasm")
     \/ /\ Len(cmdQueue) = CmdDepth
        /\ UNCHANGED <<cmdQueue, woken>>
  /\ UNCHANGED <<intentQueue, accepted, batch, running, airtime, clockVars,
                 coreVars, guestVars>>

\* The beacon deadline passes.  The beacon takes its share of the air here.
BeaconDeadline ==
  /\ radio = "receive" /\ airtime > 0
  /\ radio' = "beacon"
  /\ airtime' = airtime - 1
  /\ Wake("espnow")
  /\ UNCHANGED <<rx, batch, running, clockVars, coreVars, queueVars, guestVars>>

\* send_async(..).await in send_telemetry_packet and send_beacon: the task
\* sleeps until the radio is done, whatever it receives meanwhile.
Transmit ==
  /\ \/ radio = "off" /\ UNCHANGED airtime              \* the beacon of the start
     \/ radio = "beacon" /\ rx = 0 /\ UNCHANGED airtime
     \/ radio = "drain" /\ airtime > 0 /\ airtime' = airtime - 1
  /\ radio' = "send"
  /\ UNCHANGED rx
  /\ Pending("espnow")

TransmissionEnds ==
  /\ radio = "send"
  /\ radio' = "drain"
  /\ Wake("espnow")
  /\ UNCHANGED <<rx, airtime, batch, running, clockVars, coreVars, queueVars,
                 guestVars>>

\* A plausible bug: the task sleeps without looking at what has come in.
EspnowPending_Unread ==
  /\ \/ radio \in {"drain", "receive"} /\ radio' = "receive"
     \/ radio = "send" /\ UNCHANGED radio
  /\ UNCHANGED <<rx, airtime>>
  /\ Pending("espnow")

\* The receive finds no frame, or the task was woken and the radio still sends.
EspnowPending ==
  /\ \/ radio \in {"drain", "receive"} /\ rx = 0 /\ radio' = "receive"
     \/ radio = "send" /\ UNCHANGED radio
  /\ UNCHANGED <<rx, airtime>>
  /\ Pending("espnow")

-----------------------------------------------------------------------------
(* wasm_run_task and the guest *)

\* receiver.receive().await with a command in the queue: no yield
TakeCommand ==
  /\ running = "wasm" /\ guest = NoCall
  /\ cmdQueue # <<>>
  /\ \E calls \in Handler[Head(cmdQueue)] :
       guest' = [cmd |-> Head(cmdQueue), calls |-> calls]
  /\ spent' = 0
  /\ cmdQueue' = Tail(cmdQueue)
  /\ UNCHANGED <<intentQueue, accepted, execVars, coreVars, timeVars>>

\* publish_intent: try_send; a full queue is ERR_BUSY to the guest
Publish(s) ==
  \/ /\ Len(intentQueue) < IntentDepth
     /\ intentQueue' = Append(intentQueue, s)
     /\ accepted' = s
     /\ Wake("router")
  \/ /\ Len(intentQueue) = IntentDepth
     /\ UNCHANGED <<intentQueue, accepted, woken>>

\* AbiHost::set_motor_speed
SetMotorSpeed ==
  /\ running = "wasm" /\ guest.calls # <<>>
  /\ guest' = [guest EXCEPT !.calls = Tail(@)]
  /\ IF MOTOR_ENABLED = 0
     THEN UNCHANGED <<intentQueue, accepted, woken>>     \* ERR_BUSY
     ELSE Publish(Head(guest.calls))
  /\ UNCHANGED <<cmdQueue, spent, batch, running, coreVars, timeVars>>

GuestReturns ==
  /\ guest # NoCall
  /\ guest.calls = <<>> /\ guest.cmd \notin Hanging
  /\ guest' = NoCall /\ spent' = 0
  /\ UNCHANGED <<queueVars, execVars, coreVars, timeVars>>

\* A plausible bug: the task goes back to its signals after every command.
WasmPending_OneAtATime == guest = NoCall /\ Pending("wasm") /\ UNCHANGED radioVars

WasmPending ==
  guest = NoCall /\ cmdQueue = <<>> /\ Pending("wasm") /\ UNCHANGED radioVars

-----------------------------------------------------------------------------
(* router_task *)

InRouter == running = "router" /\ storing = NotStoring

\* A plausible bug: the mode is ignored.
Route_AlwaysLocal(s) == CheckEnabled(s)

\* route_intent: Distributed only serialises the packet
Route(s) ==
  \/ routingMode = "SingleBoard" /\ CheckEnabled(s)
  \/ routingMode = "Distributed" /\ UNCHANGED motorVars

\* A plausible bug: the newest intent is taken first.
RouterReceives_Newest ==
  /\ InRouter /\ intentQueue # <<>>
  /\ Route(intentQueue[Len(intentQueue)])
  /\ intentQueue' = SubSeq(intentQueue, 1, Len(intentQueue) - 1)
  /\ armed' = 0 /\ silence' = 0
  /\ UNCHANGED <<disabling, routingMode, switches, cmdQueue, accepted,
                 execVars, guestVars, radioVars>>

\* with_timeout polls the receive first: an intent wins over an expired timer
RouterReceives ==
  /\ InRouter /\ intentQueue # <<>>
  /\ Route(Head(intentQueue))
  /\ intentQueue' = Tail(intentQueue)
  /\ armed' = 0 /\ silence' = 0
  /\ UNCHANGED <<disabling, routingMode, switches, cmdQueue, accepted,
                 execVars, guestVars, radioVars>>

\* A plausible bug: the switch only fires on a board that drives its motors.
DeadMansSwitch_LocalOnly ==
  /\ InRouter /\ intentQueue = <<>> /\ armed >= Dms
  /\ IF routingMode = "SingleBoard" THEN CheckEnabled(Stop) ELSE UNCHANGED motorVars
  /\ armed' = 0
  /\ UNCHANGED <<disabling, routingMode, switches, queueVars, execVars,
                 guestVars, radioVars, silence>>

\* The dead-man's switch: zero the motors, whatever the routing mode.
DeadMansSwitch ==
  /\ InRouter /\ intentQueue = <<>> /\ armed >= Dms
  /\ CheckEnabled(Stop)
  /\ armed' = 0
  /\ UNCHANGED <<disabling, routingMode, switches, queueVars, execVars,
                 guestVars, radioVars, silence>>

RouterStores ==
  /\ running = "router"
  /\ StoreCommand
  /\ UNCHANGED <<disabling, routingMode, switches, queueVars, execVars,
                 guestVars, timeVars>>

RouterPending ==
  /\ storing = NotStoring /\ intentQueue = <<>> /\ armed < Dms
  /\ Pending("router") /\ UNCHANGED radioVars

-----------------------------------------------------------------------------
(* The rest of the system *)

\* Core 1's set_motor_enabled(false), two stores
LockOut ==
  /\ ~disabling /\ disabling' = TRUE
  /\ DisableMotors
  /\ UNCHANGED <<routingMode, switches, queueVars, execVars, guestVars, timeVars>>

LockOutZero ==
  /\ disabling /\ disabling' = FALSE
  /\ ZeroCommand
  /\ UNCHANGED <<routingMode, switches, queueVars, execVars, guestVars, timeVars>>

\* set_routing_mode, from any core or task
SetRoutingMode ==
  /\ switches < MaxSwitches
  /\ switches' = switches + 1
  /\ routingMode' \in {"SingleBoard", "Distributed"} \ {routingMode}
  /\ UNCHANGED <<motorVars, disabling, queueVars, execVars, guestVars, timeVars>>

Executor ==
  \/ StartPass
  \/ \E t \in Task : Poll(t)
  \/ \E cmd \in Cmd : HandleFrame(cmd)
  \/ Transmit \/ EspnowPending
  \/ TakeCommand \/ SetMotorSpeed \/ GuestReturns \/ WasmPending
  \/ RouterReceives \/ DeadMansSwitch \/ RouterStores \/ RouterPending

Time == IdleTick \/ GuestTick

Environment ==
  \/ FrameArrives \/ TransmissionEnds \/ BeaconDeadline
  \/ LockOut \/ LockOutZero \/ SetRoutingMode

Next == Executor \/ Time \/ Environment

\* The core executes what it can and the clock advances; frames, the end
\* of a transmission, lock-outs and mode changes happen or do not.
Fairness == WF_vars(Executor) /\ WF_vars(Time) /\ WF_vars(LockOutZero)

Spec == Init /\ [][Next]_vars
FairSpec == Spec /\ Fairness

-----------------------------------------------------------------------------
(* Properties *)

Disabled == MOTOR_ENABLED = 0
Moving == MOTOR_COMMAND # Pack(Stop)

\* When every guest call returns within MaxCall, the motors of a robot nobody
\* steers are zeroed within DmsBound ticks of the last intent: the 50 ms of
\* the switch plus two full command queues of guest calls, in both modes (a
\* command stored before a change to Distributed is zeroed like any other).
DmsLatency == Moving /\ ~Disabled => silence <= DmsBound

\* When Core 0 sleeps with no intent queued, the motors follow the last intent
\* the bus accepted, or stand still: intents are neither reordered, lost after
\* acceptance nor applied twice by the race of channel, timer and lock-out.
MotorsFollowLastAccepted ==
  Idle /\ intentQueue = <<>> /\ switches = 0 /\ ~Disabled =>
    MOTOR_COMMAND \in {Pack(accepted), Pack(Stop)}

\* No lost wake-up: Core 0 never sleeps over a command or an intent, and over a
\* received frame only while the radio task awaits the end of a transmission.
NoLostWakeup ==
  Idle => cmdQueue = <<>> /\ intentQueue = <<>> /\ (rx = 0 \/ radio = "send")

\* In Distributed mode a board that stands still and has no store in flight
\* stands still until the mode changes back, whatever the guest asks for.
Parked ==
  routingMode = "Distributed" /\ ~Moving /\ storing \in {NotStoring, Stop}
DistributedStaysParked ==
  [][Parked /\ routingMode' = "Distributed" => Parked']_vars

\* If the intents dry up the motors stop for good (or are locked out).
SilenceStopsMotors ==
  <>[](intentQueue = <<>>) => <>[](~Moving \/ Disabled)

\* Every command the queue accepted reaches the guest: CMD_CHANNEL drains.
CommandsReachGuest == (cmdQueue # <<>>) ~> (cmdQueue = <<>>)

\* abi/src/lib.rs:181 documents EMERGENCY_STOP as "zero all motors
\* immediately": when the guest has handled one, the motors stand still or a
\* zero intent is on its way to them.
EmergencyStopIsHonoured ==
  [][guest.cmd = "EMERGENCY_STOP" /\ guest' = NoCall =>
       ~Moving \/ Disabled \/ \E i \in DOMAIN intentQueue : intentQueue[i] = Stop]_vars
=============================================================================
