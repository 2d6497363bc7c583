------------------------------ MODULE Fallback ------------------------------
(***************************************************************************)
(* The local fallback: what the robot does when the radio goes silent.     *)
(*                                                                         *)
(*   espnow   every well-formed frame, whoever sent it, refreshes          *)
(*            RADIO_LAST_RX_MS; a query command goes to the guest          *)
(*   audio    snapshots -> AUDIO_INFERENCE_CHANNEL (dropped when full)     *)
(*   router   on a dead-man's timeout: stop, and with a silent link one    *)
(*            snapshot -> engine -> INFERENCE_RESULT                       *)
(*   guest    a query reads the result and, when it is active and          *)
(*            confident, asks for the motor command of its class           *)
(*                                                                         *)
(* Handlers take no time here (Brain models a guest that does): a tick     *)
(* passes when no task has anything to do.  Lock-outs and the routing mode *)
(* are Brain's as well.                                                    *)
(***************************************************************************)
EXTENDS Inference, Cdr

CONSTANTS
  Snapshots,                     \* what the microphone may deliver, as bytes
  Dms,                           \* DEAD_MANS_SWITCH_MS, in ticks
  Threshold,                     \* RADIO_SILENCE_THRESHOLD_MS, in ticks
  AUDIO_INFERENCE_QUEUE_DEPTH,
  CmdDepth, IntentDepth          \* CMD_QUEUE_DEPTH, INTENT_QUEUE_DEPTH

ASSUME FallbackAssumption ==
  /\ Snapshots \subseteq Seq(0 .. 255)
  /\ {Dms, Threshold, AUDIO_INFERENCE_QUEUE_DEPTH, CmdDepth, IntentDepth}
       \subseteq Nat \ {0}
  /\ Dms < Threshold
  /\ 2 * 100 < SIZE32        \* an i32 holds a percentage

VARIABLES
  sinceRx,      \* now - RADIO_LAST_RX_MS, up to Threshold
  sinceValid,   \* history: ticks since a well-formed frame (or boot), likewise
  queries,      \* query commands in CMD_CHANNEL
  intents,      \* INTENT_CHANNEL
  armed,        \* ticks since the router armed its timeout
  motor,        \* MOTOR_COMMAND
  channel,      \* AUDIO_INFERENCE_CHANNEL
  RESULT,       \* INFERENCE_RESULT, packed
  lastPass      \* history: what the engine returned last

vars == <<sinceRx, sinceValid, queries, intents, armed, motor, channel, RESULT,
          lastPass>>

Stop == <<0, 0>>

Init ==
  /\ sinceRx = 0 /\ sinceValid = 0
  /\ queries = 0 /\ intents = <<>> /\ armed = 0 /\ motor = Stop
  /\ channel = <<>> /\ RESULT = 0 /\ lastPass = NoResult

\* is_radio_link_alive
Alive == sinceRx < Threshold

-----------------------------------------------------------------------------
(* Radio *)

\* A plausible bug: the timestamp is taken before the frame is validated.
Malformed_Refreshes ==
  /\ sinceRx' = 0
  /\ UNCHANGED <<sinceValid, queries, intents, armed, motor, channel, RESULT, lastPass>>

\* A frame that fails a header check
Malformed == UNCHANGED vars

\* A well-formed frame whose command moves no motor: the beacon of another
\* board is one.  The guest answers "unknown".
Beacon ==
  /\ sinceRx' = 0 /\ sinceValid' = 0
  /\ UNCHANGED <<queries, intents, armed, motor, channel, RESULT, lastPass>>

\* QUERY_LOCAL_INFERENCE, dropped when the command queue is full
Query ==
  /\ sinceRx' = 0 /\ sinceValid' = 0
  /\ queries' = IF queries < CmdDepth THEN queries + 1 ELSE queries
  /\ UNCHANGED <<intents, armed, motor, channel, RESULT, lastPass>>

-----------------------------------------------------------------------------
(* Audio *)

\* push_audio_for_inference: bytes become samples, and a full channel keeps
\* what it has.  The firmware has no caller yet; the one its comment describes
\* calls it with whatever the microphone delivered.
PushAudio(bytes) ==
  /\ bytes # <<>>
  /\ channel' = IF Len(channel) < AUDIO_INFERENCE_QUEUE_DEPTH
                THEN Append(channel, Window([i \in DOMAIN bytes |-> AsI8(bytes[i])]))
                ELSE channel
  /\ UNCHANGED <<sinceRx, sinceValid, queries, intents, armed, motor, RESULT, lastPass>>

-----------------------------------------------------------------------------
(* Guest *)

\* The motor command of a class
Drive(class) ==
  CASE class = 1 -> <<100, 100>>
    [] class = 2 -> <<-100, 100>>
    [] class = 3 -> <<100, -100>>
    [] class = 4 -> <<-100, -100>>
    [] OTHER     -> Stop

\* query_local_inference_handler: the host writes the three fields into the
\* guest's buffer (host_get_local_inference), the guest parses them.  The speed
\* goes through publish_intent, which drops it when the intent queue is full.
Guest ==
  /\ queries > 0
  /\ queries' = queries - 1
  /\ LET r == ResultFromBytes(ResultToBytes(Unpack(RESULT)))
     IN intents' = IF r.active /\ r.confidence_pct >= 60 /\ Len(intents) < IntentDepth
                   THEN Append(intents, Drive(r.top_class)) ELSE intents
  /\ UNCHANGED <<sinceRx, sinceValid, armed, motor, channel, RESULT, lastPass>>

-----------------------------------------------------------------------------
(* Router *)

Route ==
  /\ intents # <<>>
  /\ motor' = Head(intents) /\ intents' = Tail(intents)
  /\ armed' = 0
  /\ UNCHANGED <<sinceRx, sinceValid, queries, channel, RESULT, lastPass>>

\* run_fallback_inference
RunFallback ==
  IF channel = <<>> THEN UNCHANGED <<channel, RESULT, lastPass>>
  ELSE /\ lastPass' = Run(Head(channel))
       /\ RESULT' = Pack(Run(Head(channel)))
       /\ channel' = Tail(channel)

\* A plausible bug: the router drives what it heard instead of stopping.
TimeoutStore_Drives ==
  motor' = IF Alive \/ channel = <<>> THEN Stop ELSE Drive(Run(Head(channel)).top_class)

\* store_motor_command(0, 0)
TimeoutStore == motor' = Stop

DeadMansSwitch ==
  /\ intents = <<>> /\ armed >= Dms
  /\ TimeoutStore
  /\ IF Alive THEN UNCHANGED <<channel, RESULT, lastPass>> ELSE RunFallback
  /\ armed' = 0
  /\ UNCHANGED <<sinceRx, sinceValid, queries, intents>>

-----------------------------------------------------------------------------

OneMore(n) == IF n < Threshold THEN n + 1 ELSE n

Tick ==
  /\ queries = 0 /\ intents = <<>> /\ armed < Dms
  /\ armed' = armed + 1
  /\ sinceRx' = OneMore(sinceRx) /\ sinceValid' = OneMore(sinceValid)
  /\ UNCHANGED <<queries, intents, motor, channel, RESULT, lastPass>>

Core0 == Guest \/ Route \/ DeadMansSwitch
Frames == Malformed \/ Beacon \/ Query

Next ==
  \/ Core0 \/ Frames \/ Tick
  \/ \E bytes \in Snapshots : PushAudio(bytes)

\* The executor polls its tasks, and time passes.  Nothing obliges anybody to
\* send frames or to speak.
Spec == Init /\ [][Next]_vars /\ WF_vars(Core0) /\ WF_vars(Tick)

-----------------------------------------------------------------------------
(* Properties *)

\* The robot never moves while the radio is silent, active result or not: the
\* guest reads the result only when a command arrives, and the dead-man's
\* switch stops what it asked for long before the link counts as lost.
SilentRobotStands ==
  sinceValid >= Threshold => motor = Stop /\ queries = 0 /\ intents = <<>>

\* What the motors do, and what waits for them, is standstill or the command of
\* the class the engine was at least 60 % sure of in its LATEST pass: never a
\* mixture of the packed fields, nor a class a later pass has replaced.  The
\* robot moves only after a query, and the frame of the query has ended the
\* silence: that a result is there to be read then is what AliveReadsInactive
\* denies and the code does.
Moving == {motor} \cup {intents[i] : i \in DOMAIN intents}
AutonomyFollowsLatestPass ==
  \A m \in Moving \ {Stop} :
    lastPass.active /\ lastPass.confidence_pct >= 60 /\ m = Drive(lastPass.top_class)

\* abi.rs:366-368 (and abi.rs:49-51, abi/src/lib.rs:686-689): while the radio
\* link is alive host_get_local_inference returns an inactive result.
AliveReadsInactive ==
  queries > 0 /\ Alive => ~Unpack(RESULT).active

\* With audio waiting, silence activates the fallback: a result is published
\* unless a well-formed frame ends the silence first.  Noise on the channel
\* does not count.  A result is never withdrawn, so this constrains the first
\* activation only.
FallbackActivates ==
  channel # <<>> ~> Unpack(RESULT).active \/ sinceValid = 0
=============================================================================
