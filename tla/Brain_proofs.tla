---------------------------- MODULE Brain_proofs ----------------------------
(***************************************************************************)
(* Theorems about Brain, for every guest (Handler, Hanging), queue depth   *)
(* and timeout within BrainAssumption, and every bound.                    *)
(***************************************************************************)
EXTENDS Brain, TLAPS

-----------------------------------------------------------------------------
(* Wake-ups *)

\* t will be polled again before Core 0 sleeps.
Awake(t) == running = t \/ t \in batch \/ t \in woken

\* A task with something to do is awake, and a task leaves a poll only when it
\* has nothing left to do; the radio task sleeps at the end of a transmission,
\* or waiting for a frame with none received.
WakeInv ==
  /\ batch \subseteq Task /\ woken \subseteq Task /\ running \in Task \cup {Nobody}
  /\ radio = "send" \/ (radio = "receive" /\ rx = 0) \/ Awake("espnow")
  /\ cmdQueue # <<>> => Awake("wasm")
  /\ intentQueue # <<>> => Awake("router")

LEMMA WakeFacts ==
  ASSUME NEW t \in Task, Wake(t)
  PROVE  /\ woken \subseteq woken' /\ woken' \subseteq woken \cup {t}
         /\ t \in batch \cup woken'
BY DEF Wake

\* Core 0 never sleeps over a command or an intent, and over a received frame
\* only while the radio task awaits the end of a transmission.
THEOREM NoWakeupIsLost == Spec => []NoLostWakeup
<1> USE DEF Task, Nobody
<1>1. Init => WakeInv
  BY DEF Init, WakeInv, Awake
<1>2. WakeInv /\ [Next]_vars => WakeInv'
  <2> SUFFICES ASSUME WakeInv, [Next]_vars PROVE WakeInv'
    OBVIOUS
  <2>1. CASE StartPass
    BY <2>1 DEF WakeInv, Awake, StartPass, queueVars, timeVars, radioVars, clockVars
  <2>2. ASSUME NEW t \in Task, Poll(t) PROVE WakeInv'
    BY <2>2 DEF WakeInv, Awake, Poll, queueVars, timeVars, radioVars, clockVars
  <2>3. CASE Transmit \/ EspnowPending \/ WasmPending \/ RouterPending
    BY <2>3 DEF WakeInv, Awake, Transmit, EspnowPending, WasmPending, RouterPending, Pending,
       queueVars, timeVars, radioVars, clockVars
  <2>4. ASSUME NEW cmd \in Cmd, HandleFrame(cmd) PROVE WakeInv'
    <3>1. /\ running = "espnow" /\ UNCHANGED <<running, batch, intentQueue>>
          /\ UNCHANGED <<cmdQueue, woken>> \/ Wake("wasm")
      BY <2>4 DEF HandleFrame, clockVars, WakeInv
    <3>2. QED
      BY <3>1, WakeFacts DEF WakeInv, Awake
  <2>5. CASE TakeCommand
    BY <2>5 DEF WakeInv, Awake, TakeCommand, execVars, timeVars, radioVars, clockVars
  <2>6. CASE SetMotorSpeed
    <3>1. /\ UNCHANGED <<running, batch, cmdQueue, radio, rx>>
          /\ UNCHANGED <<intentQueue, woken>> \/ Wake("router")
      BY <2>6 DEF SetMotorSpeed, Publish, timeVars, radioVars, clockVars
    <3>2. QED
      BY <3>1, WakeFacts DEF WakeInv, Awake
  <2>7. CASE RouterReceives
    BY <2>7 DEF WakeInv, Awake, RouterReceives, InRouter, execVars, radioVars
  <2>8. CASE FrameArrives \/ TransmissionEnds \/ BeaconDeadline
    <3>1. /\ UNCHANGED <<running, batch, cmdQueue, intentQueue>>
          /\ (UNCHANGED <<woken, radio>> /\ radio # "receive") \/ Wake("espnow")
      BY <2>8 DEF FrameArrives, TransmissionEnds, BeaconDeadline, queueVars
    <3>2. QED
      BY <3>1, WakeFacts DEF WakeInv, Awake
  <2>9. ASSUME UNCHANGED <<batch, woken, running, radio, rx, cmdQueue, intentQueue>>
        PROVE  WakeInv'
    BY <2>9 DEF WakeInv, Awake
  <2>10. CASE GuestReturns \/ DeadMansSwitch \/ RouterStores \/ Time \/ LockOut \/ LockOutZero
              \/ SetRoutingMode \/ UNCHANGED vars
    BY <2>9, <2>10 DEF GuestReturns, DeadMansSwitch, RouterStores, Time, IdleTick, GuestTick,
       Advance, LockOut, LockOutZero, SetRoutingMode, vars, queueVars, execVars, timeVars,
       radioVars, clockVars
  <2>11. QED
    BY <2>1, <2>2, <2>3, <2>4, <2>5, <2>6, <2>7, <2>8, <2>10
       DEF Next, Executor, Environment
<1>3. WakeInv => NoLostWakeup
  BY DEF WakeInv, Awake, NoLostWakeup, Idle
<1>4. QED
  BY <1>1, <1>2, <1>3, PTL DEF Spec

-----------------------------------------------------------------------------
(* Distributed mode *)

\* No intent moves a board that stands still in Distributed mode; the
\* dead-man's switch and a store begun before only zero it.
THEOREM ParkedStaysParked == Spec => DistributedStaysParked
<1>1. [Next]_vars => [Parked /\ routingMode' = "Distributed" => Parked']_vars
  <2> SUFFICES ASSUME Parked, [Next]_vars, routingMode' = "Distributed" PROVE Parked'
    BY DEF DistributedStaysParked
  <2>1. ASSUME UNCHANGED <<MOTOR_COMMAND, storing>> PROVE Parked'
    BY <2>1 DEF Parked, Moving
  <2>2. CASE RouterReceives
    BY <2>1, <2>2 DEF RouterReceives, Route, Parked, motorVars
  <2>3. CASE DeadMansSwitch
    BY <2>3 DEF DeadMansSwitch, CheckEnabled, Parked, Moving
  <2>4. CASE RouterStores
    BY <2>4 DEF RouterStores, StoreCommand, Parked, Moving
  <2>5. CASE LockOutZero
    BY <2>5 DEF LockOutZero, ZeroCommand, Parked, Moving
  <2>6. CASE LockOut
    BY <2>1, <2>6 DEF LockOut, DisableMotors
  <2>7. ASSUME NEW t \in Task, Poll(t) PROVE Parked'
    BY <2>1, <2>7 DEF Poll, coreVars, motorVars
  <2>8. ASSUME NEW cmd \in Cmd, HandleFrame(cmd) PROVE Parked'
    BY <2>1, <2>8 DEF HandleFrame, clockVars, coreVars, motorVars
  <2>9. CASE StartPass \/ Transmit \/ EspnowPending \/ TakeCommand \/ SetMotorSpeed
            \/ GuestReturns
             \/ WasmPending \/ RouterPending
    BY <2>1, <2>9 DEF StartPass, Transmit, EspnowPending, TakeCommand, SetMotorSpeed,
       GuestReturns,
       WasmPending, RouterPending, Pending, coreVars, motorVars
  <2>10. CASE Time \/ FrameArrives \/ TransmissionEnds \/ BeaconDeadline \/ SetRoutingMode
            \/ UNCHANGED vars
    BY <2>1, <2>10 DEF Time, IdleTick, GuestTick, Advance, FrameArrives, TransmissionEnds,
       BeaconDeadline, SetRoutingMode,
       vars, coreVars, motorVars
  <2>11. QED
    BY <2>2, <2>3, <2>4, <2>5, <2>6, <2>7, <2>8, <2>9, <2>10 DEF Next, Executor, Environment
<1>2. QED
  BY <1>1, PTL DEF Spec, DistributedStaysParked

-----------------------------------------------------------------------------
(* Intents in order *)

\* What flows from the frame to the motors has the type the guest gave it.
FlowTyped ==
  /\ cmdQueue \in Seq(Cmd)
  /\ guest \in [cmd : Cmd \cup {"none"}, calls : Seq(Speeds)]
  /\ intentQueue \in Seq(Speeds)
  /\ switches \in Nat /\ (switches = 0 => routingMode = "SingleBoard")
  /\ storing # NotStoring => running = "router"

\* The newest intent that was accepted is the last one in the channel; once it
\* has left the channel it is being stored, or was, unless the switch fired.
FollowInv ==
  /\ FlowTyped
  /\ intentQueue # <<>> => intentQueue[Len(intentQueue)] = accepted
  /\ switches = 0 /\ ~Disabled /\ intentQueue = <<>> =>
       IF storing = NotStoring THEN MOTOR_COMMAND \in {Pack(accepted), Pack(Stop)}
       ELSE storing \in {accepted, Stop}

LEMMA FlowKeepsType == FlowTyped /\ [Next]_vars => FlowTyped'
<1> SUFFICES ASSUME FlowTyped, [Next]_vars PROVE FlowTyped'
  OBVIOUS
<1>1. ASSUME UNCHANGED <<cmdQueue, guest, intentQueue, switches, routingMode, storing>>,
             running' = running \/ storing = NotStoring
      PROVE  FlowTyped'
  BY <1>1 DEF FlowTyped
<1>2. ASSUME NEW cmd \in Cmd, HandleFrame(cmd) PROVE FlowTyped'
  <2>1. /\ cmdQueue' = cmdQueue \/ cmdQueue' = Append(cmdQueue, cmd)
        /\ UNCHANGED <<guest, intentQueue, switches, routingMode, storing, running>>
    BY <1>2 DEF HandleFrame, clockVars, coreVars, motorVars, guestVars
  <2>2. cmdQueue' \in Seq(Cmd)
    <3>1. cmdQueue \in Seq(Cmd) /\ Append(cmdQueue, cmd) \in Seq(Cmd)
      BY DEF FlowTyped
    <3>2. QED
      BY <2>1, <3>1
  <2>3. QED
    BY <2>1, <2>2 DEF FlowTyped
<1>3. CASE TakeCommand
  <2>1. /\ cmdQueue # <<>> /\ cmdQueue' = Tail(cmdQueue)
        /\ UNCHANGED <<intentQueue, switches, routingMode, storing, running>>
    BY <1>3 DEF TakeCommand, coreVars, motorVars, execVars
  <2>2. PICK calls \in Handler[Head(cmdQueue)] :
          guest' = [cmd |-> Head(cmdQueue), calls |-> calls]
    BY <1>3 DEF TakeCommand
  <2>3. Head(cmdQueue) \in Cmd /\ Tail(cmdQueue) \in Seq(Cmd)
    BY <2>1 DEF FlowTyped
  <2>4. calls \in Seq(Speeds)
    BY <2>2, <2>3, BrainAssumption
  <2>5. QED
    BY <2>1, <2>2, <2>3, <2>4 DEF FlowTyped
<1>4. CASE SetMotorSpeed
  <2>1. /\ guest' = [guest EXCEPT !.calls = Tail(guest.calls)] /\ guest.calls # <<>>
        /\ UNCHANGED <<cmdQueue, switches, routingMode, storing, running>>
        /\ intentQueue' = intentQueue \/ intentQueue' = Append(intentQueue, Head(guest.calls))
    BY <1>4 DEF SetMotorSpeed, Publish, coreVars, motorVars
  <2>2. Head(guest.calls) \in Speeds /\ Tail(guest.calls) \in Seq(Speeds)
    BY <2>1 DEF FlowTyped
  <2>3. intentQueue' \in Seq(Speeds)
    <3>1. intentQueue \in Seq(Speeds)
      BY DEF FlowTyped
    <3>2. Append(intentQueue, Head(guest.calls)) \in Seq(Speeds)
      BY <2>2, <3>1
    <3>3. QED
      BY <2>1, <3>1, <3>2
  <2>4. guest' \in [cmd : Cmd \cup {"none"}, calls : Seq(Speeds)]
    BY <2>1, <2>2 DEF FlowTyped
  <2>5. QED
    BY <2>1, <2>3, <2>4 DEF FlowTyped
<1>5. CASE GuestReturns
  BY <1>5 DEF GuestReturns, FlowTyped, NoCall, queueVars, execVars, coreVars, motorVars
<1>6. CASE RouterReceives
  <2>1. /\ intentQueue # <<>> /\ intentQueue' = Tail(intentQueue) /\ running = "router"
        /\ UNCHANGED <<cmdQueue, guest, switches, routingMode, running>>
    BY <1>6 DEF RouterReceives, InRouter, execVars, guestVars
  <2>2. QED
    BY <2>1 DEF FlowTyped
<1>7. CASE DeadMansSwitch \/ RouterStores
  BY <1>7 DEF DeadMansSwitch, InRouter, RouterStores, FlowTyped, queueVars, execVars, guestVars
<1>8. CASE SetRoutingMode
  BY <1>8 DEF SetRoutingMode, FlowTyped, motorVars, queueVars, execVars, guestVars
<1>9. CASE LockOut \/ LockOutZero
  BY <1>1, <1>9 DEF LockOut, LockOutZero, DisableMotors, ZeroCommand, queueVars, execVars,
     guestVars
<1>10. ASSUME NEW t \in Task, Poll(t) PROVE FlowTyped'
  BY <1>1, <1>10 DEF Poll, coreVars, motorVars, queueVars, guestVars, FlowTyped, Nobody
<1>11. CASE Transmit \/ EspnowPending \/ WasmPending \/ RouterPending
  BY <1>1, <1>11 DEF Transmit, EspnowPending, WasmPending, RouterPending, Pending, coreVars,
     motorVars,
     queueVars, guestVars, FlowTyped
<1>12. CASE StartPass \/ Time \/ FrameArrives \/ TransmissionEnds \/ BeaconDeadline
          \/ UNCHANGED vars
  BY <1>1, <1>12 DEF StartPass, Time, IdleTick, GuestTick, Advance, FrameArrives,
     TransmissionEnds, BeaconDeadline, vars,
     coreVars, motorVars, queueVars, execVars, guestVars
<1>13. QED
  BY <1>2, <1>3, <1>4, <1>5, <1>6, <1>7, <1>8, <1>9, <1>10, <1>11, <1>12
     DEF Next, Executor, Environment

\* When Core 0 sleeps with an empty intent channel, the motors follow the last
\* intent the channel accepted, or stand still.
THEOREM MotorsFollow == Spec => []MotorsFollowLastAccepted
<1>1. Init => FollowInv
  BY DEF Init, MotorsInit, FollowInv, FlowTyped, NoCall
<1>2. FollowInv /\ [Next]_vars => FollowInv'
  <2> SUFFICES ASSUME FollowInv, [Next]_vars PROVE FollowInv'
    OBVIOUS
  <2>1. FlowTyped /\ FlowTyped'
    BY FlowKeepsType DEF FollowInv
  <2>2. ASSUME UNCHANGED <<intentQueue, accepted, storing, MOTOR_COMMAND>>,
               MOTOR_ENABLED' \in {MOTOR_ENABLED, 0}, switches' = switches \/ switches' # 0
        PROVE  FollowInv'
    BY <2>1, <2>2 DEF FollowInv, Disabled
  <2>3. CASE SetMotorSpeed
    <3>1. /\ guest.calls # <<>> /\ UNCHANGED <<storing, MOTOR_COMMAND, MOTOR_ENABLED, switches>>
      BY <2>3 DEF SetMotorSpeed, coreVars, motorVars
    <3>2. CASE UNCHANGED <<intentQueue, accepted>>
      BY <2>2, <3>1, <3>2
    <3>3. CASE intentQueue' = Append(intentQueue, Head(guest.calls))
               /\ accepted' = Head(guest.calls)
      <4>1. intentQueue \in Seq(Speeds) /\ Head(guest.calls) \in Speeds
        BY <2>1, <3>1 DEF FlowTyped
      <4>2. intentQueue' # <<>> /\ intentQueue'[Len(intentQueue')] = accepted'
        BY <3>3, <4>1
      <4>3. QED
        BY <2>1, <4>2 DEF FollowInv
    <3>4. QED
      BY <2>3, <3>2, <3>3 DEF SetMotorSpeed, Publish
  <2>4. CASE RouterReceives
    <3>1. /\ intentQueue # <<>> /\ storing = NotStoring /\ Route(Head(intentQueue))
          /\ intentQueue' = Tail(intentQueue) /\ UNCHANGED <<accepted, switches, routingMode>>
      BY <2>4 DEF RouterReceives, InRouter
    <3>2. intentQueue \in Seq(Speeds) /\ Len(intentQueue) >= 1
      BY <2>1, <3>1 DEF FlowTyped
    <3>3. intentQueue' # <<>> => intentQueue'[Len(intentQueue')] = accepted'
      BY <3>1, <3>2 DEF FollowInv
    <3>4. ASSUME switches' = 0, ~Disabled', intentQueue' = <<>>
          PROVE  storing' = accepted' /\ storing' # NotStoring
      <4>1. Len(intentQueue) = 1 /\ Head(intentQueue) = accepted /\ accepted \in Speeds
        <5>1. Tail(intentQueue) = <<>>
          BY <3>1, <3>4
        <5>2. Len(intentQueue) = 1
          <6>1. Len(Tail(intentQueue)) = Len(intentQueue) - 1 /\ Len(intentQueue) \in Nat
            BY <3>1, <3>2
          <6>2. Len(Tail(intentQueue)) = 0
            BY <5>1, Len(<<>>) = 0, Zenon
          <6>3. QED
            BY <6>1, <6>2
        <5>3. Head(intentQueue) = intentQueue[1] /\ Head(intentQueue) \in Speeds
          BY <3>2, <5>2
        <5>4. QED
          BY <3>1, <5>2, <5>3 DEF FollowInv
      <4>2. CheckEnabled(accepted)
        <5>1. routingMode = "SingleBoard"
          BY <2>1, <3>1, <3>4 DEF FlowTyped
        <5>2. QED
          BY <3>1, <4>1, <5>1 DEF Route
      <4>3. accepted # NotStoring
        <5>1. PICK l \in I16, r \in I16 : accepted = <<l, r>>
          BY <4>1, BrainAssumption
        <5>2. QED
          BY <5>1 DEF NotStoring
      <4>4. QED
        BY <3>1, <3>4, <4>2, <4>3 DEF CheckEnabled, Disabled
    <3>5. QED
      BY <2>1, <3>3, <3>4 DEF FollowInv
  <2>5. CASE DeadMansSwitch
    BY <2>1, <2>5 DEF DeadMansSwitch, InRouter, CheckEnabled, FollowInv, Disabled, queueVars,
       Stop, NotStoring
  <2>6. CASE RouterStores
    BY <2>1, <2>6 DEF RouterStores, StoreCommand, FollowInv, Disabled, queueVars
  <2>7. CASE LockOutZero
    BY <2>1, <2>7 DEF LockOutZero, ZeroCommand, FollowInv, Disabled, queueVars
  <2>8. CASE LockOut
    BY <2>2, <2>8 DEF LockOut, DisableMotors, queueVars
  <2>9. CASE SetRoutingMode
    BY <2>1, <2>2, <2>9 DEF SetRoutingMode, FlowTyped, motorVars, queueVars
  <2>10. ASSUME NEW t \in Task, Poll(t) PROVE FollowInv'
    BY <2>2, <2>10 DEF Poll, coreVars, motorVars, queueVars
  <2>11. ASSUME NEW cmd \in Cmd, HandleFrame(cmd) PROVE FollowInv'
    BY <2>2, <2>11 DEF HandleFrame, clockVars, coreVars, motorVars
  <2>12. CASE StartPass \/ Transmit \/ EspnowPending \/ TakeCommand \/ GuestReturns \/ WasmPending
              \/ RouterPending
    BY <2>2, <2>12 DEF StartPass, Transmit, EspnowPending, TakeCommand, GuestReturns, WasmPending,
       RouterPending, Pending, coreVars, motorVars, queueVars
  <2>13. CASE Time \/ FrameArrives \/ TransmissionEnds \/ BeaconDeadline \/ UNCHANGED vars
    BY <2>2, <2>13 DEF Time, IdleTick, GuestTick, Advance, FrameArrives, TransmissionEnds,
       BeaconDeadline, vars, coreVars,
       motorVars, queueVars
  <2>14. QED
    BY <2>3, <2>4, <2>5, <2>6, <2>7, <2>8, <2>9, <2>10, <2>11, <2>12, <2>13
       DEF Next, Executor, Environment
<1>3. FollowInv => MotorsFollowLastAccepted
  BY DEF FollowInv, FlowTyped, MotorsFollowLastAccepted, Idle, Nobody
<1>4. QED
  BY <1>1, <1>2, <1>3, PTL DEF Spec

-----------------------------------------------------------------------------
(* The dead-man's switch *)

\* Ticks n guest calls can take
Load(n) == n * MaxCall

LEMMA LoadFacts ==
  /\ Load(0) = 0
  /\ \A n \in Nat : Load(n) \in Nat /\ Load(n + 1) = Load(n) + MaxCall
  /\ \A n \in 0 .. CmdDepth : Load(n) <= Load(CmdDepth)
  /\ Load(CmdDepth) >= 1
  /\ DmsBound = Dms - 1 + Load(CmdDepth) + Load(CmdDepth)
<1>1. MaxCall \in Nat /\ MaxCall >= 1 /\ CmdDepth \in Nat /\ CmdDepth >= 1 /\ Dms \in Nat
  BY BrainAssumption
<1>2. Load(0) = 0
  BY <1>1 DEF Load
<1>3. ASSUME NEW n \in Nat PROVE Load(n) \in Nat /\ Load(n + 1) = Load(n) + MaxCall
  BY <1>1 DEF Load
<1>4. ASSUME NEW n \in 0 .. CmdDepth PROVE Load(n) <= Load(CmdDepth)
  <2>1. CmdDepth - n \in Nat
    BY <1>1
  <2>2. (CmdDepth - n) * MaxCall \in Nat
    BY <1>1, <2>1
  <2>3. CmdDepth * MaxCall = n * MaxCall + (CmdDepth - n) * MaxCall
    BY <1>1
  <2>4. QED
    BY <1>1, <2>2, <2>3 DEF Load
<1>5. Load(CmdDepth) >= 1
  BY <1>1 DEF Load
<1>6. DmsBound = Dms - 1 + Load(CmdDepth) + Load(CmdDepth)
  <2>1. 2 * CmdDepth * MaxCall = CmdDepth * MaxCall + CmdDepth * MaxCall
    BY <1>1
  <2>2. CmdDepth * MaxCall \in Nat
    BY <1>1
  <2>3. QED
    BY <1>1, <2>1, <2>2 DEF DmsBound, Load
<1>7. QED
  BY <1>2, <1>3, <1>4, <1>5, <1>6

Full == Load(CmdDepth)

LEMMA FullFacts ==
  /\ MaxCall \in Nat /\ Dms \in Nat /\ Dms >= 1
  /\ Full \in Nat /\ Full >= 1 /\ DmsBound = Dms - 1 + Full + Full
<1>1. MaxCall \in Nat /\ Dms \in Nat /\ Dms >= 1 /\ CmdDepth \in Nat
  BY BrainAssumption
<1>2. Full \in Nat
  BY <1>1, LoadFacts DEF Full
<1>3. Full >= 1 /\ DmsBound = Dms - 1 + Full + Full
  BY LoadFacts DEF Full
<1>4. QED
  BY <1>1, <1>2, <1>3

\* Ticks the guest can still take in this pass
Rest ==
  IF "wasm" \in batch THEN Full
  ELSE IF running # "wasm" THEN 0
  ELSE Load(Len(cmdQueue)) + (IF guest = NoCall THEN 0 ELSE MaxCall - spent)

\* How late this pass can end: a pass the router takes part in began at most
\* one full queue after the timeout, any other one before the timeout.
Limit ==
  IF "router" \in batch \/ running = "router" THEN Dms - 1 + Full + Full
  ELSE Dms - 1 + Full

ClockTyped ==
  /\ FlowTyped
  /\ armed \in Nat /\ silence \in Nat /\ spent \in 0 .. MaxCall
  /\ guest # NoCall => running = "wasm"
  /\ running = "wasm" => "wasm" \notin batch
  /\ Len(cmdQueue) <= CmdDepth

ClockInv == ClockTyped /\ armed + Rest <= Limit

\* Unless the switch has fired since, armed counts the silence.
LatencyInv ==
  /\ ClockInv
  /\ Moving /\ ~Disabled /\ storing = NotStoring => silence = armed
  /\ storing \notin {NotStoring, Stop} => silence = armed
  /\ DmsLatency

LEMMA ClockStaysTyped ==
  ASSUME ClockTyped, [Next]_vars
  PROVE  ClockTyped'
<1>1. FlowTyped /\ FlowTyped' /\ cmdQueue \in Seq(Cmd) /\ Len(cmdQueue) \in Nat
      /\ CmdDepth \in Nat
  BY FlowKeepsType, BrainAssumption DEF ClockTyped, FlowTyped
<1>2. MaxCall \in Nat
  BY FullFacts
<1>3. ASSUME UNCHANGED <<guest, spent, cmdQueue>>, armed' \in Nat, silence' \in Nat,
             running' = running \/ guest = NoCall,
             running' = "wasm" => "wasm" \notin batch'
      PROVE  ClockTyped'
  BY <1>1, <1>3 DEF ClockTyped
<1>4. CASE StartPass
  BY <1>3, <1>4 DEF StartPass, queueVars, guestVars, timeVars, radioVars, clockVars,
     ClockTyped, Nobody
<1>5. ASSUME NEW t \in Task, Poll(t) PROVE ClockTyped'
  <2>1. guest = NoCall
    BY <1>5 DEF Poll, ClockTyped, Nobody
  <2>2. QED
    BY <1>3, <1>5, <2>1 DEF Poll, queueVars, guestVars, timeVars, radioVars, clockVars, ClockTyped
<1>6. CASE Transmit \/ EspnowPending \/ WasmPending \/ RouterPending
  <2>1. guest = NoCall
    BY <1>6 DEF Transmit, EspnowPending, WasmPending, RouterPending, Pending, ClockTyped
  <2>2. QED
    BY <1>3, <1>6, <2>1 DEF Transmit, EspnowPending, WasmPending, RouterPending, Pending,
       queueVars,
       guestVars, timeVars, radioVars, clockVars, ClockTyped, Nobody
<1>7. ASSUME NEW cmd \in Cmd, HandleFrame(cmd) PROVE ClockTyped'
  <2>1. /\ UNCHANGED <<batch, running, guest, spent, armed, silence>>
        /\ \/ Len(cmdQueue) < CmdDepth /\ cmdQueue' = Append(cmdQueue, cmd)
           \/ cmdQueue' = cmdQueue
    BY <1>7 DEF HandleFrame, clockVars, guestVars
  <2>2. Len(Append(cmdQueue, cmd)) = Len(cmdQueue) + 1
    BY <1>1
  <2>3. Len(cmdQueue') <= CmdDepth
    BY <1>1, <2>1, <2>2 DEF ClockTyped
  <2>4. QED
    BY <1>1, <2>1, <2>3 DEF ClockTyped
<1>8. CASE TakeCommand
  <2>1. /\ running = "wasm" /\ cmdQueue # <<>> /\ spent' = 0 /\ cmdQueue' = Tail(cmdQueue)
        /\ UNCHANGED <<batch, running, armed, silence>>
    BY <1>8 DEF TakeCommand, execVars, timeVars, radioVars, clockVars
  <2>2. Len(cmdQueue') = Len(cmdQueue) - 1
    BY <1>1, <2>1
  <2>3. Len(cmdQueue') <= CmdDepth
    BY <1>1, <2>2 DEF ClockTyped
  <2>4. QED
    BY <1>1, <1>2, <2>1, <2>3 DEF ClockTyped
<1>9. CASE SetMotorSpeed \/ GuestReturns
  <2>1. /\ spent' \in {spent, 0} /\ guest # NoCall
        /\ UNCHANGED <<batch, running, armed, silence, cmdQueue>>
    BY <1>9 DEF SetMotorSpeed, GuestReturns, NoCall, queueVars, execVars, timeVars, radioVars,
       clockVars
  <2>2. QED
    BY <1>1, <1>2, <2>1 DEF ClockTyped
<1>10. CASE RouterReceives \/ DeadMansSwitch
  BY <1>3, <1>10 DEF RouterReceives, DeadMansSwitch, radioVars, execVars, guestVars, queueVars,
     ClockTyped
<1>11. CASE GuestTick
  <2>1. /\ spent' = spent \/ (spent' = spent + 1 /\ spent < MaxCall)
        /\ armed' \in {armed, armed + 1} /\ silence' \in {silence, silence + 1}
        /\ UNCHANGED <<batch, running, guest, cmdQueue>>
    BY <1>11 DEF GuestTick, Advance, queueVars, execVars
  <2>2. QED
    BY <1>1, <1>2, <2>1 DEF ClockTyped
<1>12. CASE IdleTick
  <2>1. /\ armed' \in {armed, armed + 1} /\ silence' \in {silence, silence + 1}
        /\ UNCHANGED <<batch, running, guest, spent, cmdQueue>>
    BY <1>12 DEF IdleTick, Advance, queueVars, execVars, guestVars
  <2>2. QED
    BY <1>1, <2>1 DEF ClockTyped
<1>13. CASE RouterStores \/ FrameArrives \/ TransmissionEnds \/ BeaconDeadline \/ LockOut
          \/ LockOutZero \/ SetRoutingMode
            \/ UNCHANGED vars
  BY <1>3, <1>13 DEF RouterStores, FrameArrives, TransmissionEnds, BeaconDeadline, LockOut,
     LockOutZero, SetRoutingMode, vars,
     queueVars, execVars, guestVars, timeVars, radioVars, clockVars, ClockTyped
<1>14. QED
  BY <1>4, <1>5, <1>6, <1>7, <1>8, <1>9, <1>10, <1>11, <1>12, <1>13
     DEF Next, Executor, Time, Environment

RestTyped ==
  /\ Rest \in Nat /\ Limit \in Nat /\ Limit <= DmsBound
  /\ Load(Len(cmdQueue)) \in Nat /\ Load(Len(cmdQueue)) <= Full
  /\ spent \in Nat /\ spent <= MaxCall /\ armed \in Nat
  /\ Dms - 1 + Full <= Limit

LEMMA RestFacts == ClockTyped => RestTyped
<1> SUFFICES ASSUME ClockTyped PROVE RestTyped
  OBVIOUS
<1>1. /\ Len(cmdQueue) \in 0 .. CmdDepth /\ Len(cmdQueue) \in Nat
      /\ spent \in Nat /\ spent <= MaxCall /\ armed \in Nat
  <2>1. Len(cmdQueue) \in Nat /\ Len(cmdQueue) <= CmdDepth /\ CmdDepth \in Nat
    BY BrainAssumption DEF ClockTyped, FlowTyped
  <2>2. spent \in 0 .. MaxCall /\ armed \in Nat
    BY DEF ClockTyped
  <2>3. QED
    BY <2>1, <2>2, FullFacts
<1>2. Load(Len(cmdQueue)) \in Nat /\ Load(Len(cmdQueue)) <= Full
  BY <1>1, LoadFacts DEF Full
<1>3. Rest \in Nat
  BY <1>1, <1>2, FullFacts DEF Rest
<1>4. Limit \in Nat /\ Limit <= DmsBound /\ Dms - 1 + Full <= Limit
  BY FullFacts DEF Limit
<1>5. QED
  BY <1>1, <1>2, <1>3, <1>4 DEF RestTyped

LEMMA RestFactsNext == ClockTyped' => RestTyped'
BY RestFacts, PTL

\* The four ways in which a step keeps a clock within its limit
LEMMA NoTime ==
  ASSUME NEW a \in Nat, NEW r \in Nat, NEW l \in Nat,
         NEW b \in Nat, NEW s \in Nat, NEW m \in Nat,
         b <= a, s <= r, l <= m, a + r <= l
  PROVE  b + s <= m
OBVIOUS

LEMMA OneTick ==
  ASSUME NEW a \in Nat, NEW r \in Nat, NEW l \in Nat, NEW b \in Nat,
         b \in {a, a + 1}, a + r <= l
  PROVE  b + (r - 1) <= l
OBVIOUS

LEMMA InTime ==
  ASSUME NEW b \in Nat, NEW s \in Nat, NEW m \in Nat, Dms - 1 + Full <= m,
         \/ b <= Dms - 1 /\ s <= Full
         \/ b <= Dms /\ s = 0
  PROVE  b + s <= m
BY FullFacts

LEMMA Overdue ==
  ASSUME NEW b \in Nat, NEW s \in Nat, b <= Dms - 1 + Full, s <= Full
  PROVE  b + s <= Dms - 1 + Full + Full
BY FullFacts

\* A step in which no time passes keeps the deadline when it takes nothing
\* from the limit and adds nothing to what is left.
LEMMA ClockKept ==
  ASSUME Hanging = {}, ClockInv, [Next]_vars
  PROVE  ClockInv'
<1>1. ClockTyped /\ armed + Rest <= Limit
  BY DEF ClockInv
<1>2. ClockTyped'
  BY <1>1, ClockStaysTyped
<1>3. Rest \in Nat /\ Limit \in Nat /\ armed \in Nat
  BY <1>1, RestFacts DEF RestTyped
<1>4. Rest' \in Nat /\ Limit' \in Nat /\ armed' \in Nat /\ Dms - 1 + Full <= Limit'
  BY <1>2, RestFactsNext DEF RestTyped
<1>5. ASSUME armed' <= armed, Rest' <= Rest, Limit <= Limit' PROVE ClockInv'
  <2>1. armed' + Rest' <= Limit'
    BY <1>1, <1>3, <1>4, <1>5, NoTime, Zenon
  <2>2. QED
    BY <1>2, <2>1 DEF ClockInv
<1>6. ASSUME armed' <= Dms - 1, Rest' <= Full PROVE ClockInv'
  <2>1. armed' + Rest' <= Limit'
    BY <1>4, <1>6, InTime, Zenon
  <2>2. QED
    BY <1>2, <2>1 DEF ClockInv
<1>7. ASSUME UNCHANGED <<batch, running, guest, spent, armed, cmdQueue>> PROVE ClockInv'
  <2>1. Rest' = Rest /\ Limit' = Limit
    BY <1>7 DEF Rest, Limit
  <2>2. QED
    BY <1>3, <1>5, <1>7, <2>1
<1>8. CASE StartPass
  <2>1. /\ running = Nobody /\ batch = {} /\ running' = running /\ armed' = armed
        /\ armed >= Dms => "router" \in batch'
    BY <1>8 DEF StartPass, timeVars, radioVars, clockVars
  <2>2. Rest = 0 /\ Limit = Dms - 1 + Full
    BY <2>1 DEF Rest, Limit, Nobody
  <2>3. Rest' <= Full
    BY <2>1, FullFacts DEF Rest, Nobody
  <2>4. CASE armed >= Dms
    <3>1. Limit' = Dms - 1 + Full + Full
      BY <2>1, <2>4 DEF Limit
    <3>2. armed' + Rest' <= Limit'
      <4>1. armed <= Dms - 1 + Full
        BY <1>1, <1>3, <2>2, FullFacts
      <4>2. armed' <= Dms - 1 + Full
        BY <2>1, <4>1, Zenon
      <4>3. QED
        BY <1>4, <2>3, <3>1, <4>2, Overdue, Zenon
    <3>3. QED
      BY <1>2, <3>2 DEF ClockInv
  <2>5. CASE ~(armed >= Dms)
    BY <1>3, <1>6, <2>1, <2>3, <2>5, FullFacts
  <2>6. QED
    BY <2>4, <2>5
<1>9. ASSUME NEW t \in Task, Poll(t) PROVE ClockInv'
  <2>1. /\ running = Nobody /\ t \in batch /\ running' = t /\ batch' = batch \ {t}
        /\ UNCHANGED <<guest, spent, armed, cmdQueue>> /\ guest = NoCall
    BY <1>1, <1>9 DEF Poll, queueVars, guestVars, timeVars, radioVars, clockVars, ClockTyped,
       Nobody
  <2>2. Limit' = Limit
    BY <2>1 DEF Limit, Nobody
  <2>3. CASE t = "wasm"
    <3>1. Rest = Full
      BY <2>1, <2>3 DEF Rest
    <3>2. Rest' = Load(Len(cmdQueue)) + 0
      BY <2>1, <2>3 DEF Rest
    <3>3. Rest' <= Rest
      BY <1>1, <3>1, <3>2, RestFacts DEF RestTyped
    <3>4. QED
      BY <1>3, <1>5, <2>1, <2>2, <3>3
  <2>4. CASE t # "wasm"
    <3>1. Rest' = Rest
      BY <2>1, <2>4 DEF Rest, Nobody
    <3>2. QED
      BY <1>3, <1>5, <2>1, <2>2, <3>1
  <2>5. QED
    BY <2>3, <2>4
<1>10. CASE Transmit \/ EspnowPending \/ WasmPending
  <2>1. /\ running \in {"espnow", "wasm"} /\ running' = Nobody
        /\ UNCHANGED <<batch, armed>>
    BY <1>10 DEF Transmit, EspnowPending, WasmPending, Pending, timeVars, radioVars, clockVars
  <2>2. Limit' = Limit
    BY <2>1 DEF Limit, Nobody
  <2>3. Rest' = IF "wasm" \in batch THEN Full ELSE 0
    BY <2>1 DEF Rest, Nobody
  <2>4. "wasm" \in batch => Rest = Full
    BY DEF Rest
  <2>5. QED
    BY <1>3, <1>5, <2>1, <2>2, <2>3, <2>4
<1>11. CASE RouterPending
  <2>1. armed < Dms /\ running' = Nobody /\ armed' = armed
    BY <1>11 DEF RouterPending, Pending, timeVars, radioVars, clockVars
  <2>2. Rest' <= Full
    BY <2>1, FullFacts DEF Rest, Nobody
  <2>3. QED
    BY <1>3, <1>6, <2>1, <2>2, FullFacts
<1>12. ASSUME NEW cmd \in Cmd, HandleFrame(cmd) PROVE ClockInv'
  <2>1. running = "espnow" /\ UNCHANGED <<batch, running, guest, spent, armed>>
    BY <1>12 DEF HandleFrame, clockVars, guestVars
  <2>2. Rest' = Rest /\ Limit' = Limit
    BY <2>1 DEF Rest, Limit
  <2>3. QED
    BY <1>3, <1>5, <2>1, <2>2
<1>13. CASE TakeCommand
  <2>1. /\ running = "wasm" /\ guest = NoCall /\ cmdQueue # <<>>
        /\ spent' = 0 /\ cmdQueue' = Tail(cmdQueue) /\ UNCHANGED <<batch, running, armed>>
    BY <1>13 DEF TakeCommand, execVars, timeVars, radioVars, clockVars
  <2>2. Load(Len(cmdQueue)) = Load(Len(cmdQueue')) + MaxCall
    <3>1. cmdQueue \in Seq(Cmd)
      BY <1>1 DEF ClockTyped, FlowTyped
    <3>2. Len(cmdQueue') \in Nat /\ Len(cmdQueue) = Len(cmdQueue') + 1
      BY <2>1, <3>1
    <3>3. QED
      BY <3>2, LoadFacts
  <2>3. Load(Len(cmdQueue')) \in Nat /\ MaxCall \in Nat
    BY <1>2, RestFactsNext, FullFacts DEF RestTyped
  <2>4. "wasm" \notin batch
    BY <1>1, <2>1 DEF ClockTyped
  <2>5. Rest = Load(Len(cmdQueue)) + 0
    BY <2>1, <2>4 DEF Rest
  <2>6. Rest' = Load(Len(cmdQueue')) + (IF guest' = NoCall THEN 0 ELSE MaxCall - 0)
    BY <2>1, <2>4 DEF Rest
  <2>7. Limit' = Limit
    BY <2>1 DEF Limit
  <2>8. Rest' <= Rest
    BY <2>2, <2>3, <2>5, <2>6
  <2>9. QED
    BY <1>3, <1>5, <2>1, <2>7, <2>8
<1>14. CASE SetMotorSpeed \/ GuestReturns
  <2>1. /\ guest # NoCall /\ (guest' = NoCall \/ spent' = spent)
        /\ UNCHANGED <<batch, running, armed, cmdQueue>>
    BY <1>14 DEF SetMotorSpeed, GuestReturns, NoCall, queueVars, execVars, timeVars, radioVars,
       clockVars
  <2>2. running = "wasm" /\ "wasm" \notin batch
    BY <1>1, <2>1 DEF ClockTyped
  <2>3. Rest = Load(Len(cmdQueue)) + (MaxCall - spent)
    BY <2>1, <2>2 DEF Rest
  <2>4. Rest' = Load(Len(cmdQueue)) + (IF guest' = NoCall THEN 0 ELSE MaxCall - spent')
    BY <2>1, <2>2 DEF Rest
  <2>5. Limit' = Limit
    BY <2>1 DEF Limit
  <2>6. Rest' <= Rest
    <3>1. /\ Load(Len(cmdQueue)) \in Nat /\ MaxCall \in Nat
          /\ spent \in Nat /\ spent <= MaxCall
      BY <1>1, RestFacts, FullFacts DEF RestTyped
    <3>2. CASE guest' = NoCall
      BY <2>3, <2>4, <3>1, <3>2
    <3>3. CASE guest' # NoCall
      BY <2>1, <2>3, <2>4, <3>1, <3>3
    <3>4. QED
      BY <3>2, <3>3
  <2>7. QED
    BY <1>3, <1>5, <2>1, <2>5, <2>6
<1>15. CASE RouterReceives \/ DeadMansSwitch
  <2>1. armed' = 0 /\ UNCHANGED <<batch, running, guest, spent, cmdQueue>>
    BY <1>15 DEF RouterReceives, DeadMansSwitch, radioVars, execVars, guestVars, queueVars
  <2>2. Rest' = Rest /\ Limit' = Limit
    BY <2>1 DEF Rest, Limit
  <2>3. QED
    BY <1>3, <1>5, <2>1, <2>2
<1>16. CASE GuestTick
  <2>1. /\ guest # NoCall /\ spent' = spent + 1 /\ armed' \in {armed, armed + 1}
        /\ UNCHANGED <<batch, running, guest, cmdQueue>>
    BY <1>16 DEF GuestTick, Advance, queueVars, execVars
  <2>2. running = "wasm" /\ "wasm" \notin batch
    BY <1>1, <2>1 DEF ClockTyped
  <2>3. Rest = Load(Len(cmdQueue)) + (MaxCall - spent)
    BY <2>1, <2>2 DEF Rest
  <2>4. Rest' = Load(Len(cmdQueue)) + (MaxCall - (spent + 1))
    BY <2>1, <2>2 DEF Rest
  <2>5. Limit' = Limit
    BY <2>1 DEF Limit
  <2>6. Rest' = Rest - 1
    <3>1. Load(Len(cmdQueue)) + (MaxCall - (spent + 1))
            = (Load(Len(cmdQueue)) + (MaxCall - spent)) - 1
      BY <1>1, RestFacts, FullFacts DEF RestTyped
    <3>2. Rest' = (Load(Len(cmdQueue)) + (MaxCall - spent)) - 1
      BY <2>4, <3>1, Zenon
    <3>3. QED
      BY <2>3, <3>2, Zenon
  <2>7. armed' + Rest' <= Limit'
    <3>1. armed' + (Rest - 1) <= Limit
      BY <1>1, <1>3, <1>4, <2>1, OneTick, Zenon
    <3>2. QED
      BY <2>5, <2>6, <3>1, Zenon
  <2>8. QED
    BY <1>2, <2>7 DEF ClockInv
<1>17. CASE IdleTick
  <2>1. /\ running = Nobody /\ batch = {} /\ armed < Dms /\ armed' \in {armed, armed + 1}
        /\ UNCHANGED <<batch, running>>
    BY <1>17 DEF IdleTick, Idle, Advance, execVars
  <2>2. Rest' = 0
    BY <2>1 DEF Rest, Nobody
  <2>3. armed' + Rest' <= Limit'
    <3>1. armed' <= Dms
      BY <1>3, <2>1, FullFacts
    <3>2. QED
      BY <1>4, <2>2, <3>1, InTime, Zenon
  <2>4. QED
    BY <1>2, <2>3 DEF ClockInv
<1>18. CASE RouterStores \/ FrameArrives \/ TransmissionEnds \/ BeaconDeadline \/ LockOut
          \/ LockOutZero \/ SetRoutingMode
            \/ UNCHANGED vars
  BY <1>7, <1>18 DEF RouterStores, FrameArrives, TransmissionEnds, BeaconDeadline, LockOut,
     LockOutZero, SetRoutingMode, vars,
     queueVars, execVars, guestVars, timeVars, radioVars, clockVars
<1>19. QED
  BY <1>8, <1>9, <1>10, <1>11, <1>12, <1>13, <1>14, <1>15, <1>16, <1>17, <1>18
     DEF Next, Executor, Time, Environment

LEMMA LatencyKept ==
  ASSUME Hanging = {}, LatencyInv, [Next]_vars
  PROVE  LatencyInv'
<1>1. ClockInv /\ ClockInv' /\ armed' <= DmsBound
  <2>1. ClockInv /\ ClockInv'
    BY ClockKept DEF LatencyInv
  <2>2. ClockTyped' /\ armed' + Rest' <= Limit'
    BY <2>1 DEF ClockInv
  <2>3. Rest' \in Nat /\ Limit' \in Nat /\ Limit' <= DmsBound /\ armed' \in Nat
    BY <2>2, RestFactsNext DEF RestTyped
  <2>4. ASSUME NEW a \in Nat, NEW r \in Nat, NEW l \in Nat, a + r <= l, l <= DmsBound
        PROVE  a <= DmsBound
    BY <2>4, FullFacts
  <2>5. QED
    BY <2>1, <2>2, <2>3, <2>4, Zenon
<1>2. ASSUME UNCHANGED <<MOTOR_COMMAND, storing, armed, silence>>,
             MOTOR_ENABLED' \in {MOTOR_ENABLED, 0}
      PROVE  LatencyInv'
  BY <1>1, <1>2 DEF LatencyInv, Moving, Disabled, DmsLatency
<1>3. CASE Time
  <2>1. /\ storing = NotStoring /\ UNCHANGED <<MOTOR_COMMAND, MOTOR_ENABLED, storing>>
    BY <1>1, <1>3 DEF Time, IdleTick, GuestTick, Idle, Nobody, Advance, coreVars, motorVars,
       ClockInv, ClockTyped, FlowTyped
  <2>2. silence = armed => silence' = armed'
    BY <1>3 DEF Time, IdleTick, GuestTick, Advance
  <2>3. QED
    BY <1>1, <2>1, <2>2 DEF LatencyInv, Moving, Disabled, DmsLatency
<1>4. CASE RouterReceives
  <2>1. silence' = 0 /\ armed' = 0
    BY <1>4 DEF RouterReceives
  <2>2. QED
    BY <1>1, <2>1 DEF LatencyInv, DmsLatency
<1>5. CASE DeadMansSwitch
  BY <1>1, <1>5 DEF DeadMansSwitch, InRouter, CheckEnabled, LatencyInv, Moving, Disabled,
     DmsLatency, Stop, NotStoring
<1>6. CASE RouterStores
  BY <1>1, <1>6 DEF RouterStores, StoreCommand, LatencyInv, Moving, Disabled, DmsLatency,
     timeVars, radioVars, clockVars
<1>7. CASE LockOutZero
  BY <1>1, <1>7 DEF LockOutZero, ZeroCommand, LatencyInv, Moving, DmsLatency, timeVars,
     radioVars, clockVars
<1>8. CASE LockOut
  BY <1>2, <1>8 DEF LockOut, DisableMotors, timeVars, radioVars, clockVars
<1>9. ASSUME NEW t \in Task, Poll(t) PROVE LatencyInv'
  BY <1>2, <1>9 DEF Poll, coreVars, motorVars, timeVars, radioVars, clockVars
<1>10. ASSUME NEW cmd \in Cmd, HandleFrame(cmd) PROVE LatencyInv'
  BY <1>2, <1>10 DEF HandleFrame, clockVars, coreVars, motorVars
<1>11. CASE StartPass \/ Transmit \/ EspnowPending \/ TakeCommand \/ SetMotorSpeed \/ GuestReturns
            \/ WasmPending \/ RouterPending
  BY <1>2, <1>11 DEF StartPass, Transmit, EspnowPending, TakeCommand, SetMotorSpeed, GuestReturns,
     WasmPending, RouterPending, Pending, coreVars, motorVars, timeVars, radioVars, clockVars
<1>12. CASE FrameArrives \/ TransmissionEnds \/ BeaconDeadline \/ SetRoutingMode \/ UNCHANGED vars
  BY <1>2, <1>12 DEF FrameArrives, TransmissionEnds, BeaconDeadline, SetRoutingMode, vars,
     coreVars, motorVars, timeVars, radioVars, clockVars
<1>13. QED
  BY <1>3, <1>4, <1>5, <1>6, <1>7, <1>8, <1>9, <1>10, <1>11, <1>12
     DEF Next, Executor, Environment

\* When every guest call returns, the motors are zeroed within DmsBound ticks
\* of the last intent the router received, in both modes and whatever the order
\* in which the executor polls its tasks.
THEOREM SwitchIsPrompt ==
  ASSUME Hanging = {}
  PROVE  Spec => []DmsLatency
<1>1. Init => LatencyInv
  <2> SUFFICES ASSUME Init PROVE LatencyInv
    OBVIOUS
  <2>1. FlowTyped
    BY DEF Init, MotorsInit, FlowTyped, NoCall
  <2>2. Rest = 0 /\ Limit = Dms - 1 + Full
    BY DEF Init, Rest, Limit, Nobody
  <2>3. ClockInv
    <3>1. ClockTyped
      BY <2>1, FullFacts, BrainAssumption DEF Init, ClockTyped, Nobody
    <3>2. armed + Rest <= Limit
      BY <2>2, FullFacts DEF Init
    <3>3. QED
      BY <3>1, <3>2 DEF ClockInv
  <2>4. QED
    BY <2>3 DEF Init, MotorsInit, LatencyInv, Moving, DmsLatency
<1>2. LatencyInv /\ [Next]_vars => LatencyInv'
  BY LatencyKept
<1>3. LatencyInv => DmsLatency
  BY DEF LatencyInv
<1>4. QED
  BY <1>1, <1>2, <1>3, PTL DEF Spec
=============================================================================
