---------------------------- MODULE EspNow_proofs ----------------------------
(***************************************************************************)
(* Theorems about the two jobs of espnow_rx_task beside its commands: the  *)
(* update frames that end in a hot swap (HotSwap) and the telemetry it     *)
(* drains (Telemetry), for all constants within the assumptions of the     *)
(* two modules.                                                            *)
(***************************************************************************)
EXTENDS HotSwap, Telemetry, TLAPS

-----------------------------------------------------------------------------
(* The hot swap                                                            *)


\* A message by its command and whether its payload is complete
LEMMA MessageCases ==
  ASSUME NEW m \in Messages
  PROVE  \/ \E n \in Nat : m.cmd = "OTA_BEGIN" /\ m.payload = <<n>>
         \/ \E d \in Seq(Byte) : m.cmd = "OTA_CHUNK" /\ m.payload = <<0, d>>
         \/ m.cmd = "OTA_FINALIZE"
<1>1. ASSUME NEW img \in Images PROVE img \in Seq(Byte) /\ Len(img) \in Nat
  BY HotSwapAssumption
<1>2. QED
  BY <1>1 DEF Messages, Begin, Chunk, Finalize, Truncated

-----------------------------------------------------------------------------
(* Late commands *)

\* While the task waits in receive().await no command has been late yet; once
\* one was, the signal is still up and the next turn of the loop takes it.
LateInv ==
  /\ late \in {0, 1}
  /\ wasm = "receiving" => signal = NoSignal
  /\ late # 0 => wasm \in {"calling", "polling"} /\ signal # NoSignal

\* At most one command goes to the old guest after the signal is fired.
THEOREM OneLateCommand == FairSpec => []AtMostOneLate
<1>1. Init => LateInv
  BY DEF Init, LateInv
<1>2. LateInv /\ [Next]_vars => LateInv'
  <2> SUFFICES ASSUME LateInv, [Next]_vars PROVE LateInv'
    OBVIOUS
  <2>1. CASE UNCHANGED vars
    BY <2>1 DEF LateInv, vars, loopVars, histVars
  <2>2. CASE CommandFrame
    BY <2>2 DEF LateInv, CommandFrame, OffCpu
  <2>3. ASSUME NEW m \in Messages, OtaFrame(m) PROVE LateInv'
    BY <2>3 DEF LateInv, OtaFrame, OffCpu
  <2>4. CASE Boot \/ Wait \/ Return
    BY <2>4 DEF LateInv, Boot, Wait, Return, histVars
  <2>5. CASE Swap \/ NoSwap
    BY <2>5 DEF LateInv, Swap, NoSwap, histVars
  <2>6. CASE Dispatch
    BY <2>6 DEF LateInv, Dispatch, MaxLate
  <2>7. QED
    BY <2>1, <2>2, <2>3, <2>4, <2>5, <2>6 DEF Next, Wasm, Radio
<1>3. LateInv => AtMostOneLate
  BY DEF LateInv, AtMostOneLate
<1>4. QED
  BY <1>1, <1>2, <1>3, PTL DEF FairSpec

-----------------------------------------------------------------------------
(* Commands in order *)

LEMMA NumbersFacts ==
  ASSUME NEW x \in 0 .. Numbers - 1
  PROVE  /\ Numbers \in Nat /\ Numbers >= 3 /\ CmdDepth = Numbers - 2
         /\ x % Numbers = x /\ (x - Numbers) % Numbers = x /\ (x + Numbers) % Numbers = x
<1>1. Numbers \in Nat /\ Numbers >= 3 /\ CmdDepth = Numbers - 2
  BY HotSwapAssumption DEF Numbers
<1>2. QED
  BY <1>1

LEMMA SuccFacts ==
  ASSUME NEW x \in 0 .. Numbers - 1
  PROVE  Succ(x) = IF x = Numbers - 1 THEN 0 ELSE x + 1
<1>1. CASE x = Numbers - 1
  BY <1>1, NumbersFacts DEF Succ
<1>2. CASE x # Numbers - 1
  <2>1. x + 1 \in 0 .. Numbers - 1
    BY <1>2, NumbersFacts
  <2>2. (x + 1) % Numbers = x + 1
    BY <2>1, NumbersFacts
  <2>3. QED
    BY <1>2, <2>2 DEF Succ
<1>3. QED
  BY <1>1, <1>2

\* The remainders of CommandsInOrder without %
Ahead(d, k) == IF d + k < Numbers THEN d + k ELSE d + k - Numbers
Distance == IF accepted >= dispatched THEN accepted - dispatched
            ELSE accepted - dispatched + Numbers

LEMMA Remainders ==
  ASSUME accepted \in 0 .. Numbers - 1, dispatched \in 0 .. Numbers - 1
  PROVE  /\ (accepted - dispatched) % Numbers = Distance
         /\ \A k \in 0 .. Numbers - 1 : (dispatched + k) % Numbers = Ahead(dispatched, k)
<1>1. Numbers \in Nat /\ Numbers >= 3
  BY NumbersFacts
<1>2. (accepted - dispatched) % Numbers = Distance
  <2>1. Distance \in 0 .. Numbers - 1
    BY <1>1 DEF Distance
  <2>2. accepted - dispatched = Distance \/ accepted - dispatched = Distance - Numbers
    BY <1>1 DEF Distance
  <2>3. QED
    BY <2>1, <2>2, NumbersFacts
<1>3. ASSUME NEW k \in 0 .. Numbers - 1
      PROVE  (dispatched + k) % Numbers = Ahead(dispatched, k)
  <2>1. Ahead(dispatched, k) \in 0 .. Numbers - 1
    BY <1>1 DEF Ahead
  <2>2. dispatched + k = Ahead(dispatched, k) \/ dispatched + k = Ahead(dispatched, k) + Numbers
    BY <1>1 DEF Ahead
  <2>3. QED
    BY <2>1, <2>2, NumbersFacts
<1>4. QED
  BY <1>2, <1>3

\* The queue is as long as the distance between the two counters, which names
\* the length because fewer than Numbers commands are ever queued.
OrderInv ==
  /\ accepted \in 0 .. Numbers - 1 /\ dispatched \in 0 .. Numbers - 1
  /\ cmdQueue \in Seq(0 .. Numbers - 1) /\ Len(cmdQueue) <= CmdDepth
  /\ Len(cmdQueue) = Distance
  /\ \A i \in 1 .. Len(cmdQueue) : cmdQueue[i] = Ahead(dispatched, i)

\* The guest gets every accepted command once and in order, across swaps.
THEOREM GuestSeesOrder == FairSpec => []CommandsInOrder
<1>1. Numbers \in Nat /\ Numbers >= 3 /\ CmdDepth = Numbers - 2
  BY HotSwapAssumption DEF Numbers
<1>2. Init => OrderInv
  BY <1>1 DEF Init, OrderInv, Distance
<1>3. OrderInv /\ [Next]_vars => OrderInv'
  <2> SUFFICES ASSUME OrderInv, [Next]_vars PROVE OrderInv'
    OBVIOUS
  <2>1. ASSUME UNCHANGED <<cmdQueue, accepted, dispatched>> PROVE OrderInv'
    BY <2>1 DEF OrderInv, Distance
  <2>2. ASSUME Len(cmdQueue) < CmdDepth, cmdQueue' = Append(cmdQueue, Succ(accepted)),
               accepted' = Succ(accepted), dispatched' = dispatched
        PROVE  OrderInv'
    <3>1. /\ accepted' \in 0 .. Numbers - 1
          /\ accepted' = IF accepted = Numbers - 1 THEN 0 ELSE accepted + 1
      BY <1>1, <2>2, SuccFacts DEF OrderInv
    <3>2. /\ cmdQueue' \in Seq(0 .. Numbers - 1) /\ Len(cmdQueue') = Len(cmdQueue) + 1
          /\ \A i \in 1 .. Len(cmdQueue') :
               cmdQueue'[i] = IF i = Len(cmdQueue') THEN accepted' ELSE cmdQueue[i]
      BY <2>2, <3>1 DEF OrderInv
    <3>3. Distance' = Distance + 1
      BY <1>1, <2>2, <3>1 DEF OrderInv, Distance
    <3>4. accepted' = Ahead(dispatched, Distance')
      BY <1>1, <2>2, <3>1, <3>3 DEF OrderInv, Distance, Ahead
    <3>5. QED
      BY <1>1, <2>2, <3>1, <3>2, <3>3, <3>4 DEF OrderInv
  <2>3. ASSUME cmdQueue # <<>>, cmdQueue' = Tail(cmdQueue), dispatched' = Head(cmdQueue),
               accepted' = accepted
        PROVE  OrderInv'
    <3>1. dispatched' = Ahead(dispatched, 1) /\ dispatched' \in 0 .. Numbers - 1
      BY <1>1, <2>3 DEF OrderInv
    <3>2. /\ cmdQueue' \in Seq(0 .. Numbers - 1) /\ Len(cmdQueue') = Len(cmdQueue) - 1
          /\ \A i \in 1 .. Len(cmdQueue') : cmdQueue'[i] = cmdQueue[i + 1]
      BY <2>3 DEF OrderInv
    <3>3. Len(cmdQueue) >= 1
      BY <2>3 DEF OrderInv
    <3>4. Distance' = Distance - 1
      <4>1. /\ accepted \in 0 .. Numbers - 1 /\ dispatched \in 0 .. Numbers - 1
            /\ Distance \in Int /\ Distance >= 1
        BY <1>1, <3>3 DEF OrderInv, Distance
      <4>2. dispatched' = IF dispatched + 1 < Numbers THEN dispatched + 1 ELSE 0
        BY <1>1, <3>1, <4>1 DEF Ahead
      <4>3. QED
        BY <1>1, <2>3, <4>1, <4>2 DEF Distance
    <3>5. ASSUME NEW i \in 1 .. Len(cmdQueue) - 1
          PROVE  Ahead(dispatched', i) = Ahead(dispatched, i + 1)
      <4>1. /\ dispatched \in 0 .. Numbers - 1
            /\ i \in Nat /\ i + 1 <= Numbers - 2
        BY <1>1 DEF OrderInv
      <4>2. QED
        BY <1>1, <3>1, <4>1 DEF Ahead
    <3>6. /\ Len(cmdQueue') \in Nat /\ Len(cmdQueue') = Len(cmdQueue) - 1
          /\ Len(cmdQueue') = Distance' /\ Len(cmdQueue') <= CmdDepth
      BY <1>1, <3>2, <3>4 DEF OrderInv
    <3>7. ASSUME NEW i \in 1 .. Len(cmdQueue')
          PROVE  cmdQueue'[i] = Ahead(dispatched', i)
      <4>1. i \in 1 .. Len(cmdQueue) - 1 /\ i + 1 \in 1 .. Len(cmdQueue)
        BY <3>3, <3>6
      <4>2. QED
        BY <3>2, <3>5, <4>1 DEF OrderInv
    <3>8. QED
      BY <2>3, <3>1, <3>2, <3>6, <3>7 DEF OrderInv
  <2>4. CASE CommandFrame
    BY <2>1, <2>2, <2>4 DEF CommandFrame
  <2>5. CASE Dispatch
    BY <2>3, <2>5 DEF Dispatch
  <2>6. CASE Boot \/ Swap \/ NoSwap \/ Wait \/ Return \/ (\E m \in Messages : OtaFrame(m))
             \/ UNCHANGED vars
    BY <2>1, <2>6 DEF Boot, Swap, NoSwap, Wait, Return, OtaFrame, vars, loopVars, histVars
  <2>7. QED
    BY <2>4, <2>5, <2>6 DEF Next, Wasm, Radio
<1>4. OrderInv => CommandsInOrder
  <2> SUFFICES ASSUME OrderInv PROVE CommandsInOrder
    OBVIOUS
  <2>1. DOMAIN cmdQueue = 1 .. Len(cmdQueue) /\ Len(cmdQueue) \in 0 .. Numbers - 1
    BY <1>1 DEF OrderInv
  <2>2. Len(cmdQueue) = (accepted - dispatched) % Numbers
    BY Remainders DEF OrderInv
  <2>3. ASSUME NEW i \in DOMAIN cmdQueue
        PROVE  cmdQueue[i] = (dispatched + i) % Numbers
    <3>1. i \in 0 .. Numbers - 1 /\ cmdQueue[i] = Ahead(dispatched, i)
      BY <1>1, <2>1 DEF OrderInv
    <3>2. QED
      BY <3>1, Remainders DEF OrderInv
  <2>4. QED
    BY <2>2, <2>3 DEF CommandsInOrder
<1>5. QED
  BY <1>2, <1>3, <1>4, PTL DEF FairSpec

-----------------------------------------------------------------------------
(* Verified swaps *)

\* A receiver with a session owns a buffer of the declared size; a staged one
\* has been verified, and so has the one the signal announces.
SwapInv ==
  /\ buffer \in Seq(Byte) /\ total_size \in Nat /\ state \in OtaState
  /\ state \in {"Receiving", "Ready"} => Len(buffer) = total_size
  /\ state = "Ready" => total_size = verified
  /\ SignalNamesVerified

LEMMA ZeroesTyped ==
  ASSUME NEW n \in Nat
  PROVE  Zeroes(n) \in Seq(Byte) /\ Len(Zeroes(n)) = n
BY OtaAssumption DEF Zeroes

LEMMA OverlayTyped ==
  ASSUME NEW buf \in Seq(Byte), NEW off \in Nat, NEW data \in Seq(Byte),
         off + Len(data) <= Len(buf)
  PROVE  Overlay(buf, off, data) \in Seq(Byte) /\ Len(Overlay(buf, off, data)) = Len(buf)
<1> DEFINE n == Len(buf)
           e(i) == IF i \in off + 1 .. off + Len(data) THEN data[i - off] ELSE buf[i]
<1>1. n \in Nat /\ DOMAIN buf = 1 .. n /\ Len(data) \in Nat
  OBVIOUS
<1>2. DOMAIN buf \cup (off + 1 .. off + Len(data)) = 1 .. n
  BY <1>1
<1>3. Overlay(buf, off, data) = [i \in 1 .. n |-> e(i)]
  BY <1>2 DEF Overlay
<1>4. \A i \in 1 .. n : e(i) \in Byte
  BY <1>1
<1>5. [i \in 1 .. n |-> e(i)] \in Seq(Byte) /\ Len([i \in 1 .. n |-> e(i)]) = n
  <2> HIDE DEF e, n
  <2>1. QED
    BY <1>1, <1>4
<1>6. QED
  BY <1>3, <1>5

LEMMA FrameKeepsSwapInv ==
  ASSUME SwapInv, NEW m \in Messages, OtaFrame(m)
  PROVE  SwapInv'
<1>1. /\ HandleCommand(m) /\ Signal(m)
      /\ IF state = "Receiving" /\ state' = "Ready"
         THEN verified' = total_size ELSE verified' = verified
  BY DEF OtaFrame
<1>2. ASSUME buffer' = buffer, total_size' = total_size,
             \/ state' \in {"Failed", state}
             \/ m.cmd = "OTA_FINALIZE" /\ state = "Receiving" /\ state' = "Ready"
      PROVE  SwapInv'
  <2>1. /\ state' \in OtaState
        /\ state' \in {"Receiving", "Ready"} => Len(buffer) = total_size
        /\ state' = "Ready" => total_size = verified'
    BY <1>1, <1>2 DEF SwapInv, OtaState
  <2>2. SignalNamesVerified'
    BY <1>1, <1>2, <2>1 DEF SwapInv, Signal, SignalNamesVerified
  <2>3. QED
    BY <1>2, <2>1, <2>2 DEF SwapInv
<1>3. CASE m.cmd = "OTA_BEGIN"
  <2>1. HandleBegin(m.payload)
    BY <1>1, <1>3 DEF HandleCommand
  <2>2. CASE Fail \/ Ignore
    <3>1. buffer' = buffer /\ total_size' = total_size /\ state' \in {"Failed", state}
      BY <2>2 DEF Fail, Ignore, otaVars
    <3>2. QED
      BY <1>2, <3>1
  <2>3. ASSUME NEW n \in Nat, StartSession(n) PROVE SwapInv'
    <3>1. /\ buffer' = Zeroes(n) /\ total_size' = n /\ state' = "Receiving"
          /\ verified' = verified /\ signal' = signal
      BY <1>1, <1>3, <2>3 DEF StartSession, Signal
    <3>2. QED
      BY <3>1, ZeroesTyped DEF SwapInv, SignalNamesVerified, OtaState
  <2>4. QED
    BY <1>3, <2>1, <2>2, <2>3, MessageCases DEF HandleBegin, ValidSize
<1>4. CASE m.cmd = "OTA_CHUNK"
  <2>1. HandleChunk(m.payload)
    BY <1>1, <1>4 DEF HandleCommand
  <2>2. CASE Fail \/ Ignore
    <3>1. buffer' = buffer /\ total_size' = total_size /\ state' \in {"Failed", state}
      BY <2>2 DEF Fail, Ignore, otaVars
    <3>2. QED
      BY <1>2, <3>1
  <2>3. ASSUME NEW d \in Seq(Byte), WriteChunk(0, d), state = "Receiving",
               0 + Len(d) <= total_size
        PROVE  SwapInv'
    <3>1. /\ buffer' = Overlay(buffer, 0, d) /\ total_size' = total_size /\ state' = state
          /\ verified' = verified /\ signal' = signal
      BY <1>1, <1>4, <2>3 DEF WriteChunk, Signal
    <3>2. Overlay(buffer, 0, d) \in Seq(Byte) /\ Len(Overlay(buffer, 0, d)) = Len(buffer)
      BY <2>3, OverlayTyped DEF SwapInv
    <3>3. QED
      BY <2>3, <3>1, <3>2 DEF SwapInv, SignalNamesVerified
  <2>4. PICK d \in Seq(Byte) : m.payload = <<0, d>>
    BY <1>4, MessageCases
  <2>5. m.payload[1] = 0 /\ m.payload[2] = d /\ Len(d) \in Nat
    BY <2>4
  <2>6. Fail \/ Ignore \/ (WriteChunk(0, d) /\ state = "Receiving" /\ 0 + Len(d) <= total_size)
    BY <2>1, <2>5 DEF HandleChunk, SwapInv
  <2>7. QED
    BY <2>2, <2>3, <2>6
<1>5. CASE m.cmd = "OTA_FINALIZE"
  <2>1. /\ buffer' = buffer /\ total_size' = total_size
        /\ state' \in {"Failed", state} \/ (state = "Receiving" /\ state' = "Ready")
    BY <1>1, <1>5 DEF HandleCommand, HandleFinalize, Accept, Fail, Ignore, otaVars
  <2>2. QED
    BY <1>2, <1>5, <2>1
<1>6. QED
  BY <1>3, <1>4, <1>5, MessageCases

\* The signal carries the length of the binary that passed its checksum last.
THEOREM SwapIsVerified == FairSpec => []SignalNamesVerified
<1>1. Init => SwapInv
  BY DEF Init, OtaInit, SwapInv, OtaState, SignalNamesVerified
<1>2. SwapInv /\ [Next]_vars => SwapInv'
  <2> SUFFICES ASSUME SwapInv, [Next]_vars PROVE SwapInv'
    OBVIOUS
  <2>1. ASSUME UNCHANGED <<otaVars, verified>>, signal' = signal \/ signal' = NoSignal
        PROVE  SwapInv'
    BY <2>1 DEF SwapInv, SignalNamesVerified, otaVars
  <2>2. ASSUME NEW m \in Messages, OtaFrame(m) PROVE SwapInv'
    BY <2>2, FrameKeepsSwapInv
  <2>3. CASE CommandFrame \/ Wasm \/ UNCHANGED vars
    BY <2>1, <2>3 DEF CommandFrame, Wasm, Boot, Swap, NoSwap, Dispatch, Wait, Return,
       vars, loopVars, histVars
  <2>4. QED
    BY <2>2, <2>3 DEF Next, Radio
<1>3. SwapInv => SignalNamesVerified
  BY DEF SwapInv
<1>4. QED
  BY <1>1, <1>2, <1>3, PTL DEF FairSpec

-----------------------------------------------------------------------------
(* The age of telemetry                                                    *)

\* From one beacon to the next: the interval, and the guest before and after
\* the beacon is sent
Cycle == Beacon + 2 * MaxBusy

\* What n holds of the guest take
Hold(n) == n * MaxBusy

LEMMA TelemetryParameters ==
  /\ Capacity \in Nat /\ Capacity > 0 /\ MaxDrain \in Nat /\ MaxDrain > 0
  /\ Beacon \in Nat /\ Beacon > 0 /\ MaxBusy \in Nat /\ Hold(MaxDrain) <= Beacon
  /\ Cycle \in Nat /\ Cycle = Beacon + 2 * MaxBusy
BY TelemetryAssumption DEF Hold, Cycle

LEMMA HoldFacts ==
  ASSUME NEW n \in Nat
  PROVE  /\ Hold(n) \in Nat /\ Hold(n + 1) = Hold(n) + MaxBusy
         /\ n = 0 => Hold(n) = 0
         /\ \A k \in 0 .. n : Hold(k) <= Hold(n)
<1> DEFINE b == MaxBusy
<1>1. b \in Nat
  BY TelemetryParameters
<1> HIDE DEF b
<1>2. n * b \in Nat /\ (n + 1) * b = n * b + b /\ 0 * b = 0
  BY <1>1
<1>3. ASSUME NEW k \in 0 .. n PROVE k * b <= n * b
  <2>1. PICK j \in Nat : n = k + j
    <3>1. n - k \in Nat /\ n = k + (n - k)
      OBVIOUS
    <3>2. QED
      BY <3>1
  <2>2. n * b = k * b + j * b /\ k * b \in Nat /\ j * b \in Nat
    BY <1>1, <2>1
  <2>3. QED
    BY <2>2
<1>4. QED
  BY <1>2, <1>3 DEF b, Hold

\* How long the n-th packet waits when a turn begins right after a beacon and
\* the guest rests: the turns before its own, and then the packets before it.
FreshWait(n) ==
  ((n - 1) \div MaxDrain) * Cycle + Hold((n - 1) % MaxDrain)

LEMMA Division ==
  ASSUME NEW x \in Nat, NEW m \in Nat, m > 0
  PROVE  /\ x \div m \in Nat /\ x % m \in 0 .. m - 1
         /\ x < m => x \div m = 0 /\ x % m = x
         /\ (x + m) \div m = (x \div m) + 1 /\ (x + m) % m = x % m
OBVIOUS

LEMMA FirstTurn ==
  ASSUME NEW n \in 1 .. MaxDrain
  PROVE  FreshWait(n) = Hold(n - 1)
<1>1. n - 1 \in Nat /\ n - 1 < MaxDrain /\ MaxDrain \in Nat /\ Cycle \in Nat
  BY TelemetryParameters
<1>2. (n - 1) \div MaxDrain = 0 /\ (n - 1) % MaxDrain = n - 1
  BY <1>1, Division
<1>3. 0 * Cycle = 0 /\ Hold(n - 1) \in Nat
  BY <1>1, HoldFacts
<1>4. QED
  BY <1>2, <1>3 DEF FreshWait

LEMMA LaterTurn ==
  ASSUME NEW n \in Nat, n > MaxDrain
  PROVE  FreshWait(n) = Cycle + FreshWait(n - MaxDrain)
<1> DEFINE x == (n - MaxDrain) - 1
           q == x \div MaxDrain
<1>1. MaxDrain \in Nat /\ MaxDrain > 0 /\ Cycle \in Nat
  BY TelemetryParameters
<1>2. x \in Nat /\ n - 1 = x + MaxDrain
  BY <1>1
<1> HIDE DEF x
<1>3. q \in Nat /\ (x + MaxDrain) \div MaxDrain = q + 1
      /\ (x + MaxDrain) % MaxDrain = x % MaxDrain /\ x % MaxDrain \in Nat
  BY <1>1, <1>2, Division
<1> HIDE DEF q
<1>4. (q + 1) * Cycle = Cycle + q * Cycle /\ q * Cycle \in Nat
  BY <1>1, <1>3
<1>5. Hold(x % MaxDrain) \in Nat
  BY <1>3, HoldFacts
<1>6. FreshWait(n) = (q + 1) * Cycle + Hold(x % MaxDrain)
  BY <1>2, <1>3 DEF FreshWait
<1>7. FreshWait(n - MaxDrain) = q * Cycle + Hold(x % MaxDrain)
  BY DEF FreshWait, x, q
<1>8. QED
  BY <1>1, <1>4, <1>5, <1>6, <1>7

\* One more turn, and the bound is reached.
LEMMA FreshWaitBound ==
  ASSUME NEW n \in 1 .. Capacity
  PROVE  FreshWait(n) \in Nat /\ Cycle + FreshWait(n) <= LatencyBound
<1> DEFINE x == n - 1
           y == Capacity - 1
           q == x \div MaxDrain
           t == y \div MaxDrain
<1>1. /\ MaxDrain \in Nat /\ MaxDrain > 0 /\ Cycle \in Nat
      /\ Capacity \in Nat /\ MaxBusy \in Nat
  BY TelemetryParameters
<1>2. x \in Nat /\ y \in Nat /\ x <= y
  BY <1>1
<1>3. q \in Nat /\ t \in Nat /\ x % MaxDrain \in 0 .. MaxDrain - 1
  BY <1>1, <1>2, Division
<1>4. q <= t
  BY <1>1, <1>2
<1>5. Turns = t + 1
  <2>1. Capacity + MaxDrain - 1 = y + MaxDrain
    BY <1>1
  <2>2. (y + MaxDrain) \div MaxDrain = t + 1
    BY <1>1, <1>2, Division
  <2>3. QED
    BY <2>1, <2>2 DEF Turns
<1>6. FreshWait(n) = q * Cycle + Hold(x % MaxDrain)
  BY DEF FreshWait
<1>7. LatencyBound = (t + 1) * Cycle + Hold(MaxDrain - 1)
  BY <1>5 DEF LatencyBound, Cycle, Hold
<1> HIDE DEF q, t, x, y
<1>8. Hold(x % MaxDrain) \in Nat /\ Hold(MaxDrain - 1) \in Nat
      /\ Hold(x % MaxDrain) <= Hold(MaxDrain - 1)
  <2>1. MaxDrain - 1 \in Nat /\ x % MaxDrain \in Nat
    BY <1>1, <1>3
  <2>2. QED
    BY <1>3, <2>1, HoldFacts
<1>9. q * Cycle \in Nat /\ (t + 1) * Cycle \in Nat /\ q * Cycle + Cycle <= (t + 1) * Cycle
  <2>1. PICK z \in Nat : t = q + z
    <3>1. t - q \in Nat /\ t = q + (t - q)
      BY <1>3, <1>4
    <3>2. QED
      BY <3>1
  <2>2. /\ (t + 1) * Cycle = q * Cycle + z * Cycle + Cycle
        /\ q * Cycle \in Nat /\ z * Cycle \in Nat
    BY <1>1, <1>3, <2>1
  <2>3. QED
    BY <1>1, <2>2
<1>10. QED
  BY <1>1, <1>6, <1>7, <1>8, <1>9

TelemetryTyped ==
  /\ queue \in Seq(Int) /\ Len(queue) <= Capacity
  /\ radio \in {"drain", "wait", "beacon"}
  /\ quota \in 0 .. MaxDrain /\ beacon \in 0 .. Beacon /\ rx \in Nat
  /\ busy \in 0 .. MaxBusy \cup {Free} /\ yielded \in BOOLEAN

\* What the guest can still hold before the radio task runs: the rest of its
\* hold, or a whole one.
GuestRest ==
  IF busy # Free THEN MaxBusy - busy ELSE IF yielded THEN MaxBusy ELSE 0

\* The beacon's deadline, and the guest that holds the core at it
DeadlineRest == IF beacon > 0 THEN beacon + MaxBusy ELSE 0

Later(x, y) == IF x >= y THEN x ELSE y

\* How long the i-th packet of the queue waits at most: for the guest and the
\* packets before it when this turn still takes it, and otherwise for the end of
\* the drain, or the deadline if that is later, and for the turns after the
\* beacon.
WaitFor(i) ==
  IF radio = "drain" /\ i <= quota THEN GuestRest + Hold(i - 1)
  ELSE IF radio = "beacon" THEN GuestRest + FreshWait(i)
  ELSE LET q == IF radio = "drain" THEN quota ELSE 0
       IN Later(DeadlineRest, GuestRest + Hold(q)) + MaxBusy + FreshWait(i - q)

LatencyInv == \A i \in 1 .. Len(queue) : queue[i] + WaitFor(i) <= LatencyBound

LEMMA InitTelemetry == TelemetryInit => TelemetryTyped /\ LatencyInv
BY TelemetryParameters DEF TelemetryInit, TelemetryTyped, LatencyInv, Free

LEMMA QueueSteps ==
  ASSUME TelemetryTyped
  PROVE  /\ Len(queue) \in Nat
         /\ queue # <<>> =>
              /\ Tail(queue) \in Seq(Int) /\ Len(Tail(queue)) = Len(queue) - 1
              /\ \A i \in 1 .. Len(queue) - 1 : Tail(queue)[i] = queue[i + 1]
         /\ Append(queue, 0) \in Seq(Int) /\ Len(Append(queue, 0)) = Len(queue) + 1
         /\ \A i \in 1 .. Len(queue) + 1 :
              Append(queue, 0)[i] = IF i <= Len(queue) THEN queue[i] ELSE 0
         /\ [i \in DOMAIN queue |-> queue[i] + 1] \in Seq(Int)
         /\ Len([i \in DOMAIN queue |-> queue[i] + 1]) = Len(queue)
         /\ \A i \in 1 .. Len(queue) :
              [j \in DOMAIN queue |-> queue[j] + 1][i] = queue[i] + 1
<1>1. queue \in Seq(Int) /\ Len(queue) \in Nat /\ DOMAIN queue = 1 .. Len(queue)
  BY DEF TelemetryTyped
<1>2. queue # <<>> =>
        /\ Tail(queue) \in Seq(Int) /\ Len(Tail(queue)) = Len(queue) - 1
        /\ \A i \in 1 .. Len(queue) - 1 : Tail(queue)[i] = queue[i + 1]
  BY <1>1
<1>3. /\ Append(queue, 0) \in Seq(Int) /\ Len(Append(queue, 0)) = Len(queue) + 1
      /\ \A i \in 1 .. Len(queue) + 1 :
           Append(queue, 0)[i] = IF i <= Len(queue) THEN queue[i] ELSE 0
  BY <1>1
<1>4. /\ [i \in DOMAIN queue |-> queue[i] + 1] \in Seq(Int)
      /\ Len([i \in DOMAIN queue |-> queue[i] + 1]) = Len(queue)
      /\ \A i \in 1 .. Len(queue) :
           [j \in DOMAIN queue |-> queue[j] + 1][i] = queue[i] + 1
  BY <1>1
<1>5. QED
  BY <1>1, <1>2, <1>3, <1>4

LEMMA NextTyped == TelemetryTyped /\ [TelemetryNext]_telemetryVars => TelemetryTyped'
<1> SUFFICES ASSUME TelemetryTyped, [TelemetryNext]_telemetryVars PROVE TelemetryTyped'
  OBVIOUS
<1> USE DEF radioVars, airVars, guestVars
<1>1. queue' \in Seq(Int) /\ Len(queue') <= Capacity
  <2>1. queue \in Seq(Int) /\ Len(queue) <= Capacity /\ Capacity \in Nat
    BY TelemetryParameters DEF TelemetryTyped
  <2>2. CASE Push
    <3>1. CASE Len(queue) < Capacity
      <4>1. queue' = Append(queue, 0)
        BY <2>2, <3>1 DEF Push, PushTelemetry
      <4>2. Append(queue, 0) \in Seq(Int) /\ Len(Append(queue, 0)) = Len(queue) + 1
        BY QueueSteps
      <4>3. QED
        BY <2>1, <3>1, <4>1, <4>2
    <3>2. CASE ~(Len(queue) < Capacity)
      BY <2>1, <2>2, <3>2 DEF Push, PushTelemetry
    <3>3. QED
      BY <3>1, <3>2
  <2>3. CASE Drain
    BY <2>1, <2>3, QueueSteps DEF Drain
  <2>4. CASE Time
    BY <2>1, <2>4, QueueSteps DEF Time
  <2>5. CASE UNCHANGED queue
    BY <2>1, <2>5
  <2>6. QED
    BY <2>2, <2>3, <2>4, <2>5 DEF TelemetryNext, RadioTask, DrainEnds, Frame, SendBeacon,
       BeaconSent, FrameArrives, GuestRuns, GuestYields, telemetryVars
<1>2. /\ radio' \in {"drain", "wait", "beacon"}
      /\ quota' \in 0 .. MaxDrain /\ beacon' \in 0 .. Beacon
  <2>1. /\ radio \in {"drain", "wait", "beacon"}
        /\ quota \in 0 .. MaxDrain /\ beacon \in 0 .. Beacon
        /\ MaxDrain \in Nat /\ Beacon \in Nat
    BY TelemetryParameters DEF TelemetryTyped
  <2>2. CASE Drain \/ DrainEnds \/ Frame
    BY <2>1, <2>2 DEF Drain, DrainEnds, Frame, Turn
  <2>3. CASE SendBeacon \/ BeaconSent
    BY <2>1, <2>3 DEF SendBeacon, BeaconSent, Turn
  <2>4. CASE Time
    BY <2>1, <2>4 DEF Time
  <2>5. CASE UNCHANGED radioVars
    BY <2>1, <2>5
  <2>6. QED
    BY <2>2, <2>3, <2>4, <2>5 DEF TelemetryNext, RadioTask, Push, FrameArrives, GuestRuns,
       GuestYields, telemetryVars
<1>3. rx' \in Nat
  <2>1. rx \in Nat
    BY DEF TelemetryTyped
  <2>2. rx' \in {rx, rx + 1} \/ (rx > 0 /\ rx' = rx - 1)
    BY DEF TelemetryNext, RadioTask, Push, Drain, DrainEnds, Frame, SendBeacon, BeaconSent,
       FrameArrives, GuestRuns, GuestYields, Time, telemetryVars
  <2>3. QED
    BY <2>1, <2>2
<1>4. busy' \in 0 .. MaxBusy \cup {Free}
  <2>1. busy \in 0 .. MaxBusy \cup {Free} /\ MaxBusy \in Nat
    BY TelemetryParameters DEF TelemetryTyped
  <2>2. busy' \in {busy, Free, 0} \/ (busy \in 0 .. MaxBusy - 1 /\ busy' = busy + 1)
    BY DEF TelemetryNext, RadioTask, Push, Drain, DrainEnds, Frame, SendBeacon, BeaconSent,
       FrameArrives, GuestRuns, GuestYields, Time, telemetryVars
  <2>3. QED
    BY <2>1, <2>2
<1>5. yielded' \in BOOLEAN
  <2>1. yielded \in BOOLEAN
    BY DEF TelemetryTyped
  <2>2. CASE DrainEnds
    BY <2>1, <2>2, Zenon DEF DrainEnds
  <2>3. CASE GuestYields
    BY <2>3, Zenon DEF GuestYields
  <2>4. CASE yielded' \in {yielded, TRUE, FALSE}
    BY <2>1, <2>4
  <2>5. QED
    BY <2>2, <2>3, <2>4 DEF TelemetryNext, RadioTask, Push, Drain, Frame, SendBeacon,
       BeaconSent, FrameArrives, GuestRuns, Time, telemetryVars
<1>6. QED
  BY <1>1, <1>2, <1>3, <1>4, <1>5 DEF TelemetryTyped

\* The terms of WaitFor for the i-th packet
LEMMA Waits ==
  ASSUME TelemetryTyped, NEW i \in 1 .. Capacity
  PROVE  /\ GuestRest \in 0 .. MaxBusy /\ DeadlineRest \in 0 .. Beacon + MaxBusy
         /\ Hold(i - 1) \in Nat /\ FreshWait(i) \in Nat
         /\ Cycle + FreshWait(i) <= LatencyBound
         /\ Hold(quota) \in Nat /\ Hold(quota) <= Hold(MaxDrain) /\ Hold(MaxDrain) \in Nat
         /\ Hold(0) = 0
         /\ i > quota => FreshWait(i - quota) \in Nat
                         /\ Cycle + FreshWait(i - quota) <= LatencyBound
         /\ i <= quota => Hold(i - 1) + MaxBusy <= Hold(MaxDrain)
         /\ i <= MaxDrain => FreshWait(i) = Hold(i - 1)
         /\ i > MaxDrain => FreshWait(i - MaxDrain) \in Nat
                            /\ FreshWait(i) = Cycle + FreshWait(i - MaxDrain)
         /\ LatencyBound \in Int
<1>1. /\ quota \in 0 .. MaxDrain /\ MaxDrain \in Nat /\ MaxDrain > 0 /\ Capacity \in Nat
      /\ beacon \in 0 .. Beacon /\ Beacon \in Nat /\ MaxBusy \in Nat
  BY TelemetryParameters DEF TelemetryTyped
<1>2. GuestRest \in 0 .. MaxBusy /\ DeadlineRest \in 0 .. Beacon + MaxBusy
  BY <1>1 DEF GuestRest, DeadlineRest, TelemetryTyped
<1>3. /\ Hold(i - 1) \in Nat /\ Hold(quota) \in Nat /\ Hold(MaxDrain) \in Nat
      /\ Hold(quota) <= Hold(MaxDrain) /\ Hold(0) = 0
  <2>1. i - 1 \in Nat /\ quota \in Nat /\ 0 \in Nat
    BY <1>1
  <2>2. QED
    BY <1>1, <2>1, HoldFacts
<1>4. FreshWait(i) \in Nat /\ Cycle + FreshWait(i) <= LatencyBound
  BY FreshWaitBound
<1>5. ASSUME i > quota
      PROVE  FreshWait(i - quota) \in Nat /\ Cycle + FreshWait(i - quota) <= LatencyBound
  <2>1. i - quota \in 1 .. Capacity
    BY <1>1, <1>5
  <2>2. QED
    BY <2>1, FreshWaitBound
<1>6. ASSUME i <= quota PROVE Hold(i - 1) + MaxBusy <= Hold(MaxDrain)
  <2>1. i - 1 \in Nat /\ (i - 1) + 1 = i /\ i \in 0 .. MaxDrain
    BY <1>1, <1>6
  <2>2. Hold((i - 1) + 1) = Hold(i - 1) + MaxBusy
    BY <2>1, HoldFacts
  <2>3. Hold(i) <= Hold(MaxDrain)
    BY <1>1, <2>1, HoldFacts
  <2>4. QED
    BY <2>1, <2>2, <2>3
<1>7. i <= MaxDrain => FreshWait(i) = Hold(i - 1)
  BY <1>1, FirstTurn
<1>8. ASSUME i > MaxDrain
      PROVE  /\ FreshWait(i - MaxDrain) \in Nat
             /\ FreshWait(i) = Cycle + FreshWait(i - MaxDrain)
  <2>1. i \in Nat /\ i - MaxDrain \in 1 .. Capacity
    BY <1>1, <1>8
  <2>2. QED
    BY <1>8, <2>1, FreshWaitBound, LaterTurn
<1>9. LatencyBound \in Int
  <2>1. Turns \in Int /\ MaxDrain - 1 \in Int
    BY <1>1 DEF Turns
  <2>2. Turns * Cycle \in Int /\ (MaxDrain - 1) * MaxBusy \in Int
    BY <1>1, <2>1, TelemetryParameters
  <2>3. QED
    BY <2>2 DEF LatencyBound, Cycle
<1>10. QED
  BY <1>2, <1>3, <1>4, <1>5, <1>6, <1>7, <1>8, <1>9

\* No wait is longer than the bound, which is why a new packet may join.
LEMMA WaitIsBounded ==
  ASSUME TelemetryTyped, NEW i \in 1 .. Capacity
  PROVE  WaitFor(i) \in Nat /\ WaitFor(i) <= LatencyBound
<1>1. /\ Beacon \in Nat /\ MaxBusy \in Nat /\ Hold(MaxDrain) <= Beacon
      /\ Cycle = Beacon + 2 * MaxBusy
      /\ quota \in Nat /\ radio \in {"drain", "wait", "beacon"} /\ i \in Nat
  BY TelemetryParameters DEF TelemetryTyped
<1>2. CASE radio = "drain" /\ i <= quota
  <2>1. WaitFor(i) = GuestRest + Hold(i - 1)
    BY <1>2 DEF WaitFor
  <2>2. QED
    BY <1>1, <1>2, <2>1, Waits
<1>3. CASE radio = "drain" /\ i > quota
  <2>1. WaitFor(i) =
          Later(DeadlineRest, GuestRest + Hold(quota)) + MaxBusy + FreshWait(i - quota)
    BY <1>1, <1>3 DEF WaitFor
  <2>2. QED
    BY <1>1, <1>3, <2>1, Waits DEF Later
<1>4. CASE radio = "wait"
  <2>1. WaitFor(i) = Later(DeadlineRest, GuestRest + Hold(0)) + MaxBusy + FreshWait(i - 0)
    BY <1>4 DEF WaitFor
  <2>2. i - 0 = i
    BY <1>1
  <2>3. QED
    BY <1>1, <2>1, <2>2, Waits DEF Later
<1>5. CASE radio = "beacon"
  <2>1. WaitFor(i) = GuestRest + FreshWait(i)
    BY <1>5 DEF WaitFor
  <2>2. QED
    BY <1>1, <2>1, Waits
<1>6. QED
  BY <1>1, <1>2, <1>3, <1>4, <1>5

WaitsBounded == \A i \in 1 .. Capacity : WaitFor(i) \in Nat /\ WaitFor(i) <= LatencyBound

LEMMA NextWaits == TelemetryTyped' => WaitsBounded'
<1>1. TelemetryTyped => WaitsBounded
  BY WaitIsBounded DEF WaitsBounded
<1>2. QED
  BY <1>1, PTL

\* What the steps below start from
LEMMA Queued ==
  ASSUME TelemetryTyped, LatencyInv, NEW i \in 1 .. Len(queue)
  PROVE  /\ i \in 1 .. Capacity /\ queue[i] \in Int /\ WaitFor(i) \in Int
         /\ queue[i] + WaitFor(i) <= LatencyBound /\ LatencyBound \in Int
<1>1. /\ queue \in Seq(Int) /\ Len(queue) \in Nat /\ Len(queue) <= Capacity
      /\ Capacity \in Nat
  BY TelemetryParameters DEF TelemetryTyped
<1>2. i \in 1 .. Capacity /\ queue[i] \in Int
  BY <1>1
<1>3. WaitFor(i) \in Int /\ LatencyBound \in Int
  BY <1>2, WaitIsBounded, Waits
<1>4. QED
  BY <1>2, <1>3 DEF LatencyInv

\* A step that leaves the queue alone and makes no packet wait longer
LEMMA NoLongerWait ==
  ASSUME TelemetryTyped, TelemetryTyped', LatencyInv, UNCHANGED queue,
         \A i \in 1 .. Len(queue) : i \in 1 .. Capacity => WaitFor(i)' <= WaitFor(i)
  PROVE  LatencyInv'
<1>1. SUFFICES ASSUME NEW i \in 1 .. Len(queue) PROVE queue[i] + WaitFor(i)' <= LatencyBound
  BY DEF LatencyInv
<1>2. /\ i \in 1 .. Capacity /\ queue[i] \in Int /\ WaitFor(i) \in Int
      /\ queue[i] + WaitFor(i) <= LatencyBound /\ LatencyBound \in Int
  BY Queued
<1>3. WaitFor(i)' \in Nat
  BY <1>2, NextWaits DEF WaitsBounded
<1>4. WaitFor(i)' <= WaitFor(i)
  BY <1>2
<1>5. QED
  BY <1>2, <1>3, <1>4

LEMMA PushKeepsLatency ==
  ASSUME TelemetryTyped, TelemetryTyped', LatencyInv, Push
  PROVE  LatencyInv'
<1>1. UNCHANGED <<radio, quota, beacon, busy, yielded>>
  BY DEF Push, radioVars, guestVars
<1>2. \A i : WaitFor(i)' = WaitFor(i)
  BY <1>1 DEF WaitFor, GuestRest, DeadlineRest
<1>3. CASE UNCHANGED queue
  <2>1. \A i \in 1 .. Len(queue) : i \in 1 .. Capacity => WaitFor(i)' <= WaitFor(i)
    <3>1. \A i \in 1 .. Capacity : WaitFor(i) \in Nat
      BY WaitIsBounded
    <3>2. QED
      BY <1>2, <3>1
  <2>2. QED
    BY <1>3, <2>1, NoLongerWait
<1>4. CASE queue' = Append(queue, 0)
  <2>1. /\ Len(queue) \in Nat /\ Len(queue') = Len(queue) + 1
        /\ \A i \in 1 .. Len(queue) + 1 :
             queue'[i] = IF i <= Len(queue) THEN queue[i] ELSE 0
    BY <1>4, QueueSteps
  <2>2. Len(queue') <= Capacity /\ Capacity \in Nat
    BY TelemetryParameters DEF TelemetryTyped
  <2>3. ASSUME NEW i \in 1 .. Len(queue') PROVE queue'[i] + WaitFor(i)' <= LatencyBound
    <3>1. CASE i <= Len(queue)
      <4>1. i \in 1 .. Len(queue) /\ queue'[i] = queue[i]
        BY <2>1, <3>1
      <4>2. queue[i] + WaitFor(i) <= LatencyBound
        BY <4>1 DEF LatencyInv
      <4>3. QED
        BY <1>2, <4>1, <4>2
    <3>2. CASE ~(i <= Len(queue))
      <4>1. i \in 1 .. Capacity /\ queue'[i] = 0
        BY <2>1, <2>2, <3>2
      <4>2. WaitFor(i) \in Nat /\ WaitFor(i) <= LatencyBound
        BY <4>1, WaitIsBounded
      <4>3. QED
        BY <1>2, <4>1, <4>2
    <3>3. QED
      BY <3>1, <3>2
  <2>4. QED
    BY <2>3 DEF LatencyInv
<1>5. QED
  BY <1>3, <1>4 DEF Push, PushTelemetry

\* A packet is gone, and the guest may hold once more.
LEMMA DrainKeepsLatency ==
  ASSUME TelemetryTyped, TelemetryTyped', LatencyInv, Drain
  PROVE  LatencyInv'
<1>1. /\ queue # <<>> /\ queue' = Tail(queue)
      /\ radio = "drain" /\ radio' = "drain"
      /\ quota > 0 /\ quota' = quota - 1 /\ beacon' = beacon
      /\ busy = Free /\ busy' = Free /\ yielded' = TRUE
  BY DEF Drain
<1>2. /\ Len(queue) \in Nat /\ Len(queue') = Len(queue) - 1
      /\ \A i \in 1 .. Len(queue) - 1 : queue'[i] = queue[i + 1]
  BY <1>1, QueueSteps
<1>3. /\ GuestRest' = MaxBusy /\ DeadlineRest' = DeadlineRest
      /\ quota \in Nat /\ quota - 1 \in Nat /\ MaxBusy \in Nat
  BY <1>1, TelemetryParameters DEF GuestRest, DeadlineRest, TelemetryTyped
<1>4. Hold(quota - 1) \in Nat /\ Hold(quota) = Hold(quota - 1) + MaxBusy
  <2>1. (quota - 1) + 1 = quota
    BY <1>3
  <2>2. Hold((quota - 1) + 1) = Hold(quota - 1) + MaxBusy /\ Hold(quota - 1) \in Nat
    BY <1>3, HoldFacts
  <2>3. QED
    BY <2>1, <2>2
<1>5. ASSUME NEW i \in 1 .. Len(queue') PROVE queue'[i] + WaitFor(i)' <= LatencyBound
  <2>1. i \in Nat /\ i + 1 \in 1 .. Len(queue) /\ queue'[i] = queue[i + 1] /\ i - 1 \in Nat
    BY <1>2
  <2>2. /\ i + 1 \in 1 .. Capacity /\ queue[i + 1] \in Int /\ WaitFor(i + 1) \in Int
        /\ queue[i + 1] + WaitFor(i + 1) <= LatencyBound /\ LatencyBound \in Int
    BY <2>1, Queued
  <2>3. /\ GuestRest \in 0 .. MaxBusy /\ DeadlineRest \in 0 .. Beacon + MaxBusy
        /\ Beacon \in Nat
        /\ i + 1 > quota => FreshWait((i + 1) - quota) \in Nat
    BY <2>2, Waits, TelemetryParameters
  <2>4. CASE i + 1 <= quota
    <3>1. /\ WaitFor(i + 1) = GuestRest + Hold((i + 1) - 1)
          /\ WaitFor(i)' = MaxBusy + Hold(i - 1)
      BY <1>1, <1>3, <2>1, <2>4 DEF WaitFor
    <3>2. (i + 1) - 1 = (i - 1) + 1
      BY <2>1
    <3>3. Hold(i - 1) \in Nat /\ Hold((i - 1) + 1) = Hold(i - 1) + MaxBusy
      BY <2>1, HoldFacts
    <3>4. WaitFor(i)' <= WaitFor(i + 1) /\ WaitFor(i)' \in Int
      BY <1>3, <2>3, <3>1, <3>2, <3>3
    <3>5. QED
      BY <2>1, <2>2, <3>4
  <2>5. CASE i + 1 > quota
    <3>1. /\ ~(i + 1 <= quota) /\ ~(i <= quota - 1) /\ i - (quota - 1) = (i + 1) - quota
      BY <1>3, <2>1, <2>5
    <3>2. WaitFor(i + 1) = Later(DeadlineRest, GuestRest + Hold(quota)) + MaxBusy
                             + FreshWait((i + 1) - quota)
      BY <1>1, <3>1 DEF WaitFor
    <3>3. WaitFor(i)' = Later(DeadlineRest, MaxBusy + Hold(quota - 1)) + MaxBusy
                          + FreshWait((i + 1) - quota)
      BY <1>1, <1>3, <3>1 DEF WaitFor
    <3>4. /\ Later(DeadlineRest, GuestRest + Hold(quota)) \in Nat
          /\ Later(DeadlineRest, MaxBusy + Hold(quota - 1)) \in Nat
          /\ Later(DeadlineRest, MaxBusy + Hold(quota - 1))
               <= Later(DeadlineRest, GuestRest + Hold(quota))
      BY <1>3, <1>4, <2>3 DEF Later
    <3>5. FreshWait((i + 1) - quota) \in Nat
      BY <2>3, <2>5
    <3>6. WaitFor(i)' <= WaitFor(i + 1) /\ WaitFor(i)' \in Int
      BY <1>3, <3>2, <3>3, <3>4, <3>5
    <3>7. QED
      BY <2>1, <2>2, <3>6
  <2>6. QED
    BY <1>3, <2>1, <2>4, <2>5
<1>6. QED
  BY <1>5 DEF LatencyInv

\* While a packet is queued, a drain ends with the quota used up.
LEMMA DrainEndsKeepsLatency ==
  ASSUME TelemetryTyped, TelemetryTyped', LatencyInv, DrainEnds
  PROVE  LatencyInv'
<1>1. /\ queue' = queue /\ radio = "drain" /\ radio' = "wait"
      /\ beacon' = beacon /\ busy = Free /\ busy' = Free
      /\ yielded' = (yielded \/ (rx = 0 /\ beacon > 0))
      /\ quota = 0 \/ queue = <<>>
  BY DEF DrainEnds, airVars
<1>2. /\ MaxBusy \in Nat /\ Hold(0) = 0 /\ beacon \in Nat
  BY TelemetryParameters, HoldFacts DEF TelemetryTyped
<1>3. DeadlineRest' = DeadlineRest
  BY <1>1 DEF DeadlineRest
<1>4. GuestRest \in 0 .. MaxBusy /\ GuestRest' \in 0 .. MaxBusy
  BY <1>1, <1>2 DEF GuestRest
<1>5. Later(DeadlineRest, GuestRest') = Later(DeadlineRest, GuestRest)
  <2>1. CASE beacon > 0
    BY <1>2, <1>4, <2>1 DEF Later, DeadlineRest
  <2>2. CASE ~(beacon > 0)
    <3>1. yielded' <=> yielded
      BY <1>1, <2>2, Zenon
    <3>2. GuestRest' = GuestRest
      BY <1>1, <3>1 DEF GuestRest
    <3>3. QED
      BY <3>2
  <2>3. QED
    BY <2>1, <2>2
<1>6. ASSUME NEW i \in 1 .. Len(queue), i \in 1 .. Capacity
      PROVE  WaitFor(i)' <= WaitFor(i)
  <2>1. quota = 0 /\ ~(i <= quota) /\ i - 0 = i /\ i \in Nat
    BY <1>1
  <2>2. WaitFor(i) = Later(DeadlineRest, GuestRest + Hold(0)) + MaxBusy + FreshWait(i - 0)
    BY <1>1, <2>1 DEF WaitFor
  <2>3. WaitFor(i)' = Later(DeadlineRest, GuestRest' + Hold(0)) + MaxBusy + FreshWait(i - 0)
    BY <1>1, <1>3 DEF WaitFor
  <2>4. GuestRest + Hold(0) = GuestRest /\ GuestRest' + Hold(0) = GuestRest'
    BY <1>2, <1>4
  <2>5. WaitFor(i) \in Nat
    BY <1>6, WaitIsBounded
  <2>6. QED
    BY <1>5, <2>2, <2>3, <2>4, <2>5
<1>7. QED
  BY <1>1, <1>6, NoLongerWait

\* The wait at the start of a turn
LEMMA TurnWaits ==
  ASSUME TelemetryTyped, NEW i \in 1 .. Capacity, Turn
  PROVE  WaitFor(i)' = IF i <= MaxDrain THEN GuestRest' + Hold(i - 1)
                       ELSE Later(DeadlineRest', GuestRest' + Hold(MaxDrain)) + MaxBusy
                              + FreshWait(i - MaxDrain)
BY DEF Turn, WaitFor

\* A frame starts the next turn before the beacon: no later than the deadline,
\* and with a whole quota.
LEMMA FrameKeepsLatency ==
  ASSUME TelemetryTyped, TelemetryTyped', LatencyInv, Frame
  PROVE  LatencyInv'
<1>1. /\ queue' = queue /\ radio = "wait" /\ Turn
      /\ beacon' = beacon /\ busy' = busy /\ yielded' = yielded
  BY DEF Frame, guestVars
<1>2. GuestRest' = GuestRest /\ DeadlineRest' = DeadlineRest
  BY <1>1 DEF GuestRest, DeadlineRest
<1>3. ASSUME NEW i \in 1 .. Len(queue), i \in 1 .. Capacity
      PROVE  WaitFor(i)' <= WaitFor(i)
  <2>1. /\ i \in Nat /\ i - 0 = i /\ MaxBusy \in Nat /\ Beacon \in Nat /\ MaxDrain \in Nat
        /\ Cycle = Beacon + 2 * MaxBusy /\ Hold(MaxDrain) <= Beacon
    BY TelemetryParameters
  <2>2. WaitFor(i) = Later(DeadlineRest, GuestRest + Hold(0)) + MaxBusy + FreshWait(i)
    BY <1>1, <2>1 DEF WaitFor
  <2>3. /\ GuestRest \in 0 .. MaxBusy /\ DeadlineRest \in 0 .. Beacon + MaxBusy
        /\ Hold(0) = 0 /\ FreshWait(i) \in Nat /\ Hold(MaxDrain) \in Nat /\ Hold(i - 1) \in Nat
        /\ i <= MaxDrain => FreshWait(i) = Hold(i - 1)
        /\ i > MaxDrain => FreshWait(i - MaxDrain) \in Nat
                           /\ FreshWait(i) = Cycle + FreshWait(i - MaxDrain)
    BY <1>3, Waits
  <2>4. WaitFor(i)' = IF i <= MaxDrain THEN GuestRest + Hold(i - 1)
                      ELSE Later(DeadlineRest, GuestRest + Hold(MaxDrain)) + MaxBusy
                             + FreshWait(i - MaxDrain)
    BY <1>1, <1>2, <1>3, TurnWaits
  <2>5. CASE i <= MaxDrain
    BY <2>1, <2>2, <2>3, <2>4, <2>5 DEF Later
  <2>6. CASE i > MaxDrain
    <3>1. ~(i <= MaxDrain)
      BY <2>1, <2>6
    <3>2. WaitFor(i)' = Later(DeadlineRest, GuestRest + Hold(MaxDrain)) + MaxBusy
                          + FreshWait(i - MaxDrain)
      BY <2>4, <3>1
    <3>3. Later(DeadlineRest, GuestRest + Hold(MaxDrain)) \in 0 .. Beacon + MaxBusy
      BY <2>1, <2>3 DEF Later
    <3>4. Later(DeadlineRest, GuestRest + Hold(0)) \in Nat
      BY <2>1, <2>3 DEF Later
    <3>5. /\ FreshWait(i - MaxDrain) \in Nat
          /\ FreshWait(i) = (Beacon + 2 * MaxBusy) + FreshWait(i - MaxDrain)
      BY <2>1, <2>3, <2>6
    <3>6. MaxBusy \in Nat /\ Beacon \in Nat
      BY <2>1
    <3>7. QED
      BY <2>2, <3>2, <3>3, <3>4, <3>5, <3>6
  <2>7. QED
    BY <2>1, <2>5, <2>6
<1>4. QED
  BY <1>1, <1>3, NoLongerWait

LEMMA BeaconKeepsLatency ==
  ASSUME TelemetryTyped, TelemetryTyped', LatencyInv, SendBeacon \/ BeaconSent
  PROVE  LatencyInv'
<1>1. CASE SendBeacon
  <2>1. /\ queue' = queue /\ radio = "wait" /\ radio' = "beacon"
        /\ busy = Free /\ busy' = Free /\ yielded' = TRUE
    BY <1>1 DEF SendBeacon, airVars
  <2>2. GuestRest' = MaxBusy /\ MaxBusy \in Nat
    BY <2>1, TelemetryParameters DEF GuestRest
  <2>3. ASSUME NEW i \in 1 .. Len(queue), i \in 1 .. Capacity
        PROVE  WaitFor(i)' <= WaitFor(i)
    <3>1. i - 0 = i
      OBVIOUS
    <3>2. WaitFor(i) = Later(DeadlineRest, GuestRest + Hold(0)) + MaxBusy + FreshWait(i)
      BY <2>1, <3>1 DEF WaitFor
    <3>3. WaitFor(i)' = MaxBusy + FreshWait(i)
      BY <2>1, <2>2 DEF WaitFor
    <3>4. /\ GuestRest \in 0 .. MaxBusy /\ DeadlineRest \in 0 .. Beacon + MaxBusy
          /\ Hold(0) = 0 /\ FreshWait(i) \in Nat /\ Beacon \in Nat
      BY <2>3, Waits, TelemetryParameters
    <3>5. QED
      BY <2>2, <3>2, <3>3, <3>4 DEF Later
  <2>4. QED
    BY <2>1, <2>3, NoLongerWait
<1>2. CASE BeaconSent
  <2>1. /\ queue' = queue /\ radio = "beacon" /\ Turn
        /\ beacon' = Beacon /\ busy' = busy /\ yielded' = yielded
    BY <1>2 DEF BeaconSent, guestVars
  <2>2. /\ GuestRest' = GuestRest /\ DeadlineRest' = Beacon + MaxBusy
        /\ MaxBusy \in Nat /\ Beacon \in Nat /\ MaxDrain \in Nat
        /\ Cycle = Beacon + 2 * MaxBusy /\ Hold(MaxDrain) <= Beacon
    BY <2>1, TelemetryParameters DEF GuestRest, DeadlineRest
  <2>3. ASSUME NEW i \in 1 .. Len(queue), i \in 1 .. Capacity
        PROVE  WaitFor(i)' <= WaitFor(i)
    <3>1. WaitFor(i) = GuestRest + FreshWait(i)
      BY <2>1 DEF WaitFor
    <3>2. /\ GuestRest \in 0 .. MaxBusy /\ i \in Nat
          /\ FreshWait(i) \in Nat /\ Hold(MaxDrain) \in Nat /\ Hold(i - 1) \in Nat
          /\ i <= MaxDrain => FreshWait(i) = Hold(i - 1)
          /\ i > MaxDrain => FreshWait(i - MaxDrain) \in Nat
                             /\ FreshWait(i) = Cycle + FreshWait(i - MaxDrain)
      BY <2>3, Waits
    <3>3. WaitFor(i)' = IF i <= MaxDrain THEN GuestRest + Hold(i - 1)
                        ELSE Later(Beacon + MaxBusy, GuestRest + Hold(MaxDrain)) + MaxBusy
                               + FreshWait(i - MaxDrain)
      BY <2>1, <2>2, <2>3, TurnWaits
    <3>4. CASE i <= MaxDrain
      BY <2>2, <3>1, <3>2, <3>3, <3>4
    <3>5. CASE i > MaxDrain
      <4>1. ~(i <= MaxDrain)
        BY <2>2, <3>2, <3>5
      <4> DEFINE L == Later(Beacon + MaxBusy, GuestRest + Hold(MaxDrain))
      <4>2. L \in Nat /\ L <= GuestRest + Beacon + MaxBusy
        BY <2>2, <3>2 DEF Later
      <4>3. WaitFor(i)' = L + MaxBusy + FreshWait(i - MaxDrain)
        BY <3>3, <4>1
      <4>4. /\ WaitFor(i) = GuestRest + Cycle + FreshWait(i - MaxDrain)
            /\ FreshWait(i - MaxDrain) \in Nat
        BY <2>2, <3>1, <3>2, <3>5
      <4> HIDE DEF L
      <4>5. QED
        BY <2>2, <3>2, <4>2, <4>3, <4>4
    <3>6. QED
      BY <2>2, <3>2, <3>4, <3>5
  <2>4. QED
    BY <2>1, <2>3, NoLongerWait
<1>3. QED
  BY <1>1, <1>2

\* The guest's hold is counted before it begins, and a rest that follows it is
\* over before the deadline.
LEMMA GuestKeepsLatency ==
  ASSUME TelemetryTyped, TelemetryTyped', LatencyInv, GuestRuns \/ GuestYields
  PROVE  LatencyInv'
<1>1. /\ UNCHANGED <<queue, radio, quota, beacon, rx>>
      /\ DeadlineRest' = DeadlineRest
  BY DEF GuestRuns, GuestYields, radioVars, airVars, DeadlineRest
<1>2. /\ MaxBusy \in Nat /\ Beacon \in Nat /\ beacon \in 0 .. Beacon
      /\ GuestRest \in 0 .. MaxBusy
  BY TelemetryParameters DEF TelemetryTyped, GuestRest
<1>3. ASSUME GuestRest' \in 0 .. GuestRest, NEW i \in 1 .. Capacity
      PROVE  WaitFor(i)' <= WaitFor(i)
  <2>1. /\ Hold(i - 1) \in Nat /\ Hold(quota) \in Nat /\ Hold(0) = 0
        /\ FreshWait(i) \in Nat /\ DeadlineRest \in 0 .. Beacon + MaxBusy
        /\ i > quota => FreshWait(i - quota) \in Nat
        /\ quota \in Nat /\ i \in Nat /\ i - 0 = i
        /\ radio \in {"drain", "wait", "beacon"}
    BY Waits DEF TelemetryTyped
  <2>2. CASE radio = "drain" /\ i <= quota
    <3>1. WaitFor(i) = GuestRest + Hold(i - 1) /\ WaitFor(i)' = GuestRest' + Hold(i - 1)
      BY <1>1, <2>2 DEF WaitFor
    <3>2. QED
      BY <1>2, <1>3, <2>1, <3>1
  <2>3. CASE radio = "drain" /\ ~(i <= quota)
    <3>1. /\ WaitFor(i) = Later(DeadlineRest, GuestRest + Hold(quota)) + MaxBusy
                            + FreshWait(i - quota)
          /\ WaitFor(i)' = Later(DeadlineRest, GuestRest' + Hold(quota)) + MaxBusy
                             + FreshWait(i - quota)
      BY <1>1, <2>3 DEF WaitFor
    <3>2. QED
      BY <1>2, <1>3, <2>1, <2>3, <3>1 DEF Later
  <2>4. CASE radio = "wait"
    <3>1. /\ WaitFor(i) = Later(DeadlineRest, GuestRest + Hold(0)) + MaxBusy + FreshWait(i)
          /\ WaitFor(i)' = Later(DeadlineRest, GuestRest' + Hold(0)) + MaxBusy + FreshWait(i)
      BY <1>1, <2>1, <2>4 DEF WaitFor
    <3>2. QED
      BY <1>2, <1>3, <2>1, <3>1 DEF Later
  <2>5. CASE radio = "beacon"
    <3>1. WaitFor(i) = GuestRest + FreshWait(i) /\ WaitFor(i)' = GuestRest' + FreshWait(i)
      BY <1>1, <2>5 DEF WaitFor
    <3>2. QED
      BY <1>2, <1>3, <2>1, <3>1
  <2>6. QED
    BY <2>1, <2>2, <2>3, <2>4, <2>5
<1>4. CASE GuestRuns
  <2>1. GuestRest = MaxBusy /\ GuestRest' = MaxBusy
    BY <1>2, <1>4 DEF GuestRuns, GuestRest, Free
  <2>2. GuestRest' \in 0 .. GuestRest
    BY <1>2, <2>1
  <2>3. QED
    BY <1>1, <1>3, <2>2, NoLongerWait
<1>5. CASE GuestYields /\ Ready
  <2>1. ~yielded' /\ busy' = Free
    BY <1>5, Zenon DEF GuestYields
  <2>2. GuestRest' = 0
    BY <2>1 DEF GuestRest
  <2>3. GuestRest' \in 0 .. GuestRest
    BY <1>2, <2>2
  <2>4. QED
    BY <1>1, <1>3, <2>3, NoLongerWait
<1>6. CASE GuestYields /\ ~Ready
  <2>1. radio = "wait" /\ beacon > 0
    BY <1>2, <1>6 DEF Ready
  <2>2. GuestRest' \in 0 .. MaxBusy /\ DeadlineRest = beacon + MaxBusy
    BY <1>2, <1>6, <2>1 DEF GuestYields, GuestRest, DeadlineRest
  <2>3. ASSUME NEW i \in 1 .. Len(queue), i \in 1 .. Capacity
        PROVE  WaitFor(i)' <= WaitFor(i)
    <3>1. Hold(0) = 0 /\ FreshWait(i) \in Nat /\ i - 0 = i
      BY <2>3, Waits
    <3>2. /\ WaitFor(i) = Later(DeadlineRest, GuestRest + Hold(0)) + MaxBusy + FreshWait(i)
          /\ WaitFor(i)' = Later(DeadlineRest, GuestRest' + Hold(0)) + MaxBusy + FreshWait(i)
      BY <1>1, <2>1, <3>1 DEF WaitFor
    <3>3. QED
      BY <1>2, <2>1, <2>2, <3>1, <3>2 DEF Later
  <2>4. QED
    BY <1>1, <2>3, NoLongerWait
<1>7. QED
  BY <1>4, <1>5, <1>6

\* A period makes every packet older by one and every wait shorter by one.
LEMMA TimeKeepsLatency ==
  ASSUME TelemetryTyped, TelemetryTyped', LatencyInv, Time
  PROVE  LatencyInv'
<1>1. /\ UNCHANGED <<radio, quota, yielded>>
      /\ queue' = [i \in DOMAIN queue |-> queue[i] + 1]
      /\ beacon' = IF beacon > 0 THEN beacon - 1 ELSE 0
      /\ \/ busy \in 0 .. MaxBusy - 1 /\ busy' = busy + 1
         \/ busy = Free /\ ~Ready /\ busy' = busy
  BY DEF Time
<1>2. /\ Len(queue) \in Nat /\ Len(queue') = Len(queue)
      /\ \A i \in 1 .. Len(queue) : queue'[i] = queue[i] + 1
  BY <1>1, QueueSteps
<1>3. /\ MaxBusy \in Nat /\ Beacon \in Nat /\ beacon \in 0 .. Beacon
      /\ radio \in {"drain", "wait", "beacon"} /\ quota \in Nat
      /\ GuestRest \in 0 .. MaxBusy
  BY TelemetryParameters DEF TelemetryTyped, GuestRest
<1>4. \/ GuestRest >= 1 /\ GuestRest' = GuestRest - 1
      \/ radio = "wait" /\ beacon > 0 /\ GuestRest' = GuestRest
  <2>1. CASE busy \in 0 .. MaxBusy - 1 /\ busy' = busy + 1
    BY <1>3, <2>1 DEF GuestRest, Free
  <2>2. CASE busy = Free /\ ~Ready /\ busy' = busy
    BY <1>1, <1>3, <2>2 DEF GuestRest, Ready
  <2>3. QED
    BY <1>1, <2>1, <2>2
<1>5. /\ beacon > 0 => DeadlineRest = beacon + MaxBusy
      /\ beacon > 1 => DeadlineRest' = DeadlineRest - 1
      /\ beacon <= 1 => DeadlineRest' = 0
      /\ beacon = 0 => DeadlineRest = 0
  BY <1>1, <1>3 DEF DeadlineRest
<1>6. ASSUME NEW h \in Nat, GuestRest >= 1, GuestRest' = GuestRest - 1
      PROVE  Later(DeadlineRest', GuestRest' + h) <= Later(DeadlineRest, GuestRest + h) - 1
  <2>1. CASE beacon > 1
    BY <1>3, <1>5, <1>6, <2>1 DEF Later
  <2>2. CASE beacon = 1
    BY <1>3, <1>5, <1>6, <2>2 DEF Later
  <2>3. CASE beacon = 0
    BY <1>3, <1>5, <1>6, <2>3 DEF Later
  <2>4. QED
    BY <1>3, <2>1, <2>2, <2>3
<1>7. ASSUME beacon > 0, GuestRest' = GuestRest
      PROVE  Later(DeadlineRest', GuestRest') <= Later(DeadlineRest, GuestRest) - 1
  <2>1. CASE beacon > 1
    BY <1>3, <1>5, <1>7, <2>1 DEF Later
  <2>2. CASE beacon = 1
    BY <1>3, <1>5, <1>7, <2>2 DEF Later
  <2>3. QED
    BY <1>3, <1>7, <2>1, <2>2
<1>8. ASSUME NEW i \in 1 .. Len(queue) PROVE queue'[i] + WaitFor(i)' <= LatencyBound
  <2>1. /\ i \in 1 .. Capacity /\ queue[i] \in Int /\ WaitFor(i) \in Int
        /\ queue[i] + WaitFor(i) <= LatencyBound /\ LatencyBound \in Int
        /\ queue'[i] = queue[i] + 1
    BY <1>2, Queued
  <2>2. /\ Hold(i - 1) \in Nat /\ Hold(quota) \in Nat /\ Hold(0) = 0
        /\ FreshWait(i) \in Nat /\ DeadlineRest \in 0 .. Beacon + MaxBusy
        /\ i > quota => FreshWait(i - quota) \in Nat
        /\ i \in Nat /\ i - 0 = i
    BY <2>1, Waits
  <2>3. WaitFor(i)' \in Nat
    BY <2>1, NextWaits DEF WaitsBounded
  <2>4. WaitFor(i)' <= WaitFor(i) - 1
    <3>1. CASE radio = "drain" /\ i <= quota
      <4>1. WaitFor(i) = GuestRest + Hold(i - 1) /\ WaitFor(i)' = GuestRest' + Hold(i - 1)
        BY <1>1, <3>1 DEF WaitFor
      <4>2. GuestRest' = GuestRest - 1
        BY <1>4, <3>1
      <4>3. QED
        BY <1>3, <2>2, <4>1, <4>2
    <3>2. CASE radio = "drain" /\ ~(i <= quota)
      <4>1. /\ WaitFor(i) = Later(DeadlineRest, GuestRest + Hold(quota)) + MaxBusy
                              + FreshWait(i - quota)
            /\ WaitFor(i)' = Later(DeadlineRest', GuestRest' + Hold(quota)) + MaxBusy
                               + FreshWait(i - quota)
        BY <1>1, <3>2 DEF WaitFor
      <4>2. GuestRest >= 1 /\ GuestRest' = GuestRest - 1
        BY <1>4, <3>2
      <4>3. Later(DeadlineRest', GuestRest' + Hold(quota))
              <= Later(DeadlineRest, GuestRest + Hold(quota)) - 1
        BY <1>6, <2>2, <4>2
      <4>4. /\ Later(DeadlineRest, GuestRest + Hold(quota)) \in Int
            /\ Later(DeadlineRest', GuestRest' + Hold(quota)) \in Int
        BY <1>3, <1>5, <2>2, <4>2 DEF Later
      <4>5. i > quota /\ FreshWait(i - quota) \in Nat
        BY <1>3, <2>2, <3>2
      <4>6. QED
        BY <1>3, <4>1, <4>3, <4>4, <4>5
    <3>3. CASE radio = "wait"
      <4>1. /\ WaitFor(i) = Later(DeadlineRest, GuestRest + Hold(0)) + MaxBusy + FreshWait(i)
            /\ WaitFor(i)' = Later(DeadlineRest', GuestRest' + Hold(0)) + MaxBusy + FreshWait(i)
        BY <1>1, <2>2, <3>3 DEF WaitFor
      <4>2. /\ GuestRest + Hold(0) = GuestRest /\ GuestRest' + Hold(0) = GuestRest'
            /\ 0 \in Nat
        BY <1>3, <1>4, <2>2
      <4>3. Later(DeadlineRest', GuestRest') <= Later(DeadlineRest, GuestRest) - 1
        <5>1. CASE GuestRest >= 1 /\ GuestRest' = GuestRest - 1
          <6>1. Later(DeadlineRest', GuestRest' + 0) <= Later(DeadlineRest, GuestRest + 0) - 1
            BY <1>6, <4>2, <5>1
          <6>2. GuestRest' + 0 = GuestRest' /\ GuestRest + 0 = GuestRest
            BY <1>3, <5>1
          <6>3. QED
            BY <6>1, <6>2
        <5>2. CASE beacon > 0 /\ GuestRest' = GuestRest
          BY <1>7, <5>2
        <5>3. QED
          BY <1>4, <5>1, <5>2
      <4>4. Later(DeadlineRest, GuestRest) \in Int /\ Later(DeadlineRest', GuestRest') \in Int
        BY <1>3, <1>4, <1>5, <2>2 DEF Later
      <4>5. /\ WaitFor(i) = Later(DeadlineRest, GuestRest) + MaxBusy + FreshWait(i)
            /\ WaitFor(i)' = Later(DeadlineRest', GuestRest') + MaxBusy + FreshWait(i)
        BY <4>1, <4>2
      <4>6. MaxBusy \in Nat /\ FreshWait(i) \in Nat
        BY <1>3, <2>2
      <4>7. QED
        BY <4>3, <4>4, <4>5, <4>6
    <3>4. CASE radio = "beacon"
      <4>1. WaitFor(i) = GuestRest + FreshWait(i) /\ WaitFor(i)' = GuestRest' + FreshWait(i)
        BY <1>1, <3>4 DEF WaitFor
      <4>2. GuestRest' = GuestRest - 1
        BY <1>4, <3>4
      <4>3. QED
        BY <1>3, <2>2, <4>1, <4>2
    <3>5. QED
      BY <1>3, <3>1, <3>2, <3>3, <3>4
  <2>5. QED
    BY <2>1, <2>3, <2>4
<1>9. QED
  BY <1>2, <1>8 DEF LatencyInv

LEMMA NextLatency ==
  TelemetryTyped /\ TelemetryTyped' /\ LatencyInv /\ [TelemetryNext]_telemetryVars => LatencyInv'
<1> SUFFICES ASSUME TelemetryTyped, TelemetryTyped', LatencyInv,
                    [TelemetryNext]_telemetryVars
             PROVE  LatencyInv'
  OBVIOUS
<1>1. CASE FrameArrives \/ UNCHANGED telemetryVars
  <2>1. UNCHANGED <<queue, radio, quota, beacon, busy, yielded>>
    BY <1>1 DEF FrameArrives, telemetryVars, radioVars, guestVars
  <2>2. QED
    BY <2>1 DEF LatencyInv, WaitFor, GuestRest, DeadlineRest
<1>2. CASE RadioTask
  BY <1>2, DrainKeepsLatency, DrainEndsKeepsLatency, FrameKeepsLatency, BeaconKeepsLatency
  DEF RadioTask
<1>3. QED
  BY <1>1, <1>2, PushKeepsLatency, GuestKeepsLatency, TimeKeepsLatency DEF TelemetryNext

\* No packet in the queue is older than the bound, however the guest, the frames
\* and the beacon share Core 0: for every capacity, quota, interval and hold of
\* the guest.
THEOREM TelemetryIsFresh == TelemetrySpec => []LatencyIsBounded
<1>1. TelemetryTyped /\ LatencyInv => LatencyIsBounded
  <2> SUFFICES ASSUME TelemetryTyped, LatencyInv, NEW i \in DOMAIN queue
               PROVE  queue[i] <= LatencyBound
    BY DEF LatencyIsBounded
  <2>1. i \in 1 .. Len(queue)
    BY DEF TelemetryTyped
  <2>2. /\ i \in 1 .. Capacity /\ queue[i] \in Int
        /\ queue[i] + WaitFor(i) <= LatencyBound /\ LatencyBound \in Int
    BY <2>1, Queued
  <2>3. WaitFor(i) \in Nat
    BY <2>2, WaitIsBounded
  <2>4. QED
    BY <2>2, <2>3
<1>2. QED
  BY <1>1, InitTelemetry, NextTyped, NextLatency, PTL DEF TelemetrySpec
=============================================================================
