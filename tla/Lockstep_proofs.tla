-------------------------- MODULE Lockstep_proofs ---------------------------
(***************************************************************************)
(* Theorems about Lockstep, for every width of the integers, every memory  *)
(* of a guest and all limits within AbiAssumption and LockstepAssumption.  *)
(***************************************************************************)
EXTENDS Lockstep, Inference_proofs

-----------------------------------------------------------------------------
(* The integers: what the casts and abs() do                               *)

\* -i32::MIN; the widths are even.
Half == Modulus \div 2

LEMMA HalfFacts ==
  /\ Half \in Nat /\ Half > 0 /\ Modulus = 2 * Half /\ Modulus \in Nat
  /\ I32 = -Half .. Half - 1
<1>1. Modulus \in Nat /\ Modulus > 0 /\ Modulus % 2 = 0
  BY AbiAssumption
<1>2. Half \in Nat /\ Half > 0 /\ Modulus = 2 * Half
  BY <1>1 DEF Half
<1>3. QED
  BY <1>1, <1>2 DEF I32, Half

\* `as u32` adds the modulus to a negative number, and to no other.
LEMMA AsU32Cases ==
  ASSUME NEW x \in Int, -Modulus <= x, x < Modulus
  PROVE  /\ x < 0 => AsU32(x) = x + Modulus
         /\ x >= 0 => AsU32(x) = x
<1>1. Modulus \in Nat /\ Modulus > 0
  BY HalfFacts
<1>2. ASSUME NEW m \in Nat, m > 0, NEW y \in Int, -m <= y, y < 0
      PROVE  y % m = y + m
  BY <1>2
<1>3. ASSUME NEW m \in Nat, m > 0, NEW y \in 0 .. m - 1
      PROVE  y % m = y
  BY <1>3
<1>4. QED
  BY <1>1, <1>2, <1>3 DEF AsU32

\* The slice's end, an i32 sum, is the u32 sum that was checked.
LEMMA EndIsChecked ==
  ASSUME NEW ptr \in I32, NEW len \in I32, AsU32(ptr) + AsU32(len) < Modulus
  PROVE  /\ AsU32(ptr) \in Nat /\ AsU32(len) \in Nat
         /\ End(ptr, len) = AsU32(ptr) + AsU32(len)
<1>1. /\ ptr \in Int /\ -Half <= ptr /\ ptr < Half /\ len \in Int /\ -Half <= len /\ len < Half
      /\ Half \in Nat /\ Half > 0 /\ Modulus = 2 * Half
  BY HalfFacts
<1>2. /\ ptr < 0 => AsU32(ptr) = ptr + Modulus
      /\ ptr >= 0 => AsU32(ptr) = ptr
      /\ len < 0 => AsU32(len) = len + Modulus
      /\ len >= 0 => AsU32(len) = len
  BY <1>1, AsU32Cases
<1>3. /\ ptr + len < 0 => AsU32(ptr + len) = ptr + len + Modulus
      /\ ptr + len >= 0 => AsU32(ptr + len) = ptr + len
  <2>1. ptr + len \in Int /\ -Modulus <= ptr + len /\ ptr + len < Modulus
    BY <1>1
  <2>2. QED
    BY <2>1, AsU32Cases
<1>4. QED
  BY <1>1, <1>2, <1>3 DEF End

\* The range check lets i32::MIN through, whose abs() is negative.
LEMMA InRange ==
  ASSUME NEW x \in I32, Abs(x) <= MAX_MOTOR_SPEED
  PROVE  x \in -MAX_MOTOR_SPEED .. MAX_MOTOR_SPEED \/ x = -Half
BY HalfFacts, AbiAssumption DEF Abs, Half

\* `as i16` keeps a legal speed, and turns i32::MIN into standstill.
LEMMA AsI16OfLegal ==
  ASSUME NEW x \in -MAX_MOTOR_SPEED .. MAX_MOTOR_SPEED
  PROVE  AsI16(x) = x
<1>1. PICK h \in Nat : HalfModulus = 2 * h /\ HalfModulus \div 2 = h /\ h > 0
  BY AbiAssumption
<1>2. MAX_MOTOR_SPEED \in Nat /\ MAX_MOTOR_SPEED < h
  BY <1>1, AbiAssumption
<1>3. x \in Int /\ -h <= x /\ x < h
  BY <1>2
<1>4. ASSUME NEW m \in Nat, m > 0, NEW y \in Int, -m <= y, y < m
      PROVE  y % m = IF y < 0 THEN y + m ELSE y
  BY <1>4
<1>5. x % HalfModulus = IF x < 0 THEN x + HalfModulus ELSE x
  BY <1>1, <1>3, <1>4
<1>6. QED
  BY <1>1, <1>3, <1>5 DEF AsI16

LEMMA AsI16OfLeast == AsI16(-Half) = 0
<1>1. ASSUME NEW m \in Nat, m > 0, NEW h \in Nat, h % m = 0
      PROVE  (-h) % m = 0
  <2>1. h = m * (h \div m) + 0 /\ h \div m \in Nat
    BY <1>1, DivMod
  <2>2. PICK q \in Int : -h = m * q
    <3>1. -h = m * (-(h \div m)) /\ -(h \div m) \in Int
      BY <1>1, <2>1
    <3>2. QED
      BY <3>1
  <2>3. (m * q) % m = 0
    BY <1>1
  <2>4. QED
    BY <2>2, <2>3
<1>2. HalfModulus \in Nat /\ HalfModulus > 0 /\ Half \in Nat /\ Half % HalfModulus = 0
  BY HalfFacts, AbiAssumption DEF Half
<1>3. (-Half) % HalfModulus = 0
  BY <1>1, <1>2
<1>4. 0 < HalfModulus \div 2
  BY AbiAssumption
<1>5. QED
  BY <1>3, <1>4 DEF AsI16

\* Speeds that pass the range check are legal once they are i16.
LEMMA IntentIsLegal ==
  ASSUME NEW left \in I32, NEW right \in I32, SpeedInRange(left, right)
  PROVE  MovementIntent(left, right) \in LegalSpeeds
<1>1. ASSUME NEW x \in I32, Abs(x) <= MAX_MOTOR_SPEED
      PROVE  AsI16(x) \in -MAX_MOTOR_SPEED .. MAX_MOTOR_SPEED
  BY <1>1, InRange, AsI16OfLegal, AsI16OfLeast, AbiAssumption
<1>2. QED
  BY <1>1 DEF SpeedInRange, MovementIntent, LegalSpeeds

\* Of any other i32 than i32::MIN they are the speeds that were asked for.
LEMMA IntentIsAsked ==
  ASSUME NEW left \in I32 \ {-Half}, NEW right \in I32 \ {-Half}, SpeedInRange(left, right)
  PROVE  MovementIntent(left, right) = <<left, right>>
BY InRange, AsI16OfLegal DEF SpeedInRange, MovementIntent

-----------------------------------------------------------------------------
(* Guest memory: a pair that was accepted is a slice of it, and what is     *)
(* written leaves its length alone                                          *)

Cells == Seq(Int)
Memories == {NoMemory} \cup {m \in Cells : Len(m) < Half}

\* No slice of an accepted (ptr, len) leaves the memory.
LEMMA AccessibleIsSliceable ==
  ASSUME NEW h, h.memory \in Memories, NEW ptr \in I32, NEW len \in I32,
         Accessible(h, ptr, len)
  PROVE  /\ h.memory \in Cells /\ Sliceable(h, ptr, len) /\ Slice(h, ptr, len) \in Cells
         /\ AsU32(ptr) \in Nat /\ AsU32(len) \in Nat
         /\ AsU32(ptr) + AsU32(len) <= Len(h.memory)
<1>1. h.memory \in Cells
  BY DEF Accessible, Memories
<1>2. AsU32(ptr) + AsU32(len) < Modulus /\ AsU32(ptr) + AsU32(len) <= Len(h.memory)
  BY DEF Accessible, ValidatePtrLen
<1>3. /\ AsU32(ptr) \in Nat /\ AsU32(len) \in Nat
      /\ End(ptr, len) = AsU32(ptr) + AsU32(len)
  BY <1>2, EndIsChecked
<1>4. Sliceable(h, ptr, len)
  BY <1>2, <1>3 DEF Sliceable
<1>5. Slice(h, ptr, len) \in Cells
  <2>1. AsU32(ptr) + 1 \in Nat /\ AsU32(ptr) + 1 >= 1 /\ End(ptr, len) \in Nat
        /\ End(ptr, len) <= Len(h.memory)
    BY <1>2, <1>3
  <2>2. SubSeq(h.memory, AsU32(ptr) + 1, End(ptr, len)) \in Seq(Int)
    BY <1>1, <2>1 DEF Cells
  <2>3. QED
    BY <2>2 DEF Slice, Cells
<1>6. QED
  BY <1>1, <1>2, <1>3, <1>4, <1>5

Written(memory, at, cells) ==
  [i \in DOMAIN memory |-> IF i - at \in DOMAIN cells THEN cells[i - at] ELSE memory[i]]

LEMMA WrittenFacts ==
  ASSUME NEW memory \in Cells, NEW cells \in Cells, NEW at \in Nat
  PROVE  /\ Written(memory, at, cells) \in Cells
         /\ Len(Written(memory, at, cells)) = Len(memory)
<1>1. memory \in [1 .. Len(memory) -> Int] /\ Len(memory) \in Nat
  BY DEF Cells
<1>2. cells \in [DOMAIN cells -> Int]
  BY DEF Cells
<1>3. Written(memory, at, cells) \in [1 .. Len(memory) -> Int]
  BY <1>1, <1>2 DEF Written
<1>4. ASSUME NEW n \in Nat, NEW f \in [1 .. n -> Int] PROVE f \in Seq(Int) /\ Len(f) = n
  OBVIOUS
<1>5. QED
  BY <1>1, <1>3, <1>4 DEF Cells

\* A write of no more cells than were accepted does not panic.
LEMMA PokeInside ==
  ASSUME NEW h, h.memory \in Memories, NEW ptr \in I32, NEW len \in I32,
         Accessible(h, ptr, len), NEW cells \in Cells, Len(cells) <= AsU32(len),
         NEW k, k.memory = h.memory
  PROVE  Poke(k, ptr, cells) =
           [k EXCEPT !.memory = Written(h.memory, AsU32(ptr), cells)]
<1>1. ~(AsU32(ptr) + Len(cells) > Len(k.memory))
  BY AccessibleIsSliceable DEF Cells
<1>2. QED
  BY <1>1 DEF Poke, Written

LEMMA WrittenIsMemory ==
  ASSUME NEW memory \in Memories, memory # NoMemory, NEW cells \in Cells, NEW at \in Nat
  PROVE  /\ Written(memory, at, cells) \in Memories
         /\ Written(memory, at, cells) # NoMemory
         /\ Len(Written(memory, at, cells)) = Len(memory)
BY WrittenFacts, AbiAssumption DEF Memories, Cells

-----------------------------------------------------------------------------
(* The two hosts                                                            *)

Modes == {"SingleBoard", "Distributed"}
Bytes == 0 .. 255
Recordings == Seq(Bytes)
Readings == I32 \X I32
Snapshots == Seq(Seq(Int))
Queues == Seq(LegalSpeeds)
Words == {Pack(r) : r \in Results}
NoOta == {<<0, 0, 0, 0>>}
Buffers == UNION {[D -> Byte] : D \in SUBSET Int}
Sessions ==
  [ota_state : OtaState, ota_buffer : Buffers, ota_expected_size : Nat,
   ota_bytes_received : Nat, hot_swap_count : Nat]
Drawn == EyeExpression \cup {NoExpression}

FirmwareHosts ==
  [memory : Memories, ret : Int, panicked : {FALSE},
   led_on : BOOLEAN, audio_active : BOOLEAN, audio_buf : Recordings,
   expression : EyeExpression, brightness : Int, text : Cells, ota_status : NoOta,
   imu : Readings, enabled : BOOLEAN, mode : Modes, intents : Queues,
   snapshots : Snapshots, result : Words]

MockHosts ==
  [memory : Memories, ret : Int, panicked : {FALSE},
   led_on : BOOLEAN, audio_active : BOOLEAN, audio_buf : Recordings,
   expression : Drawn, brightness : Int, text : Cells, ota : Sessions,
   imu : Readings, enabled : BOOLEAN, mode : Modes,
   motor : LegalSpeeds, sinceIntent : Nat, dead_mans_active : BOOLEAN,
   snapshots : Snapshots, result : Results]

SameShape(a, b) ==
  IF a = NoMemory THEN b = NoMemory ELSE b # NoMemory /\ Len(a) = Len(b)

\* What the two hosts have in common whatever the guest calls
Alike(f, m) ==
  /\ SameShape(f.memory, m.memory)
  /\ f.led_on = m.led_on /\ f.text = m.text
  /\ m.expression \in {f.expression, NoExpression}
  /\ f.brightness = m.brightness \/ m.brightness = 0
  /\ f.audio_active = m.audio_active /\ f.audio_buf = m.audio_buf
  /\ f.imu = m.imu /\ f.enabled = m.enabled /\ f.mode = m.mode

Pair(f, m) == f \in FirmwareHosts /\ m \in MockHosts /\ Alike(f, m)

\* What the guest's calls leave alone, those for the motors apart
Kept(f, m, f2, m2) ==
  /\ f2.intents = f.intents /\ f2.snapshots = f.snapshots /\ f2.result = f.result
  /\ m2.motor = m.motor /\ m2.sinceIntent = m.sinceIntent
  /\ m2.dead_mans_active = m.dead_mans_active
  /\ m2.snapshots = m.snapshots /\ m2.result = m.result /\ m2.ota = m.ota

Step(f, m, f2, m2) == Pair(f2, m2) /\ Kept(f, m, f2, m2)

LEMMA StepThenStep ==
  ASSUME NEW f, NEW m, NEW f2, NEW m2, NEW f3, NEW m3,
         Step(f, m, f2, m2), Step(f2, m2, f3, m3)
  PROVE  Step(f, m, f3, m3)
BY DEF Step, Kept

\* Both hosts return, each its own value.
LEMMA BothReturn ==
  ASSUME NEW f, NEW m, Pair(f, m), NEW v \in Int, NEW w \in Int
  PROVE  /\ Step(f, m, Return(f, v), Return(m, w))
         /\ Return(f, v).ret = v /\ Return(f, v).memory = f.memory
         /\ Return(m, w).ret = w /\ Return(m, w).memory = m.memory
<1>1. Return(f, v) \in FirmwareHosts /\ Return(m, w) \in MockHosts
  BY DEF Pair, FirmwareHosts, MockHosts, Return
<1>2. Alike(Return(f, v), Return(m, w))
  BY DEF Pair, FirmwareHosts, MockHosts, Return, Alike
<1>3. /\ Kept(f, m, Return(f, v), Return(m, w))
      /\ Return(f, v).ret = v /\ Return(f, v).memory = f.memory
      /\ Return(m, w).ret = w /\ Return(m, w).memory = m.memory
  BY DEF Pair, FirmwareHosts, MockHosts, Return, Kept
<1>4. QED
  BY <1>1, <1>2, <1>3 DEF Step, Pair

\* Both hosts set the same field to the same value.
LEMMA BothLed ==
  ASSUME NEW f, NEW m, Pair(f, m),
         NEW f2, NEW m2,
         f2 = [f EXCEPT !.led_on = ~@], m2 = [m EXCEPT !.led_on = ~@]
  PROVE  Step(f, m, f2, m2) /\ f2.memory = f.memory /\ m2.memory = m.memory
<1>1. f2 \in FirmwareHosts /\ m2 \in MockHosts
  BY DEF Pair, FirmwareHosts, MockHosts
<1>2. Alike(f2, m2)
  BY DEF Pair, FirmwareHosts, MockHosts, Alike
<1>3. Kept(f, m, f2, m2) /\ f2.memory = f.memory /\ m2.memory = m.memory
  BY DEF Pair, FirmwareHosts, MockHosts, Kept
<1>4. QED
  BY <1>1, <1>2, <1>3 DEF Step, Pair

LEMMA BothDraw ==
  ASSUME NEW f, NEW m, Pair(f, m), NEW e \in EyeExpression,
         NEW f2, NEW m2,
         f2 = [f EXCEPT !.expression = e], m2 = [m EXCEPT !.expression = e]
  PROVE  Step(f, m, f2, m2) /\ f2.memory = f.memory /\ m2.memory = m.memory
<1>1. f2 \in FirmwareHosts /\ m2 \in MockHosts
  BY DEF Pair, FirmwareHosts, MockHosts, Drawn
<1>2. Alike(f2, m2)
  BY DEF Pair, FirmwareHosts, MockHosts, Alike
<1>3. Kept(f, m, f2, m2) /\ f2.memory = f.memory /\ m2.memory = m.memory
  BY DEF Pair, FirmwareHosts, MockHosts, Kept
<1>4. QED
  BY <1>1, <1>2, <1>3 DEF Step, Pair

LEMMA BothBrightness ==
  ASSUME NEW f, NEW m, Pair(f, m), NEW v \in Int,
         NEW f2, NEW m2,
         f2 = [f EXCEPT !.brightness = v], m2 = [m EXCEPT !.brightness = v]
  PROVE  Step(f, m, f2, m2) /\ f2.memory = f.memory /\ m2.memory = m.memory
<1>1. f2 \in FirmwareHosts /\ m2 \in MockHosts
  BY DEF Pair, FirmwareHosts, MockHosts
<1>2. Alike(f2, m2)
  BY DEF Pair, FirmwareHosts, MockHosts, Alike
<1>3. Kept(f, m, f2, m2) /\ f2.memory = f.memory /\ m2.memory = m.memory
  BY DEF Pair, FirmwareHosts, MockHosts, Kept
<1>4. QED
  BY <1>1, <1>2, <1>3 DEF Step, Pair

LEMMA BothText ==
  ASSUME NEW f, NEW m, Pair(f, m), NEW t \in Cells,
         NEW f2, NEW m2,
         f2 = [f EXCEPT !.text = t], m2 = [m EXCEPT !.text = t]
  PROVE  Step(f, m, f2, m2) /\ f2.memory = f.memory /\ m2.memory = m.memory
<1>1. f2 \in FirmwareHosts /\ m2 \in MockHosts
  BY DEF Pair, FirmwareHosts, MockHosts
<1>2. Alike(f2, m2)
  BY DEF Pair, FirmwareHosts, MockHosts, Alike
<1>3. Kept(f, m, f2, m2) /\ f2.memory = f.memory /\ m2.memory = m.memory
  BY DEF Pair, FirmwareHosts, MockHosts, Kept
<1>4. QED
  BY <1>1, <1>2, <1>3 DEF Step, Pair

LEMMA BothCapture ==
  ASSUME NEW f, NEW m, Pair(f, m),
         NEW f2, NEW m2,
         \/ f2 = [f EXCEPT !.audio_active = TRUE] /\ m2 = [m EXCEPT !.audio_active = TRUE]
         \/ f2 = [f EXCEPT !.audio_active = FALSE] /\ m2 = [m EXCEPT !.audio_active = FALSE]
  PROVE  Step(f, m, f2, m2) /\ f2.memory = f.memory /\ m2.memory = m.memory
<1>1. PICK b \in BOOLEAN :
        f2 = [f EXCEPT !.audio_active = b] /\ m2 = [m EXCEPT !.audio_active = b]
  OBVIOUS
<1>2. f2 \in FirmwareHosts /\ m2 \in MockHosts
  BY <1>1 DEF Pair, FirmwareHosts, MockHosts
<1>3. Alike(f2, m2)
  BY <1>1 DEF Pair, FirmwareHosts, MockHosts, Alike
<1>4. Kept(f, m, f2, m2) /\ f2.memory = f.memory /\ m2.memory = m.memory
  BY <1>1 DEF Pair, FirmwareHosts, MockHosts, Kept
<1>5. QED
  BY <1>2, <1>3, <1>4 DEF Step, Pair

LEMMA BothRecord ==
  ASSUME NEW f, NEW m, Pair(f, m), NEW b \in Recordings,
         NEW f2, NEW m2,
         f2 = [f EXCEPT !.audio_buf = b], m2 = [m EXCEPT !.audio_buf = b]
  PROVE  Step(f, m, f2, m2) /\ f2.memory = f.memory /\ m2.memory = m.memory
<1>1. f2 \in FirmwareHosts /\ m2 \in MockHosts
  BY DEF Pair, FirmwareHosts, MockHosts
<1>2. Alike(f2, m2)
  BY DEF Pair, FirmwareHosts, MockHosts, Alike
<1>3. Kept(f, m, f2, m2) /\ f2.memory = f.memory /\ m2.memory = m.memory
  BY DEF Pair, FirmwareHosts, MockHosts, Kept
<1>4. QED
  BY <1>1, <1>2, <1>3 DEF Step, Pair

LEMMA BothSample ==
  ASSUME NEW f, NEW m, Pair(f, m), NEW r \in Readings,
         NEW f2, NEW m2,
         f2 = [f EXCEPT !.imu = r], m2 = [m EXCEPT !.imu = r]
  PROVE  Step(f, m, f2, m2) /\ f2.memory = f.memory /\ m2.memory = m.memory
<1>1. f2 \in FirmwareHosts /\ m2 \in MockHosts
  BY DEF Pair, FirmwareHosts, MockHosts
<1>2. Alike(f2, m2)
  BY DEF Pair, FirmwareHosts, MockHosts, Alike
<1>3. Kept(f, m, f2, m2) /\ f2.memory = f.memory /\ m2.memory = m.memory
  BY DEF Pair, FirmwareHosts, MockHosts, Kept
<1>4. QED
  BY <1>1, <1>2, <1>3 DEF Step, Pair

\* Each host writes memory of its own.
LEMMA BothMemory ==
  ASSUME NEW f, NEW m, Pair(f, m), NEW a \in Memories, NEW b \in Memories, SameShape(a, b),
         NEW f2, NEW m2,
         f2 = [f EXCEPT !.memory = a], m2 = [m EXCEPT !.memory = b]
  PROVE  /\ Step(f, m, f2, m2) /\ f2.memory = a /\ m2.memory = b
         /\ f2.ret = f.ret /\ m2.ret = m.ret
<1>1. f2 \in FirmwareHosts /\ m2 \in MockHosts
  BY DEF Pair, FirmwareHosts, MockHosts
<1>2. /\ Kept(f, m, f2, m2) /\ f2.memory = a /\ m2.memory = b
      /\ f2.ret = f.ret /\ m2.ret = m.ret
  BY DEF Pair, FirmwareHosts, MockHosts, Kept
<1>3. Alike(f2, m2)
  BY <1>2 DEF Pair, FirmwareHosts, MockHosts, Alike
<1>4. QED
  BY <1>1, <1>2, <1>3 DEF Step, Pair

-----------------------------------------------------------------------------
(* The host functions, by both hosts: Called(f, m, f2, m2) says that they   *)
(* go on alike, give the same answer and leave the same memory in memory    *)
(* that was the same.                                                       *)

Called(f, m, f2, m2) ==
  /\ Step(f, m, f2, m2)
  /\ f2.ret = m2.ret
  /\ f.memory = m.memory => f2.memory = m2.memory

LEMMA StatusCodes == {OK, ERR_INVALID_ARG, ERR_BUSY, ERR_BOUNDS} \subseteq Int
BY DEF OK, ERR_INVALID_ARG, ERR_BUSY, ERR_BOUNDS

\* A change of both that leaves their memories alone, and a common answer
LEMMA ChangedAndAnswered ==
  ASSUME NEW f, NEW m, NEW f2, NEW m2, NEW v \in Int,
         Step(f, m, f2, m2), f2.memory = f.memory, m2.memory = m.memory
  PROVE  Called(f, m, Return(f2, v), Return(m2, v))
<1>1. /\ Step(f2, m2, Return(f2, v), Return(m2, v))
      /\ Return(f2, v).ret = v /\ Return(f2, v).memory = f2.memory
      /\ Return(m2, v).ret = v /\ Return(m2, v).memory = m2.memory
  BY BothReturn DEF Step
<1>2. QED
  BY <1>1, StepThenStep DEF Called

LEMMA Answered ==
  ASSUME NEW f, NEW m, NEW v \in Int, Pair(f, m)
  PROVE  Called(f, m, Return(f, v), Return(m, v))
BY BothReturn DEF Called

LEMMA CallToggleLed ==
  ASSUME NEW f, NEW m, Pair(f, m)
  PROVE  Called(f, m, Firmware!host_toggle_led(f), Mock!host_toggle_led(m))
<1>1. /\ Firmware!host_toggle_led(f) = Return([f EXCEPT !.led_on = ~@], OK)
      /\ Mock!host_toggle_led(m) = Return([m EXCEPT !.led_on = ~@], OK)
  BY DEF Firmware!host_toggle_led, Firmware!toggle_led, Firmware!Return, Firmware!OK,
         Mock!host_toggle_led, Mock!toggle_led, Mock!Return, Mock!OK, Return, OK
<1>2. QED
  BY <1>1, BothLed, ChangedAndAnswered, StatusCodes

LEMMA CallDrawEye ==
  ASSUME NEW f, NEW m, Pair(f, m), NEW e \in I32
  PROVE  Called(f, m, Firmware!host_draw_eye(f, e), Mock!host_draw_eye(m, e))
<1>1. CASE e \in EyeExpression
  <2>1. /\ Firmware!host_draw_eye(f, e) = Return([f EXCEPT !.expression = e], OK)
        /\ Mock!host_draw_eye(m, e) = Return([m EXCEPT !.expression = e], OK)
    BY <1>1 DEF Firmware!host_draw_eye, Firmware!draw_eye, Firmware!Return, Firmware!OK,
                Firmware!EyeExpression, Mock!host_draw_eye, Mock!draw_eye, Mock!Return,
                Mock!OK, Mock!EyeExpression, Return, OK, EyeExpression
  <2>2. QED
    BY <1>1, <2>1, BothDraw, ChangedAndAnswered, StatusCodes
<1>2. CASE e \notin EyeExpression
  <2>1. /\ Firmware!host_draw_eye(f, e) = Return(f, ERR_INVALID_ARG)
        /\ Mock!host_draw_eye(m, e) = Return(m, ERR_INVALID_ARG)
    BY <1>2 DEF Firmware!host_draw_eye, Firmware!draw_eye, Firmware!Return,
                Firmware!ERR_INVALID_ARG, Firmware!EyeExpression, Mock!host_draw_eye,
                Mock!draw_eye, Mock!Return, Mock!ERR_INVALID_ARG, Mock!EyeExpression,
                Return, ERR_INVALID_ARG, EyeExpression
  <2>2. QED
    BY <2>1, Answered, StatusCodes
<1>3. QED
  BY <1>1, <1>2

LEMMA CallSetBrightness ==
  ASSUME NEW f, NEW m, Pair(f, m), NEW v \in I32
  PROVE  Called(f, m, Firmware!host_set_brightness(f, v), Mock!host_set_brightness(m, v))
<1>1. CASE v \in 0 .. MAX_BRIGHTNESS
  <2>1. /\ Firmware!host_set_brightness(f, v) = Return([f EXCEPT !.brightness = v], OK)
        /\ Mock!host_set_brightness(m, v) = Return([m EXCEPT !.brightness = v], OK)
    BY <1>1 DEF Firmware!host_set_brightness, Firmware!set_brightness, Firmware!Return,
                Firmware!OK, Mock!host_set_brightness, Mock!set_brightness, Mock!Return,
                Mock!OK, Return, OK
  <2>2. v \in Int
    BY HalfFacts
  <2>3. QED
    BY <2>1, <2>2, BothBrightness, ChangedAndAnswered, StatusCodes
<1>2. CASE v \notin 0 .. MAX_BRIGHTNESS
  <2>1. /\ Firmware!host_set_brightness(f, v) = Return(f, ERR_INVALID_ARG)
        /\ Mock!host_set_brightness(m, v) = Return(m, ERR_INVALID_ARG)
    BY <1>2 DEF Firmware!host_set_brightness, Firmware!set_brightness, Firmware!Return,
                Firmware!ERR_INVALID_ARG, Mock!host_set_brightness, Mock!set_brightness,
                Mock!Return, Mock!ERR_INVALID_ARG, Return, ERR_INVALID_ARG
  <2>2. QED
    BY <2>1, Answered, StatusCodes
<1>3. QED
  BY <1>1, <1>2

LEMMA CallAudioCapture ==
  ASSUME NEW f, NEW m, Pair(f, m)
  PROVE  /\ Called(f, m, Firmware!host_start_audio_capture(f),
                         Mock!host_start_audio_capture(m))
         /\ Called(f, m, Firmware!host_stop_audio_capture(f), Mock!host_stop_audio_capture(m))
         /\ Called(f, m, Firmware!host_get_audio_avail(f), Mock!host_get_audio_avail(m))
<1>1. Called(f, m, Firmware!host_start_audio_capture(f), Mock!host_start_audio_capture(m))
  <2>1. PICK f2, m2 :
          f2 = [f EXCEPT !.audio_active = TRUE] /\ m2 = [m EXCEPT !.audio_active = TRUE]
    OBVIOUS
  <2>2. Step(f, m, f2, m2) /\ f2.memory = f.memory /\ m2.memory = m.memory
    BY <2>1, BothCapture
  <2>3. PICK b \in Recordings : b = <<>>
    <3>1. <<>> \in Recordings
      BY DEF Recordings
    <3>2. QED
      BY <3>1, Zenon
  <2>4. PICK f3, m3 : f3 = [f2 EXCEPT !.audio_buf = b] /\ m3 = [m2 EXCEPT !.audio_buf = b]
    OBVIOUS
  <2>5. Step(f2, m2, f3, m3) /\ f3.memory = f2.memory /\ m3.memory = m2.memory
    <3>1. Pair(f2, m2)
      BY <2>2 DEF Step
    <3>2. QED
      BY <2>4, <3>1, BothRecord
  <2>6. /\ Firmware!host_start_audio_capture(f) = Return(f3, OK)
        /\ Mock!host_start_audio_capture(m) = Return(m3, OK)
    BY <2>1, <2>3, <2>4
    DEF Firmware!host_start_audio_capture, Firmware!start_audio_capture, Firmware!Return,
        Firmware!OK, Mock!host_start_audio_capture, Mock!start_audio_capture, Mock!Return,
        Mock!OK, Return, OK
  <2>7. Step(f, m, f3, m3)
    BY <2>2, <2>5, StepThenStep
  <2>8. QED
    BY <2>2, <2>5, <2>6, <2>7, ChangedAndAnswered, StatusCodes
<1>2. Called(f, m, Firmware!host_stop_audio_capture(f), Mock!host_stop_audio_capture(m))
  <2>0. PICK f2, m2 :
          f2 = [f EXCEPT !.audio_active = FALSE] /\ m2 = [m EXCEPT !.audio_active = FALSE]
    OBVIOUS
  <2>1. /\ Firmware!host_stop_audio_capture(f) = Return(f2, OK)
        /\ Mock!host_stop_audio_capture(m) = Return(m2, OK)
    BY <2>0
    DEF Firmware!host_stop_audio_capture, Firmware!stop_audio_capture, Firmware!Return,
           Firmware!OK, Mock!host_stop_audio_capture, Mock!stop_audio_capture, Mock!Return,
           Mock!OK, Return, OK
  <2>2. Step(f, m, f2, m2) /\ f2.memory = f.memory /\ m2.memory = m.memory
    BY <2>0, BothCapture
  <2>3. QED
    BY <2>1, <2>2, ChangedAndAnswered, StatusCodes
<1>3. Called(f, m, Firmware!host_get_audio_avail(f), Mock!host_get_audio_avail(m))
  <2>1. /\ Firmware!host_get_audio_avail(f) = Return(f, Len(f.audio_buf))
        /\ Mock!host_get_audio_avail(m) = Return(m, Len(m.audio_buf))
    BY DEF Firmware!host_get_audio_avail, Firmware!get_audio_avail, Firmware!Return,
           Mock!host_get_audio_avail, Mock!get_audio_avail, Mock!Return, Return
  <2>2. f.audio_buf = m.audio_buf /\ Len(f.audio_buf) \in Int
    BY DEF Pair, Alike, FirmwareHosts, Recordings
  <2>3. QED
    BY <2>1, <2>2, Answered
<1>4. QED
  BY <1>1, <1>2, <1>3

\* The check of a (ptr, len) pair looks at no more than the memory's size.
LEMMA SameAccess ==
  ASSUME NEW f, NEW m, Pair(f, m), NEW ptr, NEW len
  PROVE  /\ f.memory \in Memories /\ m.memory \in Memories
         /\ SameShape(f.memory, m.memory)
         /\ Accessible(f, ptr, len) <=> Accessible(m, ptr, len)
<1>1. f.memory \in Memories /\ m.memory \in Memories /\ SameShape(f.memory, m.memory)
  BY DEF Pair, Alike, FirmwareHosts, MockHosts
<1>2. QED
  BY <1>1 DEF SameShape, Accessible

\* The hosts' own names for the check and the slice
LEMMA SameMemoryTools ==
  ASSUME NEW h, NEW ptr, NEW len
  PROVE  /\ Firmware!Accessible(h, ptr, len) = Accessible(h, ptr, len)
         /\ Mock!Accessible(h, ptr, len) = Accessible(h, ptr, len)
         /\ Firmware!Sliceable(h, ptr, len) = Sliceable(h, ptr, len)
         /\ Mock!Sliceable(h, ptr, len) = Sliceable(h, ptr, len)
         /\ Firmware!Slice(h, ptr, len) = Slice(h, ptr, len)
         /\ Mock!Slice(h, ptr, len) = Slice(h, ptr, len)
         /\ Firmware!Poke(h, ptr, len) = Poke(h, ptr, len)
         /\ Mock!Poke(h, ptr, len) = Poke(h, ptr, len)
BY DEF Firmware!Accessible, Firmware!ValidatePtrLen, Firmware!AsU32, Firmware!Sliceable,
       Firmware!End, Firmware!Slice, Firmware!Poke, Firmware!Panic,
       Mock!Accessible, Mock!ValidatePtrLen, Mock!AsU32, Mock!Sliceable,
       Mock!End, Mock!Slice, Mock!Poke, Mock!Panic,
       Accessible, ValidatePtrLen, AsU32, Sliceable, End, Slice, Poke, Panic

LEMMA SameReturn ==
  ASSUME NEW h, NEW v
  PROVE  Firmware!Return(h, v) = Return(h, v) /\ Mock!Return(h, v) = Return(h, v)
BY DEF Firmware!Return, Mock!Return, Return

LEMMA AsU32IsNat ==
  ASSUME NEW x \in I32
  PROVE  AsU32(x) \in Nat
BY HalfFacts, AsU32Cases

LEMMA SameAsU32 ==
  ASSUME NEW x
  PROVE  Firmware!AsU32(x) = AsU32(x) /\ Mock!AsU32(x) = AsU32(x)
BY DEF Firmware!AsU32, Mock!AsU32, AsU32

\* Only a text that is not UTF-8 is answered differently.
LEMMA CallDebugLog ==
  ASSUME NEW f, NEW m, Pair(f, m), NEW ptr \in I32, NEW len \in I32,
         NEW f2, f2 = Firmware!host_debug_log(f, ptr, len),
         NEW m2, m2 = Mock!host_debug_log(m, ptr, len)
  PROVE  /\ Step(f, m, f2, m2) /\ f2.memory = f.memory /\ m2.memory = m.memory
         /\ f2.ret = m2.ret \/ <<f2.ret, m2.ret>> = <<OK, ERR_INVALID_ARG>>
<1>1. CASE ~Accessible(f, ptr, len)
  <2>1. f2 = Return(f, ERR_BOUNDS) /\ m2 = Return(m, ERR_BOUNDS)
    BY <1>1, SameAccess, SameMemoryTools, SameReturn, SameAsU32
    DEF Firmware!host_debug_log, Firmware!ERR_BOUNDS, Mock!host_debug_log, Mock!ERR_BOUNDS,
        ERR_BOUNDS
  <2>2. QED
    BY <2>1, BothReturn, StatusCodes
<1>2. CASE Accessible(f, ptr, len)
  <2>1. /\ Accessible(m, ptr, len)
        /\ Sliceable(f, ptr, len) /\ Sliceable(m, ptr, len)
    BY <1>2, SameAccess, AccessibleIsSliceable
  <2>2. f2 = Return(f, OK)
    BY <1>2, <2>1, SameMemoryTools, SameReturn, SameAsU32
    DEF Firmware!host_debug_log, Firmware!debug_log, Firmware!OK, OK
  <2>3. m2 = Return(m, OK) \/ m2 = Return(m, ERR_INVALID_ARG)
    BY <2>1, SameMemoryTools, SameReturn, SameAsU32
    DEF Mock!host_debug_log, Mock!debug_log, Mock!OK, OK, Mock!ERR_INVALID_ARG,
        ERR_INVALID_ARG
  <2>4. QED
    BY <2>2, <2>3, BothReturn, StatusCodes
<1>3. QED
  BY <1>1, <1>2

\* The slice is the same where the memory is.
LEMMA CallWriteText ==
  ASSUME NEW f, NEW m, Pair(f, m), f.memory = m.memory, NEW ptr \in I32, NEW len \in I32
  PROVE  Called(f, m, Firmware!host_write_text(f, ptr, len),
                      Mock!host_write_text(m, ptr, len))
<1> DEFINE f2 == Firmware!host_write_text(f, ptr, len)
           m2 == Mock!host_write_text(m, ptr, len)
           refused == ~Accessible(f, ptr, len) \/ AsU32(len) > MAX_TEXT_BYTES
           t == Slice(f, ptr, len)
<1>1. CASE refused
  <2> AsU32(len) \in Nat /\ MAX_TEXT_BYTES \in Nat
    BY AsU32IsNat, AbiAssumption
  <2>1. f2 = Return(f, ERR_BOUNDS)
    BY <1>1, SameMemoryTools, SameReturn, SameAsU32
    DEF Firmware!host_write_text, Firmware!ERR_BOUNDS, ERR_BOUNDS
  <2>2. ~Accessible(m, ptr, len) \/ AsU32(len) > MAX_TEXT_BYTES
    BY <1>1, SameAccess
  <2>3. m2 = Return(m, ERR_BOUNDS)
    BY <2>2, SameMemoryTools, SameReturn, SameAsU32
    DEF Mock!host_write_text, Mock!ERR_BOUNDS, ERR_BOUNDS
  <2>4. QED
    BY <2>1, <2>3, Answered, StatusCodes
<1>2. CASE ~refused
  <2>1. /\ Accessible(m, ptr, len) /\ Accessible(f, ptr, len)
        /\ Sliceable(f, ptr, len) /\ Sliceable(m, ptr, len)
        /\ AsU32(len) \in Nat /\ t \in Cells
    BY <1>2, SameAccess, AccessibleIsSliceable
  <2>2. AsU32(len) <= MAX_TEXT_BYTES
    BY <1>2, <2>1, AbiAssumption
  <2>3. f2 = Mock!write_text(f, t) /\ m2 = Mock!write_text(m, t)
    <3>1. Firmware!write_text(f, t) = Mock!write_text(f, t)
      BY DEF Firmware!write_text, Firmware!Return, Firmware!OK, Firmware!IsUtf8,
             Firmware!ERR_BOUNDS, Firmware!ERR_INVALID_ARG, Mock!write_text, Mock!Return,
             Mock!OK, Mock!IsUtf8, Mock!ERR_BOUNDS, Mock!ERR_INVALID_ARG
    <3>2. Slice(m, ptr, len) = t
      BY DEF Slice
    <3>3. f2 = Firmware!write_text(f, Slice(f, ptr, len))
      BY <1>2, <2>1, <2>2, SameMemoryTools, SameReturn, SameAsU32 DEF Firmware!host_write_text
    <3>4. m2 = Mock!write_text(m, Slice(m, ptr, len))
      BY <1>2, <2>1, <2>2, SameMemoryTools, SameReturn, SameAsU32 DEF Mock!host_write_text
    <3>5. QED
      BY <3>1, <3>2, <3>3, <3>4
  <2> HIDE DEF t
  <2>4. PICK f3, m3 : f3 = [f EXCEPT !.text = t] /\ m3 = [m EXCEPT !.text = t]
    OBVIOUS
  <2>5. /\ Mock!write_text(f, t) = IF Len(t) > MAX_TEXT_BYTES THEN Return(f, ERR_BOUNDS)
                                  ELSE IF ~Mock!IsUtf8(t) THEN Return(f, ERR_INVALID_ARG)
                                  ELSE Return(f3, OK)
        /\ Mock!write_text(m, t) = IF Len(t) > MAX_TEXT_BYTES THEN Return(m, ERR_BOUNDS)
                                  ELSE IF ~Mock!IsUtf8(t) THEN Return(m, ERR_INVALID_ARG)
                                  ELSE Return(m3, OK)
    <3>1. Len(t) \in Nat /\ MAX_TEXT_BYTES \in Nat
      BY <2>1, AbiAssumption DEF Cells
    <3>2. QED
      BY <2>4, <3>1, SameMemoryTools, SameReturn, SameAsU32
      DEF Mock!write_text, Mock!OK, Mock!ERR_INVALID_ARG, Mock!ERR_BOUNDS, OK,
          ERR_INVALID_ARG, ERR_BOUNDS
  <2>6. Called(f, m, Return(f3, OK), Return(m3, OK))
    <3>1. Step(f, m, f3, m3) /\ f3.memory = f.memory /\ m3.memory = m.memory
      BY <2>1, <2>4, BothText
    <3>2. QED
      BY <3>1, ChangedAndAnswered, StatusCodes
  <2>7. /\ Called(f, m, Return(f, ERR_BOUNDS), Return(m, ERR_BOUNDS))
        /\ Called(f, m, Return(f, ERR_INVALID_ARG), Return(m, ERR_INVALID_ARG))
    BY Answered, StatusCodes
  <2> HIDE DEF f2, m2
  <2>8. Called(f, m, f2, m2)
    BY <2>3, <2>5, <2>6, <2>7
  <2>9. QED
    BY <2>8 DEF f2, m2
<1>3. QED
  BY <1>1, <1>2

\* Both hosts write, each its own cells, where the guest may be written to.
LEMMA BothWrite ==
  ASSUME NEW f, NEW m, Pair(f, m), NEW ptr \in I32, NEW len \in I32, Accessible(f, ptr, len),
         NEW c \in Cells, NEW d \in Cells, Len(c) <= AsU32(len), Len(d) <= AsU32(len)
  PROVE  /\ Step(f, m, Poke(f, ptr, c), Poke(m, ptr, d))
         /\ Poke(f, ptr, c).ret = f.ret /\ Poke(m, ptr, d).ret = m.ret
         /\ f.memory = m.memory /\ c = d => Poke(f, ptr, c).memory = Poke(m, ptr, d).memory
         /\ Accessible(Poke(f, ptr, c), ptr, len)
<1> DEFINE at == AsU32(ptr)
           a == Written(f.memory, at, c)
           b == Written(m.memory, at, d)
<1>1. /\ f.memory \in Memories /\ m.memory \in Memories /\ SameShape(f.memory, m.memory)
      /\ Accessible(m, ptr, len)
  BY SameAccess
<1>2. at \in Nat
  BY AsU32IsNat
<1>3. f.memory # NoMemory /\ m.memory # NoMemory
  BY <1>1 DEF Accessible
<1>4. /\ a \in Memories /\ a # NoMemory /\ Len(a) = Len(f.memory)
      /\ b \in Memories /\ b # NoMemory /\ Len(b) = Len(m.memory)
  BY <1>1, <1>2, <1>3, WrittenIsMemory
<1>5. f.memory = m.memory /\ c = d => a = b
  OBVIOUS
<1> HIDE DEF a, b
<1>6. SameShape(a, b)
  BY <1>1, <1>3, <1>4 DEF SameShape
<1>7. PICK f2, m2 : f2 = [f EXCEPT !.memory = a] /\ m2 = [m EXCEPT !.memory = b]
  OBVIOUS
<1>8. Poke(f, ptr, c) = f2 /\ Poke(m, ptr, d) = m2
  BY <1>1, <1>7, PokeInside DEF a, b
<1>9. /\ Step(f, m, f2, m2) /\ f2.memory = a /\ m2.memory = b
      /\ f2.ret = f.ret /\ m2.ret = m.ret
  BY <1>4, <1>6, <1>7, BothMemory
<1>10. Accessible(f2, ptr, len)
  BY <1>3, <1>4, <1>9 DEF Accessible
<1>11. QED
  BY <1>5, <1>8, <1>9, <1>10

LEMMA CellCounts ==
  /\ {1, INFERENCE_RESULT_SIZE, OTA_STATUS_SIZE} \subseteq I32
  /\ AsU32(1) = 1 /\ AsU32(INFERENCE_RESULT_SIZE) = 3 /\ AsU32(OTA_STATUS_SIZE) = 4
<1>1. 3 \in 0 .. Half - 1 /\ 4 \in 0 .. Half - 1
  BY AbiAssumption DEF INFERENCE_RESULT_SIZE, OTA_STATUS_SIZE, Half
<1>2. {1, 3, 4} \subseteq I32 /\ 4 < Modulus
  BY <1>1, HalfFacts
<1>3. QED
  BY <1>1, <1>2, HalfFacts, AsU32Cases DEF INFERENCE_RESULT_SIZE, OTA_STATUS_SIZE

LEMMA SubSeqTyped ==
  ASSUME NEW S, NEW q \in Seq(S), NEW i \in Nat, i > 0, NEW j \in Nat, j <= Len(q)
  PROVE  SubSeq(q, i, j) \in Seq(S) /\ (i = 1 => Len(SubSeq(q, i, j)) = j)
OBVIOUS

LEMMA SeqOfMore ==
  ASSUME NEW S, NEW T, S \subseteq T, NEW q \in Seq(S)
  PROVE  q \in Seq(T)
OBVIOUS

\* The bytes read are no more than the guest asked for.
LEMMA TakenFacts ==
  ASSUME NEW h, h.audio_buf \in Recordings, NEW n \in Nat
  PROVE  LET taken == Mock!Taken(h, n)
         IN /\ taken \in Cells /\ Len(taken) \in Nat /\ Len(taken) <= n
            /\ SubSeq(h.audio_buf, Len(taken) + 1, Len(h.audio_buf)) \in Recordings
<1> DEFINE buf == h.audio_buf
           k == IF n < Len(buf) THEN n ELSE Len(buf)
<1>1. buf \in Seq(Bytes) /\ Len(buf) \in Nat
  BY DEF Recordings
<1>2. Mock!Taken(h, n) = SubSeq(buf, 1, k)
  BY DEF Mock!Taken
<1> HIDE DEF buf
<1>3. k \in Nat /\ k <= n /\ k <= Len(buf)
  BY <1>1
<1> HIDE DEF k
<1>4. SubSeq(buf, 1, k) \in Seq(Bytes) /\ Len(SubSeq(buf, 1, k)) = k
  BY <1>1, <1>3, SubSeqTyped
<1>5. SubSeq(buf, 1, k) \in Seq(Int)
  <2>1. Bytes \subseteq Int
    BY DEF Bytes
  <2>2. QED
    BY <1>4, <2>1, SeqOfMore
<1>6. SubSeq(buf, k + 1, Len(buf)) \in Seq(Bytes)
  <2>1. k + 1 \in Nat /\ k + 1 > 0 /\ Len(buf) <= Len(buf)
    BY <1>1, <1>3
  <2>2. QED
    BY <1>1, <2>1, SubSeqTyped
<1>7. QED
  BY <1>2, <1>3, <1>4, <1>5, <1>6 DEF buf, Cells, Recordings

LEMMA CallReadAudio ==
  ASSUME NEW f, NEW m, Pair(f, m), NEW ptr \in I32, NEW len \in I32
  PROVE  Called(f, m, Firmware!host_read_audio(f, ptr, len),
                      Mock!host_read_audio(m, ptr, len))
<1> DEFINE n == AsU32(len)
           f1 == Firmware!host_read_audio(f, ptr, len)
           m1 == Mock!host_read_audio(m, ptr, len)
           taken == Mock!Taken(f, n)
           rest == SubSeq(f.audio_buf, Len(taken) + 1, Len(f.audio_buf))
<1>1. n \in Nat /\ MAX_AUDIO_READ \in Nat
  BY AsU32IsNat, AbiAssumption
<1>2. Accessible(f, ptr, len) <=> Accessible(m, ptr, len)
  BY SameAccess
<1>3. CASE ~Accessible(f, ptr, len) \/ n > MAX_AUDIO_READ
  <2>1. f1 = Return(f, ERR_BOUNDS)
    BY <1>3, SameMemoryTools, SameReturn, SameAsU32
    DEF Firmware!host_read_audio, Firmware!ERR_BOUNDS, ERR_BOUNDS
  <2>2. m1 = Return(m, ERR_BOUNDS)
    BY <1>2, <1>3, SameMemoryTools, SameReturn, SameAsU32
    DEF Mock!host_read_audio, Mock!ERR_BOUNDS, ERR_BOUNDS
  <2>3. QED
    BY <2>1, <2>2, Answered, StatusCodes
<1>4. CASE Accessible(f, ptr, len) /\ ~(n > MAX_AUDIO_READ)
  <2>1. f.audio_buf \in Recordings /\ f.audio_buf = m.audio_buf
    BY DEF Pair, Alike, FirmwareHosts
  <2>2. Firmware!Taken(f, n) = taken /\ Mock!Taken(m, n) = taken
    BY <2>1 DEF Firmware!Taken, Mock!Taken
  <2>3. /\ taken \in Cells /\ Len(taken) \in Nat /\ Len(taken) <= n
        /\ rest \in Recordings
    BY <1>1, <2>1, TakenFacts
  <2>4. PICK f2, m2 : f2 = [f EXCEPT !.audio_buf = rest] /\ m2 = [m EXCEPT !.audio_buf = rest]
    OBVIOUS
  <2>5. PICK f3, m3 : f3 = Return(f2, Len(taken)) /\ m3 = Return(m2, Len(taken))
    OBVIOUS
  <2>6. Firmware!read_audio(f, n) = f3 /\ Mock!read_audio(m, n) = m3
    <3>1. Firmware!read_audio(f, n) = f3
      BY <1>4, <2>2, <2>4, <2>5, SameReturn DEF Firmware!read_audio
    <3>2. m2 = [m EXCEPT !.audio_buf = SubSeq(@, Len(taken) + 1, Len(@))]
      BY <2>1, <2>4
    <3>3. Mock!read_audio(m, n) = m3
      BY <1>4, <2>2, <2>5, <3>2, SameReturn DEF Mock!read_audio
    <3>4. QED
      BY <3>1, <3>3
  <2>7. f1 = Poke(f3, ptr, taken) /\ m1 = Poke(m3, ptr, taken)
    <3>1. f1 = Poke(f3, ptr, taken)
      BY <1>4, <2>2, <2>6, SameMemoryTools, SameAsU32 DEF Firmware!host_read_audio
    <3>2. m1 = Poke(m3, ptr, taken)
      BY <1>2, <1>4, <2>2, <2>6, SameMemoryTools, SameAsU32 DEF Mock!host_read_audio
    <3>3. QED
      BY <3>1, <3>2
  <2> HIDE DEF taken, rest, f1, m1
  <2>8. Step(f, m, f2, m2) /\ f2.memory = f.memory /\ m2.memory = m.memory
    BY <2>3, <2>4, BothRecord
  <2>9. /\ Step(f2, m2, f3, m3) /\ f3.memory = f2.memory /\ m3.memory = m2.memory
        /\ f3.ret = m3.ret
    BY <2>3, <2>5, <2>8, BothReturn DEF Step
  <2>10. Pair(f3, m3) /\ Accessible(f3, ptr, len)
    BY <1>4, <2>8, <2>9 DEF Step, Accessible
  <2>11. /\ Step(f3, m3, f1, m1) /\ f1.ret = f3.ret /\ m1.ret = m3.ret
         /\ f3.memory = m3.memory => f1.memory = m1.memory
    BY <2>3, <2>7, <2>10, BothWrite
  <2>12. Step(f, m, f1, m1)
    BY <2>8, <2>9, <2>11, StepThenStep
  <2>13. Called(f, m, f1, m1)
    BY <2>8, <2>9, <2>11, <2>12 DEF Called
  <2>14. QED
    BY <2>13 DEF f1, m1
<1>5. QED
  BY <1>3, <1>4

LEMMA CallGetPitchRoll ==
  ASSUME NEW f, NEW m, Pair(f, m), NEW p \in I32, NEW q \in I32
  PROVE  Called(f, m, Firmware!host_get_pitch_roll(f, p, q),
                      Mock!host_get_pitch_roll(m, p, q))
<1> DEFINE f1 == Firmware!host_get_pitch_roll(f, p, q)
           m1 == Mock!host_get_pitch_roll(m, p, q)
<1>1. /\ Accessible(f, p, 1) <=> Accessible(m, p, 1)
      /\ Accessible(f, q, 1) <=> Accessible(m, q, 1)
  BY SameAccess
<1>2. CASE ~Accessible(f, p, 1) \/ ~Accessible(f, q, 1)
  <2>1. f1 = Return(f, ERR_BOUNDS)
    BY <1>2, SameMemoryTools, SameReturn
    DEF Firmware!host_get_pitch_roll, Firmware!ERR_BOUNDS, ERR_BOUNDS
  <2>2. m1 = Return(m, ERR_BOUNDS)
    BY <1>1, <1>2, SameMemoryTools, SameReturn
    DEF Mock!host_get_pitch_roll, Mock!ERR_BOUNDS, ERR_BOUNDS
  <2>3. QED
    BY <2>1, <2>2, Answered, StatusCodes
<1>3. CASE Accessible(f, p, 1) /\ Accessible(f, q, 1)
  <2>1. f.imu \in Readings /\ f.imu = m.imu
    BY DEF Pair, Alike, FirmwareHosts
  <2>2. PICK c \in Cells, d \in Cells :
          c = <<f.imu[1]>> /\ d = <<f.imu[2]>> /\ Len(c) = 1 /\ Len(d) = 1
    <3>1. f.imu[1] \in Int /\ f.imu[2] \in Int
      BY <2>1, HalfFacts DEF Readings
    <3>2. <<f.imu[1]>> \in Cells /\ <<f.imu[2]>> \in Cells
      BY <3>1 DEF Cells
    <3>3. Len(<<f.imu[1]>>) = 1 /\ Len(<<f.imu[2]>>) = 1
      OBVIOUS
    <3>4. QED
      BY <3>2, <3>3, Zenon
  <2>3. PICK f2, m2 : f2 = Poke(f, p, c) /\ m2 = Poke(m, p, c)
    OBVIOUS
  <2>4. PICK f3, m3 : f3 = Poke(f2, q, d) /\ m3 = Poke(m2, q, d)
    OBVIOUS
  <2>5. f1 = Return(f3, OK)
    BY <1>3, <2>2, <2>3, <2>4, SameMemoryTools, SameReturn
    DEF Firmware!host_get_pitch_roll, Firmware!OK, OK
  <2>6. m1 = Return(m3, OK)
    BY <1>1, <1>3, <2>1, <2>2, <2>3, <2>4, SameMemoryTools, SameReturn
    DEF Mock!host_get_pitch_roll, Mock!OK, OK
  <2>7. PICK n \in I32 : n = 1 /\ AsU32(n) = 1 /\ Accessible(f, p, n) /\ Accessible(f, q, n)
    BY <1>3, CellCounts, Zenon
  <2> Len(c) <= AsU32(n) /\ Len(d) <= AsU32(n)
    BY <2>2, <2>7
  <2>8. /\ Step(f, m, f2, m2)
        /\ f.memory = m.memory => f2.memory = m2.memory
        /\ Len(f2.memory) = Len(f.memory) /\ f2.memory # NoMemory
    <3>1. /\ Step(f, m, f2, m2)
          /\ f.memory = m.memory => f2.memory = m2.memory
      BY <2>3, <2>7, BothWrite
    <3>2. f.memory \in Memories /\ f.memory # NoMemory /\ AsU32(p) \in Nat
      BY <1>3, SameAccess, AsU32IsNat DEF Accessible
    <3>3. f2 = [f EXCEPT !.memory = Written(f.memory, AsU32(p), c)]
      BY <2>3, <2>7, <3>2, PokeInside
    <3>4. f2.memory = Written(f.memory, AsU32(p), c)
      BY <3>3 DEF Pair, FirmwareHosts
    <3>5. QED
      BY <3>1, <3>2, <3>4, WrittenIsMemory
  <2>9. Pair(f2, m2) /\ Accessible(f2, q, n)
    BY <2>7, <2>8 DEF Step, Accessible
  <2>10. Step(f2, m2, f3, m3) /\ (f2.memory = m2.memory => f3.memory = m3.memory)
    BY <2>4, <2>9, BothWrite
  <2>11. /\ Step(f3, m3, f1, m1) /\ f1.ret = m1.ret
         /\ f1.memory = f3.memory /\ m1.memory = m3.memory
    BY <2>5, <2>6, <2>10, BothReturn, StatusCodes DEF Step
  <2> HIDE DEF f1, m1
  <2>12. Step(f, m, f1, m1)
    BY <2>8, <2>10, <2>11, StepThenStep
  <2>13. Called(f, m, f1, m1)
    BY <2>8, <2>10, <2>11, <2>12 DEF Called
  <2>14. QED
    BY <2>13 DEF f1, m1
<1>4. QED
  BY <1>2, <1>3

\* The memory stays the same only while the published results are.
LEMMA CallGetLocalInference ==
  ASSUME NEW f, NEW m, Pair(f, m), NEW ptr \in I32,
         NEW f2, f2 = Firmware!host_get_local_inference(f, ptr),
         NEW m2, m2 = Mock!host_get_local_inference(m, ptr),
         Unpack(f.result) \in Results
  PROVE  /\ Step(f, m, f2, m2) /\ f2.ret = m2.ret
         /\ f.memory = m.memory /\ Unpack(f.result) = m.result => f2.memory = m2.memory
<1>1. Accessible(f, ptr, INFERENCE_RESULT_SIZE) <=> Accessible(m, ptr, INFERENCE_RESULT_SIZE)
  BY SameAccess
<1>2. CASE ~Accessible(f, ptr, INFERENCE_RESULT_SIZE)
  <2>1. f2 = Return(f, ERR_BOUNDS)
    BY <1>2, SameMemoryTools, SameReturn
    DEF Firmware!host_get_local_inference, Firmware!INFERENCE_RESULT_SIZE,
        INFERENCE_RESULT_SIZE, Firmware!ERR_BOUNDS, ERR_BOUNDS
  <2>2. m2 = Return(m, ERR_BOUNDS)
    BY <1>1, <1>2, SameMemoryTools, SameReturn
    DEF Mock!host_get_local_inference, Mock!INFERENCE_RESULT_SIZE,
        INFERENCE_RESULT_SIZE, Mock!ERR_BOUNDS, ERR_BOUNDS
  <2>3. QED
    BY <2>1, <2>2, BothReturn, StatusCodes
<1>3. CASE Accessible(f, ptr, INFERENCE_RESULT_SIZE)
  <2> DEFINE Three(r) == <<IF r.active THEN 1 ELSE 0, r.top_class, r.confidence_pct>>
  <2>1. ASSUME NEW r \in Results PROVE Three(r) \in Cells /\ Len(Three(r)) = 3
    <3>1. r.top_class \in Int /\ r.confidence_pct \in Int
      BY DEF Results, Percentages
    <3>2. QED
      BY <3>1 DEF Cells
  <2>2. m.result \in Results
    BY DEF Pair, MockHosts
  <2>3. PICK c \in Cells, d \in Cells :
          c = Three(Unpack(f.result)) /\ d = Three(m.result) /\ Len(c) = 3 /\ Len(d) = 3
    BY <2>1, <2>2
  <2>4. PICK f1, m1 : f1 = Poke(f, ptr, c) /\ m1 = Poke(m, ptr, d)
    OBVIOUS
  <2>5. f2 = Return(f1, OK)
    <3>1. Firmware!InferenceCells(Firmware!Unpack(f.result)) = c
      BY <2>3 DEF Firmware!InferenceCells, Firmware!Unpack, Unpack
    <3>2. QED
      BY <1>3, <2>4, <3>1, SameMemoryTools, SameReturn
      DEF Firmware!host_get_local_inference, Firmware!INFERENCE_RESULT_SIZE,
          INFERENCE_RESULT_SIZE, Firmware!OK, OK
  <2>6. m2 = Return(m1, OK)
    <3>1. Mock!InferenceCells(m.result) = d
      BY <2>3 DEF Mock!InferenceCells
    <3>2. QED
      BY <1>1, <1>3, <2>4, <3>1, SameMemoryTools, SameReturn
      DEF Mock!host_get_local_inference, Mock!INFERENCE_RESULT_SIZE,
          INFERENCE_RESULT_SIZE, Mock!OK, OK
  <2>7. PICK n \in I32 : AsU32(n) = 3 /\ Accessible(f, ptr, n)
    BY <1>3, CellCounts, Zenon
  <2>8. /\ Step(f, m, f1, m1)
        /\ f.memory = m.memory /\ c = d => f1.memory = m1.memory
    <3>1. Len(c) <= AsU32(n) /\ Len(d) <= AsU32(n)
      BY <2>3, <2>7
    <3>2. QED
      BY <2>4, <2>7, <3>1, BothWrite
  <2>9. /\ Step(f1, m1, f2, m2) /\ f2.ret = m2.ret
        /\ f2.memory = f1.memory /\ m2.memory = m1.memory
    BY <2>5, <2>6, <2>8, BothReturn, StatusCodes DEF Step
  <2>10. Unpack(f.result) = m.result => c = d
    BY <2>3
  <2>11. Step(f, m, f2, m2)
    BY <2>8, <2>9, StepThenStep
  <2>12. QED
    BY <2>8, <2>9, <2>10, <2>11
<1>4. QED
  BY <1>2, <1>3

LEMMA StatusTyped ==
  ASSUME NEW s \in Sessions
  PROVE  Mock!OtaStatus(s) \in Cells /\ Len(Mock!OtaStatus(s)) = 4
<1>1. Mock!StateCode(s.ota_state) \in Int
  BY DEF Sessions, OtaState, Mock!StateCode
<1>2. s.ota_bytes_received \in Int /\ s.ota_expected_size \in Int /\ s.hot_swap_count \in Int
  BY DEF Sessions
<1>3. QED
  BY <1>1, <1>2 DEF Mock!OtaStatus, Cells

\* Where the two statuses are the same, so is the memory they are written to.
LEMMA CallGetOtaStatus ==
  ASSUME NEW f, NEW m, Pair(f, m), NEW ptr \in I32
  PROVE  LET f2 == Firmware!host_get_ota_status(f, ptr)
             m2 == Mock!host_get_ota_status(m, ptr)
         IN /\ Step(f, m, f2, m2) /\ f2.ret = m2.ret
            /\ f.memory = m.memory /\ Mock!OtaStatus(m.ota) = f.ota_status
                 => f2.memory = m2.memory
<1> DEFINE f2 == Firmware!host_get_ota_status(f, ptr)
           m2 == Mock!host_get_ota_status(m, ptr)
<1>1. Accessible(f, ptr, OTA_STATUS_SIZE) <=> Accessible(m, ptr, OTA_STATUS_SIZE)
  BY SameAccess
<1>2. CASE ~Accessible(f, ptr, OTA_STATUS_SIZE)
  <2>1. f2 = Return(f, ERR_BOUNDS)
    BY <1>2, SameMemoryTools, SameReturn
    DEF Firmware!host_get_ota_status, Firmware!OTA_STATUS_SIZE, OTA_STATUS_SIZE,
        Firmware!ERR_BOUNDS, ERR_BOUNDS
  <2>2. m2 = Return(m, ERR_BOUNDS)
    BY <1>1, <1>2, SameMemoryTools, SameReturn
    DEF Mock!host_get_ota_status, Mock!OTA_STATUS_SIZE, OTA_STATUS_SIZE,
        Mock!ERR_BOUNDS, ERR_BOUNDS
  <2>3. QED
    BY <2>1, <2>2, Answered, StatusCodes DEF Called
<1>3. CASE Accessible(f, ptr, OTA_STATUS_SIZE)
  <2>1. PICK c \in Cells, d \in Cells :
          /\ c = f.ota_status /\ d = Mock!OtaStatus(m.ota)
          /\ Len(c) = 4 /\ Len(d) = 4
    <3>1. f.ota_status = <<0, 0, 0, 0>> /\ m.ota \in Sessions
      BY DEF Pair, FirmwareHosts, MockHosts, NoOta
    <3>2. <<0, 0, 0, 0>> \in Cells /\ Len(<<0, 0, 0, 0>>) = 4
      BY DEF Cells
    <3>3. Mock!OtaStatus(m.ota) \in Cells /\ Len(Mock!OtaStatus(m.ota)) = 4
      BY <3>1, StatusTyped
    <3>4. QED
      BY <3>1, <3>2, <3>3, Zenon
  <2>2. PICK f1, m1 : f1 = Poke(f, ptr, c) /\ m1 = Poke(m, ptr, d)
    OBVIOUS
  <2>3. f2 = Return(f1, OK)
    BY <1>3, <2>1, <2>2, SameMemoryTools, SameReturn
    DEF Firmware!host_get_ota_status, Firmware!OTA_STATUS_SIZE, OTA_STATUS_SIZE,
        Firmware!OK, OK
  <2>4. m2 = Return(m1, OK)
    BY <1>1, <1>3, <2>1, <2>2, SameMemoryTools, SameReturn
    DEF Mock!host_get_ota_status, Mock!OTA_STATUS_SIZE, OTA_STATUS_SIZE, Mock!OK, OK
  <2>5. PICK n \in I32 : AsU32(n) = 4 /\ Accessible(f, ptr, n)
    BY <1>3, CellCounts, Zenon
  <2>6. /\ Step(f, m, f1, m1)
        /\ f.memory = m.memory /\ c = d => f1.memory = m1.memory
    <3>1. Len(c) <= AsU32(n) /\ Len(d) <= AsU32(n)
      BY <2>1, <2>5
    <3>2. QED
      BY <2>2, <2>5, <3>1, BothWrite
  <2> HIDE DEF f2, m2
  <2>7. /\ Step(f1, m1, f2, m2) /\ f2.ret = m2.ret
        /\ f2.memory = f1.memory /\ m2.memory = m1.memory
    BY <2>3, <2>4, <2>6, BothReturn, StatusCodes DEF Step
  <2>8. Step(f, m, f2, m2)
    BY <2>6, <2>7, StepThenStep
  <2>9. QED
    BY <2>1, <2>6, <2>7, <2>8 DEF f2, m2
<1>4. QED
  BY <1>2, <1>3

-----------------------------------------------------------------------------
(* The motors' speeds                                                       *)

LEMMA AppendTyped ==
  ASSUME NEW S, NEW q \in Seq(S), NEW e \in S
  PROVE  Append(q, e) \in Seq(S)
OBVIOUS

LEMMA SameRange ==
  ASSUME NEW left, NEW right
  PROVE  /\ Firmware!SpeedInRange(left, right) = SpeedInRange(left, right)
         /\ Mock!SpeedInRange(left, right) = SpeedInRange(left, right)
         /\ Firmware!MovementIntent(left, right) = MovementIntent(left, right)
BY DEF Firmware!SpeedInRange, Firmware!Abs, Firmware!MovementIntent, Firmware!AsI16,
       Mock!SpeedInRange, Mock!Abs, SpeedInRange, Abs, MovementIntent, AsI16

Queued(f, e) == Return([f EXCEPT !.intents = Append(f.intents, e)], OK)

LEMMA FirmwareSpeed ==
  ASSUME NEW f, NEW left, NEW right
  PROVE  Firmware!host_set_motor_speed(f, left, right) =
           IF ~SpeedInRange(left, right) THEN Return(f, ERR_INVALID_ARG)
           ELSE IF f.enabled /\ Len(f.intents) < INTENT_QUEUE_DEPTH
                THEN Queued(f, MovementIntent(left, right)) ELSE Return(f, ERR_BUSY)
<1>1. CASE ~SpeedInRange(left, right)
  BY <1>1, SameRange, SameReturn
  DEF Firmware!host_set_motor_speed, Firmware!ERR_INVALID_ARG, ERR_INVALID_ARG
<1>2. CASE SpeedInRange(left, right)
  <2>1. Firmware!host_set_motor_speed(f, left, right) =
          Firmware!set_motor_speed(f, left, right)
    BY <1>2, SameRange DEF Firmware!host_set_motor_speed
  <2>2. Firmware!set_motor_speed(f, left, right) =
          IF f.enabled /\ Len(f.intents) < INTENT_QUEUE_DEPTH
          THEN Firmware!Return([f EXCEPT !.intents =
                                  Append(f.intents, Firmware!MovementIntent(left, right))],
                               Firmware!OK)
          ELSE Firmware!Return(f, Firmware!ERR_BUSY)
    BY <1>2, SameRange DEF Firmware!set_motor_speed
  <2>3. QED
    BY <1>2, <2>1, <2>2, SameRange, SameReturn
    DEF Firmware!OK, OK, Firmware!ERR_BUSY, ERR_BUSY, Queued
<1>3. QED
  BY <1>1, <1>2

\* What is queued is legal, whatever i32 was passed.
LEMMA QueuedTyped ==
  ASSUME NEW f \in FirmwareHosts, NEW e \in LegalSpeeds
  PROVE  /\ Queued(f, e) \in FirmwareHosts
         /\ Queued(f, e).intents = Append(f.intents, e) /\ Queued(f, e).ret = OK
         /\ Queued(f, e).memory = f.memory /\ Queued(f, e).enabled = f.enabled
         /\ Queued(f, e).mode = f.mode /\ Queued(f, e).snapshots = f.snapshots
         /\ Queued(f, e).result = f.result
         /\ \A m \in MockHosts : Alike(f, m) => Alike(Queued(f, e), m)
<1> DEFINE q == Append(f.intents, e)
<1>1. q \in Queues
  BY AppendTyped DEF FirmwareHosts, Queues
<1>2. PICK g : g = [f EXCEPT !.intents = q]
  OBVIOUS
<1> HIDE DEF q
<1>3. g \in FirmwareHosts
  BY <1>1, <1>2 DEF FirmwareHosts
<1>4. PICK k : k = Return(g, OK)
  OBVIOUS
<1>5. k \in FirmwareHosts
  BY <1>3, <1>4, StatusCodes DEF FirmwareHosts, Return
<1>6. /\ k.intents = q /\ k.ret = OK /\ k.memory = f.memory /\ k.enabled = f.enabled
      /\ k.mode = f.mode /\ k.snapshots = f.snapshots /\ k.result = f.result
      /\ k.led_on = f.led_on /\ k.text = f.text /\ k.expression = f.expression
      /\ k.brightness = f.brightness /\ k.audio_active = f.audio_active
      /\ k.audio_buf = f.audio_buf /\ k.imu = f.imu
  BY <1>2, <1>4 DEF FirmwareHosts, Return
<1>7. Queued(f, e) = k
  BY <1>2, <1>4 DEF Queued, q
<1>8. ASSUME NEW m \in MockHosts, Alike(f, m) PROVE Alike(k, m)
  BY <1>6, <1>8 DEF Alike
<1>9. QED
  BY <1>5, <1>6, <1>7, <1>8 DEF q

\* The mock accepts a speed: an intent was heard just now.
Accepted(m, v) ==
  Return([m EXCEPT !.sinceIntent = 0, !.dead_mans_active = FALSE,
                   !.motor = IF m.mode = "SingleBoard" THEN v ELSE @], OK)

LEMMA MockSpeed ==
  ASSUME NEW m, NEW left, NEW right
  PROVE  Mock!host_set_motor_speed(m, left, right) =
           IF ~SpeedInRange(left, right) THEN Return(m, ERR_INVALID_ARG)
           ELSE IF m.enabled THEN Accepted(m, <<left, right>>) ELSE Return(m, ERR_BUSY)
<1>1. CASE ~SpeedInRange(left, right)
  BY <1>1, SameRange, SameReturn
  DEF Mock!host_set_motor_speed, Mock!ERR_INVALID_ARG, ERR_INVALID_ARG
<1>2. CASE SpeedInRange(left, right)
  <2>1. Mock!host_set_motor_speed(m, left, right) = Mock!set_motor_speed(m, left, right)
    BY <1>2, SameRange DEF Mock!host_set_motor_speed
  <2>2. CASE m.enabled
    BY <1>2, <2>1, <2>2, SameRange, SameReturn DEF Mock!set_motor_speed, Mock!OK, OK, Accepted
  <2>3. CASE ~m.enabled
    BY <1>2, <2>1, <2>3, SameRange, SameReturn DEF Mock!set_motor_speed, Mock!ERR_BUSY, ERR_BUSY
  <2>4. QED
    BY <1>2, <2>2, <2>3
<1>3. QED
  BY <1>1, <1>2

LEMMA AcceptedTyped ==
  ASSUME NEW m \in MockHosts, NEW v \in LegalSpeeds
  PROVE  /\ Accepted(m, v) \in MockHosts /\ Accepted(m, v).ret = OK
         /\ Accepted(m, v).motor = IF m.mode = "SingleBoard" THEN v ELSE m.motor
         /\ Accepted(m, v).sinceIntent = 0 /\ ~Accepted(m, v).dead_mans_active
         /\ Accepted(m, v).memory = m.memory /\ Accepted(m, v).snapshots = m.snapshots
         /\ Accepted(m, v).result = m.result
         /\ \A f \in FirmwareHosts : Alike(f, m) => Alike(f, Accepted(m, v))
<1> DEFINE k == Accepted(m, v)
<1>1. PICK w \in LegalSpeeds : w = IF m.mode = "SingleBoard" THEN v ELSE m.motor
  BY DEF MockHosts
<1>2. PICK a : a = [m EXCEPT !.sinceIntent = 0]
  OBVIOUS
<1>3. PICK b : b = [a EXCEPT !.dead_mans_active = FALSE]
  OBVIOUS
<1>4. PICK c : c = [b EXCEPT !.motor = w]
  OBVIOUS
<1>5. a \in MockHosts
  BY <1>2 DEF MockHosts
<1>6. b \in MockHosts
  BY <1>3, <1>5 DEF MockHosts
<1>7. c \in MockHosts
  BY <1>4, <1>6 DEF MockHosts
<1>8. b.motor = m.motor
  BY <1>2, <1>3 DEF MockHosts
<1>9. k = Return(c, OK)
  BY <1>1, <1>2, <1>3, <1>4, <1>8 DEF Accepted
<1> HIDE DEF k
<1>10. k \in MockHosts
  BY <1>7, <1>9, StatusCodes DEF MockHosts, Return
<1>11. /\ k.ret = OK /\ k.motor = w /\ k.sinceIntent = 0 /\ ~k.dead_mans_active
       /\ k.memory = m.memory /\ k.snapshots = m.snapshots /\ k.result = m.result
       /\ k.led_on = m.led_on /\ k.text = m.text /\ k.expression = m.expression
       /\ k.brightness = m.brightness /\ k.audio_active = m.audio_active
       /\ k.audio_buf = m.audio_buf /\ k.imu = m.imu /\ k.enabled = m.enabled
       /\ k.mode = m.mode
  BY <1>2, <1>3, <1>4, <1>9 DEF MockHosts, Return
<1>12. ASSUME NEW f \in FirmwareHosts, Alike(f, m) PROVE Alike(f, k)
  BY <1>11, <1>12 DEF Alike
<1>13. QED
  BY <1>1, <1>10, <1>11, <1>12 DEF k

-----------------------------------------------------------------------------
(* The inductive invariant                                                  *)

Typed ==
  /\ suite \in Suite /\ fw \in FirmwareHosts /\ mock \in MockHosts
  /\ motor \in LegalSpeeds /\ armed \in Nat /\ parted \in BOOLEAN

Windows(q) == [i \in DOMAIN q |-> Window(q[i])]

\* The hosts are alike, have published the same result, and hold the same
\* snapshots, which the firmware cuts when it takes them and the mock when it
\* runs them.
MirrorInv ==
  suite # "raw" =>
    /\ SameAnswer /\ Alike(fw, mock)
    /\ parted => suite \in {"inference", "motors", "ota"}
    /\ suite = "ota" /\ ~parted => Mock!OtaStatus(mock.ota) = fw.ota_status
    /\ suite = "motors" \/ ~parted =>
         /\ fw.memory = mock.memory /\ Unpack(fw.result) = mock.result
         /\ fw.snapshots = Windows(mock.snapshots)

\* What the motors do once the router has drained the channel
Settled ==
  IF fw.mode = "SingleBoard" /\ fw.enabled /\ fw.intents # <<>>
  THEN fw.intents[Len(fw.intents)] ELSE motor

\* The mock's clock runs only while no intent waits, and a motor that turns was
\* heard of no earlier than the router armed its timeout.
MotorsInv ==
  /\ armed <= DEAD_MANS_SWITCH_MS
  /\ mock.sinceIntent > 0 \/ mock.dead_mans_active => suite = "motors" /\ fw.intents = <<>>
  /\ motor # Stop => mock.sinceIntent <= armed
  /\ mock.dead_mans_active => motor = Stop
  /\ suite = "motors" /\ ~parted => Settled = mock.motor

LockstepInv == Typed /\ MirrorInv /\ MotorsInv

LEMMA StopIsLegal == Stop \in LegalSpeeds
BY AbiAssumption DEF Stop, LegalSpeeds

LEMMA LimitFacts == DEAD_MANS_SWITCH_MS \in Nat /\ DEAD_MANS_SWITCH_MS > 0
BY LockstepAssumption

LEMMA NoSessionTyped ==
  Mock!NoSession \in Sessions /\ Mock!OtaStatus(Mock!NoSession) = <<0, 0, 0, 0>>
<1>1. PICK e : e = <<>> /\ e \in Buffers
  <2>1. <<>> \in [1 .. 0 -> Byte]
    OBVIOUS
  <2>2. <<>> \in Buffers
    BY <2>1 DEF Buffers
  <2>3. QED
    BY <2>2, Zenon
<1>2. Mock!NoSession = [ota_state |-> "Idle", ota_buffer |-> e, ota_expected_size |-> 0,
                        ota_bytes_received |-> 0, hot_swap_count |-> 0]
  BY <1>1 DEF Mock!NoSession
<1>3. Mock!NoSession \in Sessions
  BY <1>1, <1>2 DEF Sessions, OtaState
<1>4. Mock!OtaStatus(Mock!NoSession) = <<0, 0, 0, 0>>
  BY <1>2 DEF Mock!OtaStatus, Mock!StateCode
<1>5. QED
  BY <1>3, <1>4

LEMMA InitLockstep == Init => LockstepInv
<1> SUFFICES ASSUME Init PROVE LockstepInv
  OBVIOUS
<1>1. PICK memory \in {GuestMemory, NoMemory} :
        fw = Firmware!New(memory) /\ mock = Mock!New(memory)
  BY DEF Init
<1>2. memory \in Memories
  BY LockstepAssumption DEF Memories, Cells, Half
<1>3. PICK half \in Int : half = (MAX_BRIGHTNESS + 1) \div 2
  <2>1. MAX_BRIGHTNESS + 1 \in Nat
    BY AbiAssumption, HalfFacts DEF Half
  <2>2. QED
    BY <2>1
<1>4. PICK word \in Words : word = Firmware!Pack(Firmware!NoResult) /\ Unpack(word) = NoResult
  <2>1. Firmware!Pack(Firmware!NoResult) = Pack(NoResult)
    BY DEF Firmware!Pack, Firmware!NoResult, Pack, NoResult
  <2>2. Pack(NoResult) \in Words /\ Unpack(Pack(NoResult)) = NoResult
    BY NoResultPacked DEF Words
  <2>3. QED
    BY <2>1, <2>2
<1>5. PICK r \in Results : r = Mock!NoResult /\ r = NoResult
  BY NoResultPacked DEF Mock!NoResult, NoResult
<1>6. PICK e : e = <<>> /\ e \in Recordings /\ e \in Cells /\ e \in Queues /\ e \in Snapshots
  <2>1. <<>> \in Recordings /\ <<>> \in Cells /\ <<>> \in Queues /\ <<>> \in Snapshots
    BY DEF Recordings, Cells, Queues, Snapshots
  <2>2. QED
    BY <2>1, Zenon
<1>7. PICK status \in NoOta, imu \in Readings, v \in LegalSpeeds :
        status = <<0, 0, 0, 0>> /\ imu = <<0, 0>> /\ v = <<0, 0>>
  <2>1. <<0, 0, 0, 0>> \in NoOta
    BY DEF NoOta
  <2>2. <<0, 0>> \in Readings
    BY HalfFacts DEF Readings
  <2>3. <<0, 0>> \in LegalSpeeds
    BY StopIsLegal DEF Stop
  <2>4. QED
    BY <2>1, <2>2, <2>3, Zenon
<1>s. PICK session \in Sessions :
        session = Mock!NoSession /\ Mock!OtaStatus(session) = <<0, 0, 0, 0>>
  BY NoSessionTyped
<1>8. fw = [memory |-> memory, ret |-> 0, panicked |-> FALSE, led_on |-> FALSE,
            audio_active |-> FALSE, audio_buf |-> e, expression |-> 0, brightness |-> half,
            text |-> e, ota_status |-> status, imu |-> imu, enabled |-> TRUE,
            mode |-> "SingleBoard", intents |-> e, snapshots |-> e, result |-> word]
  BY <1>1, <1>3, <1>4, <1>6, <1>7 DEF Firmware!New, Firmware!OK
<1>9. mock = [memory |-> memory, ret |-> 0, panicked |-> FALSE, led_on |-> FALSE,
              audio_active |-> FALSE, audio_buf |-> e, expression |-> NoExpression,
              brightness |-> 0, text |-> e, ota |-> session, imu |-> imu,
              enabled |-> TRUE, mode |-> "SingleBoard", motor |-> v, sinceIntent |-> 0,
              dead_mans_active |-> FALSE, snapshots |-> e, result |-> r]
  BY <1>1, <1>5, <1>6, <1>7, <1>s DEF Mock!New, Mock!OK
<1>10. fw \in FirmwareHosts
  BY <1>2, <1>6, <1>8 DEF FirmwareHosts, Modes, EyeExpression
<1>11. mock \in MockHosts
  BY <1>2, <1>6, <1>9 DEF MockHosts, Modes, Drawn
<1>t. Mock!OtaStatus(mock.ota) = fw.ota_status
  BY <1>7, <1>8, <1>9, <1>s
<1>12. Typed
  BY <1>10, <1>11, StopIsLegal DEF Init, Typed
<1>13. Alike(fw, mock)
  BY <1>8, <1>9 DEF Alike, SameShape
<1>14. /\ fw.ret = mock.ret /\ fw.memory = mock.memory
       /\ Unpack(fw.result) = mock.result /\ fw.snapshots = e /\ mock.snapshots = e
       /\ fw.intents = e /\ mock.sinceIntent = 0 /\ mock.dead_mans_active = FALSE
       /\ mock.motor = v
  BY <1>4, <1>5, <1>8, <1>9
<1>15. Windows(e) = e
  BY <1>6 DEF Windows
<1>16. MirrorInv
  BY <1>13, <1>14, <1>15, <1>t DEF MirrorInv, SameAnswer, Init
<1>17. MotorsInv
  BY <1>6, <1>7, <1>14, LimitFacts DEF MotorsInv, Settled, Init, Stop
<1>18. QED
  BY <1>12, <1>16, <1>17 DEF LockstepInv

\* The guest's calls, those for the motors apart: each host answers and goes on
\* as the lemmas about the host functions say.
LEMMA CallKeepsInv ==
  ASSUME LockstepInv, suite \in Suite \ {"raw", "motors"},
         UNCHANGED <<suite, motor, armed, parted>>,
         Step(fw, mock, fw', mock'),
         \/ fw'.ret = mock'.ret
         \/ suite = "io" /\ <<fw'.ret, mock'.ret>> = <<OK, ERR_INVALID_ARG>>,
         ~parted => fw'.memory = mock'.memory
  PROVE  LockstepInv'
<1>1. Typed'
  BY DEF LockstepInv, Typed, Step, Pair
<1>2. MirrorInv'
  <2>1. fw'.ota_status = fw.ota_status
    BY DEF LockstepInv, Typed, Step, Pair, FirmwareHosts, NoOta
  <2>2. QED
    BY <2>1 DEF LockstepInv, MirrorInv, SameAnswer, Step, Pair, Kept
<1>3. MotorsInv'
  BY DEF LockstepInv, MotorsInv, Step, Kept, Suite
<1>4. QED
  BY <1>1, <1>2, <1>3 DEF LockstepInv

LEMMA PairOfState ==
  ASSUME LockstepInv, suite # "raw"
  PROVE  Pair(fw, mock)
BY DEF LockstepInv, Typed, MirrorInv, Pair

\* Outside "inference", "motors" and "ota" the two never part.
LEMMA SameMemoryOfState ==
  ASSUME LockstepInv, suite \notin {"raw", "inference", "ota"}
  PROVE  fw.memory = mock.memory /\ (suite # "motors" => ~parted)
BY DEF LockstepInv, Typed, MirrorInv

LEMMA CalledKeepsInv ==
  ASSUME LockstepInv, suite \in {"io", "audio", "sensors"},
         UNCHANGED <<suite, motor, armed, parted>>, Called(fw, mock, fw', mock')
  PROVE  LockstepInv'
<1>1. suite \in Suite \ {"raw", "motors"} /\ fw.memory = mock.memory
  BY SameMemoryOfState DEF Suite
<1>2. QED
  BY <1>1, CallKeepsInv DEF Called

\* A command both hosts take is the last in the channel; one that only the mock
\* takes parts them.
LEMMA SpeedKeepsInv ==
  ASSUME LockstepInv, NEW left \in I32 \ {-Half}, NEW right \in I32 \ {-Half},
         SetMotorSpeed(left, right)
  PROVE  LockstepInv'
<1> DEFINE v == <<left, right>>
<1>1. /\ suite = "motors" /\ fw \in FirmwareHosts /\ mock \in MockHosts /\ Alike(fw, mock)
      /\ fw' = Firmware!host_set_motor_speed(fw, left, right)
      /\ mock' = Mock!host_set_motor_speed(mock, left, right)
      /\ UNCHANGED <<suite, motor, armed>>
  BY PairOfState DEF SetMotorSpeed, Pair
<1>2. parted' = CASE fw'.ret # mock'.ret -> TRUE
                  [] fw'.ret = mock'.ret /\ fw'.ret = OK /\ mock.mode = "SingleBoard" -> FALSE
                  [] OTHER -> parted
  BY DEF SetMotorSpeed
<1>3. parted \in BOOLEAN /\ fw.enabled = mock.enabled /\ fw.mode = mock.mode
  BY <1>1 DEF LockstepInv, Typed, Alike
<1>4. CASE \E e \in {ERR_INVALID_ARG, ERR_BUSY} : fw' = Return(fw, e) /\ mock' = Return(mock, e)
  <2>1. PICK e \in {ERR_INVALID_ARG, ERR_BUSY} : fw' = Return(fw, e) /\ mock' = Return(mock, e)
    BY <1>4
  <2>2. /\ Step(fw, mock, fw', mock') /\ fw'.ret = e /\ mock'.ret = e
        /\ fw'.memory = fw.memory /\ mock'.memory = mock.memory
    BY <1>1, <2>1, BothReturn, StatusCodes DEF Pair
  <2>3. fw'.mode = fw.mode /\ fw'.enabled = fw.enabled
    BY <1>1, <2>1 DEF FirmwareHosts, Return
  <2>4. parted' = parted
    <3>1. e # OK
      BY DEF OK, ERR_INVALID_ARG, ERR_BUSY
    <3>2. ~(fw'.ret # mock'.ret) /\ fw'.ret # OK
      BY <2>2, <3>1
    <3>3. QED
      BY <1>2, <3>2, Zenon
  <2>5. Typed'
    BY <1>1, <2>2, <2>4 DEF LockstepInv, Typed, Step, Pair
  <2>6. MirrorInv'
    BY <1>1, <2>2, <2>4 DEF LockstepInv, MirrorInv, SameAnswer, Step, Pair, Kept
  <2>7. MotorsInv'
    BY <1>1, <2>2, <2>3, <2>4 DEF LockstepInv, MotorsInv, Settled, Step, Kept
  <2>8. QED
    BY <2>5, <2>6, <2>7 DEF LockstepInv
<1>5. CASE /\ mock' = Accepted(mock, v) /\ v \in LegalSpeeds /\ fw.enabled
           /\ fw' = Queued(fw, v) \/ fw' = Return(fw, ERR_BUSY)
  <2>1. /\ mock' \in MockHosts /\ mock'.ret = OK
        /\ mock'.motor = IF mock.mode = "SingleBoard" THEN v ELSE mock.motor
        /\ mock'.sinceIntent = 0 /\ ~mock'.dead_mans_active
        /\ mock'.memory = mock.memory /\ mock'.snapshots = mock.snapshots
        /\ mock'.result = mock.result
        /\ \A f \in FirmwareHosts : Alike(f, mock) => Alike(f, mock')
    <3>1. /\ mock \in MockHosts /\ v \in LegalSpeeds
          /\ mock' = Accepted(mock, v)
      BY <1>1, <1>5
    <3> HIDE DEF v
    <3>2. QED
      BY <3>1, AcceptedTyped
  <2>2. CASE fw' = Return(fw, ERR_BUSY)
    <3>1. /\ fw' \in FirmwareHosts /\ Alike(fw', mock) /\ fw'.ret = ERR_BUSY
          /\ fw'.memory = fw.memory
          /\ fw'.snapshots = fw.snapshots /\ fw'.result = fw.result /\ fw'.intents = fw.intents
      <4>1. Step(fw, mock, Return(fw, ERR_BUSY), Return(mock, ERR_BUSY))
        BY <1>1, BothReturn, StatusCodes DEF Pair
      <4>2. /\ fw'.ret = ERR_BUSY /\ fw'.memory = fw.memory
            /\ Alike(fw', mock)
        BY <1>1, <2>2 DEF FirmwareHosts, Return, Alike
      <4>3. QED
        BY <2>2, <4>1, <4>2 DEF Step, Pair, Kept
    <3>2. parted' = TRUE
      BY <1>2, <2>1, <3>1 DEF OK, ERR_BUSY
    <3>3. Typed'
      BY <1>1, <2>1, <3>1, <3>2 DEF LockstepInv, Typed
    <3>4. MirrorInv'
      BY <1>1, <2>1, <3>1, <3>2 DEF LockstepInv, MirrorInv, SameAnswer
    <3>5. MotorsInv'
      BY <1>1, <2>1, <3>1, <3>2 DEF LockstepInv, Typed, MotorsInv
    <3>6. QED
      BY <3>3, <3>4, <3>5 DEF LockstepInv
  <2>3. CASE fw' = Queued(fw, v)
    <3>1. /\ fw' \in FirmwareHosts /\ Alike(fw', mock) /\ fw'.ret = OK
          /\ fw'.intents = Append(fw.intents, v) /\ fw'.memory = fw.memory
          /\ fw'.snapshots = fw.snapshots /\ fw'.result = fw.result
          /\ fw'.mode = fw.mode /\ fw'.enabled = fw.enabled
      <4>1. /\ fw \in FirmwareHosts /\ v \in LegalSpeeds /\ Alike(fw, mock)
            /\ mock \in MockHosts /\ fw' = Queued(fw, v)
        BY <1>1, <1>5, <2>3
      <4> HIDE DEF v
      <4>2. QED
        BY <4>1, QueuedTyped
    <3>2. fw.intents \in Seq(LegalSpeeds)
      BY <1>1 DEF FirmwareHosts, Queues
    <3>3. fw'.intents # <<>> /\ fw'.intents[Len(fw'.intents)] = v
      BY <3>1, <3>2
    <3>4. parted' = IF mock.mode = "SingleBoard" THEN FALSE ELSE parted
      BY <1>2, <2>1, <3>1
    <3>5. Typed'
      BY <1>1, <1>3, <2>1, <3>1, <3>4 DEF LockstepInv, Typed
    <3>6. MirrorInv'
      <4>1. fw.memory = mock.memory
        BY <1>1, SameMemoryOfState
      <4>2. fw.snapshots = Windows(mock.snapshots) /\ Unpack(fw.result) = mock.result
        BY <1>1 DEF LockstepInv, MirrorInv
      <4>3. QED
        BY <1>1, <2>1, <3>1, <3>4, <4>1, <4>2
        DEF LockstepInv, MirrorInv, SameAnswer
    <3>7. MotorsInv'
      <4>1. suite = "motors" /\ ~parted' => (Settled = mock.motor)'
        <5>1. CASE mock.mode = "SingleBoard"
          BY <1>3, <1>5, <2>1, <3>1, <3>3, <5>1 DEF Settled
        <5>2. CASE mock.mode # "SingleBoard"
          BY <1>1, <1>3, <2>1, <3>1, <3>4, <5>2 DEF Settled, LockstepInv, MotorsInv
        <5>3. QED
          BY <5>1, <5>2
      <4>2. QED
        BY <1>1, <2>1, <4>1 DEF LockstepInv, Typed, MotorsInv
    <3>8. QED
      BY <3>5, <3>6, <3>7 DEF LockstepInv
  <2>4. QED
    BY <1>5, <2>2, <2>3
<1>6. CASE ~SpeedInRange(left, right) \/ ~mock.enabled
  <2>1. CASE ~SpeedInRange(left, right)
    BY <1>1, <1>4, <2>1, FirmwareSpeed, MockSpeed
  <2>2. CASE SpeedInRange(left, right) /\ ~mock.enabled
    BY <1>1, <1>3, <1>4, <2>2, FirmwareSpeed, MockSpeed
  <2>3. QED
    BY <1>6, <2>1, <2>2
<1>7. CASE SpeedInRange(left, right) /\ mock.enabled
  <2>1. MovementIntent(left, right) = v /\ v \in LegalSpeeds
    BY <1>7, IntentIsLegal, IntentIsAsked
  <2>2. mock' = Accepted(mock, v)
    BY <1>1, <1>7, MockSpeed
  <2>3. fw' = Queued(fw, v) \/ fw' = Return(fw, ERR_BUSY)
    BY <1>1, <1>7, <2>1, FirmwareSpeed
  <2>4. QED
    BY <1>3, <1>5, <1>7, <2>1, <2>2, <2>3
<1>8. QED
  BY <1>6, <1>7

\* In "raw" only the firmware's channel is looked at.
LEMMA RawSpeedKeepsInv ==
  ASSUME LockstepInv, NEW left \in I32, NEW right \in I32, SetMotorSpeedRaw(left, right)
  PROVE  LockstepInv'
<1>1. /\ suite = "raw" /\ fw.intents = <<>> /\ fw \in FirmwareHosts
      /\ fw' = Firmware!host_set_motor_speed(fw, left, right)
      /\ UNCHANGED <<suite, mock, motor, armed, parted>>
  BY DEF SetMotorSpeedRaw, LockstepInv, Typed
<1>2. fw' \in FirmwareHosts
  <2>1. CASE \E e \in {ERR_INVALID_ARG, ERR_BUSY} : fw' = Return(fw, e)
    <3>1. PICK e \in Int : fw' = [fw EXCEPT !.ret = e]
      BY <2>1, StatusCodes DEF Return
    <3>2. QED
      BY <1>1, <3>1 DEF FirmwareHosts
  <2>2. CASE SpeedInRange(left, right) /\ fw' = Queued(fw, MovementIntent(left, right))
    BY <1>1, <2>2, IntentIsLegal, QueuedTyped
  <2>3. QED
    BY <1>1, <2>1, <2>2, FirmwareSpeed
<1>3. Typed' /\ MirrorInv'
  BY <1>1, <1>2 DEF LockstepInv, Typed, MirrorInv
<1>4. MotorsInv'
  BY <1>1 DEF LockstepInv, MotorsInv
<1>5. QED
  BY <1>3, <1>4 DEF LockstepInv

LEMMA NextGuest == LockstepInv /\ GuestCalls => LockstepInv'
<1> SUFFICES ASSUME LockstepInv, GuestCalls PROVE LockstepInv'
  OBVIOUS
<1>1. CASE ToggleLed
  BY <1>1, PairOfState, CallToggleLed, CalledKeepsInv DEF ToggleLed, Call
<1>2. CASE \E e \in I32 : DrawEye(e) \/ SetBrightness(e)
  <2>1. PICK e \in I32 : DrawEye(e) \/ SetBrightness(e)
    BY <1>2
  <2>2. /\ suite = "io" /\ Pair(fw, mock)
        /\ UNCHANGED <<suite, motor, armed, parted>>
    BY <2>1, PairOfState DEF DrawEye, SetBrightness, Call
  <2>3. Called(fw, mock, fw', mock')
    <3>1. CASE DrawEye(e)
      BY <2>2, <3>1, CallDrawEye DEF DrawEye, Call
    <3>2. CASE SetBrightness(e)
      BY <2>2, <3>2, CallSetBrightness DEF SetBrightness, Call
    <3>3. QED
      BY <2>1, <3>1, <3>2
  <2>4. QED
    BY <2>2, <2>3, CalledKeepsInv
<1>3. CASE \E p, n \in I32 : DebugLog(p, n) \/ WriteText(p, n)
  <2>1. PICK p \in I32, n \in I32 : DebugLog(p, n) \/ WriteText(p, n)
    BY <1>3
  <2>2. /\ suite = "io" /\ Pair(fw, mock) /\ fw.memory = mock.memory
        /\ UNCHANGED <<suite, motor, armed, parted>>
    BY <2>1, PairOfState, SameMemoryOfState DEF DebugLog, WriteText, Call
  <2>3. CASE DebugLog(p, n)
    <3>1. /\ Step(fw, mock, fw', mock')
          /\ fw'.memory = fw.memory /\ mock'.memory = mock.memory
          /\ fw'.ret = mock'.ret \/ <<fw'.ret, mock'.ret>> = <<OK, ERR_INVALID_ARG>>
      BY <2>2, <2>3, CallDebugLog DEF DebugLog, Call
    <3>2. suite \in Suite \ {"raw", "motors"}
      BY <2>2 DEF Suite
    <3>3. QED
      BY <2>2, <3>1, <3>2, CallKeepsInv
  <2>4. CASE WriteText(p, n)
    <3>1. Called(fw, mock, fw', mock')
      BY <2>2, <2>4, CallWriteText DEF WriteText, Call
    <3>2. QED
      BY <2>2, <3>1, CalledKeepsInv
  <2>5. QED
    BY <2>1, <2>3, <2>4
<1>4. CASE StartAudio \/ StopAudio \/ GetAudioAvail
  <2>1. /\ suite = "audio" /\ Pair(fw, mock)
        /\ UNCHANGED <<suite, motor, armed, parted>>
    BY <1>4, PairOfState DEF StartAudio, StopAudio, GetAudioAvail, Call
  <2>2. Called(fw, mock, fw', mock')
    BY <1>4, <2>1, CallAudioCapture DEF StartAudio, StopAudio, GetAudioAvail, Call
  <2>3. QED
    BY <2>1, <2>2, CalledKeepsInv
<1>5. CASE \E p, n \in I32 : ReadAudio(p, n)
  <2>1. PICK p \in I32, n \in I32 : ReadAudio(p, n)
    BY <1>5
  <2>2. /\ suite = "audio" /\ Pair(fw, mock)
        /\ UNCHANGED <<suite, motor, armed, parted>>
    BY <2>1, PairOfState DEF ReadAudio, Call
  <2>3. Called(fw, mock, fw', mock')
    BY <2>1, <2>2, CallReadAudio DEF ReadAudio, Call
  <2>4. QED
    BY <2>2, <2>3, CalledKeepsInv
<1>6. CASE \E p \in I32 : GetLocalInference(p)
  <2>1. PICK p \in I32 : GetLocalInference(p)
    BY <1>6
  <2>2. /\ suite = "inference" /\ Pair(fw, mock)
        /\ UNCHANGED <<suite, motor, armed, parted>>
    BY <2>1, PairOfState DEF GetLocalInference, Call
  <2>3. Unpack(fw.result) \in Results
    BY UnpackPack DEF LockstepInv, Typed, FirmwareHosts, Words
  <2>4. /\ Step(fw, mock, fw', mock') /\ fw'.ret = mock'.ret
        /\ fw.memory = mock.memory /\ Unpack(fw.result) = mock.result
             => fw'.memory = mock'.memory
    BY <2>1, <2>2, <2>3, CallGetLocalInference DEF GetLocalInference, Call
  <2>5. ~parted => fw'.memory = mock'.memory
    BY <2>2, <2>4 DEF LockstepInv, MirrorInv
  <2>6. suite \in Suite \ {"raw", "motors"}
    BY <2>2 DEF Suite
  <2>7. QED
    BY <2>2, <2>4, <2>5, <2>6, CallKeepsInv
<1>7. CASE \E p, q \in I32 : GetPitchRoll(p, q)
  <2>1. PICK p \in I32, q \in I32 : GetPitchRoll(p, q)
    BY <1>7
  <2>2. /\ suite = "sensors" /\ Pair(fw, mock)
        /\ UNCHANGED <<suite, motor, armed, parted>>
    BY <2>1, PairOfState DEF GetPitchRoll, Call
  <2>3. Called(fw, mock, fw', mock')
    BY <2>1, <2>2, CallGetPitchRoll DEF GetPitchRoll, Call
  <2>4. QED
    BY <2>2, <2>3, CalledKeepsInv
<1>8. CASE \E p \in I32 : GetOtaStatus(p)
  <2>1. PICK p \in I32 : GetOtaStatus(p)
    BY <1>8
  <2>2. /\ suite = "ota" /\ Pair(fw, mock)
        /\ UNCHANGED <<suite, motor, armed, parted>>
    BY <2>1, PairOfState DEF GetOtaStatus, Call
  <2>3. /\ Step(fw, mock, fw', mock') /\ fw'.ret = mock'.ret
        /\ fw.memory = mock.memory /\ Mock!OtaStatus(mock.ota) = fw.ota_status
             => fw'.memory = mock'.memory
    BY <2>1, <2>2, CallGetOtaStatus DEF GetOtaStatus, Call
  <2>4. ~parted => fw'.memory = mock'.memory
    BY <2>2, <2>3 DEF LockstepInv, MirrorInv
  <2>5. suite \in Suite \ {"raw", "motors"}
    BY <2>2 DEF Suite
  <2>6. QED
    BY <2>2, <2>3, <2>4, <2>5, CallKeepsInv
<1>9. CASE \E a \in MotorArgs : SetMotorSpeed(a[1], a[2])
  <2>1. PICK a \in MotorArgs : SetMotorSpeed(a[1], a[2])
    BY <1>9
  <2>2. a[1] \in I32 \ {-Half} /\ a[2] \in I32 \ {-Half}
    BY LockstepAssumption DEF Half
  <2>3. QED
    BY <2>1, <2>2, SpeedKeepsInv
<1>10. CASE \E l, r \in I32 : SetMotorSpeedRaw(l, r)
  BY <1>10, RawSpeedKeepsInv
<1>11. QED
  BY <1>1, <1>2, <1>3, <1>4, <1>5, <1>6, <1>7, <1>8, <1>9, <1>10 DEF GuestCalls

-----------------------------------------------------------------------------
(* The world around the hosts                                               *)

\* A change of both hosts that no call made: they go on alike, and the last
\* answers stay.
LEMMA WorldKeepsInv ==
  ASSUME LockstepInv, suite \in Suite \ {"raw", "motors"},
         UNCHANGED <<suite, motor, armed, parted>>,
         Step(fw, mock, fw', mock'), fw'.ret = fw.ret, mock'.ret = mock.ret,
         fw'.memory = fw.memory, mock'.memory = mock.memory
  PROVE  LockstepInv'
<1>1. SameAnswer /\ (~parted => fw.memory = mock.memory)
  BY DEF LockstepInv, MirrorInv, Suite
<1>2. \/ fw'.ret = mock'.ret
      \/ suite = "io" /\ <<fw'.ret, mock'.ret>> = <<OK, ERR_INVALID_ARG>>
  BY <1>1 DEF SameAnswer
<1>3. QED
  BY <1>1, <1>2, CallKeepsInv

LEMMA HearKeepsInv ==
  ASSUME LockstepInv, NEW b \in AudioBytes, Hear(b)
  PROVE  LockstepInv'
<1>1. /\ suite \in {"audio", "inference"} /\ Pair(fw, mock)
      /\ fw' = [fw EXCEPT !.audio_buf = Append(@, b)]
      /\ mock' = [mock EXCEPT !.audio_buf = Append(@, b)]
      /\ UNCHANGED <<suite, motor, armed, parted>>
  BY PairOfState DEF Hear
<1>2. fw.audio_buf \in Recordings /\ mock.audio_buf = fw.audio_buf
  BY <1>1 DEF Pair, FirmwareHosts, Alike
<1>3. PICK q \in Recordings : q = Append(fw.audio_buf, b)
  <2>1. b \in Bytes
    BY LockstepAssumption DEF Bytes
  <2>2. QED
    BY <1>2, <2>1, AppendTyped DEF Recordings
<1>4. fw' = [fw EXCEPT !.audio_buf = q] /\ mock' = [mock EXCEPT !.audio_buf = q]
  BY <1>1, <1>2, <1>3
<1>5. Step(fw, mock, fw', mock') /\ fw'.memory = fw.memory /\ mock'.memory = mock.memory
  BY <1>1, <1>4, BothRecord
<1>6. fw'.ret = fw.ret /\ mock'.ret = mock.ret
  BY <1>1, <1>4 DEF Pair, FirmwareHosts, MockHosts
<1>7. suite \in Suite \ {"raw", "motors"}
  BY <1>1 DEF Suite
<1>8. QED
  BY <1>1, <1>5, <1>6, <1>7, WorldKeepsInv

LEMMA SampleKeepsInv ==
  ASSUME LockstepInv, NEW r \in ImuReadings, SampleImu(r)
  PROVE  LockstepInv'
<1>1. /\ suite = "sensors" /\ Pair(fw, mock)
      /\ fw' = [fw EXCEPT !.imu = r] /\ mock' = [mock EXCEPT !.imu = r]
      /\ UNCHANGED <<suite, motor, armed, parted>>
  BY PairOfState DEF SampleImu
<1>2. r \in Readings
  BY LockstepAssumption DEF Readings
<1>3. Step(fw, mock, fw', mock') /\ fw'.memory = fw.memory /\ mock'.memory = mock.memory
  BY <1>1, <1>2, BothSample
<1>4. fw'.ret = fw.ret /\ mock'.ret = mock.ret
  BY <1>1 DEF Pair, FirmwareHosts, MockHosts
<1>5. suite \in Suite \ {"raw", "motors"}
  BY <1>1 DEF Suite
<1>6. QED
  BY <1>1, <1>3, <1>4, <1>5, WorldKeepsInv

\* What the OTA methods make of a session is a session.
LEMMA OverlayTyped ==
  ASSUME NEW buf \in Buffers, NEW offset \in Nat, NEW b \in Byte
  PROVE  Mock!Overlay(buf, offset, <<b>>) \in Buffers
<1>1. PICK D \in SUBSET Int : buf \in [D -> Byte]
  BY DEF Buffers
<1>2. DOMAIN buf = D /\ \A i \in D : buf[i] \in Byte
  BY <1>1
<1>3. Len(<<b>>) = 1 /\ <<b>>[1] = b
  OBVIOUS
<1>4. offset + 1 .. offset + Len(<<b>>) = {offset + 1}
  BY <1>3
<1>5. Mock!Overlay(buf, offset, <<b>>) =
        [i \in D \cup {offset + 1} |-> IF i = offset + 1 THEN b ELSE buf[i]]
  <2>1. ASSUME NEW i \in {offset + 1} PROVE <<b>>[i - offset] = b
    BY <1>3, <2>1
  <2>2. QED
    BY <1>2, <1>4, <2>1 DEF Mock!Overlay
<1>6. Mock!Overlay(buf, offset, <<b>>) \in [D \cup {offset + 1} -> Byte]
  BY <1>2, <1>5
<1>7. D \cup {offset + 1} \in SUBSET Int
  OBVIOUS
<1>8. QED
  BY <1>6, <1>7 DEF Buffers

LEMMA BeginTyped ==
  ASSUME NEW s \in Sessions, NEW total \in Nat
  PROVE  Mock!ota_begin(s, total) \in Sessions
<1>1. PICK z \in Buffers : z = Mock!Zeroes(total)
  <2>1. Mock!Zeroes(total) \in [1 .. total -> Byte]
    BY OtaAssumption DEF Mock!Zeroes
  <2>2. QED
    BY <2>1 DEF Buffers
<1>2. \/ Mock!ota_begin(s, total) = s
      \/ Mock!ota_begin(s, total) =
           [s EXCEPT !.ota_state = "Receiving", !.ota_expected_size = total,
                     !.ota_bytes_received = 0, !.ota_buffer = z]
  BY <1>1 DEF Mock!ota_begin
<1>3. PICK a : a = [s EXCEPT !.ota_state = "Receiving"]
  OBVIOUS
<1>4. PICK c : c = [a EXCEPT !.ota_expected_size = total]
  OBVIOUS
<1>5. PICK d : d = [c EXCEPT !.ota_bytes_received = 0]
  OBVIOUS
<1>6. PICK e : e = [d EXCEPT !.ota_buffer = z]
  OBVIOUS
<1>7. a \in Sessions
  BY <1>3 DEF Sessions, OtaState
<1>8. c \in Sessions
  BY <1>4, <1>7 DEF Sessions
<1>9. d \in Sessions
  BY <1>5, <1>8 DEF Sessions
<1>10. e \in Sessions
  BY <1>6, <1>9 DEF Sessions
<1>11. QED
  BY <1>2, <1>3, <1>4, <1>5, <1>6, <1>10

LEMMA ChunkTyped ==
  ASSUME NEW s \in Sessions, NEW offset \in Nat, NEW b \in Byte
  PROVE  Mock!ota_receive_chunk(s, offset, <<b>>) \in Sessions
<1>1. s.ota_buffer \in Buffers /\ s.ota_bytes_received \in Nat
  BY DEF Sessions
<1>2. PICK z \in Buffers : z = Mock!Overlay(s.ota_buffer, offset, <<b>>)
  BY <1>1, OverlayTyped
<1>3. PICK n \in Nat : n = s.ota_bytes_received + Len(<<b>>)
  BY <1>1
<1>4. \/ Mock!ota_receive_chunk(s, offset, <<b>>) = s
      \/ Mock!ota_receive_chunk(s, offset, <<b>>) =
           [s EXCEPT !.ota_buffer = z, !.ota_bytes_received = n]
  BY <1>2, <1>3, Zenon DEF Mock!ota_receive_chunk
<1>5. QED
  BY <1>4 DEF Sessions

LEMMA FinalizeTyped ==
  ASSUME NEW s \in Sessions, NEW crc
  PROVE  Mock!ota_finalize(s, crc) \in Sessions
<1>1. \/ Mock!ota_finalize(s, crc) = s
      \/ Mock!ota_finalize(s, crc) = [s EXCEPT !.ota_state = "Ready"]
      \/ Mock!ota_finalize(s, crc) = [s EXCEPT !.ota_state = "Failed"]
  BY DEF Mock!ota_finalize
<1>2. QED
  BY <1>1 DEF Sessions, OtaState

LEMMA SwapTyped ==
  ASSUME NEW s \in Sessions
  PROVE  Mock!hot_swap_wasm(s) \in Sessions
<1>1. PICK e \in Buffers : e = <<>>
  BY NoSessionTyped DEF Mock!NoSession, Sessions
<1>2. PICK n \in Nat : n = s.hot_swap_count + 1
  BY DEF Sessions
<1>3. \/ Mock!hot_swap_wasm(s) = s
      \/ Mock!hot_swap_wasm(s) =
           [s EXCEPT !.ota_state = "Idle", !.ota_buffer = e, !.hot_swap_count = n,
                     !.ota_expected_size = 0, !.ota_bytes_received = 0]
  BY <1>1, <1>2, Zenon DEF Mock!hot_swap_wasm
<1>4. PICK a : a = [s EXCEPT !.ota_state = "Idle"]
  OBVIOUS
<1>5. PICK c : c = [a EXCEPT !.ota_buffer = e]
  OBVIOUS
<1>6. PICK d : d = [c EXCEPT !.hot_swap_count = n]
  OBVIOUS
<1>7. PICK g : g = [d EXCEPT !.ota_expected_size = 0]
  OBVIOUS
<1>8. PICK h : h = [g EXCEPT !.ota_bytes_received = 0]
  OBVIOUS
<1>9. a \in Sessions
  BY <1>4 DEF Sessions, OtaState
<1>10. c \in Sessions
  BY <1>5, <1>9 DEF Sessions
<1>11. d \in Sessions
  BY <1>6, <1>10 DEF Sessions
<1>12. g \in Sessions
  BY <1>7, <1>11 DEF Sessions
<1>13. h \in Sessions
  BY <1>8, <1>12 DEF Sessions
<1>14. QED
  BY <1>3, <1>4, <1>5, <1>6, <1>7, <1>8, <1>13

\* An update of the mock changes its session and nothing else.
LEMMA OtaCallKeepsInv ==
  ASSUME LockstepInv, NEW s \in Sessions, OtaCall(s)
  PROVE  LockstepInv'
<1>1. /\ suite = "ota" /\ mock \in MockHosts /\ mock' = [mock EXCEPT !.ota = s]
      /\ suite' = suite /\ fw' = fw /\ motor' = motor /\ armed' = armed
      /\ parted' \in BOOLEAN /\ (~parted' => ~parted /\ s = mock.ota)
  BY DEF OtaCall, LockstepInv, Typed
<1>2. mock' \in MockHosts
  BY <1>1 DEF MockHosts
<1>3. /\ mock'.ret = mock.ret /\ mock'.memory = mock.memory
      /\ mock'.led_on = mock.led_on /\ mock'.text = mock.text
      /\ mock'.expression = mock.expression /\ mock'.brightness = mock.brightness
      /\ mock'.audio_active = mock.audio_active /\ mock'.audio_buf = mock.audio_buf
      /\ mock'.imu = mock.imu /\ mock'.enabled = mock.enabled /\ mock'.mode = mock.mode
      /\ mock'.snapshots = mock.snapshots /\ mock'.result = mock.result
      /\ mock'.motor = mock.motor /\ mock'.sinceIntent = mock.sinceIntent
      /\ mock'.dead_mans_active = mock.dead_mans_active /\ mock'.ota = s
  BY <1>1 DEF MockHosts
<1>4. Typed'
  BY <1>1, <1>2 DEF LockstepInv, Typed
<1>5. Alike(fw, mock)' /\ SameAnswer'
  BY <1>1, <1>3 DEF LockstepInv, MirrorInv, Alike, SameShape, SameAnswer
<1>6. MirrorInv'
  <2>1. ~parted' => mock'.ota = mock.ota
    BY <1>1, <1>3
  <2>2. QED
    BY <1>1, <1>3, <1>5, <2>1 DEF LockstepInv, MirrorInv, Windows, Unpack
<1>7. MotorsInv'
  BY <1>1, <1>3 DEF LockstepInv, MotorsInv
<1>8. QED
  BY <1>4, <1>6, <1>7 DEF LockstepInv

LEMMA NextOta == LockstepInv /\ OtaMethods => LockstepInv'
<1> SUFFICES ASSUME LockstepInv, OtaMethods PROVE LockstepInv'
  OBVIOUS
<1>1. mock.ota \in Sessions
  BY DEF LockstepInv, Typed, MockHosts
<1>2. CASE \E total \in 0 .. OTA_MAX_BINARY_SIZE + 1 : OtaBegin(total)
  <2>1. PICK total \in Nat : OtaBegin(total)
    BY <1>2, OtaAssumption
  <2>2. QED
    BY <1>1, <2>1, BeginTyped, OtaCallKeepsInv DEF OtaBegin
<1>3. CASE \E offset \in 0 .. OTA_MAX_BINARY_SIZE, b \in Byte : OtaReceiveChunk(offset, <<b>>)
  <2>1. PICK offset \in Nat, b \in Byte : OtaReceiveChunk(offset, <<b>>)
    BY <1>3, OtaAssumption
  <2>2. QED
    BY <1>1, <2>1, ChunkTyped, OtaCallKeepsInv DEF OtaReceiveChunk
<1>4. CASE \E bytes \in {mock.ota.ota_buffer, <<>>} : OtaFinalize(Crc(bytes))
  <2>1. PICK crc : OtaFinalize(crc)
    BY <1>4
  <2>2. QED
    BY <1>1, <2>1, FinalizeTyped, OtaCallKeepsInv DEF OtaFinalize
<1>5. CASE HotSwapWasm
  BY <1>1, <1>5, SwapTyped, OtaCallKeepsInv DEF HotSwapWasm
<1>6. QED
  BY <1>2, <1>3, <1>4, <1>5 DEF OtaMethods

\* Both hosts run the engine of Inference.
LEMMA FirmwareEngine == ASSUME NEW t PROVE Firmware!Run(t) = Run(t)
<1>1. Firmware!Window(t) = Window(t) /\ Firmware!NoResult = NoResult
  BY DEF Firmware!Window, Window, Firmware!NoResult, NoResult
<1>2. PICK w : w = Window(t)
  OBVIOUS
<1>3. Firmware!TopByte(w) = TopByte(w)
  BY Zenon DEF Firmware!TopByte, TopByte, Firmware!AsU8, AsU8, Firmware!Cardinality, Cardinality
<1>4. Firmware!SumAbs(w) = SumAbs(w)
  BY Zenon DEF Firmware!SumAbs, SumAbs, Firmware!Magnitude, Magnitude
<1>5. Firmware!MeanAbs(w) = MeanAbs(w)
  BY <1>4 DEF Firmware!MeanAbs, MeanAbs
<1>6. QED
  BY <1>1, <1>2, <1>3, <1>5, Zenon DEF Firmware!Run, Run

LEMMA MockEngine == ASSUME NEW t PROVE Mock!run_stub_inference(t) = Run(t)
<1>1. Mock!Window(t) = Window(t) /\ Mock!NoResult = NoResult
  BY DEF Mock!Window, Window, Mock!NoResult, NoResult
<1>2. PICK w : w = Window(t)
  OBVIOUS
<1>3. Mock!TopByte(w) = TopByte(w)
  BY Zenon DEF Mock!TopByte, TopByte, Mock!AsU8, AsU8, Mock!Cardinality, Cardinality
<1>4. Mock!SumAbs(w) = SumAbs(w)
  BY Zenon DEF Mock!SumAbs, SumAbs, Mock!Magnitude, Magnitude
<1>5. Mock!MeanAbs(w) = MeanAbs(w)
  BY <1>4 DEF Mock!MeanAbs, MeanAbs
<1>6. QED
  BY <1>1, <1>2, <1>3, <1>5, Zenon DEF Mock!run_stub_inference, Run

\* The engine looks no further than the window.
LEMMA EngineOnWindow ==
  ASSUME NEW t \in Seq(Int)
  PROVE  Run(Window(t)) = Run(t)
<1>1. Window(t) \in Seq(Int) /\ (t # <<>> => Window(t) # <<>>) /\ Window(Window(t)) = Window(t)
  BY WindowFacts
<1>2. t = <<>> => Window(t) = <<>>
  BY TensorAssumption DEF Window
<1>3. QED
  BY <1>1, <1>2 DEF Run

\* New snapshots on both sides, and new results
Inferred(h, r, q) == [[h EXCEPT !.result = r] EXCEPT !.snapshots = q]

SameButInference(f, f2, w, a) ==
  /\ f2.snapshots = a /\ f2.result = w
  /\ f2.ret = f.ret /\ f2.memory = f.memory

LEMMA BothInfer ==
  ASSUME NEW f, NEW m, Pair(f, m), NEW a \in Snapshots, NEW b \in Snapshots,
         NEW w \in Words, NEW r \in Results
  PROVE  /\ Pair(Inferred(f, w, a), Inferred(m, r, b))
         /\ SameButInference(f, Inferred(f, w, a), w, a)
         /\ SameButInference(m, Inferred(m, r, b), r, b)
         /\ Inferred(f, w, a).intents = f.intents
         /\ Inferred(m, r, b).sinceIntent = m.sinceIntent
         /\ Inferred(m, r, b).dead_mans_active = m.dead_mans_active
<1> DEFINE f2 == Inferred(f, w, a)
           m2 == Inferred(m, r, b)
<1>1. PICK g : g = [f EXCEPT !.result = w]
  OBVIOUS
<1>2. PICK n : n = [m EXCEPT !.result = r]
  OBVIOUS
<1>3. g \in FirmwareHosts /\ n \in MockHosts
  BY <1>1, <1>2 DEF Pair, FirmwareHosts, MockHosts
<1>4. f2 = [g EXCEPT !.snapshots = a] /\ m2 = [n EXCEPT !.snapshots = b]
  BY <1>1, <1>2 DEF Inferred
<1> HIDE DEF f2, m2
<1>5. f2 \in FirmwareHosts
  BY <1>3, <1>4 DEF FirmwareHosts
<1>6. m2 \in MockHosts
  BY <1>3, <1>4 DEF MockHosts
<1>7. /\ f2.snapshots = a /\ f2.result = w
      /\ f2.ret = f.ret /\ f2.memory = f.memory /\ f2.intents = f.intents
      /\ f2.led_on = f.led_on /\ f2.text = f.text /\ f2.expression = f.expression
      /\ f2.brightness = f.brightness /\ f2.audio_active = f.audio_active
      /\ f2.audio_buf = f.audio_buf /\ f2.imu = f.imu /\ f2.enabled = f.enabled
      /\ f2.mode = f.mode
  BY <1>1, <1>4 DEF Pair, FirmwareHosts
<1>8. /\ m2.snapshots = b /\ m2.result = r
      /\ m2.ret = m.ret /\ m2.memory = m.memory /\ m2.sinceIntent = m.sinceIntent
      /\ m2.dead_mans_active = m.dead_mans_active
      /\ m2.led_on = m.led_on /\ m2.text = m.text /\ m2.expression = m.expression
      /\ m2.brightness = m.brightness /\ m2.audio_active = m.audio_active
      /\ m2.audio_buf = m.audio_buf /\ m2.imu = m.imu /\ m2.enabled = m.enabled
      /\ m2.mode = m.mode
  BY <1>2, <1>4 DEF Pair, MockHosts
<1>9. Alike(f2, m2)
  BY <1>7, <1>8 DEF Pair, Alike
<1>10. QED
  BY <1>5, <1>6, <1>7, <1>8, <1>9 DEF Pair, SameButInference, f2, m2

\* A step of the inference path keeps everything else.
LEMMA InferenceKeepsInv ==
  ASSUME LockstepInv, suite = "inference", UNCHANGED <<suite, motor, armed>>,
         parted' \in BOOLEAN, parted => parted',
         NEW a \in Snapshots, NEW b \in Snapshots, NEW w \in Words, NEW r \in Results,
         fw' = Inferred(fw, w, a), mock' = Inferred(mock, r, b),
         ~parted' => Unpack(w) = r /\ a = Windows(b)
  PROVE  LockstepInv'
<1>1. Pair(fw, mock)
  BY PairOfState
<1>2. /\ Pair(fw', mock')
      /\ fw'.snapshots = a /\ fw'.result = w /\ mock'.snapshots = b /\ mock'.result = r
      /\ fw'.ret = fw.ret /\ fw'.memory = fw.memory /\ fw'.intents = fw.intents
      /\ mock'.ret = mock.ret /\ mock'.memory = mock.memory
      /\ mock'.sinceIntent = mock.sinceIntent
      /\ mock'.dead_mans_active = mock.dead_mans_active
  BY <1>1, BothInfer DEF SameButInference
<1>3. Typed'
  BY <1>2 DEF LockstepInv, Typed, Pair
<1>4. (~parted => fw.memory = mock.memory) /\ SameAnswer
  BY DEF LockstepInv, MirrorInv
<1>5. SameAnswer'
  BY <1>2, <1>4 DEF SameAnswer
<1>6. (fw.snapshots = Windows(mock.snapshots))' <=> a = Windows(b)
  BY <1>2 DEF Windows, Window
<1>7. (Unpack(fw.result) = mock.result)' <=> Unpack(w) = r
  BY <1>2 DEF Unpack
<1>8. MirrorInv'
  BY <1>2, <1>4, <1>5, <1>6, <1>7 DEF MirrorInv, Pair
<1>9. MotorsInv'
  BY <1>2 DEF LockstepInv, MotorsInv
<1>10. QED
  BY <1>3, <1>8, <1>9 DEF LockstepInv

\* Until they part, the two channels have the same length and their heads are
\* a recording and its window.
LEMMA WindowsFacts ==
  ASSUME NEW q \in Snapshots
  PROVE  /\ Windows(q) \in Snapshots /\ Len(Windows(q)) = Len(q)
         /\ q # <<>> => /\ Windows(q) # <<>> /\ Head(Windows(q)) = Window(Head(q))
                        /\ Tail(Windows(q)) = Windows(Tail(q))
         /\ \A t \in Seq(Int) : Append(Windows(q), Window(t)) = Windows(Append(q, t))
<1>1. q \in Seq(Seq(Int))
  BY DEF Snapshots
<1>2. \A i \in 1 .. Len(q) : q[i] \in Seq(Int) /\ Window(q[i]) \in Seq(Int)
  BY <1>1, WindowFacts
<1>3. /\ Windows(q) \in Seq(Seq(Int)) /\ Len(Windows(q)) = Len(q)
      /\ \A i \in 1 .. Len(q) : Windows(q)[i] = Window(q[i])
  <2>1. Windows(q) = [i \in 1 .. Len(q) |-> Window(q[i])]
    BY <1>1 DEF Windows
  <2>2. QED
    BY <1>1, <1>2, <2>1
<1>4. ASSUME q # <<>>
      PROVE  /\ Windows(q) # <<>> /\ Head(Windows(q)) = Window(Head(q))
             /\ Tail(Windows(q)) = Windows(Tail(q))
  <2>1. Windows(q) # <<>> /\ Head(Windows(q)) = Window(Head(q))
    BY <1>1, <1>3, <1>4
  <2>2. /\ Tail(q) \in Seq(Seq(Int)) /\ Len(Tail(q)) = Len(q) - 1
        /\ \A i \in 1 .. Len(q) - 1 : Tail(q)[i] = q[i + 1]
    BY <1>1, <1>4
  <2>3. Windows(Tail(q)) = [i \in 1 .. Len(q) - 1 |-> Window(q[i + 1])]
    BY <2>2 DEF Windows
  <2>4. Tail(Windows(q)) = [i \in 1 .. Len(q) - 1 |-> Windows(q)[i + 1]]
    <3> DEFINE u == Tail(Windows(q))
    <3>1. /\ u \in Seq(Seq(Int)) /\ Len(u) = Len(q) - 1
          /\ \A i \in 1 .. Len(q) - 1 : u[i] = Windows(q)[i + 1]
      BY <1>1, <1>3, <1>4
    <3> HIDE DEF u
    <3>2. u = [i \in 1 .. Len(q) - 1 |-> u[i]]
      BY <3>1
    <3>3. QED
      BY <3>1, <3>2 DEF u
  <2>5. \A i \in 1 .. Len(q) - 1 : Windows(q)[i + 1] = Window(q[i + 1])
    BY <1>1, <1>3
  <2>6. QED
    BY <2>1, <2>3, <2>4, <2>5
<1>5. ASSUME NEW t \in Seq(Int)
      PROVE  Append(Windows(q), Window(t)) = Windows(Append(q, t))
  <2> DEFINE p == Append(q, t)
             v == Append(Windows(q), Window(t))
  <2>1. /\ p \in Seq(Seq(Int)) /\ Len(p) = Len(q) + 1 /\ p[Len(q) + 1] = t
        /\ \A i \in 1 .. Len(q) : p[i] = q[i]
    BY <1>1
  <2>2. /\ v \in Seq(Seq(Int)) /\ Len(v) = Len(q) + 1 /\ v[Len(q) + 1] = Window(t)
        /\ \A i \in 1 .. Len(q) : v[i] = Window(q[i])
    BY <1>1, <1>3, WindowFacts
  <2> HIDE DEF p, v
  <2>3. Windows(p) = [i \in 1 .. Len(q) + 1 |-> Window(p[i])]
    BY <2>1 DEF Windows
  <2>4. v = [i \in 1 .. Len(q) + 1 |-> v[i]]
    BY <2>2
  <2>5. ASSUME NEW i \in 1 .. Len(q) + 1 PROVE v[i] = Window(p[i])
    <3>1. i = Len(q) + 1 \/ i \in 1 .. Len(q)
      BY <1>1
    <3>2. QED
      BY <2>1, <2>2, <3>1
  <2>6. QED
    BY <2>3, <2>4, <2>5 DEF p, v
<1>6. QED
  BY <1>3, <1>4, <1>5 DEF Snapshots

LEMMA SamplesTyped ==
  ASSUME NEW q \in Recordings
  PROVE  [i \in DOMAIN q |-> AsI8(q[i])] \in Seq(Int)
<1>1. q \in Seq(Bytes) /\ Len(q) \in Nat /\ DOMAIN q = 1 .. Len(q)
  BY DEF Recordings
<1>2. \A b \in Bytes : AsI8(b) \in Int
  BY DEF AsI8, Bytes
<1>3. \A i \in 1 .. Len(q) : q[i] \in Bytes /\ AsI8(q[i]) \in Int
  BY <1>1, <1>2
<1>4. QED
  BY <1>1, <1>3

LEMMA PushKeepsInv ==
  ASSUME LockstepInv, PushSnapshot
  PROVE  LockstepInv'
<1>1. /\ suite = "inference" /\ mock.audio_buf # <<>>
      /\ UNCHANGED <<suite, motor, armed>>
      /\ parted' = (parted \/ Len(fw.snapshots) >= AUDIO_INFERENCE_QUEUE_DEPTH)
  BY DEF PushSnapshot
<1>2. Pair(fw, mock)
  BY <1>1, PairOfState
<1>3. /\ fw.snapshots \in Snapshots /\ fw.result \in Words
      /\ mock.snapshots \in Snapshots /\ mock.result \in Results
      /\ fw.audio_buf \in Recordings /\ fw.audio_buf = mock.audio_buf
  BY <1>2 DEF Pair, FirmwareHosts, MockHosts, Alike
<1>4. PICK t : t = [i \in DOMAIN mock.audio_buf |-> AsI8(mock.audio_buf[i])]
  OBVIOUS
<1>5. t \in Seq(Int) /\ Window(t) \in Seq(Int)
  <2>1. t \in Seq(Int)
    BY <1>3, <1>4, SamplesTyped
  <2>2. QED
    BY <2>1, WindowFacts
<1>6. PICK b \in Snapshots : b = Append(mock.snapshots, t)
  BY <1>3, <1>5, AppendTyped DEF Snapshots
<1>7. PICK a \in Snapshots :
        a = IF Len(fw.snapshots) >= AUDIO_INFERENCE_QUEUE_DEPTH THEN fw.snapshots
            ELSE Append(fw.snapshots, Window(t))
  BY <1>3, <1>5, AppendTyped DEF Snapshots
<1>8. mock' = Inferred(mock, mock.result, b)
  <2>1. mock' = [mock EXCEPT !.snapshots = b]
    BY <1>4, <1>6 DEF PushSnapshot, Mock!push_audio_for_inference
  <2>2. mock = [mock EXCEPT !.result = mock.result]
    BY <1>2 DEF Pair, MockHosts
  <2>3. QED
    BY <2>1, <2>2, Zenon DEF Inferred
<1>9. fw' = Inferred(fw, fw.result, a)
  <2>1. fw = [fw EXCEPT !.result = fw.result] /\ fw = [fw EXCEPT !.snapshots = fw.snapshots]
    BY <1>2 DEF Pair, FirmwareHosts
  <2>2. Firmware!Window(t) = Window(t)
    BY DEF Firmware!Window, Window
  <2>3. t = [i \in DOMAIN fw.audio_buf |-> Firmware!AsI8(fw.audio_buf[i])]
    BY <1>3, <1>4 DEF Firmware!AsI8, AsI8
  <2>4. fw' = IF Len(fw.snapshots) >= AUDIO_INFERENCE_QUEUE_DEPTH THEN fw
              ELSE [fw EXCEPT !.snapshots = Append(fw.snapshots, Window(t))]
    BY <1>1, <1>3, <2>2, <2>3, Zenon DEF PushSnapshot, Firmware!push_audio_for_inference
  <2>5. fw' = [fw EXCEPT !.snapshots = a]
    BY <1>7, <2>1, <2>4, Zenon
  <2>6. QED
    BY <2>1, <2>5, Zenon DEF Inferred
<1>10. ~parted' => Unpack(fw.result) = mock.result /\ a = Windows(b)
  <2> SUFFICES ASSUME ~parted' PROVE Unpack(fw.result) = mock.result /\ a = Windows(b)
    OBVIOUS
  <2>1. Unpack(fw.result) = mock.result /\ fw.snapshots = Windows(mock.snapshots)
    BY <1>1 DEF LockstepInv, MirrorInv
  <2>2. a = Append(Windows(mock.snapshots), Window(t))
    BY <1>1, <1>7, <2>1
  <2>3. QED
    BY <1>3, <1>5, <1>6, <2>1, <2>2, WindowsFacts
<1>11. parted' \in BOOLEAN /\ (parted => parted')
  BY <1>1 DEF LockstepInv, Typed
<1>12. QED
  BY <1>1, <1>3, <1>6, <1>7, <1>8, <1>9, <1>10, <1>11, InferenceKeepsInv

LEMMA RunKeepsInv ==
  ASSUME LockstepInv, RunFallback
  PROVE  LockstepInv'
<1>1. /\ suite = "inference" /\ mock.snapshots # <<>>
      /\ UNCHANGED <<suite, motor, armed, parted>>
  BY DEF RunFallback
<1>2. Pair(fw, mock)
  BY <1>1, PairOfState
<1>3. /\ fw.snapshots \in Snapshots /\ fw.result \in Words
      /\ mock.snapshots \in Snapshots /\ mock.result \in Results
  BY <1>2 DEF Pair, FirmwareHosts, MockHosts
<1>4. PICK h, b : h = Head(mock.snapshots) /\ b = Tail(mock.snapshots)
  OBVIOUS
<1>5. h \in Seq(Int) /\ b \in Snapshots
  BY <1>1, <1>3, <1>4 DEF Snapshots
<1>6. PICK r \in Results : r = Run(h)
  BY <1>5, RunTyped
<1>7. mock' = Inferred(mock, r, b)
  <2>1. mock' = [mock EXCEPT !.result = Run(h), !.snapshots = b]
    BY <1>1, <1>4, MockEngine DEF RunFallback, Mock!run_fallback_inference
  <2>2. QED
    BY <1>6, <2>1 DEF Inferred
<1>8. PICK w \in Words, a \in Snapshots :
        /\ fw' = Inferred(fw, w, a)
        /\ fw.snapshots # <<>> => w = Pack(Run(Head(fw.snapshots))) /\ a = Tail(fw.snapshots)
  <2>1. CASE fw.snapshots = <<>>
    <3>1. fw' = fw
      BY <2>1 DEF RunFallback, Firmware!run_fallback_inference
    <3>2. fw = Inferred(fw, fw.result, fw.snapshots)
      BY <1>2 DEF Pair, FirmwareHosts, Inferred
    <3>3. QED
      BY <1>3, <2>1, <3>1, <3>2
  <2>2. CASE fw.snapshots # <<>>
    <3>1. PICK g, a : g = Head(fw.snapshots) /\ a = Tail(fw.snapshots)
      OBVIOUS
    <3>2. g \in Seq(Int) /\ a \in Snapshots
      BY <1>3, <2>2, <3>1 DEF Snapshots
    <3>3. PICK w \in Words : w = Pack(Run(g))
      BY <3>2, RunTyped DEF Words
    <3>4. \A s : Firmware!Pack(s) = Pack(s)
      BY DEF Firmware!Pack, Pack
    <3>5. fw' = [fw EXCEPT !.result = w, !.snapshots = a]
      BY <2>2, <3>1, <3>3, <3>4, FirmwareEngine
      DEF RunFallback, Firmware!run_fallback_inference
    <3>6. fw' = Inferred(fw, w, a)
      BY <3>5 DEF Inferred
    <3>7. QED
      BY <3>1, <3>2, <3>3, <3>6
  <2>3. QED
    BY <2>1, <2>2
<1>9. ~parted => Unpack(w) = r /\ a = Windows(b)
  <2> SUFFICES ASSUME ~parted PROVE Unpack(w) = r /\ a = Windows(b)
    OBVIOUS
  <2>1. fw.snapshots = Windows(mock.snapshots)
    BY <1>1 DEF LockstepInv, MirrorInv
  <2>2. /\ fw.snapshots # <<>> /\ Head(fw.snapshots) = Window(h)
        /\ Tail(fw.snapshots) = Windows(b)
    BY <1>1, <1>3, <1>4, <2>1, WindowsFacts
  <2>3. w = Pack(Run(Window(h))) /\ a = Windows(b)
    BY <1>8, <2>2
  <2>4. Run(Window(h)) = Run(h)
    BY <1>5, EngineOnWindow
  <2>5. QED
    BY <1>6, <2>3, <2>4, UnpackPack
<1>10. parted' \in BOOLEAN /\ (parted => parted') /\ (~parted' => ~parted)
  BY <1>1 DEF LockstepInv, Typed
<1>11. QED
  BY <1>1, <1>5, <1>6, <1>7, <1>8, <1>9, <1>10, InferenceKeepsInv

-----------------------------------------------------------------------------
(* The motors                                                               *)

LEMMA LockOutKeepsInv == LockstepInv /\ LockOut => LockstepInv'
<1> SUFFICES ASSUME LockstepInv, LockOut PROVE LockstepInv'
  OBVIOUS
<1>1. /\ suite = "motors" /\ suite' = suite /\ armed' = armed
      /\ fw' = [fw EXCEPT !.enabled = FALSE] /\ mock' = [mock EXCEPT !.enabled = FALSE]
      /\ motor' = Stop /\ parted' = TRUE
  BY DEF LockOut
<1>2. Pair(fw, mock)
  BY <1>1, PairOfState
<1>3. fw' \in FirmwareHosts /\ mock' \in MockHosts
  BY <1>1, <1>2 DEF Pair, FirmwareHosts, MockHosts
<1>4. /\ fw'.ret = fw.ret /\ fw'.memory = fw.memory /\ fw'.intents = fw.intents
      /\ fw'.snapshots = fw.snapshots /\ fw'.result = fw.result
      /\ mock'.ret = mock.ret /\ mock'.memory = mock.memory
      /\ mock'.snapshots = mock.snapshots /\ mock'.result = mock.result
      /\ mock'.sinceIntent = mock.sinceIntent
      /\ mock'.dead_mans_active = mock.dead_mans_active
  BY <1>1, <1>2 DEF Pair, FirmwareHosts, MockHosts
<1>5. Alike(fw', mock')
  BY <1>1, <1>2 DEF Pair, FirmwareHosts, MockHosts, Alike
<1>6. Typed'
  BY <1>1, <1>3, StopIsLegal DEF LockstepInv, Typed
<1>7. MirrorInv'
  BY <1>1, <1>4, <1>5 DEF LockstepInv, MirrorInv, SameAnswer
<1>8. MotorsInv'
  BY <1>1, <1>4 DEF LockstepInv, MotorsInv, Stop
<1>9. QED
  BY <1>6, <1>7, <1>8 DEF LockstepInv

LEMMA ModeKeepsInv == LockstepInv /\ SetRoutingMode => LockstepInv'
<1> SUFFICES ASSUME LockstepInv, SetRoutingMode PROVE LockstepInv'
  OBVIOUS
<1>1. PICK m \in Modes :
        /\ suite = "motors" /\ suite' = suite /\ armed' = armed /\ motor' = motor
        /\ fw' = [fw EXCEPT !.mode = m] /\ mock' = [mock EXCEPT !.mode = m]
        /\ parted' = (parted \/ fw.intents # <<>>)
  BY DEF SetRoutingMode, Modes
<1>2. Pair(fw, mock)
  BY <1>1, PairOfState
<1>3. fw' \in FirmwareHosts /\ mock' \in MockHosts
  BY <1>1, <1>2 DEF Pair, FirmwareHosts, MockHosts
<1>4. /\ fw'.ret = fw.ret /\ fw'.memory = fw.memory /\ fw'.intents = fw.intents
      /\ fw'.snapshots = fw.snapshots /\ fw'.result = fw.result
      /\ mock'.ret = mock.ret /\ mock'.memory = mock.memory
      /\ mock'.snapshots = mock.snapshots /\ mock'.result = mock.result
      /\ mock'.sinceIntent = mock.sinceIntent /\ mock'.motor = mock.motor
      /\ mock'.dead_mans_active = mock.dead_mans_active
  BY <1>1, <1>2 DEF Pair, FirmwareHosts, MockHosts
<1>5. Alike(fw', mock')
  BY <1>1, <1>2 DEF Pair, FirmwareHosts, MockHosts, Alike
<1>6. Typed'
  BY <1>1, <1>3 DEF LockstepInv, Typed
<1>7. MirrorInv'
  BY <1>1, <1>4, <1>5 DEF LockstepInv, MirrorInv, SameAnswer
<1>8. MotorsInv'
  BY <1>1, <1>4 DEF LockstepInv, MotorsInv, Settled
<1>9. QED
  BY <1>6, <1>7, <1>8 DEF LockstepInv

LEMMA LastStays ==
  ASSUME NEW S, NEW s \in Seq(S), s # <<>>
  PROVE  /\ Tail(s) \in Seq(S) /\ Head(s) \in S
         /\ Len(Tail(s)) = Len(s) - 1 /\ Len(s) \in Nat \ {0}
         /\ Tail(s) # <<>> => Tail(s)[Len(Tail(s))] = s[Len(s)]
         /\ Tail(s) = <<>> => Head(s) = s[Len(s)]
<1>1. PICK t : t = Tail(s)
  OBVIOUS
<1>2. /\ t \in Seq(S) /\ Head(s) \in S /\ Head(s) = s[1]
      /\ Len(t) = Len(s) - 1 /\ Len(s) \in Nat \ {0}
      /\ \A i \in 1 .. Len(s) - 1 : t[i] = s[i + 1]
  BY <1>1
<1>3. ASSUME t # <<>> PROVE t[Len(t)] = s[Len(s)]
  <2>1. Len(t) # 0
    BY <1>2, <1>3
  <2>2. Len(s) - 1 \in 1 .. Len(s) - 1 /\ Len(s) - 1 + 1 = Len(s)
    BY <1>2, <2>1
  <2>3. QED
    BY <1>2, <2>2
<1>4. ASSUME t = <<>> PROVE Head(s) = s[Len(s)]
  <2>1. Len(t) = 0
    BY <1>4
  <2>2. Len(s) = 1
    BY <1>2, <2>1
  <2>3. QED
    BY <1>2, <2>2
<1>5. QED
  BY <1>1, <1>2, <1>3, <1>4

\* The router takes the intents in order, so what the motors settle at stays.
LEMMA RouteKeepsInv == LockstepInv /\ RouteIntent => LockstepInv'
<1> SUFFICES ASSUME LockstepInv, RouteIntent PROVE LockstepInv'
  OBVIOUS
<1>1. PICK q : q = Tail(fw.intents)
  OBVIOUS
<1>2. /\ fw.intents # <<>> /\ armed' = 0
      /\ motor' = IF fw.mode = "SingleBoard" /\ fw.enabled THEN Head(fw.intents) ELSE motor
      /\ fw' = [fw EXCEPT !.intents = q]
      /\ suite' = suite /\ mock' = mock /\ parted' = parted
  BY <1>1 DEF RouteIntent, Backlog
<1>3. fw \in FirmwareHosts /\ fw.intents \in Seq(LegalSpeeds)
  BY DEF LockstepInv, Typed, FirmwareHosts, Queues
<1>4. /\ q \in Seq(LegalSpeeds) /\ Head(fw.intents) \in LegalSpeeds
      /\ Len(q) = Len(fw.intents) - 1 /\ Len(fw.intents) \in Nat \ {0}
      /\ q # <<>> => q[Len(q)] = fw.intents[Len(fw.intents)]
      /\ q = <<>> => Head(fw.intents) = fw.intents[Len(fw.intents)]
  BY <1>1, <1>2, <1>3, LastStays
<1>5. fw' \in FirmwareHosts
  BY <1>2, <1>3, <1>4 DEF FirmwareHosts, Queues
<1>6. /\ fw'.intents = q /\ fw'.ret = fw.ret /\ fw'.memory = fw.memory
      /\ fw'.led_on = fw.led_on /\ fw'.text = fw.text /\ fw'.expression = fw.expression
      /\ fw'.brightness = fw.brightness /\ fw'.audio_active = fw.audio_active
      /\ fw'.audio_buf = fw.audio_buf /\ fw'.imu = fw.imu /\ fw'.enabled = fw.enabled
      /\ fw'.mode = fw.mode /\ fw'.snapshots = fw.snapshots /\ fw'.result = fw.result
  BY <1>2, <1>3 DEF FirmwareHosts
<1>7. Typed'
  BY <1>2, <1>4, <1>5 DEF LockstepInv, Typed
<1>8. suite # "raw" => Alike(fw, mock)' /\ SameAnswer'
  BY <1>2, <1>6 DEF LockstepInv, MirrorInv, Alike, SameShape, SameAnswer
<1>9. MirrorInv'
  BY <1>2, <1>6, <1>8 DEF LockstepInv, MirrorInv, Windows, Unpack
<1>10. mock.sinceIntent = 0 /\ ~mock.dead_mans_active
  <2>1. mock.sinceIntent \in Nat
    BY DEF LockstepInv, Typed, MockHosts
  <2>2. QED
    BY <1>2, <2>1 DEF LockstepInv, MotorsInv
<1>11. suite = "motors" /\ ~parted => (Settled = mock.motor)'
  BY <1>2, <1>4, <1>6 DEF LockstepInv, MotorsInv, Settled
<1>12. MotorsInv'
  BY <1>2, <1>10, <1>11, LimitFacts DEF MotorsInv
<1>13. QED
  BY <1>7, <1>9, <1>12 DEF LockstepInv

LEMMA TimeoutKeepsInv == LockstepInv /\ Timeout => LockstepInv'
<1> SUFFICES ASSUME LockstepInv, Timeout PROVE LockstepInv'
  OBVIOUS
<1>1. /\ suite = "motors" /\ fw.intents = <<>> /\ motor' = Stop /\ armed' = 0
      /\ parted' = (parted \/ mock.motor # Stop)
      /\ suite' = suite /\ fw' = fw /\ mock' = mock
  BY DEF Timeout
<1>2. Typed'
  BY <1>1, StopIsLegal DEF LockstepInv, Typed
<1>3. MirrorInv'
  BY <1>1 DEF LockstepInv, MirrorInv, SameAnswer, Alike, SameShape, Windows, Unpack
<1>4. Stop' = Stop
  BY DEF Stop
<1>5. (suite = "motors" /\ ~parted => Settled = mock.motor)'
  BY <1>1, <1>4 DEF Settled
<1>6. MotorsInv'
  BY <1>1, <1>4, <1>5, LimitFacts DEF MotorsInv
<1>7. QED
  BY <1>2, <1>3, <1>6 DEF LockstepInv

\* Only a mock whose clock has passed the limit stops, and by then the
\* firmware's timer has fired.
LEMMA CheckKeepsInv == LockstepInv /\ CheckDeadMansSwitch => LockstepInv'
<1> SUFFICES ASSUME LockstepInv, CheckDeadMansSwitch PROVE LockstepInv'
  OBVIOUS
<1>1. /\ suite = "motors" /\ mock' = Mock!check_dead_mans_switch(mock)
      /\ parted' = (parted /\ ~Mock!Stale(mock))
      /\ suite' = suite /\ fw' = fw /\ motor' = motor /\ armed' = armed
  BY DEF CheckDeadMansSwitch
<1>2. /\ mock \in MockHosts /\ armed \in Nat /\ armed <= DEAD_MANS_SWITCH_MS
      /\ mock.sinceIntent \in Nat
  BY DEF LockstepInv, Typed, MotorsInv, MockHosts
<1>3. CASE ~Mock!Stale(mock)
  <2>1. mock' = mock /\ parted' = parted
    BY <1>1, <1>3 DEF Mock!check_dead_mans_switch, LockstepInv, Typed
  <2>2. Typed' /\ MotorsInv'
    BY <1>1, <2>1 DEF LockstepInv, Typed, MotorsInv, Settled
  <2>3. MirrorInv'
    BY <1>1, <2>1 DEF LockstepInv, MirrorInv, SameAnswer, Alike, SameShape, Windows, Unpack
  <2>4. QED
    BY <2>2, <2>3 DEF LockstepInv
<1>4. CASE Mock!Stale(mock)
  <2>1. mock.sinceIntent > DEAD_MANS_SWITCH_MS /\ parted' = FALSE
    BY <1>1, <1>4 DEF Mock!Stale
  <2>2. motor = Stop /\ fw.intents = <<>>
    BY <1>2, <2>1, LimitFacts DEF LockstepInv, MotorsInv
  <2>3. PICK m : m = [mock EXCEPT !.dead_mans_active = TRUE]
    OBVIOUS
  <2>4. mock' = [m EXCEPT !.motor = Stop]
    BY <1>1, <1>4, <2>3 DEF Mock!check_dead_mans_switch, Stop
  <2>5. m \in MockHosts
    BY <1>2, <2>3 DEF MockHosts
  <2>6. mock' \in MockHosts
    BY <2>4, <2>5, StopIsLegal DEF MockHosts
  <2>7. /\ mock'.ret = mock.ret /\ mock'.memory = mock.memory
        /\ mock'.led_on = mock.led_on /\ mock'.text = mock.text
        /\ mock'.expression = mock.expression /\ mock'.brightness = mock.brightness
        /\ mock'.audio_active = mock.audio_active /\ mock'.audio_buf = mock.audio_buf
        /\ mock'.imu = mock.imu /\ mock'.enabled = mock.enabled /\ mock'.mode = mock.mode
        /\ mock'.snapshots = mock.snapshots /\ mock'.result = mock.result
        /\ mock'.motor = Stop /\ mock'.sinceIntent = mock.sinceIntent
    BY <1>2, <2>3, <2>4 DEF MockHosts
  <2>8. Typed'
    BY <1>1, <2>1, <2>6 DEF LockstepInv, Typed
  <2>9. Alike(fw, mock)' /\ SameAnswer'
    BY <1>1, <2>7 DEF LockstepInv, MirrorInv, Alike, SameShape, SameAnswer
  <2>10. MirrorInv'
    BY <1>1, <2>1, <2>7, <2>9 DEF LockstepInv, MirrorInv, Windows, Unpack
  <2>11. MotorsInv'
    BY <1>1, <1>2, <2>2, <2>7 DEF MotorsInv, Settled, Stop
  <2>12. QED
    BY <2>8, <2>10, <2>11 DEF LockstepInv
<1>5. QED
  BY <1>3, <1>4

LEMMA TickKeepsInv == LockstepInv /\ Tick => LockstepInv'
<1> SUFFICES ASSUME LockstepInv, Tick PROVE LockstepInv'
  OBVIOUS
<1>1. mock \in MockHosts /\ mock.sinceIntent \in Nat /\ armed \in Nat
  BY DEF LockstepInv, Typed, MockHosts
<1>2. PICK n \in Nat :
        n = IF mock.sinceIntent <= DEAD_MANS_SWITCH_MS THEN mock.sinceIntent + 1
            ELSE mock.sinceIntent
  BY <1>1
<1>3. /\ suite = "motors" /\ fw.intents = <<>> /\ armed < DEAD_MANS_SWITCH_MS
      /\ armed' = armed + 1 /\ mock' = [mock EXCEPT !.sinceIntent = n]
      /\ suite' = suite /\ fw' = fw /\ motor' = motor /\ parted' = parted
  BY <1>2 DEF Tick
<1>4. mock' \in MockHosts
  BY <1>1, <1>3 DEF MockHosts
<1>5. /\ mock'.ret = mock.ret /\ mock'.memory = mock.memory
      /\ mock'.led_on = mock.led_on /\ mock'.text = mock.text
      /\ mock'.expression = mock.expression /\ mock'.brightness = mock.brightness
      /\ mock'.audio_active = mock.audio_active /\ mock'.audio_buf = mock.audio_buf
      /\ mock'.imu = mock.imu /\ mock'.enabled = mock.enabled /\ mock'.mode = mock.mode
      /\ mock'.snapshots = mock.snapshots /\ mock'.result = mock.result
      /\ mock'.motor = mock.motor /\ mock'.dead_mans_active = mock.dead_mans_active
      /\ mock'.sinceIntent = n
  BY <1>1, <1>3 DEF MockHosts
<1>6. Typed'
  BY <1>1, <1>3, <1>4 DEF LockstepInv, Typed
<1>7. Alike(fw, mock)' /\ SameAnswer'
  BY <1>3, <1>5 DEF LockstepInv, MirrorInv, Alike, SameShape, SameAnswer
<1>8. MirrorInv'
  BY <1>3, <1>5, <1>7 DEF LockstepInv, MirrorInv, Windows, Unpack
<1>9. motor # Stop => n <= armed + 1
  BY <1>1, <1>2 DEF LockstepInv, MotorsInv
<1>10. armed + 1 <= DEAD_MANS_SWITCH_MS
  BY <1>1, <1>3, LimitFacts
<1>11. MotorsInv'
  BY <1>3, <1>5, <1>9, <1>10 DEF LockstepInv, MotorsInv, Settled, Stop
<1>12. QED
  BY <1>6, <1>8, <1>11 DEF LockstepInv

LEMMA NextLockstep == LockstepInv /\ [Next]_vars => LockstepInv'
<1> SUFFICES ASSUME LockstepInv, [Next]_vars PROVE LockstepInv'
  OBVIOUS
<1>1. CASE GuestCalls
  BY <1>1, NextGuest
<1>2. CASE World
  BY <1>2, HearKeepsInv, PushKeepsInv, RunKeepsInv, SampleKeepsInv, LockOutKeepsInv,
     ModeKeepsInv DEF World
<1>3. CASE Router
  BY <1>3, RouteKeepsInv, TimeoutKeepsInv DEF Router
<1>4. CASE CheckDeadMansSwitch \/ Tick
  BY <1>4, CheckKeepsInv, TickKeepsInv
<1>7. CASE OtaMethods
  BY <1>7, NextOta
<1>5. CASE UNCHANGED vars
  <2>1. /\ suite' = suite /\ fw' = fw /\ mock' = mock
        /\ motor' = motor /\ armed' = armed /\ parted' = parted
    BY <1>5 DEF vars
  <2>2. Typed' /\ MotorsInv'
    BY <2>1 DEF LockstepInv, Typed, MotorsInv, Settled
  <2>3. MirrorInv'
    BY <2>1 DEF LockstepInv, MirrorInv, SameAnswer, Alike, SameShape, Windows, Unpack
  <2>4. QED
    BY <2>2, <2>3 DEF LockstepInv
<1>6. QED
  BY <1>1, <1>2, <1>3, <1>4, <1>5, <1>7 DEF Next

LEMMA LockstepInvariant == Spec => []LockstepInv
BY InitLockstep, NextLockstep, PTL DEF Spec

-----------------------------------------------------------------------------
(* Theorems                                                                 *)

\* Whatever the guest passes as a pointer and a length, neither host reaches
\* outside the guest's memory: the bounds check in u32 makes the slice by the
\* i32 sum safe, for memories up to 2 GiB.
THEOREM MemorySafe == Spec => []NoOutOfBounds
<1>1. LockstepInv => NoOutOfBounds
  BY DEF LockstepInv, Typed, FirmwareHosts, MockHosts, NoOutOfBounds
<1>2. QED
  BY <1>1, LockstepInvariant, PTL

\* Whatever i32 speeds the guest passes, the channel and the motors hold legal
\* speeds, although abs() wraps and the intent truncates to i16.
THEOREM GuestSpeedsAreLegal == Spec => []IntentsInRange
<1>1. LockstepInv => IntentsInRange
  <2>1. LockstepInv => motor \in LegalSpeeds /\ fw.intents \in Seq(LegalSpeeds)
    BY DEF LockstepInv, Typed, FirmwareHosts, Queues
  <2>2. QED
    BY <2>1 DEF IntentsInRange
<1>2. QED
  BY <1>1, LockstepInvariant, PTL

\* The mock of the tests answers as the firmware does and leaves the guest the
\* same memory, up to the differences MockMirrorsFirmware names.
THEOREM MockIsFaithful == Spec => []MockMirrorsFirmware
<1>1. LockstepInv => MockMirrorsFirmware
  BY DEF LockstepInv, MirrorInv, MockMirrorsFirmware, Alike
<1>2. QED
  BY <1>1, LockstepInvariant, PTL

\* A test that reads the mock's motors reads what the robot's do once the
\* channel is drained.
THEOREM MotorsAreFaithful == Spec => []MotorsAgree
<1>1. LockstepInv => MotorsAgree
  BY DEF LockstepInv, MotorsInv, Settled, MotorsAgree
<1>2. QED
  BY <1>1, LockstepInvariant, PTL

\* The mock reports the dead-man's switch only after the firmware's has fired.
THEOREM MockSwitchIsReal == Spec => []MockStopIsReal
<1>1. LockstepInv => MockStopIsReal
  BY DEF LockstepInv, MotorsInv, MockStopIsReal
<1>2. QED
  BY <1>1, LockstepInvariant, PTL
=============================================================================
