------------------------------ MODULE HostAbi -------------------------------
(***************************************************************************)
(* What every host of the guest shares (abi/src/lib.rs): status codes,     *)
(* limits, the check of a (ptr, len) pair, and the i32 arithmetic the host *)
(* functions are written in.                                               *)
(*                                                                         *)
(* The integers are narrow here: i32 has Modulus values, i16 HalfModulus.  *)
(* A cell of guest memory is a byte of text or audio, or the four bytes of *)
(* an i32.                                                                 *)
(*                                                                         *)
(* A host is a record.  Its `memory` is that of the guest it serves, `ret` *)
(* what its last function returned, `panicked` that a slice left the       *)
(* memory.  A host function maps the host to the host after the call.      *)
(***************************************************************************)
EXTENDS Inference

CONSTANTS
  Modulus,           \* 2^32
  HalfModulus,       \* 2^16
  MAX_MOTOR_SPEED, MAX_BRIGHTNESS, MAX_TEXT_BYTES, MAX_AUDIO_READ,
  NotText,           \* a byte that makes a text invalid UTF-8
  NoMemory           \* the guest exports no memory

\* mod status
OK == 0
ERR_INVALID_ARG == 2
ERR_BUSY == 3
ERR_BOUNDS == 5

\* EyeExpression::from_i32 is None outside this set; Neutral is 0.
EyeExpression == 0 .. 6

INFERENCE_RESULT_SIZE == 3
OTA_STATUS_SIZE == 4

I32 == -(Modulus \div 2) .. Modulus \div 2 - 1
I16 == -(HalfModulus \div 2) .. HalfModulus \div 2 - 1

\* The widths of the chip: i32::MIN truncated to i16 is 0, and what is written
\* to the guest has a length an i32 can hold.
ASSUME AbiAssumption ==
  /\ Modulus \in Nat \ {0} /\ Modulus % 2 = 0
  /\ HalfModulus \in Nat \ {0} /\ HalfModulus % 2 = 0
  /\ (Modulus \div 2) % HalfModulus = 0
  /\ MAX_MOTOR_SPEED \in Nat /\ 2 * MAX_MOTOR_SPEED < HalfModulus
  /\ {MAX_BRIGHTNESS, INFERENCE_RESULT_SIZE, OTA_STATUS_SIZE}
       \subseteq 0 .. Modulus \div 2 - 1
  /\ {MAX_TEXT_BYTES, MAX_AUDIO_READ} \subseteq Nat
  /\ NoMemory \notin Seq(Int)

\* `x as u32` and `x as i16`
AsU32(i) == i % Modulus
AsI16(i) == LET n == i % HalfModulus
            IN IF n < HalfModulus \div 2 THEN n ELSE n - HalfModulus

\* i32::abs without overflow checks: the least value is its own absolute value.
Abs(i) == IF i < 0 /\ i # -(Modulus \div 2) THEN -i ELSE i

\* A plausible bug: ptr + len wraps instead of being checked.
ValidatePtrLen_Wraps(ptr, len, size) == (ptr + len) % Modulus <= size

\* validate_ptr_len: checked_add, then the size
ValidatePtrLen(ptr, len, size) == ptr + len < Modulus /\ ptr + len <= size

\* A plausible bug: the second speed is not looked at.
SpeedInRange_LeftOnly(left, right) == Abs(left) <= MAX_MOTOR_SPEED

\* !(left.abs() > MAX_MOTOR_SPEED || right.abs() > MAX_MOTOR_SPEED)
SpeedInRange(left, right) ==
  Abs(left) <= MAX_MOTOR_SPEED /\ Abs(right) <= MAX_MOTOR_SPEED

\* MovementIntent::new(left as i16, right as i16)
MovementIntent(left, right) == <<AsI16(left), AsI16(right)>>

IsUtf8(bytes) == \A i \in DOMAIN bytes : bytes[i] # NotText

-----------------------------------------------------------------------------
(* Guest memory as the closures of both linkers use it *)

Return(h, value) == [h EXCEPT !.ret = value]
Panic(h) == [h EXCEPT !.panicked = TRUE]

\* get_memory and validate_ptr_len
Accessible(h, ptr, len) ==
  h.memory # NoMemory /\ ValidatePtrLen(AsU32(ptr), AsU32(len), Len(h.memory))

\* memory[ptr as usize .. (ptr + len) as usize]: the sum is an i32.
End(ptr, len) == AsU32(ptr + len)
Sliceable(h, ptr, len) ==
  AsU32(ptr) <= End(ptr, len) /\ End(ptr, len) <= Len(h.memory)
Slice(h, ptr, len) == SubSeq(h.memory, AsU32(ptr) + 1, End(ptr, len))

\* memory[at .. at + cells.len()].copy_from_slice(cells)
Poke(h, ptr, cells) ==
  LET at == AsU32(ptr)
  IN IF at + Len(cells) > Len(h.memory) THEN Panic(h)
     ELSE [h EXCEPT !.memory =
             [i \in DOMAIN @ |-> IF i - at \in DOMAIN cells THEN cells[i - at] ELSE @[i]]]
=============================================================================
