----------------------------- MODULE Inference ------------------------------
(***************************************************************************)
(* firmware/src/inference.rs and abi::InferenceResult: the stub engine and *)
(* the word its latest result is published in.                             *)
(***************************************************************************)
EXTENDS Integers, Sequences, FiniteSets

CONSTANT INFERENCE_TENSOR_SIZE

ASSUME TensorAssumption == INFERENCE_TENSOR_SIZE \in Nat \ {0}

\* `s as u8` and the reverse
AsU8(s) == s % 256
AsI8(b) == IF b > 127 THEN b - 256 ELSE b

Magnitude(s) == IF s < 0 THEN -s ELSE s

NoResult == [active |-> FALSE, top_class |-> 0, confidence_pct |-> 0]

\* iter().take(INFERENCE_TENSOR_SIZE)
Window(tensor) ==
  SubSeq(tensor, 1, IF Len(tensor) < INFERENCE_TENSOR_SIZE THEN Len(tensor)
                    ELSE INFERENCE_TENSOR_SIZE)

\* max_by_key keeps the last of the bytes that are equally frequent.
TopByte(w) ==
  LET freq(b) == Cardinality({i \in DOMAIN w : AsU8(w[i]) = b})
      seen    == {AsU8(w[i]) : i \in DOMAIN w}
  IN CHOOSE b \in seen :
       \A c \in seen : freq(c) < freq(b) \/ (freq(c) = freq(b) /\ c <= b)

SumAbs(w) ==
  LET sum[n \in 0 .. Len(w)] == IF n = 0 THEN 0 ELSE sum[n - 1] + Magnitude(w[n])
  IN sum[Len(w)]
MeanAbs(w) == SumAbs(w) \div Len(w)

\* TinyMlEngine::run
Run(tensor) ==
  LET w == Window(tensor)
      pct == (MeanAbs(w) * 100) \div 127
  IN IF tensor = <<>> THEN NoResult
     ELSE [active |-> TRUE, top_class |-> TopByte(w) % 8,
           confidence_pct |-> IF pct < 100 THEN pct ELSE 100]

\* A plausible bug: the class is shifted into the top bit of the confidence.
Pack_Overlap(r) ==
  (IF r.active THEN 1048576 ELSE 0) + r.top_class * 64 + r.confidence_pct

\* pack and unpack; bit 31 is brought down to bit 20, the bits between it and
\* the class are never set.
Pack(r) ==
  (IF r.active THEN 1048576 ELSE 0) + r.top_class * 256 + r.confidence_pct
Unpack(raw) ==
  [active |-> raw \div 1048576 # 0,
   top_class |-> (raw \div 256) % 256,
   confidence_pct |-> raw % 256]
=============================================================================
