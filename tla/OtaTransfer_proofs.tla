-------------------------- MODULE OtaTransfer_proofs --------------------------
(***************************************************************************)
(* Theorems about OtaTransfer and OtaLockstep, for every set of images,    *)
(* chunk size and checksum within OtaAssumption and TransferAssumption,    *)
(* and every bound.                                                        *)
(***************************************************************************)
EXTENDS OtaLockstep, SequenceTheorems, TLAPS

-----------------------------------------------------------------------------
(* Images and messages *)

LEMMA Parameters ==
  /\ 0 \in Byte
  /\ OTA_MAX_BINARY_SIZE \in Nat \ {0} /\ ChunkSize \in Nat \ {0}
  /\ MaxBytes \in Nat /\ MaxSwaps \in Nat
BY OtaAssumption, TransferAssumption

LEMMA IsSeqOf ==
  ASSUME NEW x \in Seq(Byte), Len(x) <= OTA_MAX_BINARY_SIZE
  PROVE  x \in SeqOf(Byte, OTA_MAX_BINARY_SIZE)
<1>1. x \in [1 .. Len(x) -> Byte] /\ Len(x) \in 0 .. OTA_MAX_BINARY_SIZE
  BY Parameters
<1>2. QED
  BY <1>1 DEF SeqOf

LEMMA ImageFacts ==
  ASSUME NEW img \in Images
  PROVE  /\ img \in Seq(Byte) /\ img # <<>> /\ Len(img) \in 1 .. OTA_MAX_BINARY_SIZE
         /\ img \in SeqOf(Byte, OTA_MAX_BINARY_SIZE)
         /\ img # NoImage
<1>1. img \in SeqOf(Byte, OTA_MAX_BINARY_SIZE) /\ img # <<>> /\ img # NoImage
  BY TransferAssumption
<1>2. PICK m \in 0 .. OTA_MAX_BINARY_SIZE : img \in [1 .. m -> Byte]
  BY <1>1 DEF SeqOf
<1>3. img \in Seq(Byte) /\ Len(img) = m
  BY <1>2, Parameters
<1>4. QED
  BY <1>1, <1>3, Parameters

LEMMA CrcTellsApart ==
  ASSUME NEW x \in Seq(Byte), Len(x) <= OTA_MAX_BINARY_SIZE,
         NEW img \in Images, Crc(x) = Crc(img)
  PROVE  x = img
BY IsSeqOf, ImageFacts, TransferAssumption

Data == {d \in Seq(Byte) : Len(d) <= ChunkSize}

\* What can be on the network
Message ==
  {Begin(n) : n \in Int} \cup {Chunk(off, d) : off \in Nat, d \in Data}
    \cup {Finalize(Crc(img)) : img \in Images}
    \cup {Truncated(cmd) : cmd \in {"OTA_BEGIN", "OTA_CHUNK", "OTA_FINALIZE"}}

LEMMA ChunkIsMessage ==
  ASSUME NEW off \in Nat, NEW data \in Data
  PROVE  Chunk(off, data) \in Message
BY DEF Message

\* A message by its command and whether its payload is complete
LEMMA MessageCases ==
  ASSUME NEW m \in Message
  PROVE  \/ \E n \in Int : m.cmd = "OTA_BEGIN" /\ m.payload = <<n>> /\ m = Begin(n)
         \/ \E off \in Nat, d \in Data :
              m.cmd = "OTA_CHUNK" /\ m.payload = <<off, d>> /\ m = Chunk(off, d)
         \/ \E img \in Images :
              m.cmd = "OTA_FINALIZE" /\ m.payload = <<Crc(img)>> /\ m = Finalize(Crc(img))
         \/ /\ m.cmd \in {"OTA_BEGIN", "OTA_CHUNK", "OTA_FINALIZE"}
            /\ m.payload = <<>> /\ m = Truncated(m.cmd)
BY DEF Message, Begin, Chunk, Finalize, Truncated

LEMMA ChunksTyped ==
  ASSUME NEW img \in Images
  PROVE  Chunks(img) \in Seq(Message)
<1> DEFINE n == (Len(img) + ChunkSize - 1) \div ChunkSize
           off(k) == (k - 1) * ChunkSize
           end(k) == IF off(k) + ChunkSize < Len(img) THEN off(k) + ChunkSize ELSE Len(img)
           d(k) == SubSeq(img, off(k) + 1, end(k))
<1>1. /\ img \in Seq(Byte) /\ Len(img) \in Nat /\ Len(img) > 0
      /\ ChunkSize \in Nat /\ ChunkSize > 0
  BY ImageFacts, Parameters
<1>2. n \in Nat
  BY <1>1
<1>3. ASSUME NEW k \in 1 .. n PROVE off(k) \in Nat /\ d(k) \in Data
  <2>1. off(k) \in Nat
    <3>1. k - 1 \in Nat
      BY <1>2
    <3>2. QED
      BY <1>1, <3>1, SMT
  <2> HIDE DEF off, n
  <2>2. end(k) \in Int /\ end(k) <= Len(img) /\ end(k) <= off(k) + ChunkSize
    BY <1>1, <2>1
  <2> HIDE DEF end
  <2>3. off(k) + 1 \in Int /\ \A i \in off(k) + 1 .. end(k) : img[i] \in Byte
    BY <1>1, <2>1, <2>2
  <2>4. /\ d(k) \in Seq(Byte)
        /\ Len(d(k)) = IF off(k) + 1 <= end(k) THEN end(k) - (off(k) + 1) + 1 ELSE 0
    BY <2>2, <2>3, SubSeqProperties
  <2>5. QED
    BY <1>1, <2>1, <2>2, <2>4 DEF Data
<1>4. Chunks(img) = [k \in 1 .. n |-> Chunk(off(k), d(k))]
  BY DEF Chunks
<1> HIDE DEF n, off, d, end
<1>5. \A k \in 1 .. n : Chunk(off(k), d(k)) \in Message
  BY <1>3 DEF Message
<1>6. QED
  BY <1>2, <1>4, <1>5

LEMMA ProtocolTyped ==
  ASSUME NEW img \in Images
  PROVE  Protocol(img) \in Seq(Message)
<1>1. Begin(Len(img)) \in Message /\ Finalize(Crc(img)) \in Message
  BY ImageFacts DEF Message
<1>2. <<Begin(Len(img))>> \in Seq(Message) /\ <<Finalize(Crc(img))>> \in Seq(Message)
  BY <1>1
<1>3. QED
  BY <1>2, ChunksTyped DEF Protocol

LEMMA DamagedTyped ==
  ASSUME NEW m \in Message, NEW d \in Damaged(m)
  PROVE  /\ d \in Message
         /\ \A img \in Images : d # Finalize(Crc(img))
<1>1. \/ d = Truncated(m.cmd)
      \/ \E n \in Int : d = Begin(n)
      \/ /\ m.cmd = "OTA_CHUNK" /\ m.payload # <<>>
         /\ \E b \in Byte : d = Chunk(m.payload[1], [m.payload[2] EXCEPT ![1] = b])
  <2>1. CASE m.cmd = "OTA_BEGIN"
    BY <2>1, Parameters DEF Damaged
  <2>2. CASE m.cmd = "OTA_CHUNK"
    BY <2>2 DEF Damaged
  <2>3. CASE m.cmd = "OTA_FINALIZE"
    BY <2>3 DEF Damaged
  <2>4. QED
    BY <2>1, <2>2, <2>3, MessageCases
<1>2. CASE d = Truncated(m.cmd)
  <2>1. m.cmd \in {"OTA_BEGIN", "OTA_CHUNK", "OTA_FINALIZE"}
    BY MessageCases
  <2>2. QED
    BY <1>2, <2>1 DEF Message, Truncated, Finalize
<1>3. CASE \E n \in Int : d = Begin(n)
  BY <1>3 DEF Message, Begin, Finalize
<1>4. ASSUME m.cmd = "OTA_CHUNK", m.payload # <<>>, NEW b \in Byte,
             d = Chunk(m.payload[1], [m.payload[2] EXCEPT ![1] = b])
      PROVE  /\ d \in Message
             /\ \A img \in Images : d # Finalize(Crc(img))
  <2>1. PICK off \in Nat, data \in Data : m.payload = <<off, data>>
    BY <1>4, MessageCases
  <2>2. [data EXCEPT ![1] = b] \in Data
    <3>1. CASE data = <<>>
      <4>1. [data EXCEPT ![1] = b] = data
        BY <3>1
      <4>2. QED
        BY <4>1
    <3>2. CASE data # <<>>
      <4>1. data \in Seq(Byte) /\ 1 \in 1 .. Len(data)
        BY <3>2 DEF Data
      <4>2. QED
        BY <4>1, ExceptSeq DEF Data
    <3>3. QED
      BY <3>1, <3>2
  <2>3. d = Chunk(off, [data EXCEPT ![1] = b])
    BY <1>4, <2>1
  <2>4. d \in Message
    BY <2>2, <2>3, ChunkIsMessage
  <2>5. d.cmd = "OTA_CHUNK"
    BY <2>3 DEF Chunk
  <2>6. \A img \in Images : Finalize(Crc(img)).cmd # "OTA_CHUNK"
    BY DEF Finalize
  <2>7. QED
    BY <2>4, <2>5, <2>6, Zenon
<1>5. QED
  BY <1>1, <1>2, <1>3, <1>4

-----------------------------------------------------------------------------
(* The receiver *)

\* A chunk within the buffer replaces its bytes and nothing else.
LEMMA OverlayFacts ==
  ASSUME NEW buf \in Seq(Byte), NEW off \in Nat, NEW data \in Seq(Byte),
         off + Len(data) <= Len(buf)
  PROVE  /\ Overlay(buf, off, data) \in Seq(Byte)
         /\ Len(Overlay(buf, off, data)) = Len(buf)
         /\ DOMAIN Overlay(buf, off, data) = DOMAIN buf
         /\ \A i \in DOMAIN buf :
              Overlay(buf, off, data)[i] =
                IF i \in off + 1 .. off + Len(data) THEN data[i - off] ELSE buf[i]
<1> DEFINE n == Len(buf)
           e(i) == IF i \in off + 1 .. off + Len(data) THEN data[i - off] ELSE buf[i]
<1>1. n \in Nat /\ DOMAIN buf = 1 .. n /\ Len(data) \in Nat
  OBVIOUS
<1>2. DOMAIN buf \cup (off + 1 .. off + Len(data)) = 1 .. n
  BY <1>1
<1>3. Overlay(buf, off, data) = [i \in 1 .. n |-> e(i)]
  BY <1>2 DEF Overlay
<1>4. \A i \in 1 .. n : e(i) \in Byte
  BY <1>1
<1>5. [i \in 1 .. n |-> e(i)] \in Seq(Byte) /\ Len([i \in 1 .. n |-> e(i)]) = n
  <2> HIDE DEF e, n
  <2>1. QED
    BY <1>1, <1>4
<1>6. QED
  BY <1>1, <1>3, <1>5

LEMMA ZeroesFacts ==
  ASSUME NEW n \in Nat
  PROVE  Zeroes(n) \in Seq(Byte) /\ Len(Zeroes(n)) = n /\ \A i \in 1 .. n : Zeroes(n)[i] = 0
BY Parameters DEF Zeroes

\* What the receiver keeps of a session, beside the bound of bytes_received
ReceiverTyped ==
  /\ state \in OtaState /\ state # "Swapping"
  /\ buffer \in Seq(Byte)
  /\ total_size \in 0 .. OTA_MAX_BINARY_SIZE
  /\ bytes_received \in Nat
  /\ Active => Len(buffer) = total_size /\ total_size > 0

\* What one message can do to the receiver, by cases
LEMMA HandleCases ==
  ASSUME ReceiverTyped, NEW m \in Message, HandleCommand(m)
  PROVE  \/ UNCHANGED otaVars /\ m.cmd # "OTA_BEGIN"
         \/ state' = "Failed" /\ UNCHANGED <<buffer, total_size, bytes_received, swap_count>>
         \/ /\ m.cmd = "OTA_BEGIN" /\ m.payload # <<>>
            /\ m.payload[1] \in 1 .. OTA_MAX_BINARY_SIZE
            /\ StartSession(m.payload[1])
         \/ \E off \in Nat, data \in Data :
              /\ m.cmd = "OTA_CHUNK" /\ m.payload = <<off, data>>
              /\ state = "Receiving" /\ off + Len(data) <= total_size
              /\ WriteChunk(off, data)
         \/ \E img \in Images :
              /\ m = Finalize(Crc(img)) /\ m.cmd = "OTA_FINALIZE"
              /\ state = "Receiving" /\ Crc(buffer) = Crc(img)
              /\ Accept
<1>1. CASE m.cmd = "OTA_BEGIN"
  <2>1. HandleBegin(m.payload)
    BY <1>1 DEF HandleCommand
  <2>2. QED
    BY <1>1, <2>1 DEF HandleBegin, ValidSize, Fail, ReceiverTyped
<1>2. CASE m.cmd = "OTA_CHUNK"
  <2>1. HandleChunk(m.payload)
    BY <1>2 DEF HandleCommand
  <2>2. CASE m.payload = <<>> \/ state # "Receiving"
    BY <1>2, <2>1, <2>2 DEF HandleChunk, Ignore
  <2>3. CASE m.payload # <<>> /\ state = "Receiving"
    <3>1. PICK off \in Nat, data \in Data : m.payload = <<off, data>>
      BY <1>2, <2>3, MessageCases
    <3>2. off + Len(data) \in Int /\ total_size \in Int
      BY DEF Data, ReceiverTyped
    <3>3. m.payload[1] = off /\ m.payload[2] = data
      BY <3>1
    <3>4. IF off + Len(data) > total_size THEN Fail ELSE WriteChunk(off, data)
      BY <2>1, <2>3, <3>3 DEF HandleChunk
    <3>5. CASE off + Len(data) > total_size
      BY <3>4, <3>5 DEF Fail
    <3>6. CASE off + Len(data) <= total_size
      <4>1. WriteChunk(off, data)
        BY <3>2, <3>4, <3>6
      <4>2. QED
        BY <1>2, <2>3, <3>1, <3>6, <4>1, Zenon
    <3>7. QED
      BY <3>2, <3>5, <3>6
  <2>4. QED
    BY <2>2, <2>3
<1>3. CASE m.cmd = "OTA_FINALIZE"
  <2>1. HandleFinalize(m.payload)
    BY <1>3 DEF HandleCommand
  <2>2. CASE state # "Receiving"
    BY <1>3, <2>1, <2>2 DEF HandleFinalize, Ignore
  <2>3. CASE state = "Receiving"
    <3>1. IF m.payload # <<>> /\ Crc(buffer) = m.payload[1] THEN Accept ELSE Fail
      BY <2>1, <2>3 DEF HandleFinalize
    <3>2. CASE m.payload # <<>> /\ Crc(buffer) = m.payload[1]
      <4>1. PICK img \in Images : m.payload = <<Crc(img)>> /\ m = Finalize(Crc(img))
        BY <1>3, <3>2, MessageCases
      <4>2. Crc(buffer) = Crc(img)
        BY <3>2, <4>1
      <4>3. Accept
        BY <3>1, <3>2
      <4>4. QED
        BY <1>3, <2>3, <4>1, <4>2, <4>3, Zenon
    <3>3. CASE ~(m.payload # <<>> /\ Crc(buffer) = m.payload[1])
      BY <3>1, <3>3 DEF Fail
    <3>4. QED
      BY <3>2, <3>3
  <2>4. QED
    BY <2>2, <2>3
<1>4. QED
  BY <1>1, <1>2, <1>3, MessageCases

LEMMA ReceiverStaysTyped ==
  ASSUME ReceiverTyped, NEW m \in Message, HandleCommand(m)
  PROVE  /\ ReceiverTyped'
         /\ UNCHANGED swap_count
         /\ bytes_received' <= bytes_received + ChunkSize
         /\ m.cmd # "OTA_CHUNK" => bytes_received' <= bytes_received
<1> USE Parameters DEF ReceiverTyped, Active, OtaState
<1>1. CASE UNCHANGED otaVars
  BY <1>1 DEF otaVars
<1>2. CASE state' = "Failed" /\ UNCHANGED <<buffer, total_size, bytes_received, swap_count>>
  BY <1>2
<1>3. ASSUME m.payload[1] \in 1 .. OTA_MAX_BINARY_SIZE, StartSession(m.payload[1])
      PROVE  /\ ReceiverTyped'
             /\ UNCHANGED swap_count
             /\ bytes_received' = 0
  BY <1>3, ZeroesFacts DEF StartSession
<1>4. ASSUME NEW off \in Nat, NEW data \in Data,
             state = "Receiving", off + Len(data) <= total_size, WriteChunk(off, data)
      PROVE  /\ ReceiverTyped'
             /\ UNCHANGED swap_count
             /\ bytes_received' <= bytes_received + ChunkSize
  <2>1. data \in Seq(Byte) /\ Len(data) \in Nat /\ Len(data) <= ChunkSize
    BY DEF Data
  <2>2. buffer' \in Seq(Byte) /\ Len(buffer') = Len(buffer)
    <3>1. /\ buffer \in Seq(Byte) /\ off + Len(data) <= Len(buffer)
          /\ buffer' = Overlay(buffer, off, data)
      BY <1>4 DEF WriteChunk
    <3>2. QED
      BY <2>1, <3>1, OverlayFacts
  <2>3. QED
    BY <1>4, <2>1, <2>2 DEF WriteChunk
<1>5. CASE state = "Receiving" /\ Accept
  BY <1>5 DEF Accept
<1>6. QED
  BY <1>1, <1>2, <1>3, <1>4, <1>5, HandleCases

-----------------------------------------------------------------------------
(* The invariant *)

\* Only what the PC sent, or what became of it, is on its way.
NetTyped == outbox \in Seq(Message) /\ sent \subseteq Message

OtaInv ==
  /\ ReceiverTyped
  /\ bytes_received <= MaxBytes + ChunkSize
  /\ swap_count \in 0 .. MaxSwaps
  /\ NetTyped
  /\ ReadyIsWhole
  /\ NoLeftovers

LEMMA InitOta == Init => OtaInv
BY Parameters DEF Init, OtaInit, OtaInv, ReceiverTyped, Active, OtaState, NetTyped,
   ReadyIsWhole, NoLeftovers

\* A receiver that is left alone keeps its promises while messages are sent.
LEMMA QuietReceiver ==
  ASSUME OtaInv, UNCHANGED <<otaVars, session>>, sent \subseteq sent', NetTyped'
  PROVE  OtaInv'
<1>1. ReadyIsWhole'
  BY DEF OtaInv, ReadyIsWhole, Offered, otaVars
<1>2. NoLeftovers'
  BY DEF OtaInv, NoLeftovers, Active, Wrote, otaVars
<1>3. ReceiverTyped'
  BY DEF OtaInv, ReceiverTyped, Active, otaVars
<1>4. QED
  BY <1>1, <1>2, <1>3 DEF OtaInv, otaVars

LEMMA DeliverKeepsWhole ==
  ASSUME OtaInv, NEW m \in sent, Deliver(m)
  PROVE  ReadyIsWhole'
<1>1. m \in Message /\ HandleCommand(m) /\ ReceiverTyped /\ sent' = sent
  BY DEF OtaInv, NetTyped, Deliver, pcVars
<1>2. CASE UNCHANGED otaVars
  BY <1>1, <1>2 DEF OtaInv, ReadyIsWhole, Offered, otaVars
<1>3. CASE state' \in {"Failed", "Receiving"}
  BY <1>3 DEF ReadyIsWhole
<1>4. ASSUME NEW img \in Images, m = Finalize(Crc(img)), state = "Receiving",
             Crc(buffer) = Crc(img), Accept
      PROVE  ReadyIsWhole'
  <2>1. buffer \in Seq(Byte) /\ Len(buffer) <= OTA_MAX_BINARY_SIZE
    BY <1>1, <1>4, Parameters DEF ReceiverTyped, Active
  <2>2. buffer = img
    BY <1>4, <2>1, CrcTellsApart
  <2>3. buffer' = img /\ Finalize(Crc(img)) \in sent'
    BY <1>1, <1>4, <2>2 DEF Accept
  <2>4. QED
    BY <2>3 DEF ReadyIsWhole, Offered
<1>5. QED
  BY <1>1, <1>2, <1>3, <1>4, HandleCases DEF StartSession, WriteChunk

LEMMA DeliverLeavesNothing ==
  ASSUME OtaInv, NEW m \in sent, Deliver(m)
  PROVE  NoLeftovers'
<1>1. /\ m \in Message /\ HandleCommand(m) /\ ReceiverTyped
      /\ m.cmd = "OTA_BEGIN" => session' = {m}
      /\ m.cmd # "OTA_BEGIN" /\ state = "Receiving" => session' = session \cup {m}
      /\ m.cmd # "OTA_BEGIN" /\ state # "Receiving" => session' = session
  BY DEF OtaInv, NetTyped, Deliver
<1>2. ASSUME UNCHANGED <<buffer, total_size>>, Active, session \subseteq session'
      PROVE  NoLeftovers'
  BY <1>2 DEF OtaInv, NoLeftovers, Wrote
<1>3. CASE UNCHANGED otaVars /\ m.cmd # "OTA_BEGIN"
  <2>1. session \subseteq session'
    BY <1>1, <1>3
  <2>2. CASE ~Active
    BY <1>3, <2>2 DEF NoLeftovers, Active, otaVars
  <2>3. QED
    BY <1>2, <1>3, <2>1, <2>2 DEF otaVars
<1>4. CASE state' = "Failed"
  BY <1>4 DEF NoLeftovers, Active
<1>5. ASSUME m.payload[1] \in 1 .. OTA_MAX_BINARY_SIZE, StartSession(m.payload[1])
      PROVE  NoLeftovers'
  <2>1. buffer' = Zeroes(m.payload[1])
    BY <1>5 DEF StartSession
  <2>2. \A i \in DOMAIN buffer' : buffer'[i] = 0
    BY <2>1 DEF Zeroes
  <2>3. QED
    BY <2>2 DEF NoLeftovers
<1>6. ASSUME NEW off \in Nat, NEW data \in Data,
             m.cmd = "OTA_CHUNK", m.payload = <<off, data>>,
             state = "Receiving", off + Len(data) <= total_size, WriteChunk(off, data)
      PROVE  NoLeftovers'
  <2>1. data \in Seq(Byte) /\ buffer \in Seq(Byte) /\ off + Len(data) <= Len(buffer)
    BY <1>1, <1>6 DEF Data, ReceiverTyped, Active
  <2>2. /\ DOMAIN buffer' = DOMAIN buffer
        /\ \A i \in DOMAIN buffer :
             buffer'[i] = IF i \in off + 1 .. off + Len(data) THEN data[i - off] ELSE buffer[i]
    <3>1. buffer' = Overlay(buffer, off, data)
      BY <1>6 DEF WriteChunk
    <3>2. /\ DOMAIN Overlay(buffer, off, data) = DOMAIN buffer
          /\ \A i \in DOMAIN buffer :
               Overlay(buffer, off, data)[i] =
                 IF i \in off + 1 .. off + Len(data) THEN data[i - off] ELSE buffer[i]
      BY <2>1, OverlayFacts
    <3>3. QED
      BY <3>1, <3>2, Zenon
  <2>3. session' = session \cup {m}
    BY <1>1, <1>6
  <2>4. ASSUME NEW i \in DOMAIN buffer
        PROVE  buffer'[i] = 0 \/ \E w \in session' : Wrote(w, i)'
    <3>1. i \in Int
      BY <2>1
    <3>2. CASE i \in off + 1 .. off + Len(data)
      <4>1. i - off \in DOMAIN data /\ data[i - off] = buffer'[i]
        BY <2>1, <2>2, <3>1, <3>2
      <4>2. Wrote(m, i)'
        BY <1>6, <4>1 DEF Wrote
      <4>3. QED
        BY <2>3, <4>2
    <3>3. CASE i \notin off + 1 .. off + Len(data)
      <4>1. buffer'[i] = buffer[i]
        BY <2>2, <3>3
      <4>2. buffer[i] = 0 \/ \E w \in session : Wrote(w, i)
        BY <1>6 DEF OtaInv, NoLeftovers, Active
      <4>3. QED
        BY <2>3, <4>1, <4>2 DEF Wrote
    <3>4. QED
      BY <3>2, <3>3
  <2>5. QED
    BY <2>2, <2>4 DEF NoLeftovers
<1>7. ASSUME m.cmd = "OTA_FINALIZE", state = "Receiving", Accept
      PROVE  NoLeftovers'
  <2>1. session \subseteq session' /\ Active
    BY <1>1, <1>7 DEF Active
  <2>2. QED
    BY <1>2, <1>7, <2>1 DEF Accept
<1>8. QED
  BY <1>1, <1>3, <1>4, <1>5, <1>6, <1>7, HandleCases

LEMMA NextOta == OtaInv /\ [Next]_vars => OtaInv'
<1> SUFFICES ASSUME OtaInv, [Next]_vars PROVE OtaInv'
  OBVIOUS
<1>1. ASSUME NEW img \in Images, StartTransfer(img) PROVE OtaInv'
  BY <1>1, ProtocolTyped, QuietReceiver DEF StartTransfer, OtaInv, NetTyped
<1>2. CASE Send
  <2>1. outbox \in Seq(Message) /\ outbox # <<>> /\ sent \subseteq Message
    BY <1>2 DEF Send, OtaInv, NetTyped
  <2>2. Head(outbox) \in Message /\ Tail(outbox) \in Seq(Message)
    BY <2>1
  <2>3. NetTyped' /\ sent \subseteq sent' /\ UNCHANGED <<otaVars, session>>
    BY <1>2, <2>1, <2>2 DEF Send, NetTyped
  <2>4. QED
    BY <2>3, QuietReceiver
<1>3. CASE Damage
  <2>1. PICK m \in sent : \E d \in Damaged(m) : sent' = sent \cup {d}
    BY <1>3 DEF Damage
  <2>2. PICK d \in Damaged(m) : sent' = sent \cup {d}
    BY <2>1
  <2>3. m \in Message
    BY <2>1 DEF OtaInv, NetTyped
  <2>4. d \in Message
    BY <2>2, <2>3, DamagedTyped
  <2>5. NetTyped' /\ sent \subseteq sent' /\ UNCHANGED <<otaVars, session>>
    BY <1>3, <2>2, <2>4 DEF Damage, OtaInv, NetTyped
  <2>6. QED
    BY <2>5, QuietReceiver
<1>4. ASSUME NEW m \in sent, Deliver(m) PROVE OtaInv'
  <2>1. /\ m \in Message /\ ReceiverTyped /\ HandleCommand(m)
        /\ m.cmd = "OTA_CHUNK" => bytes_received < MaxBytes
        /\ bytes_received <= MaxBytes + ChunkSize
    BY <1>4 DEF OtaInv, NetTyped, Deliver
  <2>2. /\ ReceiverTyped' /\ UNCHANGED swap_count
        /\ bytes_received' <= bytes_received + ChunkSize
        /\ m.cmd # "OTA_CHUNK" => bytes_received' <= bytes_received
    BY <2>1, ReceiverStaysTyped
  <2>3. bytes_received' <= MaxBytes + ChunkSize
    BY <2>1, <2>2, Parameters DEF ReceiverTyped
  <2>4. NetTyped'
    BY <1>4 DEF OtaInv, NetTyped, Deliver, pcVars
  <2>5. QED
    BY <1>4, <2>2, <2>3, <2>4, DeliverKeepsWhole, DeliverLeavesNothing DEF OtaInv
<1>5. CASE Take \/ Reset
  <2>1. /\ state' = "Idle" /\ buffer' = <<>> /\ total_size' = 0 /\ bytes_received' = 0
        /\ swap_count' \in {swap_count, swap_count + 1}
        /\ swap_count' = swap_count + 1 => swap_count < MaxSwaps
        /\ UNCHANGED <<outbox, sent>>
    BY <1>5 DEF Take, Reset, TakeVerifiedBinary, ResetFailed, pcVars, OtaInv
  <2>2. ReceiverTyped' /\ ReadyIsWhole' /\ NoLeftovers'
    BY <2>1, Parameters DEF ReceiverTyped, OtaState, Active, ReadyIsWhole, NoLeftovers
  <2>3. QED
    BY <2>1, <2>2, Parameters DEF OtaInv, NetTyped
<1>6. CASE UNCHANGED vars
  BY <1>6, QuietReceiver DEF vars, pcVars, OtaInv, NetTyped
<1>7. QED
  BY <1>1, <1>2, <1>3, <1>4, <1>5, <1>6 DEF Next

THEOREM OtaInvariance == Spec => []OtaInv
BY InitOta, NextOta, PTL DEF Spec

\* The receiver's fields stay in their ranges, and an active session owns a
\* buffer of the declared size.
THEOREM TypeCorrect == Spec => []TypeOK
<1>1. OtaInv => TypeOK
  BY Parameters DEF OtaInv, ReceiverTyped, TypeOK
<1>2. QED
  BY <1>1, OtaInvariance, PTL

\* Whatever the network does, a staged binary is an image the PC finalised.
THEOREM StagedIsWhole == Spec => []ReadyIsWhole
<1>1. OtaInv => ReadyIsWhole
  BY DEF OtaInv
<1>2. QED
  BY <1>1, OtaInvariance, PTL

\* No byte of an earlier session survives in an active buffer.
THEOREM NothingLeaks == Spec => []NoLeftovers
<1>1. OtaInv => NoLeftovers
  BY DEF OtaInv
<1>2. QED
  BY <1>1, OtaInvariance, PTL

-----------------------------------------------------------------------------
(* A complete transfer *)

\* Division of a number by the chunk size, rounded down and up
LEMMA ChunkOf ==
  ASSUME NEW x \in Nat
  PROVE  LET q == x \div ChunkSize
         IN q \in Nat /\ q * ChunkSize <= x /\ x < q * ChunkSize + ChunkSize
BY Parameters

LEMMA FewerChunks ==
  ASSUME NEW a \in Nat, NEW b \in Nat
  PROVE  /\ a * ChunkSize \in Nat
         /\ a * ChunkSize < b * ChunkSize => a < b
         /\ a < b => a * ChunkSize + ChunkSize <= b * ChunkSize
<1> DEFINE C == ChunkSize
<1>1. C \in Nat /\ C > 0
  BY Parameters
<1> HIDE DEF C
<1>2. ASSUME NEW x \in Nat, NEW y \in Nat, x < y PROVE x * C + C <= y * C
  <2>1. PICK z \in Nat : y = x + 1 + z
    <3>1. y - (x + 1) \in Nat /\ y = x + 1 + (y - (x + 1))
      BY <1>2
    <3>2. QED
      BY <3>1
  <2>2. y * C = x * C + C + z * C /\ z * C \in Nat /\ x * C \in Nat
    BY <1>1, <2>1
  <2>3. QED
    BY <1>1, <2>2
<1>3. a * C \in Nat /\ b * C \in Nat
  BY <1>1
<1>4. a < b => a * C + C <= b * C
  BY <1>2
<1>5. a * C < b * C => a < b
  <2>1. CASE a < b
    BY <2>1
  <2>2. CASE a = b
    BY <2>2, <1>3
  <2>3. CASE b < a
    <3>1. b * C + C <= a * C
      BY <1>2, <2>3
    <3>2. QED
      BY <1>1, <1>3, <3>1
  <2>4. QED
    BY <2>1, <2>2, <2>3
<1>6. QED
  BY <1>3, <1>4, <1>5 DEF C

ChunkCount(img) == (Len(img) + ChunkSize - 1) \div ChunkSize

\* The last chunk starts within the image and ends at or behind its end.
LEMMA ChunkCountFacts ==
  ASSUME NEW img \in Images
  PROVE  /\ ChunkCount(img) \in Nat
         /\ DOMAIN Chunks(img) = 1 .. ChunkCount(img)
         /\ Len(img) <= ChunkCount(img) * ChunkSize
         /\ ChunkCount(img) * ChunkSize < Len(img) + ChunkSize
<1>1. Len(img) \in Nat /\ Len(img) > 0 /\ ChunkSize \in Nat /\ ChunkSize > 0
  BY ImageFacts, Parameters
<1>2. Len(img) + ChunkSize - 1 \in Nat
  BY <1>1
<1>3. /\ ChunkCount(img) \in Nat
      /\ ChunkCount(img) * ChunkSize <= Len(img) + ChunkSize - 1
      /\ Len(img) + ChunkSize - 1 < ChunkCount(img) * ChunkSize + ChunkSize
  BY <1>2, ChunkOf DEF ChunkCount
<1>4. DOMAIN Chunks(img) = 1 .. ChunkCount(img)
  BY DEF Chunks, ChunkCount
<1>5. ChunkCount(img) * ChunkSize \in Nat
  BY <1>3, FewerChunks
<1>6. QED
  BY <1>1, <1>3, <1>4, <1>5

\* A chunk is the part of the image between two multiples of the chunk size.
LEMMA ChunkContents ==
  ASSUME NEW img \in Images, NEW k \in 1 .. ChunkCount(img)
  PROVE  \E off \in Nat, d \in Data :
           /\ Chunks(img)[k] = Chunk(off, d)
           /\ off = (k - 1) * ChunkSize
           /\ off + Len(d) <= Len(img)
           /\ off + Len(d) = Len(img) \/ Len(d) = ChunkSize
           /\ \A j \in 1 .. Len(d) : d[j] = img[off + j]
<1> DEFINE off == (k - 1) * ChunkSize
           end == IF off + ChunkSize < Len(img) THEN off + ChunkSize ELSE Len(img)
           d == SubSeq(img, off + 1, end)
<1>1. /\ img \in Seq(Byte) /\ Len(img) \in Nat
      /\ ChunkSize \in Nat /\ ChunkSize > 0
      /\ ChunkCount(img) \in Nat
      /\ ChunkCount(img) * ChunkSize < Len(img) + ChunkSize
  BY ImageFacts, Parameters, ChunkCountFacts
<1>2. Chunks(img)[k] = Chunk(off, d)
  BY DEF Chunks, ChunkCount
<1>3. off \in Nat /\ off < Len(img)
  <2>1. k - 1 \in Nat /\ k - 1 < ChunkCount(img)
    BY <1>1
  <2>2. /\ off \in Nat /\ ChunkCount(img) * ChunkSize \in Nat
        /\ off + ChunkSize <= ChunkCount(img) * ChunkSize
    BY <1>1, <2>1, FewerChunks
  <2>3. QED
    <3> HIDE DEF off
    <3>1. QED
      BY <1>1, <2>2
<1> HIDE DEF off
<1>4. /\ end \in Int /\ off + 1 <= end /\ end <= Len(img)
      /\ end = off + ChunkSize \/ end = Len(img)
      /\ end <= off + ChunkSize
  BY <1>1, <1>3
<1> HIDE DEF end
<1>5. off + 1 \in Int /\ \A i \in off + 1 .. end : img[i] \in Byte
  BY <1>1, <1>3, <1>4
<1>6. /\ d \in Seq(Byte)
      /\ Len(d) = IF off + 1 <= end THEN end - (off + 1) + 1 ELSE 0
      /\ \A i \in 1 .. end - (off + 1) + 1 : d[i] = img[off + 1 + i - 1]
  BY <1>4, <1>5, SubSeqProperties
<1>7. Len(d) = end - off
  BY <1>3, <1>4, <1>6
<1>8. \A j \in 1 .. Len(d) : d[j] = img[off + j]
  <2> HIDE DEF d
  <2>1. ASSUME NEW j \in 1 .. Len(d) PROVE d[j] = img[off + j]
    <3>1. j \in 1 .. end - (off + 1) + 1 /\ off + 1 + j - 1 = off + j
      BY <1>3, <1>4, <1>7
    <3>2. QED
      BY <1>6, <3>1
  <2>2. QED
    BY <2>1
<1> HIDE DEF d
<1>9. d \in Data
  BY <1>1, <1>3, <1>4, <1>6, <1>7 DEF Data
<1>10. off + Len(d) <= Len(img) /\ (off + Len(d) = Len(img) \/ Len(d) = ChunkSize)
  BY <1>1, <1>3, <1>4, <1>7
<1>11. off = (k - 1) * ChunkSize
  BY DEF off
<1>12. QED
  BY <1>2, <1>3, <1>8, <1>9, <1>10, <1>11

\* The chunks of an image cover it.
LEMMA ChunksCover ==
  ASSUME NEW img \in Images, NEW i \in 1 .. Len(img)
  PROVE  \E off \in Nat, d \in Data :
           /\ Chunk(off, d) \in ToSet(Chunks(img))
           /\ i - off \in 1 .. Len(d)
<1> DEFINE q == (i - 1) \div ChunkSize
<1>1. /\ Len(img) \in Nat /\ ChunkSize \in Nat
      /\ ChunkCount(img) \in Nat
      /\ DOMAIN Chunks(img) = 1 .. ChunkCount(img)
      /\ Len(img) <= ChunkCount(img) * ChunkSize
  BY ImageFacts, Parameters, ChunkCountFacts
<1>2. i - 1 \in Nat /\ i \in Nat /\ i <= Len(img)
  BY <1>1
<1>3. q \in Nat /\ q * ChunkSize <= i - 1 /\ i - 1 < q * ChunkSize + ChunkSize
  BY <1>2, ChunkOf
<1> HIDE DEF q
<1>4. q * ChunkSize \in Nat /\ ChunkCount(img) * ChunkSize \in Nat
  BY <1>1, <1>3, FewerChunks
<1>5. q * ChunkSize < ChunkCount(img) * ChunkSize
  BY <1>1, <1>2, <1>3, <1>4
<1>6. q < ChunkCount(img)
  BY <1>1, <1>3, <1>5, FewerChunks
<1>7. q + 1 \in 1 .. ChunkCount(img) /\ (q + 1) - 1 = q
  BY <1>1, <1>3, <1>6
<1>8. PICK off \in Nat, d \in Data :
        /\ Chunks(img)[q + 1] = Chunk(off, d)
        /\ off = ((q + 1) - 1) * ChunkSize
        /\ off + Len(d) = Len(img) \/ Len(d) = ChunkSize
  BY <1>7, ChunkContents
<1>9. off = q * ChunkSize
  BY <1>7, <1>8
<1>10. i - off \in 1 .. Len(d)
  <2>1. Len(d) \in Nat
    BY DEF Data
  <2>2. QED
    BY <1>1, <1>2, <1>3, <1>8, <1>9, <2>1
<1>11. Chunk(off, d) \in ToSet(Chunks(img))
  BY <1>1, <1>7, <1>8 DEF ToSet
<1>12. QED
  BY <1>10, <1>11

LEMMA ProtocolIs ==
  ASSUME NEW img \in Images
  PROVE  ToSet(Protocol(img)) =
           {Begin(Len(img)), Finalize(Crc(img))} \cup ToSet(Chunks(img))
<1> DEFINE b == Begin(Len(img))
           c == Chunks(img)
           f == Finalize(Crc(img))
           n == Len(c)
<1>1. c \in Seq(Message)
  BY ChunksTyped
<1>2. Protocol(img) = (<<b>> \o c) \o <<f>>
  BY DEF Protocol
<1> HIDE DEF b, c, f
<1>3. n \in Nat /\ DOMAIN c = 1 .. n
  BY <1>1
<1>4. /\ DOMAIN ((<<b>> \o c) \o <<f>>) = 1 .. n + 2
      /\ \A j \in 1 .. n + 2 : ((<<b>> \o c) \o <<f>>)[j] =
           IF j = 1 THEN b ELSE IF j = n + 2 THEN f ELSE c[j - 1]
  BY <1>1, <1>3
<1> HIDE DEF n
<1>5. ASSUME NEW x \in ToSet(Protocol(img)) PROVE x \in {b, f} \cup ToSet(c)
  <2>1. PICK j \in 1 .. n + 2 : x = ((<<b>> \o c) \o <<f>>)[j]
    BY <1>2, <1>4 DEF ToSet
  <2>2. CASE j # 1 /\ j # n + 2
    <3>1. j - 1 \in 1 .. n /\ x = c[j - 1]
      BY <1>3, <1>4, <2>1, <2>2
    <3>2. QED
      BY <1>3, <3>1 DEF ToSet
  <2>3. QED
    BY <1>3, <1>4, <2>1, <2>2
<1>6. b \in ToSet(Protocol(img)) /\ f \in ToSet(Protocol(img))
  <2>1. 1 \in 1 .. n + 2 /\ n + 2 \in 1 .. n + 2 /\ n + 2 # 1
    BY <1>3
  <2>2. ((<<b>> \o c) \o <<f>>)[1] = b /\ ((<<b>> \o c) \o <<f>>)[n + 2] = f
    BY <1>4, <2>1
  <2>3. QED
    BY <1>2, <1>4, <2>1, <2>2 DEF ToSet
<1>7. ASSUME NEW x \in ToSet(c) PROVE x \in ToSet(Protocol(img))
  <2>1. PICK j \in 1 .. n : x = c[j]
    BY <1>3 DEF ToSet
  <2>2. j + 1 \in 1 .. n + 2 /\ j + 1 # 1 /\ j + 1 # n + 2 /\ (j + 1) - 1 = j
    BY <1>3
  <2>3. ((<<b>> \o c) \o <<f>>)[j + 1] = c[j]
    BY <1>4, <2>2
  <2>4. QED
    BY <1>2, <1>4, <2>1, <2>2, <2>3 DEF ToSet
<1>8. ToSet(Protocol(img)) = {b, f} \cup ToSet(c)
  BY <1>5, <1>6, <1>7
<1>9. QED
  BY <1>8 DEF b, c, f

\* A chunk that arrived is in the buffer, as the image has it.
Written(img, m) ==
  m.cmd = "OTA_CHUNK" /\ m.payload # <<>> =>
    \A j \in DOMAIN m.payload[2] :
      buffer[m.payload[1] + j] = img[m.payload[1] + j]

\* Nothing arrived that this transfer does not send; a chunk cut short is
\* ignored.
OnlyOf(img) ==
  session \subseteq ToSet(Protocol(img)) \cup {Truncated("OTA_CHUNK")}

\* A session of this image alone is still filling its buffer, has ended too
\* early, or was accepted.
ProgressOf(img) ==
  OnlyOf(img) /\ Begin(Len(img)) \in session =>
    \/ state = "Ready"
    \/ state = "Failed" /\ ~(ToSet(Chunks(img)) \subseteq session)
    \/ /\ state = "Receiving" /\ total_size = Len(img)
       /\ Finalize(Crc(img)) \notin session
       /\ \A m \in session : Written(img, m)

ProgressInv == \A img \in Images : ProgressOf(img)

LEMMA PartOfTransfer ==
  ASSUME NEW img \in Images, NEW m \in ToSet(Protocol(img)) \cup {Truncated("OTA_CHUNK")}
  PROVE  \/ m = Begin(Len(img)) /\ m.cmd = "OTA_BEGIN"
         \/ m = Finalize(Crc(img)) /\ m.cmd = "OTA_FINALIZE"
         \/ m.cmd = "OTA_CHUNK" /\ m.payload = <<>>
         \/ \E off \in Nat, d \in Data :
              /\ m.cmd = "OTA_CHUNK" /\ m.payload = <<off, d>>
              /\ off + Len(d) <= Len(img)
              /\ \A j \in 1 .. Len(d) : d[j] = img[off + j]
<1>1. CASE m \in ToSet(Chunks(img))
  <2>1. PICK k \in 1 .. ChunkCount(img) : m = Chunks(img)[k]
    BY <1>1, ChunkCountFacts DEF ToSet
  <2>2. PICK off \in Nat, d \in Data :
          /\ Chunks(img)[k] = Chunk(off, d)
          /\ off + Len(d) <= Len(img)
          /\ \A j \in 1 .. Len(d) : d[j] = img[off + j]
    BY ChunkContents
  <2>3. m.cmd = "OTA_CHUNK" /\ m.payload = <<off, d>>
    BY <2>1, <2>2 DEF Chunk
  <2>4. QED
    BY <2>2, <2>3
<1>2. CASE m = Truncated("OTA_CHUNK")
  BY <1>2 DEF Truncated
<1>3. CASE m = Begin(Len(img)) \/ m = Finalize(Crc(img))
  BY <1>3 DEF Begin, Finalize
<1>4. QED
  BY <1>1, <1>2, <1>3, ProtocolIs

\* When all chunks of an image have arrived, the buffer is the image.
LEMMA FilledBuffer ==
  ASSUME ReceiverTyped, NEW img \in Images, state = "Receiving", total_size = Len(img),
         \A m \in session : Written(img, m), ToSet(Chunks(img)) \subseteq session
  PROVE  buffer = img
<1>1. /\ buffer \in Seq(Byte) /\ img \in Seq(Byte) /\ Len(img) \in Nat
      /\ Len(buffer) = Len(img)
  BY ImageFacts DEF ReceiverTyped, Active
<1>2. ASSUME NEW i \in 1 .. Len(img) PROVE buffer[i] = img[i]
  <2>1. PICK off \in Nat, d \in Data :
          Chunk(off, d) \in ToSet(Chunks(img)) /\ i - off \in 1 .. Len(d)
    BY ChunksCover
  <2>2. Written(img, Chunk(off, d))
    BY <2>1
  <2>3. /\ Chunk(off, d).cmd = "OTA_CHUNK" /\ Chunk(off, d).payload # <<>>
        /\ Chunk(off, d).payload[1] = off /\ Chunk(off, d).payload[2] = d
    BY DEF Chunk
  <2>4. \A j \in DOMAIN d : buffer[off + j] = img[off + j]
    BY <2>2, <2>3 DEF Written
  <2>5. i - off \in DOMAIN d /\ off + (i - off) = i
    BY <2>1, <1>1 DEF Data
  <2>6. QED
    BY <2>4, <2>5
<1>3. QED
  BY <1>1, <1>2

LEMMA ChunkKeepsProgress ==
  ASSUME ReceiverTyped, NEW img \in Images, NEW m, OnlyOf(img)',
         session' = session \cup {m}, state = "Receiving", total_size = Len(img),
         \A w \in session : Written(img, w),
         NEW off \in Nat, NEW data \in Data, m.cmd = "OTA_CHUNK", m.payload = <<off, data>>,
         off + Len(data) <= total_size, WriteChunk(off, data)
  PROVE  \A w \in session' : Written(img, w)'
<1>1. m \in ToSet(Protocol(img)) \cup {Truncated("OTA_CHUNK")}
  BY DEF OnlyOf
<1>2. m.payload # <<>> /\ m.payload[1] = off /\ m.payload[2] = data
  OBVIOUS
<1>3. \A j \in 1 .. Len(data) : data[j] = img[off + j]
  <2>1. PICK o \in Nat, d \in Data :
          m.payload = <<o, d>> /\ \A j \in 1 .. Len(d) : d[j] = img[o + j]
    BY <1>1, <1>2, PartOfTransfer
  <2>2. o = off /\ d = data
    BY <2>1
  <2>3. QED
    BY <2>1, <2>2
<1>4. /\ buffer \in Seq(Byte) /\ Len(buffer) = Len(img) /\ Len(img) \in Nat
      /\ data \in Seq(Byte) /\ Len(data) \in Nat
  BY ImageFacts DEF ReceiverTyped, Active, Data
<1>5. \A i \in 1 .. Len(img) :
        buffer'[i] = IF i \in off + 1 .. off + Len(data) THEN data[i - off] ELSE buffer[i]
  <2>1. buffer' = Overlay(buffer, off, data) /\ off + Len(data) <= Len(buffer)
    BY <1>4 DEF WriteChunk
  <2>2. \A i \in DOMAIN buffer :
          Overlay(buffer, off, data)[i] =
            IF i \in off + 1 .. off + Len(data) THEN data[i - off] ELSE buffer[i]
    BY <1>4, <2>1, OverlayFacts
  <2>3. DOMAIN buffer = 1 .. Len(img)
    BY <1>4
  <2>4. QED
    BY <2>1, <2>2, <2>3
<1>6. ASSUME NEW w \in session', w.cmd = "OTA_CHUNK", w.payload # <<>>
      PROVE  \A j \in DOMAIN w.payload[2] :
               buffer'[w.payload[1] + j] = img[w.payload[1] + j]
  <2>1. w \in ToSet(Protocol(img)) \cup {Truncated("OTA_CHUNK")}
    BY <1>6 DEF OnlyOf
  <2>2. PICK o \in Nat, d \in Data : w.payload = <<o, d>> /\ o + Len(d) <= Len(img)
    BY <1>6, <2>1, PartOfTransfer
  <2>3. w.payload[1] = o /\ w.payload[2] = d /\ DOMAIN d = 1 .. Len(d) /\ Len(d) \in Nat
    BY <2>2 DEF Data
  <2>4. ASSUME NEW j \in 1 .. Len(d) PROVE buffer'[o + j] = img[o + j]
    <3>1. o + j \in 1 .. Len(img)
      BY <1>4, <2>2, <2>3
    <3>2. CASE o + j \in off + 1 .. off + Len(data)
      <4>1. (o + j) - off \in 1 .. Len(data) /\ off + ((o + j) - off) = o + j
        BY <1>4, <3>2
      <4>2. buffer'[o + j] = data[(o + j) - off]
        BY <1>5, <3>1, <3>2
      <4>3. QED
        BY <1>3, <4>1, <4>2
    <3>3. CASE o + j \notin off + 1 .. off + Len(data)
      <4>1. w # m
        <5>1. SUFFICES ASSUME w = m PROVE FALSE
          OBVIOUS
        <5>2. o = off /\ d = data
          BY <2>2, <5>1
        <5>3. QED
          BY <1>4, <3>3, <5>2
      <4>2. Written(img, w)
        BY <4>1
      <4>3. buffer[o + j] = img[o + j]
        BY <1>6, <2>3, <4>2 DEF Written
      <4>4. QED
        BY <1>5, <3>1, <3>3, <4>3
    <3>4. QED
      BY <3>2, <3>3
  <2>5. QED
    BY <2>3, <2>4
<1>7. QED
  BY <1>6 DEF Written

LEMMA DeliverKeepsProgress ==
  ASSUME OtaInv, ProgressInv, NEW m \in sent, Deliver(m), NEW img \in Images
  PROVE  ProgressOf(img)'
<1> SUFFICES ASSUME OnlyOf(img)', Begin(Len(img)) \in session'
             PROVE  \/ state' = "Ready"
                    \/ state' = "Failed" /\ ~(ToSet(Chunks(img)) \subseteq session')
                    \/ /\ state' = "Receiving" /\ total_size' = Len(img)
                       /\ Finalize(Crc(img)) \notin session'
                       /\ \A w \in session' : Written(img, w)'
  BY DEF ProgressOf
<1>1. /\ m \in Message /\ HandleCommand(m) /\ ReceiverTyped
      /\ m.cmd = "OTA_BEGIN" => session' = {m}
      /\ m.cmd # "OTA_BEGIN" /\ state = "Receiving" => session' = session \cup {m}
      /\ m.cmd # "OTA_BEGIN" /\ state # "Receiving" => session' = session
  BY DEF OtaInv, NetTyped, Deliver
<1>2. /\ Begin(Len(img)).cmd = "OTA_BEGIN" /\ Begin(Len(img)).payload = <<Len(img)>>
      /\ Finalize(Crc(img)).cmd = "OTA_FINALIZE"
      /\ Finalize(Crc(img)).payload = <<Crc(img)>>
  BY DEF Begin, Finalize
<1>3. CASE m.cmd = "OTA_BEGIN"
  <2>1. session' = {m} /\ m = Begin(Len(img))
    BY <1>1, <1>3
  <2>2. HandleBegin(<<Len(img)>>)
    BY <1>1, <1>2, <1>3, <2>1 DEF HandleCommand
  <2>3. ValidSize(<<Len(img)>>)
    BY ImageFacts DEF ValidSize
  <2>4. StartSession(Len(img))
    BY <1>1, <2>2, <2>3 DEF HandleBegin, ReceiverTyped
  <2>5. state' = "Receiving" /\ total_size' = Len(img)
    BY <2>4 DEF StartSession
  <2>6. Finalize(Crc(img)) \notin session' /\ \A w \in session' : Written(img, w)'
    BY <1>2, <2>1 DEF Written
  <2>7. QED
    BY <2>5, <2>6
<1>4. CASE m.cmd # "OTA_BEGIN" /\ state # "Receiving"
  <2>1. UNCHANGED otaVars /\ session' = session
    BY <1>1, <1>4 DEF HandleCommand, HandleChunk, HandleFinalize, Ignore
  <2>2. ProgressOf(img) /\ OnlyOf(img) /\ Begin(Len(img)) \in session
    BY <2>1 DEF ProgressInv, OnlyOf
  <2>3. state' = state
    BY <2>1 DEF otaVars
  <2>4. QED
    BY <1>4, <2>1, <2>2, <2>3 DEF ProgressOf
<1>5. CASE m.cmd # "OTA_BEGIN" /\ state = "Receiving"
  <2>1. /\ session' = session \cup {m}
        /\ m \in ToSet(Protocol(img)) \cup {Truncated("OTA_CHUNK")}
        /\ OnlyOf(img) /\ Begin(Len(img)) \in session
    BY <1>1, <1>2, <1>5 DEF OnlyOf
  <2>2. /\ total_size = Len(img) /\ Finalize(Crc(img)) \notin session
        /\ \A w \in session : Written(img, w)
    BY <1>5, <2>1 DEF ProgressInv, ProgressOf
  <2>3. CASE m.cmd = "OTA_CHUNK"
    <3>1. HandleChunk(m.payload)
      BY <1>1, <2>3 DEF HandleCommand
    <3>2. Finalize(Crc(img)) \notin session'
      BY <1>2, <2>1, <2>2, <2>3
    <3>3. CASE m.payload = <<>>
      <4>1. UNCHANGED otaVars
        BY <3>1, <3>3 DEF HandleChunk, Ignore
      <4>2. \A w \in session' : Written(img, w)'
        BY <2>1, <2>2, <3>3, <4>1 DEF Written, otaVars
      <4>3. QED
        BY <1>5, <2>2, <3>2, <4>1, <4>2 DEF otaVars
    <3>4. CASE m.payload # <<>>
      <4>1. PICK off \in Nat, d \in Data :
              m.payload = <<off, d>> /\ off + Len(d) <= Len(img)
        BY <2>1, <2>3, <3>4, PartOfTransfer
      <4>2. m.payload[1] = off /\ m.payload[2] = d
        BY <4>1
      <4>3. ~(off + Len(d) > total_size) /\ off + Len(d) <= total_size
        BY <2>2, <4>1, ImageFacts DEF Data
      <4>4. WriteChunk(off, d)
        BY <1>5, <3>1, <3>4, <4>2, <4>3 DEF HandleChunk
      <4>5. \A w \in session' : Written(img, w)'
        BY <1>1, <1>5, <2>1, <2>2, <2>3, <4>1, <4>3, <4>4, ChunkKeepsProgress
      <4>6. state' = "Receiving" /\ total_size' = Len(img)
        BY <1>5, <2>2, <4>4 DEF WriteChunk
      <4>7. QED
        BY <3>2, <4>5, <4>6
    <3>5. QED
      BY <3>3, <3>4
  <2>4. CASE m.cmd # "OTA_CHUNK"
    <3>1. m = Finalize(Crc(img))
      BY <1>5, <2>1, <2>4, PartOfTransfer
    <3>2. HandleFinalize(<<Crc(img)>>)
      BY <1>1, <1>2, <3>1 DEF HandleCommand
    <3>3. IF Crc(buffer) = Crc(img) THEN Accept ELSE Fail
      BY <1>5, <3>2 DEF HandleFinalize
    <3>4. CASE ToSet(Chunks(img)) \subseteq session
      <4>1. buffer = img
        BY <1>1, <1>5, <2>2, <3>4, FilledBuffer
      <4>2. QED
        BY <3>3, <4>1 DEF Accept
    <3>5. CASE ~(ToSet(Chunks(img)) \subseteq session)
      <4>1. PICK c \in ToSet(Chunks(img)) : c \notin session
        BY <3>5
      <4>2. PICK k \in 1 .. ChunkCount(img) : c = Chunks(img)[k]
        BY ChunkCountFacts DEF ToSet
      <4>3. c.cmd = "OTA_CHUNK"
        <5>1. \E off \in Nat, d \in Data : Chunks(img)[k] = Chunk(off, d)
          BY ChunkContents
        <5>2. QED
          BY <4>2, <5>1 DEF Chunk
      <4>4. c \notin session'
        BY <1>2, <2>1, <3>1, <4>1, <4>3
      <4>5. state' \in {"Ready", "Failed"}
        BY <3>3 DEF Accept, Fail
      <4>6. QED
        BY <4>1, <4>4, <4>5
    <3>6. QED
      BY <3>4, <3>5
  <2>5. QED
    BY <2>3, <2>4
<1>6. QED
  BY <1>3, <1>4, <1>5

LEMMA InitProgress == Init => ProgressInv
BY DEF Init, ProgressInv, ProgressOf

LEMMA NextProgress == OtaInv /\ ProgressInv /\ [Next]_vars => ProgressInv'
<1> SUFFICES ASSUME OtaInv, ProgressInv, [Next]_vars, NEW img \in Images
             PROVE  ProgressOf(img)'
  BY DEF ProgressInv
<1>1. CASE UNCHANGED <<otaVars, session>>
  <2>1. ProgressOf(img)
    BY DEF ProgressInv
  <2>2. QED
    BY <1>1, <2>1 DEF ProgressOf, OnlyOf, Written, otaVars
<1>2. ASSUME NEW m \in sent, Deliver(m) PROVE ProgressOf(img)'
  BY <1>2, DeliverKeepsProgress
<1>3. CASE session' = {}
  BY <1>3 DEF ProgressOf
<1>4. QED
  BY <1>1, <1>2, <1>3 DEF Next, StartTransfer, Send, Damage, Take, Reset, vars

\* A session that got all messages of one image and none of another has staged
\* it, in whatever order its chunks came and however often: for every image, and
\* every chunk size, also one that does not divide the image's.
THEOREM CompleteIsStaged == Spec => []CompleteTransferIsStaged
<1>1. ASSUME ProgressInv, NEW img \in Images,
             session \ {Truncated("OTA_CHUNK")} = ToSet(Protocol(img))
      PROVE  state = "Ready"
  <2>1. OnlyOf(img)
    BY <1>1 DEF OnlyOf
  <2>2. /\ Begin(Len(img)) \in session /\ Finalize(Crc(img)) \in session
        /\ ToSet(Chunks(img)) \subseteq session
    BY <1>1, ProtocolIs
  <2>3. QED
    BY <1>1, <2>1, <2>2 DEF ProgressInv, ProgressOf
<1>2. ProgressInv => CompleteTransferIsStaged
  BY <1>1 DEF CompleteTransferIsStaged
<1>3. QED
  BY <1>2, InitProgress, NextProgress, OtaInvariance, PTL DEF Spec

-----------------------------------------------------------------------------
(* Refinement *)

Staged == IF state = "Ready" THEN buffer ELSE NoImage

LEMMA InitRefines == Init => Abstract!Init
BY DEF Init, OtaInit, Abstract!Init, Offered

\* What a delivered message does to the staged image: nothing, or it stages one
\* that has been offered, or withdraws the one there was.
LEMMA DeliverRefines ==
  ASSUME OtaInv, OtaInv', NEW m \in sent, Deliver(m)
  PROVE  /\ Offered' = Offered
         /\ \/ Staged' = Staged
            \/ Staged' = NoImage
            \/ Staged = NoImage /\ Staged' \in Images \cap Offered
<1>1. Offered' = Offered
  BY DEF Deliver, pcVars, Offered
<1>2. m \in Message /\ HandleCommand(m) /\ ReceiverTyped
  BY DEF OtaInv, NetTyped, Deliver
<1>3. CASE UNCHANGED otaVars
  BY <1>1, <1>3 DEF Staged, otaVars
<1>4. CASE state' \in {"Failed", "Receiving"}
  BY <1>1, <1>4 DEF Staged
<1>5. CASE state = "Receiving" /\ Accept
  <2>1. Staged = NoImage /\ Staged' = buffer' /\ state' = "Ready"
    BY <1>5 DEF Accept, Staged
  <2>2. buffer' \in Offered'
    BY <2>1 DEF OtaInv, ReadyIsWhole
  <2>3. Offered \subseteq Images
    BY DEF Offered
  <2>4. QED
    BY <1>1, <2>1, <2>2, <2>3
<1>6. QED
  BY <1>2, <1>3, <1>4, <1>5, HandleCases DEF StartSession, WriteChunk

\* A message the PC sends offers one image, or none.
LEMMA SendRefines ==
  ASSUME OtaInv, Send
  PROVE  Offered' = Offered \/ \E img \in Images : Offered' = Offered \cup {img}
<1>1. Head(outbox) \in Message /\ sent' = sent \cup {Head(outbox)}
  BY DEF Send, OtaInv, NetTyped
<1>2. CASE \E img \in Images : Head(outbox) = Finalize(Crc(img))
  <2>1. PICK img \in Images : Head(outbox) = Finalize(Crc(img))
    BY <1>2
  <2>2. ASSUME NEW other \in Images, Finalize(Crc(other)) = Finalize(Crc(img))
        PROVE  other = img
    <3>1. Crc(other) = Crc(img)
      BY <2>2 DEF Finalize
    <3>2. QED
      BY <3>1, ImageFacts, TransferAssumption
  <2>3. Offered' = Offered \cup {img}
    BY <1>1, <2>1, <2>2 DEF Offered
  <2>4. QED
    BY <2>3
<1>3. CASE ~\E img \in Images : Head(outbox) = Finalize(Crc(img))
  BY <1>1, <1>3 DEF Offered
<1>4. QED
  BY <1>2, <1>3

LEMMA DamageRefines ==
  ASSUME OtaInv, Damage
  PROVE  Offered' = Offered
<1>1. PICK m \in sent : \E d \in Damaged(m) : sent' = sent \cup {d}
  BY DEF Damage
<1>2. PICK d \in Damaged(m) : sent' = sent \cup {d}
  BY <1>1
<1>3. m \in Message
  BY <1>1 DEF OtaInv, NetTyped
<1>4. \A img \in Images : d # Finalize(Crc(img))
  BY <1>2, <1>3, DamagedTyped
<1>5. QED
  BY <1>2, <1>4 DEF Offered

LEMMA NextRefines ==
  OtaInv /\ OtaInv' /\ [Next]_vars => [Abstract!Next]_<<Offered, Staged>>
<1> SUFFICES ASSUME OtaInv, OtaInv', [Next]_vars
             PROVE  [Abstract!Next]_<<Offered, Staged>>
  OBVIOUS
<1> USE DEF Abstract!Next, Abstract!Offer, Abstract!Stage, Abstract!Withdraw
<1>2. CASE Send
  <2>1. UNCHANGED otaVars
    BY <1>2 DEF Send
  <2>2. Staged' = Staged
    BY <2>1 DEF Staged, otaVars
  <2>3. QED
    BY <1>2, <2>2, SendRefines DEF Staged
<1>3. CASE Damage
  <2>1. UNCHANGED otaVars
    BY <1>3 DEF Damage
  <2>2. Staged' = Staged
    BY <2>1 DEF Staged, otaVars
  <2>3. QED
    BY <1>3, <2>2, DamageRefines
<1>4. ASSUME NEW m \in sent, Deliver(m) PROVE [Abstract!Next]_<<Offered, Staged>>
  BY <1>4, DeliverRefines DEF Staged
<1>5. CASE Take \/ Reset
  <2>1. state' = "Idle" /\ UNCHANGED sent
    BY <1>5 DEF Take, Reset, TakeVerifiedBinary, ResetFailed, pcVars
  <2>2. Staged' = NoImage /\ Offered' = Offered
    BY <2>1 DEF Staged, Offered
  <2>3. QED
    BY <2>2 DEF Staged
<1>6. CASE (\E img \in Images : StartTransfer(img)) \/ UNCHANGED vars
  <2>1. UNCHANGED <<otaVars, sent>>
    BY <1>6 DEF StartTransfer, vars, pcVars
  <2>2. Staged' = Staged /\ Offered' = Offered
    BY <2>1 DEF Staged, Offered, otaVars
  <2>3. QED
    BY <2>2
<1>7. QED
  BY <1>2, <1>3, <1>4, <1>5, <1>6 DEF Next

\* The receiver and its network implement StagedImage: an image is staged only
\* once it was offered, whole, and stays until it is withdrawn.
THEOREM ImplementsStagedImage == Spec => StagedImageSpec
<1>1. Abstract!Spec <=> Abstract!Init /\ [][Abstract!Next]_<<Offered, Staged>>
  BY DEF Abstract!Spec, Staged
<1>2. QED
  BY <1>1, InitRefines, NextRefines, OtaInvariance, PTL DEF Spec, StagedImageSpec

-----------------------------------------------------------------------------
(* The mock beside the firmware *)

\* Beside the mock the firmware does what it does without it.
THEOREM LockstepIsTransfer == LockstepSpec => Spec
<1>1. LockstepInit => Init
  BY DEF LockstepInit
<1>2. [LockstepNext]_<<vars, lockVars>> => [Next]_vars
  BY DEF LockstepNext, Next, DeliverToBoth, TakeBoth, ResetFirmware
<1>3. QED
  BY <1>1, <1>2, PTL DEF LockstepSpec, Spec

Session(s, buf, size, bytes, swaps) ==
  [ota_state |-> s, ota_buffer |-> buf, ota_expected_size |-> size,
   ota_bytes_received |-> bytes, hot_swap_count |-> swaps]

\* The mock's fields where the two have parted
Parted ==
  \E s \in OtaState \ {"Swapping"} : \E buf : \E size, bytes \in Nat :
    mock = Session(s, buf, size, bytes, swap_count)

MockInv ==
  IF parted THEN state \in {"Failed", "Idle"} /\ Parted
  ELSE mock = Session(state, buffer, total_size, bytes_received, swap_count)

LEMMA InitMock == LockstepInit => MockInv
BY DEF LockstepInit, Init, OtaInit, MockInit, NoSession, MockInv, Session

\* The mock's methods on a session
LEMMA BeginCall ==
  ASSUME NEW s, NEW buf, NEW size, NEW bytes, NEW swaps,
         mock = Session(s, buf, size, bytes, swaps),
         s # "Swapping", NEW n \in 1 .. OTA_MAX_BINARY_SIZE
  PROVE  ota_begin(mock, n) = Session("Receiving", Zeroes(n), n, 0, swaps)
<1>f. /\ mock.ota_state = s /\ mock.ota_buffer = buf /\ mock.ota_expected_size = size
      /\ mock.ota_bytes_received = bytes /\ mock.hot_swap_count = swaps
  BY DEF Session
<1>1. QED
  BY <1>f DEF ota_begin, Session

LEMMA ChunkCall ==
  ASSUME NEW s, NEW buf, NEW size, NEW bytes, NEW swaps,
         mock = Session(s, buf, size, bytes, swaps),
         NEW off, NEW data
  PROVE  ota_receive_chunk(mock, off, data) =
           IF s # "Receiving" \/ data = <<>> \/ off + Len(data) > size THEN mock
           ELSE Session(s, Overlay(buf, off, data), size, bytes + Len(data), swaps)
<1>f. /\ mock.ota_state = s /\ mock.ota_buffer = buf /\ mock.ota_expected_size = size
      /\ mock.ota_bytes_received = bytes /\ mock.hot_swap_count = swaps
  BY DEF Session
<1> DEFINE over == Overlay(mock.ota_buffer, off, data)
           more == mock.ota_bytes_received + Len(data)
<1>1. over = Overlay(buf, off, data) /\ more = bytes + Len(data)
  BY <1>f
<1>2. ota_receive_chunk(mock, off, data) =
        IF mock.ota_state # "Receiving" \/ data = <<>>
             \/ off + Len(data) > mock.ota_expected_size THEN mock
        ELSE [mock EXCEPT !.ota_buffer = over, !.ota_bytes_received = more]
  BY Zenon DEF ota_receive_chunk
<1> HIDE DEF over, more
<1>3. [mock EXCEPT !.ota_buffer = over, !.ota_bytes_received = more]
        = Session(s, over, size, more, swaps)
  <2>1. [mock EXCEPT !.ota_buffer = over]
          = Session(s, over, size, bytes, swaps)
    BY DEF Session
  <2>2. [Session(s, over, size, bytes, swaps) EXCEPT !.ota_bytes_received = more]
          = Session(s, over, size, more, swaps)
    BY DEF Session
  <2>3. QED
    BY <2>1, <2>2
<1>4. QED
  BY <1>f, <1>1, <1>2, <1>3

LEMMA FinalizeCall ==
  ASSUME NEW s, NEW buf, NEW size, NEW bytes, NEW swaps,
         mock = Session(s, buf, size, bytes, swaps),
         NEW c
  PROVE  ota_finalize(mock, c) =
           IF s # "Receiving" THEN mock
           ELSE Session(IF Crc(buf) = c THEN "Ready" ELSE "Failed", buf, size, bytes, swaps)
<1>f. /\ mock.ota_state = s /\ mock.ota_buffer = buf /\ mock.ota_expected_size = size
      /\ mock.ota_bytes_received = bytes /\ mock.hot_swap_count = swaps
  BY DEF Session
<1>1. QED
  BY <1>f DEF ota_finalize, Session

LEMMA SwapCall ==
  ASSUME NEW s, NEW buf, NEW size, NEW bytes, NEW swaps,
         mock = Session(s, buf, size, bytes, swaps)
  PROVE  hot_swap_wasm(mock) = IF s # "Ready" THEN mock ELSE Session("Idle", <<>>, 0, 0, swaps + 1)
<1>f. /\ mock.ota_state = s /\ mock.ota_buffer = buf /\ mock.ota_expected_size = size
      /\ mock.ota_bytes_received = bytes /\ mock.hot_swap_count = swaps
  BY DEF Session
<1> DEFINE count == mock.hot_swap_count + 1
<1>1. count = swaps + 1
  BY <1>f
<1>2. hot_swap_wasm(mock) =
        IF mock.ota_state # "Ready" THEN mock
        ELSE [mock EXCEPT !.ota_state = "Idle", !.ota_buffer = <<>>, !.hot_swap_count = count,
                          !.ota_expected_size = 0, !.ota_bytes_received = 0]
  BY Zenon DEF hot_swap_wasm
<1> HIDE DEF count
<1>3. [mock EXCEPT !.ota_state = "Idle", !.ota_buffer = <<>>, !.hot_swap_count = count,
                   !.ota_expected_size = 0, !.ota_bytes_received = 0]
        = Session("Idle", <<>>, 0, 0, count)
  <2>1. [mock EXCEPT !.ota_state = "Idle"]
          = Session("Idle", buf, size, bytes, swaps)
    BY DEF Session
  <2>2. [Session("Idle", buf, size, bytes, swaps) EXCEPT !.ota_buffer = <<>>]
          = Session("Idle", <<>>, size, bytes, swaps)
    BY DEF Session
  <2>3. [Session("Idle", <<>>, size, bytes, swaps) EXCEPT !.hot_swap_count = count]
          = Session("Idle", <<>>, size, bytes, count)
    BY DEF Session
  <2>4. [Session("Idle", <<>>, size, bytes, count) EXCEPT !.ota_expected_size = 0]
          = Session("Idle", <<>>, 0, bytes, count)
    BY DEF Session
  <2>5. [Session("Idle", <<>>, 0, bytes, count) EXCEPT !.ota_bytes_received = 0]
          = Session("Idle", <<>>, 0, 0, count)
    BY DEF Session
  <2>6. [mock EXCEPT !.ota_state = "Idle", !.ota_buffer = <<>>]
          = Session("Idle", <<>>, size, bytes, swaps)
    BY <2>1, <2>2
  <2>7. [mock EXCEPT !.ota_state = "Idle", !.ota_buffer = <<>>,
            !.hot_swap_count = count]
          = Session("Idle", <<>>, size, bytes, count)
    BY <2>3, <2>6
  <2>8. [mock EXCEPT !.ota_state = "Idle", !.ota_buffer = <<>>,
            !.hot_swap_count = count, !.ota_expected_size = 0]
          = Session("Idle", <<>>, 0, bytes, count)
    BY <2>4, <2>7
  <2>9. QED
    BY <2>5, <2>8
<1>4. QED
  BY <1>f, <1>1, <1>2, <1>3

\* Agreeing or not, the mock is in a state of a session.
LEMMA MockIsSession ==
  ASSUME OtaInv, MockInv
  PROVE  Parted
BY DEF OtaInv, MockInv, Parted, ReceiverTyped

LEMMA CallKeepsSession ==
  ASSUME OtaInv, MockInv, NEW m \in Message, mock' = Called(m), UNCHANGED swap_count
  PROVE  Parted'
<1>1. PICK s \in OtaState \ {"Swapping"} : \E buf : \E size, bytes \in Nat :
        mock = Session(s, buf, size, bytes, swap_count)
  BY MockIsSession DEF Parted
<1>2. PICK buf : \E size, bytes \in Nat : mock = Session(s, buf, size, bytes, swap_count)
  BY <1>1
<1>3. PICK size \in Nat, bytes \in Nat : mock = Session(s, buf, size, bytes, swap_count)
  BY <1>2
<1>4. swap_count \in Nat
  BY Parameters DEF OtaInv
<1>5. ASSUME NEW t \in OtaState \ {"Swapping"}, NEW b, NEW n \in Nat, NEW k \in Nat,
             mock' = Session(t, b, n, k, swap_count)
      PROVE  Parted'
  BY <1>5 DEF Parted
<1>6. CASE mock' = mock
  BY <1>3, <1>5, <1>6
<1>7. ASSUME NEW n \in Int, m.cmd = "OTA_BEGIN", m.payload = <<n>> PROVE Parted'
  <2>1. mock' = ota_begin(mock, n)
    BY <1>7 DEF Called
  <2>2. CASE n \in 1 .. OTA_MAX_BINARY_SIZE
    <3>1. mock' = Session("Receiving", Zeroes(n), n, 0, swap_count)
      BY <1>3, <2>1, <2>2, BeginCall
    <3>2. QED
      BY <1>5, <2>2, <3>1, Parameters DEF OtaState
  <2>3. CASE n \notin 1 .. OTA_MAX_BINARY_SIZE
    BY <1>6, <2>1, <2>3 DEF ota_begin
  <2>4. QED
    BY <2>2, <2>3
<1>8. ASSUME NEW off \in Nat, NEW data \in Data, m.cmd = "OTA_CHUNK", m.payload = <<off, data>>
      PROVE  Parted'
  <2>1. mock' = ota_receive_chunk(mock, off, data)
    BY <1>8 DEF Called
  <2>2. \/ mock' = mock
        \/ mock' = Session(s, Overlay(buf, off, data), size, bytes + Len(data), swap_count)
    BY <1>3, <2>1, ChunkCall
  <2>3. bytes + Len(data) \in Nat
    BY DEF Data
  <2>4. QED
    BY <1>5, <1>6, <2>2, <2>3
<1>9. ASSUME NEW c, m.cmd = "OTA_FINALIZE", m.payload = <<c>> PROVE Parted'
  <2>1. mock' = ota_finalize(mock, c)
    BY <1>9 DEF Called
  <2>2. \/ mock' = mock
        \/ mock' = Session("Ready", buf, size, bytes, swap_count)
        \/ mock' = Session("Failed", buf, size, bytes, swap_count)
    BY <1>3, <2>1, FinalizeCall
  <2>3. QED
    BY <1>5, <1>6, <2>2 DEF OtaState
<1>10. CASE m.payload = <<>>
  BY <1>6, <1>10 DEF Called
<1>11. QED
  BY <1>7, <1>8, <1>9, <1>10, MessageCases

\* An empty chunk replaces nothing.
LEMMA EmptyOverlay ==
  ASSUME NEW buf \in Seq(Byte), NEW off \in Nat, NEW data, Len(data) = 0
  PROVE  Overlay(buf, off, data) = buf
<1>1. off + 1 .. off + Len(data) = {}
  OBVIOUS
<1>2. Overlay(buf, off, data) = [i \in DOMAIN buf |-> buf[i]]
  BY <1>1 DEF Overlay
<1>3. [i \in DOMAIN buf |-> buf[i]] = buf
  OBVIOUS
<1>4. QED
  BY <1>2, <1>3

\* A message that does not part the two leaves them in the same state.
LEMMA AgreeingCall ==
  ASSUME OtaInv, NEW m \in Message, HandleCommand(m), ~OnlyFirmwareFails(m),
         m.cmd # "OTA_BEGIN", mock' = Called(m),
         mock = Session(state, buffer, total_size, bytes_received, swap_count)
  PROVE  mock' = Session(state, buffer, total_size, bytes_received, swap_count)'
<1>1. /\ state \in OtaState \ {"Swapping"} /\ total_size \in Nat /\ bytes_received \in Nat
      /\ swap_count \in Nat /\ buffer \in Seq(Byte)
      /\ state = "Receiving" => Len(buffer) = total_size
  BY Parameters DEF OtaInv, ReceiverTyped, Active
<1>2. CASE mock' = mock /\ UNCHANGED otaVars
  BY <1>2 DEF otaVars
<1>3. CASE m.cmd = "OTA_CHUNK"
  <2>1. HandleChunk(m.payload)
    BY <1>3 DEF HandleCommand
  <2>2. CASE m.payload = <<>>
    BY <1>2, <2>1, <2>2 DEF HandleChunk, Ignore, Called
  <2>3. ASSUME NEW off \in Nat, NEW data \in Data, m.payload = <<off, data>>
        PROVE  mock' = Session(state, buffer, total_size, bytes_received, swap_count)'
    <3>1. mock' = ota_receive_chunk(mock, off, data) /\ m.payload # <<>>
          /\ m.payload[1] = off /\ m.payload[2] = data
      BY <1>3, <2>3 DEF Called
    <3>2. data \in Seq(Byte) /\ Len(data) \in Nat
      BY DEF Data
    <3>3. mock' = IF state # "Receiving" \/ data = <<>> \/ off + Len(data) > total_size THEN mock
                  ELSE Session(state, Overlay(buffer, off, data), total_size,
                               bytes_received + Len(data), swap_count)
      BY <3>1, ChunkCall
    <3>4. CASE state # "Receiving"
      BY <1>2, <2>1, <3>3, <3>4 DEF HandleChunk, Ignore
    <3>5. CASE state = "Receiving"
      <4>1. ~(off + Len(data) > total_size)
        BY <1>3, <3>1, <3>5 DEF OnlyFirmwareFails
      <4>2. WriteChunk(off, data)
        BY <2>1, <3>1, <3>5, <4>1 DEF HandleChunk
      <4>3. /\ buffer' = Overlay(buffer, off, data) /\ bytes_received' = bytes_received + Len(data)
            /\ UNCHANGED <<state, total_size, swap_count>>
        BY <4>2 DEF WriteChunk
      <4>4. CASE data = <<>>
        <5>1. Len(data) = 0
          BY <4>4
        <5>2. Overlay(buffer, off, data) = buffer
          BY <1>1, <5>1, EmptyOverlay
        <5>3. bytes_received' = bytes_received
          BY <1>1, <4>3, <4>4
        <5>4. QED
          BY <3>3, <4>3, <4>4, <5>2, <5>3
      <4>5. CASE data # <<>>
        BY <3>3, <3>5, <4>1, <4>3, <4>5
      <4>6. QED
        BY <4>4, <4>5
    <3>6. QED
      BY <3>4, <3>5
  <2>4. QED
    BY <1>3, <2>2, <2>3, MessageCases
<1>4. CASE m.cmd = "OTA_FINALIZE"
  <2>1. HandleFinalize(m.payload)
    BY <1>4 DEF HandleCommand
  <2>2. CASE m.payload = <<>>
    BY <1>2, <1>4, <2>1, <2>2 DEF HandleFinalize, Ignore, Called, OnlyFirmwareFails
  <2>3. ASSUME NEW c, m.payload = <<c>>
        PROVE  mock' = Session(state, buffer, total_size, bytes_received, swap_count)'
    <3>1. mock' = ota_finalize(mock, c) /\ m.payload # <<>> /\ m.payload[1] = c
      BY <1>4, <2>3 DEF Called
    <3>2. mock' = IF state # "Receiving" THEN mock
                  ELSE Session(IF Crc(buffer) = c THEN "Ready" ELSE "Failed",
                               buffer, total_size, bytes_received, swap_count)
      BY <3>1, FinalizeCall
    <3>3. CASE state # "Receiving"
      BY <1>2, <2>1, <3>2, <3>3 DEF HandleFinalize, Ignore
    <3>4. CASE state = "Receiving"
      BY <2>1, <3>1, <3>2, <3>4 DEF HandleFinalize, Accept, Fail
    <3>5. QED
      BY <3>3, <3>4
  <2>4. QED
    BY <1>4, <2>2, <2>3, MessageCases
<1>5. QED
  BY <1>3, <1>4, MessageCases

LEMMA DeliverBoth ==
  ASSUME OtaInv, MockInv, NEW m \in sent, DeliverToBoth(m)
  PROVE  MockInv'
<1>1. /\ m \in Message /\ HandleCommand(m) /\ ReceiverTyped /\ mock' = Called(m)
      /\ OnlyFirmwareFails(m) => parted' = TRUE
      /\ ~OnlyFirmwareFails(m) /\ m.cmd = "OTA_BEGIN" => parted' = FALSE
      /\ ~OnlyFirmwareFails(m) /\ m.cmd # "OTA_BEGIN" => parted' = parted
  BY DEF DeliverToBoth, Deliver, OtaInv, NetTyped
<1>2. UNCHANGED swap_count
  BY <1>1, ReceiverStaysTyped
<1>3. Parted'
  BY <1>1, <1>2, CallKeepsSession
<1>4. CASE OnlyFirmwareFails(m)
  <2>1. state' = "Failed"
    BY <1>1, <1>4 DEF OnlyFirmwareFails, HandleCommand, HandleBegin, HandleChunk,
       HandleFinalize, Fail
  <2>2. QED
    BY <1>1, <1>3, <1>4, <2>1 DEF MockInv
<1>5. CASE ~OnlyFirmwareFails(m) /\ m.cmd = "OTA_BEGIN"
  <2>1. ValidSize(m.payload)
    BY <1>5 DEF OnlyFirmwareFails
  <2>2. PICK n \in 1 .. OTA_MAX_BINARY_SIZE : m.payload = <<n>>
    BY <1>1, <1>5, <2>1, MessageCases DEF ValidSize
  <2>3. StartSession(n)
    BY <1>1, <1>5, <2>1, <2>2 DEF HandleCommand, HandleBegin, ReceiverTyped
  <2>4. mock' = ota_begin(mock, n)
    BY <1>1, <1>5, <2>2 DEF Called
  <2>5. swap_count \in Nat
    BY Parameters DEF OtaInv
  <2>6. mock' = Session("Receiving", Zeroes(n), n, 0, swap_count)
    <3>1. PICK s \in OtaState \ {"Swapping"} : \E buf : \E size, bytes \in Nat :
            mock = Session(s, buf, size, bytes, swap_count)
      BY MockIsSession DEF Parted
    <3>2. PICK buf : \E size, bytes \in Nat : mock = Session(s, buf, size, bytes, swap_count)
      BY <3>1
    <3>3. PICK size \in Nat, bytes \in Nat : mock = Session(s, buf, size, bytes, swap_count)
      BY <3>2
    <3>4. QED
      BY <2>4, <3>3, BeginCall
  <2>7. QED
    BY <1>1, <1>5, <2>3, <2>6 DEF MockInv, StartSession
<1>6. CASE ~OnlyFirmwareFails(m) /\ m.cmd # "OTA_BEGIN" /\ parted
  <2>1. state \in {"Failed", "Idle"}
    BY <1>6 DEF MockInv
  <2>2. state' = state
    BY <1>1, <1>6, <2>1 DEF HandleCommand, HandleChunk, HandleFinalize, Ignore, otaVars
  <2>3. QED
    BY <1>1, <1>3, <1>6, <2>1, <2>2 DEF MockInv
<1>7. CASE ~OnlyFirmwareFails(m) /\ m.cmd # "OTA_BEGIN" /\ ~parted
  <2>1. mock = Session(state, buffer, total_size, bytes_received, swap_count)
    BY <1>7 DEF MockInv
  <2>2. mock' = Session(state, buffer, total_size, bytes_received, swap_count)'
    BY <1>1, <1>7, <2>1, AgreeingCall
  <2>3. QED
    BY <1>1, <1>7, <2>2 DEF MockInv
<1>8. QED
  BY <1>4, <1>5, <1>6, <1>7

LEMMA NextMock == OtaInv /\ MockInv /\ [LockstepNext]_<<vars, lockVars>> => MockInv'
<1> SUFFICES ASSUME OtaInv, MockInv, [LockstepNext]_<<vars, lockVars>> PROVE MockInv'
  OBVIOUS
<1>1. ASSUME UNCHANGED <<otaVars, lockVars>> PROVE MockInv'
  BY <1>1 DEF MockInv, Parted, otaVars, lockVars
<1>2. CASE TakeBoth
  <2>1. state = "Ready" /\ mock' = hot_swap_wasm(mock) /\ parted' = parted /\ TakeVerifiedBinary
    BY <1>2 DEF TakeBoth, Take, TakeVerifiedBinary
  <2>2. ~parted /\ mock = Session("Ready", buffer, total_size, bytes_received, swap_count)
    BY <2>1 DEF MockInv
  <2>3. total_size \in Nat /\ bytes_received \in Nat /\ swap_count \in Nat
    BY Parameters DEF OtaInv, ReceiverTyped
  <2>4. mock' = Session("Idle", <<>>, 0, 0, swap_count + 1)
    BY <2>1, <2>2, SwapCall
  <2>5. QED
    BY <2>1, <2>2, <2>4 DEF MockInv, TakeVerifiedBinary
<1>3. CASE ResetFirmware
  <2>1. state' = "Idle" /\ parted' = TRUE /\ UNCHANGED <<mock, swap_count>>
    BY <1>3 DEF ResetFirmware, Reset, ResetFailed
  <2>2. Parted'
    BY <2>1, MockIsSession DEF Parted
  <2>3. QED
    BY <2>1, <2>2 DEF MockInv
<1>4. ASSUME NEW m \in sent, DeliverToBoth(m) PROVE MockInv'
  BY <1>4, DeliverBoth
<1>5. CASE (\E img \in Images : StartTransfer(img) /\ UNCHANGED lockVars)
           \/ (Send /\ UNCHANGED lockVars) \/ (Damage /\ UNCHANGED lockVars)
           \/ UNCHANGED <<vars, lockVars>>
  BY <1>1, <1>5 DEF StartTransfer, Send, Damage, vars
<1>6. QED
  BY <1>2, <1>3, <1>4, <1>5 DEF LockstepNext

\* The mock stages what the firmware stages, until the firmware fails for a
\* reason of its own; from there on the firmware stages nothing.
THEOREM MockFollowsFirmware == LockstepSpec => []MockOtaAgrees
<1>1. MockInv => MockOtaAgrees
  BY DEF MockInv, MockOtaAgrees, Session
<1>2. LockstepSpec => []OtaInv
  BY LockstepIsTransfer, OtaInvariance, PTL
<1>3. LockstepSpec => []MockInv
  BY <1>2, InitMock, NextMock, PTL DEF LockstepSpec
<1>4. QED
  BY <1>1, <1>3, PTL
=============================================================================
