------------------------ MODULE MitsubishiFrame_proofs ------------------------
(***************************************************************************)
(* The frame and its encoding, for every number and width of bytes and     *)
(* every signature: decoding inverts encoding, a canonical profile carries *)
(* one state only and goes out as one frame, and data read too early is    *)
(* not mistaken for a frame.                                               *)
(***************************************************************************)
EXTENDS MitsubishiFrame, SequenceTheorems, TLAPS

\* The sizes are numbers, and a frame holds more than its signature.
LEMMA Sizes ==
  /\ DataBits \in Nat \ {0}
  /\ SignatureBits \in Nat
  /\ ByteBits < SignatureBits
  /\ SignatureBits < DataBits
  /\ ByteBits \in Nat \ {0}
<1>1. /\ ByteBits \in Nat \ {0} /\ SignatureBytes \in Nat \ {0, 1}
      /\ StateBytes \in Nat /\ StateBytes > SignatureBytes
  BY SizeAssumption
<1>2. SignatureBytes * ByteBits \in Nat /\ StateBytes * ByteBits \in Nat
  BY <1>1, SMT
<1>3. \E k \in Nat : SignatureBytes = k + 2
  <2>1. SignatureBytes = (SignatureBytes - 2) + 2 /\ SignatureBytes - 2 \in Nat
    BY <1>1, SMT
  <2>2. QED  BY <2>1
<1>4. PICK k \in Nat : SignatureBytes = k + 2
  BY <1>3
<1>5. \E m \in Nat : StateBytes = SignatureBytes + m + 1
  <2>1. StateBytes = SignatureBytes + (StateBytes - SignatureBytes - 1) + 1
        /\ StateBytes - SignatureBytes - 1 \in Nat
    BY <1>1, SMT
  <2>2. QED  BY <2>1
<1>6. PICK m \in Nat : StateBytes = SignatureBytes + m + 1
  BY <1>5
<1>7. SignatureBytes * ByteBits = k * ByteBits + 2 * ByteBits /\ k * ByteBits \in Nat
  BY <1>1, <1>4, SMT
<1>8. /\ StateBytes * ByteBits = SignatureBytes * ByteBits + m * ByteBits + ByteBits
      /\ m * ByteBits \in Nat
  BY <1>1, <1>6, SMT
<1>9. QED
  BY <1>1, <1>2, <1>7, <1>8, SMT DEF DataBits, SignatureBits

-----------------------------------------------------------------------------
\* A concatenation, element by element.
LEMMA Concatenation ==
  ASSUME NEW s \in Seq(Int), NEW t \in Seq(Int)
  PROVE  /\ s \o t \in Seq(Int)
         /\ Len(s \o t) = Len(s) + Len(t)
         /\ \A i \in 1 .. Len(s) : (s \o t)[i] = s[i]
         /\ \A i \in 1 .. Len(t) : (s \o t)[Len(s) + i] = t[i]
<1>1. /\ s \o t \in Seq(Int)
      /\ Len(s \o t) = Len(s) + Len(t)
      /\ \A i \in 1 .. Len(s) + Len(t) :
           (s \o t)[i] = IF i <= Len(s) THEN s[i] ELSE t[i - Len(s)]
  BY ConcatProperties
<1>2. Len(s) \in Nat /\ Len(t) \in Nat
  OBVIOUS
<1>3. ASSUME NEW i \in 1 .. Len(s)  PROVE (s \o t)[i] = s[i]
  <2>1. i \in 1 .. Len(s) + Len(t) /\ i <= Len(s)
    BY <1>2, SMT
  <2>2. QED
    BY <1>1, <2>1
<1>4. ASSUME NEW i \in 1 .. Len(t)  PROVE (s \o t)[Len(s) + i] = t[i]
  <2>1. /\ Len(s) + i \in 1 .. Len(s) + Len(t)
        /\ ~(Len(s) + i <= Len(s)) /\ (Len(s) + i) - Len(s) = i
    BY <1>2, SMT
  <2>2. QED
    BY <1>1, <2>1
<1>5. QED
  BY <1>1, <1>3, <1>4

\* The pulses of a frame's bits.
LEMMA DataPulse ==
  ASSUME NEW state
  PROVE  /\ CanonicalData(state) \in Seq(Int)
         /\ Len(CanonicalData(state)) = 2 * DataBits
         /\ \A b \in 0 .. DataBits - 1 :
              /\ CanonicalData(state)[2 * b + 1] = -450
              /\ CanonicalData(state)[2 * b + 2] = IF b \in state THEN 1300 ELSE 420
<1> DEFINE pulse(i) == IF i % 2 = 1 THEN -450
                       ELSE IF (i \div 2) - 1 \in state THEN 1300 ELSE 420
<1>1. DataBits \in Nat \ {0}
  BY Sizes
<1>2. CanonicalData(state) = [i \in 1 .. 2 * DataBits |-> pulse(i)]
  BY DEF CanonicalData
<1>3. \A i \in 1 .. 2 * DataBits : pulse(i) \in Int
  OBVIOUS
<1> HIDE DEF pulse
<1>4. CanonicalData(state) \in Seq(Int) /\ Len(CanonicalData(state)) = 2 * DataBits
  BY <1>1, <1>2, <1>3, SMT
<1>5. ASSUME NEW b \in 0 .. DataBits - 1
      PROVE  /\ CanonicalData(state)[2 * b + 1] = -450
             /\ CanonicalData(state)[2 * b + 2] = IF b \in state THEN 1300 ELSE 420
  <2>1. /\ 2 * b + 1 \in 1 .. 2 * DataBits /\ 2 * b + 2 \in 1 .. 2 * DataBits
        /\ (2 * b + 1) % 2 = 1 /\ (2 * b + 2) % 2 = 0 /\ (2 * b + 2) \div 2 - 1 = b
    BY <1>1, SMT
  <2>2. pulse(2 * b + 1) = -450
    BY <2>1 DEF pulse
  <2>3. pulse(2 * b + 2) = IF b \in state THEN 1300 ELSE 420
    BY <2>1 DEF pulse
  <2>4. QED
    BY <1>2, <2>1, <2>2, <2>3
<1>6. QED
  BY <1>4, <1>5

\* The pulses of a canonical frame.
LEMMA FramePulse ==
  ASSUME NEW state
  PROVE  LET frame == CanonicalFrame(state) IN
         /\ frame \in Seq(Int)
         /\ Len(frame) = RepeatPulses
         /\ frame[1] = -3400 /\ frame[2] = 1750
         /\ \A b \in 0 .. DataBits - 1 :
              /\ frame[2 * b + 3] = -450
              /\ frame[2 * b + 4] = IF b \in state THEN 1300 ELSE 420
         /\ frame[2 * DataBits + 3] = -440 /\ frame[2 * DataBits + 4] = 15500
<1> DEFINE data == CanonicalData(state)
           before == <<-3400, 1750>>
           after == <<-440, 15500>>
<1>1. DataBits \in Nat \ {0} /\ RepeatPulses = 2 * DataBits + 4
  BY Sizes, SMT DEF RepeatPulses, FramePulses, DataPulses
<1>2. /\ data \in Seq(Int) /\ Len(data) = 2 * DataBits
      /\ \A b \in 0 .. DataBits - 1 :
           /\ data[2 * b + 1] = -450
           /\ data[2 * b + 2] = IF b \in state THEN 1300 ELSE 420
  BY DataPulse
<1>3. CanonicalFrame(state) = (before \o data) \o after
  BY DEF CanonicalFrame
<1>4. /\ before \in Seq(Int) /\ Len(before) = 2 /\ before[1] = -3400 /\ before[2] = 1750
      /\ after \in Seq(Int) /\ Len(after) = 2 /\ after[1] = -440 /\ after[2] = 15500
  OBVIOUS
<1>5. /\ data \in Seq(Int) /\ before \in Seq(Int) /\ after \in Seq(Int)
      /\ Len(data) = 2 * DataBits /\ Len(before) = 2 /\ Len(after) = 2
  BY <1>2, <1>4
<1>6. 2 * DataBits \in Nat /\ 2 * DataBits + 2 \in Nat /\ 2 + 2 * DataBits = 2 * DataBits + 2
  BY <1>1, SMT
<1> HIDE DEF data, before, after
<1> DEFINE head == before \o data
<1>7. /\ head \in Seq(Int)
      /\ Len(head) = 2 * DataBits + 2
      /\ \A i \in 1 .. 2 : head[i] = before[i]
      /\ \A i \in 1 .. 2 * DataBits : head[2 + i] = data[i]
  <2>1. before \in Seq(Int) /\ data \in Seq(Int)
    BY <1>5
  <2>2. /\ head \in Seq(Int)
        /\ Len(head) = Len(before) + Len(data)
        /\ \A i \in 1 .. Len(before) : head[i] = before[i]
        /\ \A i \in 1 .. Len(data) : head[Len(before) + i] = data[i]
    BY <2>1, Concatenation
  <2> HIDE DEF head
  <2>3. Len(before) = 2 /\ Len(data) = 2 * DataBits
    BY <1>5
  <2>4. QED
    BY <1>6, <2>2, <2>3
<1>8. CanonicalFrame(state) = head \o after
  BY <1>3
<1> HIDE DEF head
<1> DEFINE frame == CanonicalFrame(state)
<1>9. frame = head \o after
  BY <1>8
<1> HIDE DEF frame
<1>10. /\ frame \in Seq(Int)
       /\ Len(frame) = 2 * DataBits + 2 + 2
       /\ \A i \in 1 .. 2 * DataBits + 2 : frame[i] = head[i]
       /\ \A i \in 1 .. 2 : frame[2 * DataBits + 2 + i] = after[i]
  <2>1. head \in Seq(Int) /\ after \in Seq(Int)
    BY <1>5, <1>7
  <2>2. /\ head \o after \in Seq(Int)
        /\ Len(head \o after) = Len(head) + Len(after)
        /\ \A i \in 1 .. Len(head) : (head \o after)[i] = head[i]
        /\ \A i \in 1 .. Len(after) : (head \o after)[Len(head) + i] = after[i]
    BY <2>1, Concatenation
  <2>3. Len(head) = 2 * DataBits + 2 /\ Len(after) = 2
    BY <1>5, <1>7
  <2>4. QED
    BY <1>9, <2>2, <2>3
<1>11. frame[1] = -3400 /\ frame[2] = 1750
  <2>1. /\ 1 \in 1 .. 2 /\ 2 \in 1 .. 2
        /\ 1 \in 1 .. 2 * DataBits + 2 /\ 2 \in 1 .. 2 * DataBits + 2
    BY <1>1, SMT
  <2>2. frame[1] = before[1] /\ frame[2] = before[2]
    BY <1>7, <1>10, <2>1
  <2>3. QED
    BY <1>4, <2>2
<1>12. frame[2 * DataBits + 3] = -440 /\ frame[2 * DataBits + 4] = 15500
  <2>1. /\ 2 * DataBits + 2 + 1 = 2 * DataBits + 3 /\ 2 * DataBits + 2 + 2 = 2 * DataBits + 4
        /\ 1 \in 1 .. 2 /\ 2 \in 1 .. 2
    BY <1>1, SMT
  <2>2. frame[2 * DataBits + 3] = after[1] /\ frame[2 * DataBits + 4] = after[2]
    BY <1>10, <2>1
  <2>3. QED
    BY <1>4, <2>2
<1>13. ASSUME NEW b \in 0 .. DataBits - 1
       PROVE  frame[2 * b + 3] = data[2 * b + 1] /\ frame[2 * b + 4] = data[2 * b + 2]
  <2>1. /\ 2 * b + 1 \in 1 .. 2 * DataBits /\ 2 * b + 2 \in 1 .. 2 * DataBits
        /\ 2 * b + 3 \in 1 .. 2 * DataBits + 2 /\ 2 * b + 4 \in 1 .. 2 * DataBits + 2
        /\ 2 + (2 * b + 1) = 2 * b + 3 /\ 2 + (2 * b + 2) = 2 * b + 4
    BY <1>1, SMT
  <2>2. head[2 * b + 3] = data[2 * b + 1] /\ head[2 * b + 4] = data[2 * b + 2]
    BY <1>7, <2>1
  <2>3. QED
    BY <1>10, <2>1, <2>2
<1>14. \A b \in 0 .. DataBits - 1 :
         /\ frame[2 * b + 3] = -450
         /\ frame[2 * b + 4] = IF b \in state THEN 1300 ELSE 420
  BY <1>2, <1>13
<1>15. Len(frame) = RepeatPulses
  BY <1>1, <1>10, SMT
<1>16. QED
  BY <1>10, <1>11, <1>12, <1>14, <1>15 DEF frame

\* A canonical profile is the same frame twice.
LEMMA EncodedPulse ==
  ASSUME NEW state
  PROVE  LET raw == encode_mitsubishi_state(state) IN
         /\ raw \in Seq(Int)
         /\ Len(raw) = CanonicalPulses
         /\ \A i \in 1 .. RepeatPulses : /\ raw[i] = CanonicalFrame(state)[i]
                                        /\ raw[RepeatPulses + i] = CanonicalFrame(state)[i]
<1> DEFINE frame == CanonicalFrame(state)
<1>1. frame \in Seq(Int) /\ Len(frame) = RepeatPulses
  BY FramePulse
<1>2. RepeatPulses \in Nat /\ CanonicalPulses = RepeatPulses + RepeatPulses
  BY Sizes, SMT DEF CanonicalPulses, RepeatPulses, FramePulses, DataPulses
<1>3. encode_mitsubishi_state(state) = frame \o frame
  BY DEF encode_mitsubishi_state
<1> HIDE DEF frame
<1>4. QED
  <2>1. /\ encode_mitsubishi_state(state) \in Seq(Int)
        /\ Len(encode_mitsubishi_state(state)) = RepeatPulses + RepeatPulses
        /\ \A i \in 1 .. RepeatPulses : encode_mitsubishi_state(state)[i] = frame[i]
        /\ \A i \in 1 .. RepeatPulses :
             encode_mitsubishi_state(state)[RepeatPulses + i] = frame[i]
    <3>1. /\ frame \o frame \in Seq(Int)
          /\ Len(frame \o frame) = Len(frame) + Len(frame)
          /\ \A i \in 1 .. Len(frame) : (frame \o frame)[i] = frame[i]
          /\ \A i \in 1 .. Len(frame) : (frame \o frame)[Len(frame) + i] = frame[i]
      BY <1>1, Concatenation
    <3>2. QED
      BY <1>1, <1>3, <3>1
  <2>2. QED
    BY <1>2, <2>1 DEF frame

\* Where the two pulses of bit b stand in a frame of n bits that starts at start.
LEMMA BitPlaces ==
  ASSUME NEW n \in Nat, NEW frame_len, frame_len = 2 * n + 3,
         NEW start \in Nat, NEW b \in 0 .. n - 1
  PROVE  /\ 2 * b + 3 \in 1 .. frame_len /\ 2 * b + 4 \in 1 .. frame_len
         /\ start + (2 * b + 3) - 1 = start + 2 + 2 * b
         /\ start + (2 * b + 4) - 1 = start + 2 + 2 * b + 1
  BY SMT

\* Pulses that are those of a canonical frame, from start on, decode to its state.
LEMMA DecodesWhereCopied ==
  ASSUME NEW state \in States, NEW raw \in Seq(Int), NEW start \in Nat \ {0},
         start + FramePulses - 1 <= Len(raw),
         \A i \in 1 .. FramePulses : raw[start + i - 1] = CanonicalFrame(state)[i]
  PROVE  FrameAt(raw, start) /\ decode_frame(raw, start) = state
<1> DEFINE frame == CanonicalFrame(state)
<1>1. DataBits \in Nat \ {0} /\ FramePulses = 2 * DataBits + 3 /\ DataPulses = 2 * DataBits + 1
  BY Sizes, SMT DEF FramePulses, DataPulses
<1>2. /\ frame[1] = -3400 /\ frame[2] = 1750
      /\ \A b \in 0 .. DataBits - 1 :
           /\ frame[2 * b + 3] = -450
           /\ frame[2 * b + 4] = IF b \in state THEN 1300 ELSE 420
      /\ frame[2 * DataBits + 3] = -440
  BY FramePulse
<1>3. \A i \in 1 .. FramePulses : raw[start + i - 1] = frame[i]
  OBVIOUS
<1>4. Len(raw) \in Nat
  OBVIOUS
<1> HIDE DEF frame
<1>5. HeaderAt(raw, start)
  <2>1. /\ 1 \in 1 .. FramePulses /\ 2 \in 1 .. FramePulses
        /\ start + 1 - 1 = start /\ start + 2 - 1 = start + 1
    BY <1>1, SMT
  <2>2. raw[start] = -3400 /\ raw[start + 1] = 1750
    BY <1>2, <1>3, <2>1
  <2>3. -3400 \in HeaderMark /\ 1750 \in HeaderSpace
    BY SMT DEF HeaderMark, HeaderSpace
  <2>4. start >= 1 /\ start + 1 <= Len(raw)
    BY <1>1, <1>4, SMT
  <2>5. QED
    BY <2>2, <2>3, <2>4 DEF HeaderAt
<1>6. ASSUME NEW b \in 0 .. DataBits - 1
      PROVE  /\ raw[start + 2 + 2 * b] = -450
             /\ raw[start + 2 + 2 * b + 1] = IF b \in state THEN 1300 ELSE 420
  <2>1. /\ 2 * b + 3 \in 1 .. FramePulses /\ 2 * b + 4 \in 1 .. FramePulses
        /\ start + (2 * b + 3) - 1 = start + 2 + 2 * b
        /\ start + (2 * b + 4) - 1 = start + 2 + 2 * b + 1
    <3>1. start \in Nat /\ DataBits \in Nat /\ FramePulses = 2 * DataBits + 3
      BY <1>1
    <3>2. QED
      BY <3>1, BitPlaces
  <2>2. /\ raw[start + 2 + 2 * b] = frame[2 * b + 3]
        /\ raw[start + 2 + 2 * b + 1] = frame[2 * b + 4]
    BY <1>3, <2>1, Zenon
  <2>3. QED
    BY <1>2, <2>2
<1>7. raw[start + 2 + 2 * DataBits] = -440
  <2>1. 2 * DataBits + 3 \in 1 .. FramePulses
        /\ start + (2 * DataBits + 3) - 1 = start + 2 + 2 * DataBits
    BY <1>1, SMT
  <2>2. QED
    BY <1>2, <1>3, <2>1
<1>8. /\ -450 \in BitMark /\ -440 \in BitMark
      /\ 420 \in ZeroSpace /\ 1300 \in OneSpace /\ 420 \notin OneSpace
  BY SMT DEF BitMark, BIT_MARK_MIN, ZeroSpace, OneSpace
<1>9. DataAt(raw, start + 2)
  <2>1. start + 2 + 2 * DataBits <= Len(raw)
    BY <1>1, <1>4, SMT
  <2>2. \A b \in 0 .. DataBits - 1 :
          /\ raw[start + 2 + 2 * b] \in BitMark
          /\ raw[start + 2 + 2 * b + 1] \in ZeroSpace \cup OneSpace
    BY <1>6, <1>8
  <2>3. QED
    BY <1>7, <1>8, <2>1, <2>2 DEF DataAt, BitsAt
<1>10. decode_frame(raw, start) = state
  <2>1. state \subseteq 0 .. DataBits - 1
    BY DEF States, Bits
  <2>2. \A b \in 0 .. DataBits - 1 : raw[start + 2 + 2 * b + 1] \in OneSpace <=> b \in state
    BY <1>6, <1>8
  <2>3. QED
    BY <2>1, <2>2 DEF decode_frame, decode_data, OnesAt
<1>11. QED
  BY <1>5, <1>9, <1>10 DEF FrameAt

-----------------------------------------------------------------------------
\* Decoding inverts encoding, in both frames of the canonical profile: the check
\* that decode_and_normalize_mitsubishi makes of its own output never fails.
THEOREM DecodeInvertsEncode ==
  ASSUME NEW state \in States
  PROVE  LET raw == encode_mitsubishi_state(state) IN
         \A start \in {1, RepeatPulses + 1} :
           FrameAt(raw, start) /\ decode_frame(raw, start) = state
<1> DEFINE raw == encode_mitsubishi_state(state)
<1>1. /\ FramePulses \in Nat \ {0} /\ RepeatPulses = FramePulses + 1
      /\ CanonicalPulses = 2 * RepeatPulses
  BY Sizes, SMT DEF CanonicalPulses, RepeatPulses, FramePulses, DataPulses
<1>2. /\ raw \in Seq(Int) /\ Len(raw) = CanonicalPulses
      /\ \A i \in 1 .. RepeatPulses : /\ raw[i] = CanonicalFrame(state)[i]
                                     /\ raw[RepeatPulses + i] = CanonicalFrame(state)[i]
  BY EncodedPulse
<1> HIDE DEF raw
<1>3. FrameAt(raw, 1) /\ decode_frame(raw, 1) = state
  <2>1. 1 \in Nat \ {0} /\ 1 + FramePulses - 1 <= Len(raw)
    BY <1>1, <1>2, SMT
  <2>2. ASSUME NEW i \in 1 .. FramePulses
        PROVE  raw[1 + i - 1] = CanonicalFrame(state)[i]
    <3>1. i \in 1 .. RepeatPulses /\ 1 + i - 1 = i
      BY <1>1, SMT
    <3>2. QED
      BY <1>2, <3>1
  <2>3. QED
    BY <1>2, <2>1, <2>2, DecodesWhereCopied
<1>4. FrameAt(raw, RepeatPulses + 1) /\ decode_frame(raw, RepeatPulses + 1) = state
  <2>1. RepeatPulses + 1 \in Nat \ {0} /\ RepeatPulses + 1 + FramePulses - 1 <= Len(raw)
    BY <1>1, <1>2, SMT
  <2>2. ASSUME NEW i \in 1 .. FramePulses
        PROVE  raw[RepeatPulses + 1 + i - 1] = CanonicalFrame(state)[i]
    <3>1. i \in 1 .. RepeatPulses /\ RepeatPulses + 1 + i - 1 = RepeatPulses + i
      BY <1>1, SMT
    <3>2. QED
      BY <1>2, <3>1
  <2>3. QED
    BY <1>2, <2>1, <2>2, DecodesWhereCopied
<1>5. QED
  BY <1>3, <1>4 DEF raw

\* What the codec makes of a supported state goes out as one frame of the two, which
\* carries that state (send, mitsubishi_replay_pulse_count).
THEOREM OneFrameIsSent ==
  ASSUME NEW state \in States, validate_mitsubishi_state(state)
  PROVE  LET raw == encode_mitsubishi_state(state)
             tx == SubSeq(raw, 1, mitsubishi_replay_pulse_count(raw))
         IN Len(tx) = RepeatPulses /\ FrameAt(tx, 1) /\ decode_frame(tx, 1) = state
<1> DEFINE raw == encode_mitsubishi_state(state)
           tx == SubSeq(raw, 1, RepeatPulses)
<1>1. /\ FramePulses \in Nat \ {0} /\ RepeatPulses = FramePulses + 1
      /\ CanonicalPulses = 2 * RepeatPulses
  BY Sizes, SMT DEF CanonicalPulses, RepeatPulses, FramePulses, DataPulses
<1>2. /\ raw \in Seq(Int) /\ Len(raw) = CanonicalPulses
      /\ \A i \in 1 .. RepeatPulses : /\ raw[i] = CanonicalFrame(state)[i]
                                     /\ raw[RepeatPulses + i] = CanonicalFrame(state)[i]
  BY EncodedPulse
<1>3. FrameAt(raw, 1) /\ decode_frame(raw, 1) = state
  BY DecodeInvertsEncode
<1> HIDE DEF raw
<1>4. mitsubishi_replay_pulse_count(raw) = RepeatPulses
  BY <1>2, <1>3 DEF mitsubishi_replay_pulse_count
<1>5. /\ tx \in Seq(Int) /\ Len(tx) = RepeatPulses
      /\ \A i \in 1 .. RepeatPulses : tx[i] = raw[i]
  <2>1. RepeatPulses \in 1 .. Len(raw)
    BY <1>1, <1>2, SMT
  <2>2. QED
    BY <1>1, <1>2, <2>1, SMT
<1> HIDE DEF tx
<1>6. FrameAt(tx, 1) /\ decode_frame(tx, 1) = state
  <2>1. 1 \in Nat \ {0} /\ 1 + FramePulses - 1 <= Len(tx)
    BY <1>1, <1>5, SMT
  <2>2. ASSUME NEW i \in 1 .. FramePulses
        PROVE  tx[1 + i - 1] = CanonicalFrame(state)[i]
    <3>1. i \in 1 .. RepeatPulses /\ 1 + i - 1 = i
      BY <1>1, SMT
    <3>2. QED
      BY <1>2, <1>5, <3>1
  <2>3. QED
    BY <1>5, <2>1, <2>2, DecodesWhereCopied
<1>7. QED
  BY <1>4, <1>5, <1>6 DEF raw, tx

\* Wherever a frame with a header begins in a canonical profile, it carries the
\* state that was encoded: such a profile is never ambiguous.
THEOREM CanonicalIsUnambiguous ==
  ASSUME NEW state \in States, NEW start \in Nat \ {0},
         FrameAt(encode_mitsubishi_state(state), start)
  PROVE  decode_frame(encode_mitsubishi_state(state), start) = state
<1> DEFINE raw == encode_mitsubishi_state(state)
           frame == CanonicalFrame(state)
<1>1. /\ DataBits \in Nat \ {0} /\ FramePulses = 2 * DataBits + 3
      /\ RepeatPulses = 2 * DataBits + 4 /\ CanonicalPulses = 2 * RepeatPulses
  BY Sizes, SMT DEF CanonicalPulses, RepeatPulses, FramePulses, DataPulses
<1>2. /\ Len(raw) = CanonicalPulses
      /\ \A i \in 1 .. RepeatPulses : raw[i] = frame[i] /\ raw[RepeatPulses + i] = frame[i]
  BY EncodedPulse
<1>3. /\ frame[2] = 1750
      /\ \A b \in 0 .. DataBits - 1 :
           /\ frame[2 * b + 3] = -450
           /\ frame[2 * b + 4] = IF b \in state THEN 1300 ELSE 420
      /\ frame[2 * DataBits + 3] = -440 /\ frame[2 * DataBits + 4] = 15500
  BY FramePulse
<1>4. raw[start] \in HeaderMark /\ start + FramePulses - 1 <= Len(raw)
  BY DEF FrameAt, HeaderAt
<1> HIDE DEF raw, frame
<1>5. ASSUME NEW i \in 2 .. RepeatPulses  PROVE frame[i] \notin HeaderMark
  <2>1. /\ 1750 \notin HeaderMark /\ -450 \notin HeaderMark /\ 1300 \notin HeaderMark
        /\ 420 \notin HeaderMark /\ -440 \notin HeaderMark /\ 15500 \notin HeaderMark
    BY SMT DEF HeaderMark
  <2>2. CASE i = 2
    BY <1>3, <2>1, <2>2
  <2>3. CASE i \in 3 .. 2 * DataBits + 2
    <3> DEFINE b == (i - 3) \div 2
    <3>1. b \in 0 .. DataBits - 1 /\ (i = 2 * b + 3 \/ i = 2 * b + 4)
      BY <1>1, <2>3, SMT
    <3> HIDE DEF b
    <3>2. QED
      BY <1>3, <2>1, <3>1
  <2>4. CASE i = 2 * DataBits + 3
    BY <1>3, <2>1, <2>4
  <2>5. CASE i = 2 * DataBits + 4
    BY <1>3, <2>1, <2>5
  <2>6. i = 2 \/ i \in 3 .. 2 * DataBits + 2 \/ i = 2 * DataBits + 3 \/ i = 2 * DataBits + 4
    BY <1>1, SMT
  <2>7. QED
    BY <2>2, <2>3, <2>4, <2>5, <2>6
<1>6. start = 1 \/ start = RepeatPulses + 1
  <2>1. start \in 1 .. 2 * RepeatPulses
    BY <1>1, <1>2, <1>4, SMT
  <2>2. CASE start \in 2 .. RepeatPulses
    <3>1. start \in 1 .. RepeatPulses
      BY <2>2, SMT
    <3>2. QED
      BY <1>2, <1>4, <1>5, <2>2, <3>1
  <2>3. CASE start \in RepeatPulses + 2 .. 2 * RepeatPulses
    <3> DEFINE i == start - RepeatPulses
    <3>1. i \in 2 .. RepeatPulses /\ i \in 1 .. RepeatPulses /\ RepeatPulses + i = start
      BY <1>1, <2>3, SMT
    <3> HIDE DEF i
    <3>2. QED
      BY <1>2, <1>4, <1>5, <3>1
  <2>4. QED
    BY <1>1, <2>1, <2>2, <2>3, SMT
<1>7. QED
  BY <1>6, DecodeInvertsEncode DEF raw

-----------------------------------------------------------------------------
\* Where a whole frame can be read, the suffix scan does not take data that it
\* reads up to a byte too early for a frame without its first byte: the rest of
\* the signature does not fit there (SignatureAssumption).
THEOREM NoSuffixBeforeItsPlace ==
  ASSUME NEW raw \in Seq(Int), NEW start \in Nat \ {0},
         signature_matches(decode_data(raw, start)),
         NEW early \in 0 .. ByteBits - 1
  PROVE  ~signature_matches(decode_suffix(raw, start + 2 * early))
<1>1. /\ DataBits \in Nat \ {0} /\ SignatureBits \in Nat /\ ByteBits \in Nat \ {0}
      /\ ByteBits < SignatureBits /\ SignatureBits < DataBits
  BY Sizes
<1> DEFINE read == decode_suffix(raw, start + 2 * early)
           one(b) == raw[start + 2 * b + 1] \in OneSpace
<1>2. PICK b \in ByteBits .. SignatureBits - 1 :
        (b \in Signature) # (b - ByteBits + early \in Signature)
  BY SignatureAssumption
<1>3. /\ b \in Int /\ b - ByteBits + early \in 0 .. SignatureBits - 1
      /\ b - ByteBits + early \in 0 .. DataBits - 1
      /\ b \in 0 .. SignatureBits - 1
      /\ b - ByteBits \in 0 .. DataBits - ByteBits - 1
      /\ (b - ByteBits) + ByteBits = b
      /\ b \notin 0 .. ByteBits - 1
      /\ start + 2 * early + 2 * (b - ByteBits) + 1 = start + 2 * (b - ByteBits + early) + 1
  BY <1>1, SMT
<1>4. b - ByteBits + early \in Signature <=> one(b - ByteBits + early)
  BY <1>3 DEF signature_matches, decode_data, OnesAt
<1>5. b \in read <=> one(b - ByteBits + early)
  <2>1. b \notin Signature \cap 0 .. ByteBits - 1
    BY <1>3
  <2>2. \A c \in 0 .. DataBits - ByteBits - 1 : c + ByteBits = b => c = b - ByteBits
    BY <1>1, <1>3, SMT
  <2>3. b - ByteBits \in OnesAt(raw, start + 2 * early, DataBits - ByteBits)
          <=> one(b - ByteBits + early)
    BY <1>3 DEF OnesAt
  <2>4. b \in read <=> b - ByteBits \in OnesAt(raw, start + 2 * early, DataBits - ByteBits)
    <3>1. OnesAt(raw, start + 2 * early, DataBits - ByteBits) \subseteq 0 .. DataBits - ByteBits - 1
      BY DEF OnesAt
    <3>2. QED
      BY <1>3, <2>1, <2>2, <3>1 DEF decode_suffix
  <2>5. QED
    BY <2>3, <2>4
<1>6. signature_matches(read) => (b \in read <=> b \in Signature)
  BY <1>3 DEF signature_matches
<1>7. QED
  BY <1>2, <1>4, <1>5, <1>6
=============================================================================
