--------------------------- MODULE MitsubishiFrame ---------------------------
(***************************************************************************)
(* mitsubishi_codec.cpp: the frame of a Mitsubishi air-conditioner remote, *)
(* as the state it carries and as the pulses that carry it.                *)
(*                                                                         *)
(* A state is the set of its one bits; bit b is bit b % ByteBits of byte   *)
(* b \div ByteBits, and bits are sent in that order.  Pulses are durations *)
(* in microseconds, negative for a mark and positive for a space.  Indices *)
(* into pulses begin with 1 (with 0 in the code).                          *)
(***************************************************************************)
EXTENDS Integers, Sequences, FiniteSetsExt

CONSTANTS StateBytes,      \* 18 in the code
          ByteBits,        \* 8 in the code
          SignatureBytes,  \* 5 in the code
          Signature        \* the one bits of 23 CB 26 01 01

DataBits == StateBytes * ByteBits
SignatureBits == SignatureBytes * ByteBits
DataPulses == 2 * DataBits + 1
FramePulses == DataPulses + 2
RepeatPulses == FramePulses + 1
CanonicalPulses == 2 * RepeatPulses

Bits == 0 .. DataBits - 1
States == SUBSET Bits

ASSUME SizeAssumption == /\ ByteBits \in Nat \ {0}
                         /\ SignatureBytes \in Nat \ {0, 1}
                         /\ StateBytes \in Nat
                         /\ StateBytes > SignatureBytes
                         /\ Signature \subseteq 0 .. SignatureBits - 1

\* Where a frame's data is read from the wrong bit, at most one byte early, two bits
\* of the signature at least are not what the rest of the signature needs there.
ASSUME SignatureAssumption ==
  \A early \in 0 .. ByteBits - 1 :
    \E a, b \in ByteBits .. SignatureBits - 1 :
      /\ a # b
      /\ (a \in Signature) # (a - ByteBits + early \in Signature)
      /\ (b \in Signature) # (b - ByteBits + early \in Signature)

-----------------------------------------------------------------------------
(* States. *)

Weight(bits) == MapThenSumSet(LAMBDA b : 2 ^ (b % ByteBits), bits)

LastByte == DataBits - ByteBits .. DataBits - 1

\* The last byte is the sum of the others, in a byte's width.
checksum_matches(state) ==
  Weight(state \cap LastByte) = Weight(state \ LastByte) % 2 ^ ByteBits

signature_matches(state) == state \cap 0 .. SignatureBits - 1 = Signature

\* Variant: the signature is left to the checksum.
validate_mitsubishi_state_SumOnly(state) == checksum_matches(state)

\* Variant: the checksum is not looked at.
validate_mitsubishi_state_SignatureOnly(state) == signature_matches(state)

validate_mitsubishi_state(state) == signature_matches(state) /\ checksum_matches(state)

-----------------------------------------------------------------------------
(* Pulses. *)

BIT_MARK_MIN == 100
HeaderMark == -4800 .. -2400
HeaderSpace == 1000 .. 2600
BitMark == -750 .. -BIT_MARK_MIN
ZeroSpace == 250 .. 750
OneSpace == 850 .. 1900

HeaderAt(raw, start) ==
  /\ start >= 1 /\ start + 1 <= Len(raw)
  /\ raw[start] \in HeaderMark
  /\ raw[start + 1] \in HeaderSpace

\* count bits and a footer mark begin at start.
BitsAt(raw, start, count) ==
  /\ start + 2 * count <= Len(raw)
  /\ \A b \in 0 .. count - 1 : /\ raw[start + 2 * b] \in BitMark
                               /\ raw[start + 2 * b + 1] \in ZeroSpace \cup OneSpace
  /\ raw[start + 2 * count] \in BitMark

OnesAt(raw, start, count) == {b \in 0 .. count - 1 : raw[start + 2 * b + 1] \in OneSpace}

\* decode_data: whether it succeeds, and the state it then returns.
DataAt(raw, start) == BitsAt(raw, start, DataBits)
decode_data(raw, start) == OnesAt(raw, start, DataBits)

\* decode_frame likewise.
FrameAt(raw, start) == /\ start + FramePulses - 1 <= Len(raw)
                       /\ HeaderAt(raw, start)
                       /\ DataAt(raw, start + 2)
decode_frame(raw, start) == decode_data(raw, start + 2)

\* decode_suffix_without_first_signature_byte likewise.
SuffixAt(raw, start) == BitsAt(raw, start, DataBits - ByteBits)
decode_suffix(raw, start) ==
  (Signature \cap 0 .. ByteBits - 1)
    \cup {b + ByteBits : b \in OnesAt(raw, start, DataBits - ByteBits)}

-----------------------------------------------------------------------------
(* The canonical encoding: two frames at nominal timings.  The code encodes valid *)
(* states only, which its callers have checked.                                  *)

CanonicalData(state) ==
  [i \in 1 .. 2 * DataBits |-> IF i % 2 = 1 THEN -450
                               ELSE IF (i \div 2) - 1 \in state THEN 1300 ELSE 420]

\* Variant: a gap that is longer than a channel can send in one go.
CanonicalFrame_LongGap(state) == <<-3400, 1750>> \o CanonicalData(state) \o <<-440, 40000>>

CanonicalFrame(state) == <<-3400, 1750>> \o CanonicalData(state) \o <<-440, 15500>>

encode_mitsubishi_state(state) == CanonicalFrame(state) \o CanonicalFrame(state)

\* Variant: a dual-frame profile is sent as it is stored.
mitsubishi_replay_pulse_count_Whole(raw) == Len(raw)

\* How much of a profile is sent: half of two identical valid frames.  The two
\* halves are equal, so that decoding the second adds nothing.
mitsubishi_replay_pulse_count(raw) ==
  IF /\ Len(raw) = CanonicalPulses
     /\ \A i \in 1 .. RepeatPulses : raw[i] = raw[RepeatPulses + i]
     /\ FrameAt(raw, 1)
     /\ validate_mitsubishi_state(decode_frame(raw, 1))
  THEN RepeatPulses
  ELSE Len(raw)
=============================================================================
