----------------------------- MODULE IRReception -----------------------------
(***************************************************************************)
(* What becomes of a remote's signal: the demodulating receiver disturbs   *)
(* it, ir_manager.cpp learns it through the codec, and later sends what it *)
(* has learned.  IRManager abstracts all of this to "a frame or rejected". *)
(*                                                                         *)
(* External here: the remote, which sends frames at nominal timings, and   *)
(* the receiver's noise, of the kinds that the codec's comments and tests  *)
(* describe.  The durations are theirs.                                    *)
(*                                                                         *)
(* Not modelled: how the driver packs pulses into symbols, two to a word.  *)
(* A signal is the list of signed durations that process_candidate_ makes  *)
(* of them, skipping the zero that fills the last word.  tx is the list    *)
(* that send() packs, in the receiver's signs: the receiver is active low  *)
(* and the transmitter active high, so that the code inverts each level.   *)
(***************************************************************************)
EXTENDS MitsubishiCodec

CONSTANTS Transmissions,     \* what the remote may send: sequences of states
          MaxNoise,          \* bound: disturbances of one signal
          Spots,             \* bound: the pulses that all but the first may hit
          MIN_VALID_PULSES   \* 20 in the code

ASSUME NoiseAssumption == MaxNoise \in Nat /\ Spots \subseteq Nat /\ MIN_VALID_PULSES \in Nat

\* One frame (292 pulses in the code) is long enough for send() and, whatever its bits
\* are, not too long: at 3400 us a pulse and 15500 us for the gap, within 2 s.
ASSUME FrameAssumption == RepeatPulses \in MIN_VALID_PULSES .. 580

ASSUME TransmissionAssumption == Transmissions \subseteq Seq(States) \ {<<>>}

MAX_RAW_DURATIONS == 2048

VARIABLES
  phase,      \* "air", "learned", "rejected" or "sent"
  onAir,      \* what the remote has sent
  signal,     \* the pulses the receiver makes of it
  noise,      \* the number of disturbances so far
  harm,       \* history: how many of them may cost a frame
  leaders,    \* history: whether all headers are intact
  shifted,    \* history: whether a bit was added to a frame
  capture_,   \* the profile learned
  tx          \* the pulses that go out

noiseVars == <<signal, noise, harm, leaders, shifted>>
vars == <<phase, onAir, noiseVars, capture_, tx>>

\* The gap behind the last frame does not end within the capture.
Emitted(states) == Front(FlattenSeq([k \in DOMAIN states |-> CanonicalFrame(states[k])]))

Init ==
  /\ phase = "air"
  /\ onAir \in Transmissions
  /\ signal = Emitted(onAir)
  /\ noise = 0 /\ harm = 0 /\ leaders = TRUE /\ shifted = FALSE
  /\ capture_ = <<>> /\ tx = <<>>

-----------------------------------------------------------------------------
(* The receiver. *)

\* The pulse at i may be disturbed.
Hits(i) == phase = "air" /\ noise < MaxNoise /\ (noise > 0 => i \in Spots)

\* The pulse at i is received as these pulses.
Becomes(i, pulses) == /\ Hits(i)
                      /\ signal' = ReplaceSubSeqAt(i, pulses, <<signal[i]>>, signal)
                      /\ noise' = noise + 1
                      /\ UNCHANGED <<phase, onAir, capture_, tx>>

Harmless == UNCHANGED <<harm, leaders, shifted>>
Harmful == harm' = harm + 1 /\ UNCHANGED <<leaders, shifted>>

\* A short space splits a mark in two.
SplitMark(i) ==
  /\ signal[i] < -400
  /\ \/ Becomes(i, <<-68, 154, signal[i] + 222>>)
     \/ Becomes(i, <<signal[i] + 222, 154, -68>>)
  /\ Harmless

\* A data mark is received short, yet not too short.  The code trims it all the
\* same when nothing but short pulses follows, and the footer is gone.
WeakenMark(i) ==
  /\ signal[i] \in BitMark
  /\ Becomes(i, <<-119>>)
  /\ IF \E later \in i + 1 .. Len(signal) : duration_abs(signal[later]) > GLITCH_MAX
     THEN Harmless ELSE Harmful

\* A very short mark in the midst of a long space.
Spike(i) == signal[i] >= 1300 /\ Becomes(i, <<signal[i] \div 2, -60, signal[i] \div 2>>) /\ Harmless

\* Short pulses before and after.
EdgeGlitch ==
  /\ \/ Becomes(1, <<90, signal[1]>>)
     \/ Becomes(Len(signal), <<signal[Len(signal)], 90>>)
  /\ Harmless

\* The header of a frame is received out of its limits.
DamageLeader(i) ==
  /\ \/ signal[i] = -3400 /\ Becomes(i, <<-1800>>)
     \/ signal[i] = 1750 /\ Becomes(i, <<800>>)
  /\ leaders' = FALSE
  /\ UNCHANGED <<harm, shifted>>

\* A data mark is lost.
LoseMark(i) == signal[i] \in BitMark /\ Becomes(i, <<-60>>) /\ Harmful

\* A bit is received as the other.
FlipBit(i) == /\ signal[i] \in {420, 1300}
              /\ Becomes(i, <<1720 - signal[i]>>)
              /\ Harmful

\* A mark long enough for a bit appears in a long space.  The one bit it was may
\* become two zero bits; the code does not mind a frame with a bit too many.
InsertMark(i) == /\ signal[i] \in {1300, 15500}
                 /\ Becomes(i, <<signal[i] \div 2, -150, signal[i] \div 2>>)
                 /\ harm' = harm + 1
                 /\ shifted' = TRUE
                 /\ UNCHANGED leaders

\* The receiver misses the beginning, up to the first frame.
LoseStart(i) == /\ Hits(i)
                /\ i <= RepeatPulses /\ i < Len(signal)
                /\ signal' = SubSeq(signal, i + 1, Len(signal))
                /\ noise' = noise + 1
                /\ Harmful
                /\ UNCHANGED <<phase, onAir, capture_, tx>>

Receiver == \/ \E i \in DOMAIN signal :
                 \/ SplitMark(i) \/ WeakenMark(i) \/ Spike(i) \/ DamageLeader(i)
                 \/ LoseMark(i) \/ FlipBit(i) \/ InsertMark(i) \/ LoseStart(i)
            \/ EdgeGlitch

-----------------------------------------------------------------------------
(* ir_manager.cpp. *)

Duration(pulses) == FoldLeft(LAMBDA total, pulse : total + duration_abs(pulse), 0, pulses)

\* Enough pulses, and a plausible duration altogether.
Plausible(pulses) == /\ Len(pulses) >= MIN_VALID_PULSES
                     /\ Duration(pulses) >= 10000 /\ Duration(pulses) <= 2000000

\* process_candidate_(): the profile is what the codec makes of the signal.
process_candidate_ ==
  /\ phase = "air"
  /\ LET decoded == decode_and_normalize_mitsubishi(signal)
     IN \/ /\ Plausible(signal) /\ decoded.ok
           /\ capture_' = decoded.raw
           /\ phase' = "learned"
        \/ /\ ~(Plausible(signal) /\ decoded.ok)
           /\ phase' = "rejected"
           /\ UNCHANGED capture_
  /\ UNCHANGED <<onAir, noiseVars, tx>>

\* What goes out of a profile.
Outgoing(profile) == SubSeq(profile, 1, mitsubishi_replay_pulse_count(profile))

\* send() and prepare_tx_symbols_(): a profile that passes their checks.
Sendable(profile) ==
  LET pulses == Outgoing(profile)
  IN /\ Len(profile) <= MAX_RAW_DURATIONS
     /\ Plausible(pulses)
     /\ \A i \in DOMAIN pulses : duration_abs(pulses[i]) >= 1 /\ duration_abs(pulses[i]) <= 32767

send ==
  /\ phase = "learned"
  /\ Sendable(capture_)
  /\ tx' = Outgoing(capture_)
  /\ phase' = "sent"
  /\ UNCHANGED <<onAir, noiseVars, capture_>>

\* The remote is used again.
AnotherSignal ==
  /\ phase \in {"rejected", "sent"}
  /\ phase' = "air"
  /\ onAir' \in Transmissions
  /\ signal' = Emitted(onAir')
  /\ noise' = 0 /\ harm' = 0 /\ leaders' = TRUE /\ shifted' = FALSE
  /\ capture_' = <<>> /\ tx' = <<>>

Next == Receiver \/ process_candidate_ \/ send \/ AnotherSignal

Spec == Init /\ [][Next]_vars

-----------------------------------------------------------------------------
\* The signal is of supported states, and of one only.
Supported == \A k \in DOMAIN onAir : validate_mitsubishi_state(onAir[k])
OneState == Supported /\ \A k \in DOMAIN onAir : onAir[k] = onAir[1]

\* What the sums can be expected to notice: one disturbance that does harm, of
\* supported states; and an added bit when a second frame with its header contradicts
\* it, for the sum alone misses one shifted frame in 2 ^ ByteBits.  The first signature byte of
\* another remote's frame is not looked at when the rest fits, so that one flipped
\* bit of its sum may make it a supported one.
Detectable == /\ harm < IF Supported THEN 2 ELSE 1
              /\ shifted => OneState /\ leaders /\ harm < Len(onAir)

\* What is learned from a signal is a state that the remote sent, and no other
\* (decode_and_normalize): no frame is put together of parts of two, no disturbed
\* bit gets past the checksum, no other signature is accepted.
LearnsOnlyWhatWasSent ==
  phase = "learned" /\ Detectable =>
    \E k \in DOMAIN onAir : /\ validate_mitsubishi_state(onAir[k])
                           /\ capture_ = encode_mitsubishi_state(onAir[k])

\* Interference of the kinds that sanitize_glitches and the recovery scans are for
\* costs nothing: a supported state is learned as long as one of its frames is free
\* of harm.
SurvivesInterference ==
  phase = "rejected" /\ OneState => harm >= Len(onAir) \/ shifted

\* Two different states within one capture are ambiguous and refused, as long as
\* both frames have their headers and their bits.
AmbiguousIsRefused ==
  phase = "learned" /\ leaders /\ harm = 0 => \A j, k \in DOMAIN onAir : onAir[j] = onAir[k]

\* Whatever is received, the capture is the codec's own encoding of a supported state
\* and not the pulses as they came (decode_and_normalize_mitsubishi).
CaptureIsCanonical ==
  phase \in {"learned", "sent"} =>
    LET state == decode_frame(capture_, 1)
    IN validate_mitsubishi_state(state) /\ capture_ = encode_mitsubishi_state(state)

\* What is learned goes out as one frame that carries the state learned: the indoor
\* unit acts on it once (mitsubishi_replay_pulse_count).  That it can be sent is what
\* the absence of deadlock shows, for a capture is left only by sending it.
SendsOneFrame ==
  phase = "sent" => /\ Len(tx) = RepeatPulses /\ FrameAt(tx, 1)
                    /\ encode_mitsubishi_state(decode_frame(tx, 1)) = capture_

\* What is learned passes the checks of send() and prepare_tx_symbols_(): no profile
\* is saved that every later press of its button would refuse.
LearnedCanBeSent == phase = "learned" => Sendable(capture_)

\* The pulse q is read as the pulse p that was sent, whatever becomes of a header; ...
ReadsAs(p, q) == \/ p = -3400 /\ q < 0 /\ q \notin BitMark
                 \/ p = 1750 /\ q > 0
                 \/ p \in {-450, -440} /\ q \in BitMark
                 \/ p = 420 /\ q \in ZeroSpace
                 \/ p = 1300 /\ q \in OneSpace
                 \/ p = 15500 /\ q > 0 /\ q \notin ZeroSpace \cup OneSpace

\* ... or as the other bit.
ReadsOtherBit(p, q) == \/ p = 420 /\ q \in OneSpace
                       \/ p = 1300 /\ q \in ZeroSpace

\* These pulses can be read as the states sent, but for those lost at the beginning
\* and one bit at most.
Legible(states, raw, lost) ==
  LET sent == Emitted(states)
  IN /\ Len(raw) = Len(sent) - lost
     /\ \A i \in DOMAIN raw : \/ ReadsAs(sent[lost + i], raw[i])
                             \/ ReadsOtherBit(sent[lost + i], raw[i])
     /\ \A i, j \in DOMAIN raw : /\ ReadsOtherBit(sent[lost + i], raw[i])
                                /\ ReadsOtherBit(sent[lost + j], raw[j]) => i = j

\* Where frame k begins, and that all of its data is there.
Place(k, lost) == (k - 1) * RepeatPulses + 1 - lost
Whole(states, raw, lost, k) ==
  /\ Place(k, lost) >= 1
  /\ \A i \in Place(k, lost) + 2 .. Place(k, lost) + FramePulses - 1 :
       ReadsAs(Emitted(states)[lost + i], raw[i])

\* As long as the repair leaves pulses within the decoder's limits, every frame counts
\* for what it is: a state that was not sent is not learned, not even by a late start
\* or a flipped bit; one whole frame is enough; and two whole frames with different
\* states are refused (decode_and_normalize_mitsubishi).
LegibleIsLearned ==
  phase \in {"learned", "rejected"} /\ Supported =>
    LET raw == sanitize_glitches(signal)
    IN \A lost \in 0 .. RepeatPulses :
         LET whole == {k \in DOMAIN onAir : Whole(onAir, raw, lost, k)}
             headed == {k \in whole : HeaderAt(raw, Place(k, lost))}
         IN Legible(onAir, raw, lost) =>
              /\ phase = "learned" =>
                   /\ \E k \in DOMAIN onAir : capture_ = encode_mitsubishi_state(onAir[k])
                   /\ \A j, k \in headed : onAir[j] = onAir[k]
              /\ phase = "rejected" /\ OneState /\ Plausible(signal) => whole = {}

\* A signal that arrives as it was sent is learned, unless its states differ or it is
\* too short or too long (process_candidate_).
UndisturbedIsLearned ==
  noise = 0 /\ Supported =>
    /\ phase = "learned" => OneState /\ capture_ = encode_mitsubishi_state(onAir[1])
    /\ phase = "rejected" /\ Plausible(signal) => ~OneState

\* The inductive invariant behind CaptureIsCanonical and SendsOneFrame.
ReceptionInv ==
  /\ phase \in {"air", "learned", "rejected", "sent"}
  /\ CaptureIsCanonical
  /\ SendsOneFrame

\* The inductive invariant behind LegibleIsLearned and UndisturbedIsLearned: the signal is
\* still the one that was judged, and was sent as it is unless it was disturbed.
VerdictInv ==
  /\ onAir \in Transmissions
  /\ signal \in Seq(Int) \ {<<>>}
  /\ noise \in Nat
  /\ noise = 0 => signal = Emitted(onAir)
  /\ phase = "learned" => /\ decode_and_normalize_mitsubishi(signal).ok
                         /\ capture_ = decode_and_normalize_mitsubishi(signal).raw
  /\ phase = "rejected" =>
       ~(Plausible(signal) /\ decode_and_normalize_mitsubishi(signal).ok)
=============================================================================
