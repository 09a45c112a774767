------------------------- MODULE IRReception_proofs -------------------------
(***************************************************************************)
(* What the codec guarantees of every signal, however it was disturbed: the *)
(* capture is an encoding of a supported state, and one frame of it is sent *)
(* and fits the transmitter; and of every signal that stayed legible, or    *)
(* was not disturbed at all: it is learned.                                 *)
(***************************************************************************)
EXTENDS IRReception, MitsubishiCodec_proofs

\* Whatever the pulses, what a scan finds is a state.
LEMMA ScansFindStates ==
  ASSUME NEW raw, NEW start
  PROVE  /\ decode_frame(raw, start) \in States
         /\ decode_data(raw, start) \in States
         /\ decode_suffix(raw, start) \in States
<1>1. /\ DataBits \in Nat /\ SignatureBits \in Nat /\ ByteBits \in Nat
      /\ ByteBits < SignatureBits /\ SignatureBits < DataBits
  BY Sizes, SizeAssumption
<1>2. \A from : OnesAt(raw, from, DataBits) \in States
  BY DEF OnesAt, States, Bits
<1>3. OnesAt(raw, start, DataBits - ByteBits) \subseteq 0 .. DataBits - ByteBits - 1
  BY DEF OnesAt
<1>4. {b + ByteBits : b \in OnesAt(raw, start, DataBits - ByteBits)} \in States
  BY <1>1, <1>3 DEF States, Bits
<1>5. Signature \cap 0 .. ByteBits - 1 \in States
  BY <1>1 DEF States, Bits
<1>6. QED
  BY <1>2, <1>4, <1>5 DEF decode_frame, decode_data, decode_suffix, States

\* What the scans choose from are supported states.
LEMMA DecodedAreSupported ==
  ASSUME NEW raw, NEW state \in DecodedStates(raw)
  PROVE  state \in States /\ validate_mitsubishi_state(state)
<1> DEFINE cleaned == sanitize_glitches(raw)
<1>1. state \in HeaderFrames(cleaned) \cup HeaderlessFrames(cleaned) \cup SuffixFrames(cleaned)
  BY DEF DecodedStates
<1> HIDE DEF cleaned
<1>2. CASE state \in HeaderFrames(cleaned)
  BY <1>2, ScansFindStates DEF HeaderFrames
<1>3. CASE state \in HeaderlessFrames(cleaned)
  BY <1>3, ScansFindStates DEF HeaderlessFrames
<1>4. CASE state \in SuffixFrames(cleaned)
  BY <1>4, ScansFindStates DEF SuffixFrames
<1>5. QED
  BY <1>1, <1>2, <1>3, <1>4

\* A capture that is accepted has become the encoding of a supported state.
LEMMA AcceptedIsCanonical ==
  ASSUME NEW raw, decode_and_normalize_mitsubishi(raw).ok
  PROVE  \E state \in States :
           /\ validate_mitsubishi_state(state)
           /\ decode_and_normalize_mitsubishi(raw).raw = encode_mitsubishi_state(state)
<1> DEFINE frames == DecodedStates(raw)
           state == CHOOSE s \in frames : TRUE
<1>1. Accepted(frames)
  BY DEF decode_and_normalize_mitsubishi
<1>2. decode_and_normalize_mitsubishi(raw).raw = encode_mitsubishi_state(state)
  BY DEF decode_and_normalize_mitsubishi
<1>3. frames # {}
  BY <1>1, FS_EmptySet DEF Accepted
<1>4. state \in frames
  BY <1>3
<1>5. QED
  BY <1>2, <1>4, DecodedAreSupported

\* A disturbance happens while the signal is on the air, and leaves it there.
LEMMA DisturbedInAir == Receiver => phase = "air" /\ phase' = phase
<1>1. \A i, pulses : Becomes(i, pulses) => phase = "air" /\ phase' = phase
  BY DEF Becomes, Hits
<1>2. \A i : LoseStart(i) => phase = "air" /\ phase' = phase
  BY DEF LoseStart, Hits
<1>3. EdgeGlitch => phase = "air" /\ phase' = phase
  BY <1>1 DEF EdgeGlitch
<1>4. ASSUME NEW i,
             \/ SplitMark(i) \/ WeakenMark(i) \/ Spike(i) \/ DamageLeader(i)
             \/ LoseMark(i) \/ FlipBit(i) \/ InsertMark(i)
      PROVE  phase = "air" /\ phase' = phase
  <2>1. CASE SplitMark(i)
    BY <1>1, <2>1 DEF SplitMark
  <2>2. CASE WeakenMark(i)
    BY <1>1, <2>2 DEF WeakenMark
  <2>3. CASE Spike(i)
    BY <1>1, <2>3 DEF Spike
  <2>4. CASE DamageLeader(i)
    BY <1>1, <2>4 DEF DamageLeader
  <2>5. CASE LoseMark(i)
    BY <1>1, <2>5 DEF LoseMark
  <2>6. CASE FlipBit(i)
    BY <1>1, <2>6 DEF FlipBit
  <2>7. CASE InsertMark(i)
    BY <1>1, <2>7 DEF InsertMark
  <2>8. QED
    BY <1>4, <2>1, <2>2, <2>3, <2>4, <2>5, <2>6, <2>7
<1>5. QED
  BY <1>2, <1>3, <1>4 DEF Receiver

\* Every step keeps the invariant, whatever the receiver does to the pulses.
LEMMA ReceptionStep == ReceptionInv /\ [Next]_vars => ReceptionInv'
<1> SUFFICES ASSUME ReceptionInv, [Next]_vars PROVE ReceptionInv'
  OBVIOUS
<1> USE DEF ReceptionInv, CaptureIsCanonical, SendsOneFrame
<1>1. CASE Receiver
  <2>1. phase = "air" /\ phase' = phase
    BY <1>1, DisturbedInAir
  <2>2. QED
    BY <2>1
<1>2. CASE process_candidate_
  <2>1. CASE phase' = "rejected"
    BY <2>1
  <2>2. CASE /\ decode_and_normalize_mitsubishi(signal).ok
             /\ capture_' = decode_and_normalize_mitsubishi(signal).raw
             /\ phase' = "learned"
    <3>1. PICK state \in States : /\ validate_mitsubishi_state(state)
                                  /\ capture_' = encode_mitsubishi_state(state)
      BY <2>2, AcceptedIsCanonical
    <3>2. decode_frame(capture_', 1) = state
      BY <3>1, DecodeInvertsEncode
    <3>3. QED
      BY <2>2, <3>1, <3>2
  <2>3. QED
    BY <1>2, <2>1, <2>2 DEF process_candidate_
<1>3. CASE send
  <2>1. phase = "learned" /\ phase' = "sent" /\ capture_' = capture_
    BY <1>3 DEF send
  <2>2. tx' = SubSeq(capture_, 1, mitsubishi_replay_pulse_count(capture_))
    BY <1>3 DEF send, Outgoing
  <2>3. PICK state : /\ state = decode_frame(capture_, 1) /\ state \in States
                     /\ validate_mitsubishi_state(state)
                     /\ capture_ = encode_mitsubishi_state(state)
    BY <2>1, ScansFindStates
  <2>4. Len(tx') = RepeatPulses /\ FrameAt(tx', 1) /\ decode_frame(tx', 1) = state
    BY <2>2, <2>3, OneFrameIsSent
  <2>5. QED
    BY <2>1, <2>3, <2>4
<1>4. CASE AnotherSignal
  BY <1>4 DEF AnotherSignal
<1>5. CASE UNCHANGED vars
  BY <1>5 DEF vars
<1>6. QED
  BY <1>1, <1>2, <1>3, <1>4, <1>5 DEF Next

\* Whatever a remote sends and the receiver makes of it, with any number of
\* disturbances and repeated for ever: what is learned is supported and what is sent
\* is one frame of it.
THEOREM ReceptionInvariant == Spec => []ReceptionInv
<1>1. Init => ReceptionInv
  BY DEF Init, ReceptionInv, CaptureIsCanonical, SendsOneFrame
<1>2. QED
  BY <1>1, ReceptionStep, PTL DEF Spec

\* No pulse of the receiver's gets into a profile: each one is an encoding.
THEOREM AlwaysCanonical == Spec => []CaptureIsCanonical
<1>1. ReceptionInv => CaptureIsCanonical
  BY DEF ReceptionInv
<1>2. QED
  BY <1>1, ReceptionInvariant, PTL

\* What goes out is one frame, and it carries the state that was learned.
THEOREM AlwaysOneFrame == Spec => []SendsOneFrame
<1>1. ReceptionInv => SendsOneFrame
  BY DEF ReceptionInv
<1>2. QED
  BY <1>1, ReceptionInvariant, PTL

-----------------------------------------------------------------------------
(* The pulses of a transmission. *)

\* FlattenSeq puts one sequence after the other.
LEMMA FlattenSteps ==
  ASSUME NEW n \in Nat \ {0}, NEW seqs, Len(seqs) = n,
         \A i \in 1 .. n : seqs[i] \in Seq(Int)
  PROVE  \E flat : /\ flat[1] = seqs[1]
                   /\ \A i \in 2 .. n : flat[i] = flat[i - 1] \o seqs[i]
                   /\ flat[n] = FlattenSeq(seqs)
<1> DEFINE S == 1 .. n
           pick == [s \in SUBSET S |-> Max(s)]
           step == [at \in S \X Seq(Int) |-> at[2] \o seqs[at[1]]]
           body(f, i) == IF i = 1 THEN seqs[i] ELSE f[i - 1] \o seqs[i]
           flatten == CHOOSE f : f = [i \in S |-> body(f, i)]
<1>1. FlattenSeq(seqs) = flatten[n]
  BY DEF FlattenSeq
<1>2. PICK f \in [SUBSET S -> Seq(Int)] : IsFold(f, S, <<>>, pick, step)
  <2>1. \A s \in SUBSET S : s # {} => pick[s] \in s
    BY MaxOfSome
  <2>2. \A x \in S, out \in Seq(Int) : step[<<x, out>>] \in Seq(Int)
    <3> SUFFICES ASSUME NEW x \in S, NEW out \in Seq(Int) PROVE step[<<x, out>>] \in Seq(Int)
      OBVIOUS
    <3>1. step[<<x, out>>] = out \o seqs[x] /\ seqs[x] \in Seq(Int)
      OBVIOUS
    <3> HIDE DEF step
    <3>2. QED
      BY <3>1, Concatenation
  <2>3. <<>> \in Seq(Int) /\ IsFiniteSet(S)
    BY FS_Interval
  <2> HIDE DEF S, pick, step
  <2>4. QED
    BY <2>1, <2>2, <2>3, FoldExists
<1> DEFINE flat == [i \in S |-> f[1 .. i]]
<1>3. ASSUME NEW i \in S PROVE f[1 .. i] = f[1 .. (i - 1)] \o seqs[i]
  <2>1. 1 .. i \in SUBSET S /\ 1 .. i # {} /\ Max(1 .. i) = i
    <3>1. i \in Nat \ {0} /\ i \in 1 .. i
      OBVIOUS
    <3>2. Max(1 .. i) = i
      BY <3>1, MaxOfIndices
    <3>3. 1 .. i \in SUBSET S
      OBVIOUS
    <3>4. QED
      BY <3>1, <3>2, <3>3
  <2>2. 1 .. (i - 1) \in SUBSET S /\ (1 .. i) \ {i} = 1 .. (i - 1)
    OBVIOUS
  <2>3. f[1 .. (i - 1)] \in Seq(Int)
    BY <2>2
  <2>4. pick[1 .. i] = i
    BY <2>1
  <2>5. step[<<i, f[1 .. (i - 1)]>>] = f[1 .. (i - 1)] \o seqs[i]
    BY <2>3
  <2>6. f[1 .. i] = step[<<pick[1 .. i], f[(1 .. i) \ {pick[1 .. i]}]>>]
    <3> HIDE DEF S, pick, step
    <3>1. QED
      BY <1>2, <2>1 DEF IsFold
  <2>7. QED
    <3> HIDE DEF pick, step
    <3>1. QED
      BY <2>2, <2>4, <2>5, <2>6
<1>4. f[{}] = <<>>
  BY <1>2 DEF IsFold
<1>5. ASSUME NEW i \in S PROVE flat[i] = body(flat, i)
  <2>1. CASE i = 1
    <3>1. 1 .. 0 = {} /\ i - 1 = 0 /\ seqs[i] \in Seq(Int)
      BY <2>1
    <3>2. <<>> \o seqs[i] = seqs[i]
      BY <3>1, ConcatEmptySeq
    <3>3. QED
      BY <1>3, <1>4, <2>1, <3>1, <3>2
  <2>2. CASE i # 1
    <3>1. i - 1 \in S
      BY <2>2
    <3>2. QED
      BY <1>3, <2>2, <3>1
  <2>3. QED
    BY <2>1, <2>2
<1>6. flat = [i \in S |-> body(flat, i)]
  <2>1. flat = [i \in S |-> flat[i]]
    OBVIOUS
  <2> HIDE DEF S, body, flat
  <2>2. QED
    BY <1>5, <2>1
<1>7. flatten = [i \in S |-> body(flatten, i)]
  <2> HIDE DEF S, body, flat
  <2>1. QED
    BY <1>6
<1>8. \A i \in S : flatten[i] = body(flatten, i)
  <2> HIDE DEF S, body, flatten
  <2>1. QED
    BY <1>7
<1>9. /\ flatten[1] = seqs[1]
      /\ \A i \in 2 .. n : flatten[i] = flatten[i - 1] \o seqs[i]
  <2>1. 1 \in S /\ \A i \in 2 .. n : i \in S /\ i # 1
    OBVIOUS
  <2> HIDE DEF S, flatten
  <2>2. QED
    BY <1>8, <2>1
<1>10. QED
  <2> HIDE DEF flatten
  <2>1. QED
    BY <1>1, <1>9

\* Where frame k's pulses follow, in a transmission without a beginning lost.
Before(k) == (k - 1) * RepeatPulses

\* Frames stand one after the other.
LEMMA Places ==
  /\ RepeatPulses \in Nat \ {0} /\ RepeatPulses = 2 * DataBits + 4
  /\ FramePulses = 2 * DataBits + 3
  /\ Before(1) = 0
  /\ \A k \in Nat : Before(k + 1) = k * RepeatPulses /\ k * RepeatPulses \in Nat
  /\ \A k \in Nat \ {0} : /\ Before(k) \in Nat
                          /\ Before(k + 1) = Before(k) + RepeatPulses
                          /\ \A j \in 1 .. k : Before(j) <= Before(k)
                          /\ \A j \in 1 .. k - 1 : Before(j) + RepeatPulses <= Before(k)
<1>1. /\ RepeatPulses \in Nat \ {0} /\ RepeatPulses = 2 * DataBits + 4
      /\ FramePulses = 2 * DataBits + 3
  BY Sizes DEF RepeatPulses, FramePulses, DataPulses
<1>2. ASSUME NEW k \in Nat
      PROVE  Before(k + 1) = k * RepeatPulses /\ k * RepeatPulses \in Nat
  <2>1. (k + 1) - 1 = k
    OBVIOUS
  <2>2. QED
    BY <1>1, <2>1, SMT DEF Before
<1>3. Before(1) = 0
  <2>1. 0 + 1 = 1 /\ 0 * RepeatPulses = 0
    BY <1>1, SMT
  <2>2. QED
    BY <1>2, <2>1
<1>4. ASSUME NEW k \in Nat \ {0}, NEW j \in 1 .. k
      PROVE  \E d \in Nat : /\ Before(k) = Before(j) + d * RepeatPulses
                            /\ Before(j) \in Nat /\ d * RepeatPulses \in Nat
                            /\ d = k - j /\ (d >= 1 => d * RepeatPulses >= RepeatPulses)
  <2>1. PICK d \in Nat : k = j + d
    <3>1. k - j \in Nat /\ k = j + (k - j)
      OBVIOUS
    <3>2. QED
      BY <3>1
  <2>2. PICK i \in Nat : j = i + 1
    <3>1. j - 1 \in Nat /\ j = (j - 1) + 1
      OBVIOUS
    <3>2. QED
      BY <3>1
  <2>3. k = (i + d) + 1 /\ i + d \in Nat
    BY <2>1, <2>2
  <2>4. Before(k) = (i + d) * RepeatPulses /\ Before(j) = i * RepeatPulses
    BY <1>2, <2>2, <2>3
  <2>5. /\ (i + d) * RepeatPulses = i * RepeatPulses + d * RepeatPulses
        /\ d >= 1 => d * RepeatPulses >= RepeatPulses
    BY <1>1, SMT
  <2>6. QED
    BY <1>2, <2>1, <2>4, <2>5
<1>5. ASSUME NEW k \in Nat \ {0}
      PROVE  /\ Before(k) \in Nat
             /\ Before(k + 1) = Before(k) + RepeatPulses
             /\ \A j \in 1 .. k : Before(j) <= Before(k)
             /\ \A j \in 1 .. k - 1 : Before(j) + RepeatPulses <= Before(k)
  <2>1. Before(k) \in Nat
    BY <1>4
  <2>2. Before(k + 1) = Before(k) + RepeatPulses
    <3>1. Before(k + 1) = k * RepeatPulses /\ Before(k) = (k - 1) * RepeatPulses
      BY <1>2 DEF Before
    <3>2. k * RepeatPulses = (k - 1) * RepeatPulses + RepeatPulses
      BY <1>1, SMT
    <3>3. QED
      BY <3>1, <3>2
  <2>3. ASSUME NEW j \in 1 .. k
        PROVE  Before(j) <= Before(k) /\ (j # k => Before(j) + RepeatPulses <= Before(k))
    <3>1. PICK d \in Nat : /\ Before(k) = Before(j) + d * RepeatPulses
                           /\ Before(j) \in Nat /\ d * RepeatPulses \in Nat
                           /\ d = k - j /\ (d >= 1 => d * RepeatPulses >= RepeatPulses)
      BY <1>4
    <3>2. j # k => d >= 1
      BY <3>1
    <3>3. QED
      BY <1>1, <3>1, <3>2
  <2>4. QED
    BY <2>1, <2>2, <2>3
<1>6. QED
  BY <1>1, <1>2, <1>3, <1>5

\* The transmission is the frames' pulses but for the last gap.
LEMMA EmittedPulse ==
  ASSUME NEW states \in Seq(States) \ {<<>>}
  PROVE  /\ Len(states) \in Nat \ {0}
         /\ Emitted(states) \in Seq(Int)
         /\ Len(Emitted(states)) = Before(Len(states) + 1) - 1
         /\ \A k \in 1 .. Len(states), r \in 1 .. RepeatPulses :
              Before(k) + r < Before(Len(states) + 1) =>
                Emitted(states)[Before(k) + r] = CanonicalFrame(states[k])[r]
<1> DEFINE n == Len(states)
           seqs == [k \in DOMAIN states |-> CanonicalFrame(states[k])]
<1>0. RepeatPulses \in Nat \ {0}
  BY Places
<1>1. n \in Nat \ {0} /\ DOMAIN states = 1 .. n
  <2>1. n \in Nat /\ n # 0 /\ DOMAIN states = 1 .. n
    BY EmptySeq
  <2>2. QED
    BY <2>1
<1>2. /\ Len(seqs) = n
      /\ \A k \in 1 .. n : /\ seqs[k] \in Seq(Int) /\ Len(seqs[k]) = RepeatPulses
                           /\ seqs[k] = CanonicalFrame(states[k])
  BY <1>1, FramePulse
<1> HIDE DEF n, seqs
<1>3. PICK flat : /\ flat[1] = seqs[1]
                  /\ \A i \in 2 .. n : flat[i] = flat[i - 1] \o seqs[i]
                  /\ flat[n] = FlattenSeq(seqs)
  BY <1>1, <1>2, FlattenSteps
<1> DEFINE Good(i) == /\ flat[i] \in Seq(Int) /\ Len(flat[i]) = Before(i + 1)
                      /\ \A k \in 1 .. i, r \in 1 .. RepeatPulses :
                           flat[i][Before(k) + r] = seqs[k][r]
           T == {i \in 1 .. n : ~Good(i)}
<1>4. Good(1)
  <2>1. Before(1) = 0 /\ Before(1 + 1) = Before(1) + RepeatPulses
    BY Places
  <2>2. /\ 1 \in 1 .. n /\ \A k \in 1 .. 1 : k = 1
        /\ \A r \in 1 .. RepeatPulses : Before(1) + r = r
        /\ Before(1 + 1) = RepeatPulses
    BY <1>0, <1>1, <2>1
  <2>3. QED
    BY <1>2, <1>3, <2>2
<1>5. ASSUME NEW i \in 2 .. n, Good(i - 1) PROVE Good(i)
  <2> DEFINE s == flat[i - 1]
             t == seqs[i]
  <2>1. /\ s \in Seq(Int) /\ Len(s) = Before(i)
        /\ \A k \in 1 .. i - 1, r \in 1 .. RepeatPulses : s[Before(k) + r] = seqs[k][r]
    <3>1. (i - 1) + 1 = i
      BY <1>1
    <3>2. QED
      BY <1>5, <3>1
  <2>2. t \in Seq(Int) /\ Len(t) = RepeatPulses
    BY <1>1, <1>2
  <2>3. flat[i] = s \o t
    BY <1>3
  <2> HIDE DEF s, t
  <2>4. /\ flat[i] \in Seq(Int) /\ Len(flat[i]) = Before(i) + RepeatPulses
        /\ \A j \in 1 .. Before(i) : flat[i][j] = s[j]
        /\ \A j \in 1 .. RepeatPulses : flat[i][Before(i) + j] = t[j]
    <3>1. /\ s \o t \in Seq(Int) /\ Len(s \o t) = Len(s) + Len(t)
          /\ \A j \in 1 .. Len(s) : (s \o t)[j] = s[j]
          /\ \A j \in 1 .. Len(t) : (s \o t)[Len(s) + j] = t[j]
      BY <2>1, <2>2, Concatenation
    <3>2. QED
      BY <2>1, <2>2, <2>3, <3>1
  <2>5. i \in Nat \ {0} /\ i \in 1 .. n
    BY <1>1
  <2>6. Len(flat[i]) = Before(i + 1)
    BY <2>4, <2>5, Places
  <2>7. ASSUME NEW k \in 1 .. i, NEW r \in 1 .. RepeatPulses
        PROVE  flat[i][Before(k) + r] = seqs[k][r]
    <3>1. CASE k = i
      BY <2>4, <3>1 DEF t
    <3>2. CASE k # i
      <4>1. k \in 1 .. i - 1 /\ k \in Nat \ {0}
        BY <2>5, <3>2
      <4>2. Before(k) \in Nat /\ Before(k) + RepeatPulses <= Before(i) /\ Before(i) \in Nat
        BY <2>5, <4>1, Places
      <4>3. Before(k) + r \in 1 .. Before(i)
        BY <1>0, <4>2
      <4>4. QED
        BY <2>1, <2>4, <4>1, <4>3
    <3>3. QED
      BY <3>1, <3>2
  <2>8. QED
    BY <2>4, <2>6, <2>7
<1>6. ASSUME T # {} PROVE FALSE
  <2>1. PICK i \in T : \A j \in T : i <= j
    <3>1. T \in SUBSET Nat
      BY <1>1
    <3> HIDE DEF T
    <3>2. QED
      BY <1>6, <3>1, LeastNumber
  <2>2. i \in 1 .. n /\ ~Good(i)
    BY <2>1
  <2> HIDE DEF Good
  <2>3. i \in 2 .. n
    BY <1>1, <1>4, <2>2
  <2>4. i - 1 \in 1 .. n /\ ~(i <= i - 1)
    BY <1>1, <2>3
  <2>5. Good(i - 1)
    BY <2>1, <2>4
  <2>6. QED
    BY <1>5, <2>2, <2>3, <2>5
<1>7. Good(n)
  <2> HIDE DEF Good
  <2>1. QED
    BY <1>1, <1>6
<1>8. flat[n] = FlattenSeq(seqs) /\ Emitted(states) = Front(flat[n])
  BY <1>3 DEF Emitted, seqs
<1>9. Before(n + 1) \in Nat \ {0}
  <2>1. Before(n) \in Nat /\ Before(n + 1) = Before(n) + RepeatPulses
    BY <1>1, Places
  <2>2. QED
    BY <1>0, <2>1
<1>10. /\ Emitted(states) \in Seq(Int) /\ Len(Emitted(states)) = Before(n + 1) - 1
       /\ \A j \in 1 .. Before(n + 1) - 1 : Emitted(states)[j] = flat[n][j]
  <2> DEFINE all == flat[n]
  <2>1. all \in Seq(Int) /\ Len(all) = Before(n + 1)
    BY <1>7
  <2> HIDE DEF all
  <2>2. /\ Front(all) \in Seq(Int) /\ Len(Front(all)) = Before(n + 1) - 1
        /\ \A j \in 1 .. Before(n + 1) - 1 : Front(all)[j] = all[j]
    <3>1. Front(all) = SubSeq(all, 1, Before(n + 1) - 1)
      BY <2>1 DEF Front
    <3>2. QED
      BY <1>9, <2>1, <3>1, SubSeqProperties
  <2>3. QED
    BY <1>8, <2>2 DEF all
<1>11. ASSUME NEW k \in 1 .. n, NEW r \in 1 .. RepeatPulses, Before(k) + r < Before(n + 1)
       PROVE  Emitted(states)[Before(k) + r] = CanonicalFrame(states[k])[r]
  <2>1. k \in Nat \ {0} /\ r \in Nat \ {0}
    BY <1>0, <1>1
  <2>2. Before(k) \in Nat
    BY <2>1, Places
  <2>5. Before(k) + r \in 1 .. Before(n + 1) - 1
    BY <1>9, <1>11, <2>1, <2>2
  <2>3. flat[n][Before(k) + r] = seqs[k][r]
    BY <1>7
  <2>4. QED
    BY <1>2, <1>10, <2>5, <2>3
<1>12. QED
  BY <1>1, <1>10, <1>11 DEF n

\* Every pulse of a transmission belongs to a frame.
LEMMA PulsePlace ==
  ASSUME NEW n \in Nat \ {0}, NEW p \in 1 .. Before(n + 1) - 1
  PROVE  \E k \in 1 .. n, r \in 1 .. RepeatPulses : p = Before(k) + r
<1>1. RepeatPulses \in Nat \ {0} /\ Before(1) = 0
  BY Places
<1>2. ASSUME NEW k \in 1 .. n
      PROVE  Before(k) \in Nat /\ Before(k + 1) = Before(k) + RepeatPulses
  <2>1. k \in Nat \ {0}
    OBVIOUS
  <2>2. QED
    BY <2>1, Places
<1> DEFINE T == {k \in 1 .. n : Before(k) < p}
<1>3. T \in SUBSET Nat /\ (\A k \in T : k <= n) /\ 1 \in T
  BY <1>1
<1>4. PICK k \in T : \A j \in T : j <= k
  <2> HIDE DEF T
  <2>1. QED
    BY <1>3, GreatestNumber
<1>5. k \in 1 .. n /\ Before(k) < p
  BY <1>4
<1>6. Before(n + 1) \in Nat
  <2>1. PICK all \in Int : all = Before(n) + RepeatPulses /\ all >= 0
    <3>1. n \in 1 .. n
      OBVIOUS
    <3>2. Before(n) \in Nat
      BY <1>2, <3>1
    <3>3. QED
      BY <1>1, <3>2
  <2>2. n \in Nat \ {0} => Before(n + 1) = Before(n) + RepeatPulses
    BY Places
  <2>3. QED
    BY <2>1, <2>2
<1>7. p <= Before(k + 1)
  <2>1. CASE k = n
    BY <1>6, <2>1
  <2>2. CASE k # n
    <3>1. k + 1 \in 1 .. n /\ k + 1 \notin T
      BY <1>4, <1>5, <2>2
    <3>2. Before(k + 1) \in Nat /\ ~(Before(k + 1) < p)
      BY <1>2, <3>1
    <3>3. QED
      BY <3>2
  <2>3. QED
    BY <2>1, <2>2
<1>8. p - Before(k) \in 1 .. RepeatPulses /\ p = Before(k) + (p - Before(k))
  BY <1>1, <1>2, <1>5, <1>7
<1>9. QED
  BY <1>5, <1>8

\* Which of a frame's pulses there are.
LEMMA PulseKind ==
  ASSUME NEW r \in 1 .. RepeatPulses
  PROVE  \/ r = 1 \/ r = 2 \/ r = RepeatPulses
         \/ \E b \in 0 .. DataBits : r = 2 * b + 3
         \/ \E b \in 0 .. DataBits - 1 : r = 2 * b + 4
<1>1. DataBits \in Nat \ {0} /\ RepeatPulses = 2 * DataBits + 4
  BY Sizes, Places
<1>2. ASSUME r >= 3, r < RepeatPulses
      PROVE  \/ \E b \in 0 .. DataBits : r = 2 * b + 3
             \/ \E b \in 0 .. DataBits - 1 : r = 2 * b + 4
  <2>1. PICK b \in Int : r = 2 * b + 3 \/ r = 2 * b + 4
    <3>1. /\ (r - 3) \div 2 \in Int
          /\ r = 2 * ((r - 3) \div 2) + 3 \/ r = 2 * ((r - 3) \div 2) + 4
      BY <1>1, SMT
    <3>2. QED
      BY <3>1
  <2>2. CASE r = 2 * b + 3
    <3>1. b \in 0 .. DataBits
      BY <1>1, <1>2, <2>2
    <3>2. QED
      BY <2>2, <3>1
  <2>3. CASE r = 2 * b + 4
    <3>1. b \in 0 .. DataBits - 1
      BY <1>1, <1>2, <2>3
    <3>2. QED
      BY <2>3, <3>1
  <2>4. QED
    BY <2>1, <2>2, <2>3
<1>3. QED
  BY <1>1, <1>2

-----------------------------------------------------------------------------
(* What the scans find in legible pulses. *)

\* These pulses can be read as the states sent.
LegiblePulses(states, raw, lost) ==
  /\ states \in Seq(States) \ {<<>>}
  /\ raw \in Seq(Int)
  /\ lost \in Nat
  /\ Legible(states, raw, lost)

\* The pulse at i is the other bit than was sent.
Flipped(states, raw, lost, i) == ReadsOtherBit(Emitted(states)[lost + i], raw[i])

\* What a pulse can be read as.
LEMMA Readings ==
  ASSUME NEW q \in Int
  PROVE  /\ \A p \in {-3400, 1750, 15500} :
              ReadsAs(p, q) \/ ReadsOtherBit(p, q) => q \notin BitMark
         /\ \A p \in {15500} :
              ReadsAs(p, q) \/ ReadsOtherBit(p, q) => q \notin ZeroSpace \cup OneSpace
         /\ \A p \in {-450, -440} : ReadsAs(p, q) \/ ReadsOtherBit(p, q) => q \in BitMark
         /\ \A p \in {420, 1300} :
              /\ ReadsAs(p, q) \/ ReadsOtherBit(p, q) =>
                   q \in ZeroSpace \cup OneSpace /\ q \notin BitMark
              /\ ReadsAs(p, q) => (q \in OneSpace <=> p = 1300)
              /\ ReadsOtherBit(p, q) => (q \in OneSpace <=> p # 1300)
BY DEF ReadsAs, ReadsOtherBit, BitMark, BIT_MARK_MIN, ZeroSpace, OneSpace

\* What is read for each pulse of a frame.
LEMMA HeardPulse ==
  ASSUME NEW states, NEW raw, NEW lost, LegiblePulses(states, raw, lost),
         NEW k \in 1 .. Len(states), NEW r \in 1 .. RepeatPulses,
         NEW i \in 1 .. Len(raw), lost + i = Before(k) + r
  PROVE  /\ (r = 1 \/ r = 2 \/ r = RepeatPulses) => raw[i] \notin BitMark
         /\ r = RepeatPulses => raw[i] \notin ZeroSpace \cup OneSpace
         /\ \A b \in 0 .. DataBits : r = 2 * b + 3 => raw[i] \in BitMark
         /\ \A b \in 0 .. DataBits - 1 : r = 2 * b + 4 =>
              /\ raw[i] \in ZeroSpace \cup OneSpace
              /\ raw[i] \notin BitMark
              /\ ~Flipped(states, raw, lost, i) => (raw[i] \in OneSpace <=> b \in states[k])
<1> DEFINE sent == Emitted(states)[lost + i]
           frame == CanonicalFrame(states[k])
<1>1. DataBits \in Nat \ {0} /\ RepeatPulses = 2 * DataBits + 4
  BY Sizes, Places
<1>2. sent = frame[r]
  <2>1. lost + i < Before(Len(states) + 1)
    <3>1. Len(raw) = Len(Emitted(states)) - lost /\ lost \in Nat /\ Len(raw) \in Nat
      BY DEF LegiblePulses, Legible
    <3>2. Len(Emitted(states)) = Before(Len(states) + 1) - 1 /\ Len(Emitted(states)) \in Nat
      BY EmittedPulse DEF LegiblePulses
    <3>3. Len(states) \in Nat
      BY DEF LegiblePulses
    <3>4. Before(Len(states) + 1) \in Int
      BY <3>3, Places
    <3>5. QED
      BY <3>1, <3>2, <3>4
  <2>2. QED
    BY <2>1, EmittedPulse DEF LegiblePulses
<1>3. ReadsAs(sent, raw[i]) \/ ReadsOtherBit(sent, raw[i])
  <2>1. i \in DOMAIN raw
    BY DEF LegiblePulses
  <2>2. QED
    BY <2>1 DEF LegiblePulses, Legible
<1>4. raw[i] \in Int
  BY DEF LegiblePulses
<1>5. /\ frame[1] = -3400 /\ frame[2] = 1750
      /\ \A b \in 0 .. DataBits - 1 :
           /\ frame[2 * b + 3] = -450
           /\ frame[2 * b + 4] = IF b \in states[k] THEN 1300 ELSE 420
      /\ frame[2 * DataBits + 3] = -440 /\ frame[2 * DataBits + 4] = 15500
  BY FramePulse
<1>6. Flipped(states, raw, lost, i) <=> ReadsOtherBit(sent, raw[i])
  BY DEF Flipped
<1> HIDE DEF sent, frame
<1>7. (r = 1 \/ r = 2 \/ r = RepeatPulses) => raw[i] \notin BitMark
  <2>1. ASSUME r = 1 \/ r = 2 \/ r = RepeatPulses
        PROVE  sent \in {-3400, 1750, 15500}
    <3>1. CASE r = 1
      BY <1>2, <1>5, <3>1
    <3>2. CASE r = 2
      BY <1>2, <1>5, <3>2
    <3>3. CASE r = RepeatPulses
      BY <1>1, <1>2, <1>5, <3>3
    <3>4. QED
      BY <2>1, <3>1, <3>2, <3>3
  <2>2. QED
    BY <1>3, <1>4, <2>1, Readings
<1>8. r = RepeatPulses => raw[i] \notin ZeroSpace \cup OneSpace
  <2>1. r = RepeatPulses => sent \in {15500}
    BY <1>1, <1>2, <1>5
  <2>2. QED
    BY <1>3, <1>4, <2>1, Readings
<1>9. ASSUME NEW b \in 0 .. DataBits, r = 2 * b + 3 PROVE raw[i] \in BitMark
  <2>1. sent \in {-450, -440}
    <3>1. b = DataBits \/ b \in 0 .. DataBits - 1
      BY <1>1
    <3>2. QED
      BY <1>2, <1>5, <1>9, <3>1
  <2>2. QED
    BY <1>3, <1>4, <2>1, Readings
<1>10. ASSUME NEW b \in 0 .. DataBits - 1, r = 2 * b + 4
       PROVE  /\ raw[i] \in ZeroSpace \cup OneSpace
              /\ raw[i] \notin BitMark
              /\ ~Flipped(states, raw, lost, i) => (raw[i] \in OneSpace <=> b \in states[k])
  <2>1. sent = IF b \in states[k] THEN 1300 ELSE 420
    BY <1>2, <1>5, <1>10
  <2>2. sent \in {420, 1300} /\ (sent = 1300 <=> b \in states[k])
    BY <2>1
  <2>3. QED
    BY <1>3, <1>4, <1>6, <2>2, Readings
<1>11. QED
  BY <1>7, <1>8, <1>9, <1>10

\* Bits are read within a frame only: no window of them spans a gap or a header.
LEMMA BitsPlace ==
  ASSUME NEW states, NEW raw, NEW lost, LegiblePulses(states, raw, lost),
         NEW count \in 1 .. DataBits, NEW start \in Nat \ {0},
         BitsAt(raw, start, count)
  PROVE  \E k \in 1 .. Len(states), e \in 0 .. DataBits - count :
           lost + start = Before(k) + 2 * e + 3
<1>1. /\ DataBits \in Nat \ {0} /\ RepeatPulses = 2 * DataBits + 4
      /\ Len(raw) \in Nat /\ lost \in Nat /\ Len(states) \in Nat \ {0}
  BY Sizes, Places, EmittedPulse DEF LegiblePulses
<1>2. /\ start + 2 * count <= Len(raw)
      /\ \A b \in 0 .. count - 1 : /\ raw[start + 2 * b] \in BitMark
                                   /\ raw[start + 2 * b + 1] \in ZeroSpace \cup OneSpace
  BY DEF BitsAt
<1>3. raw[start] \in BitMark /\ start \in 1 .. Len(raw)
  <2>1. 0 \in 0 .. count - 1 /\ start + 2 * 0 = start /\ start \in 1 .. Len(raw)
    BY <1>1, <1>2
  <2>2. QED
    BY <1>2, <2>1
<1>4. PICK k \in 1 .. Len(states), r \in 1 .. RepeatPulses : lost + start = Before(k) + r
  <2>1. lost + start \in 1 .. Before(Len(states) + 1) - 1
    <3>1. /\ Len(raw) = Len(Emitted(states)) - lost
          /\ Len(Emitted(states)) = Before(Len(states) + 1) - 1
          /\ Len(Emitted(states)) \in Nat
      BY EmittedPulse DEF LegiblePulses, Legible
    <3>2. QED
      BY <1>1, <1>3, <3>1
  <2>2. QED
    BY <1>1, <2>1, PulsePlace
<1>5. k \in Nat \ {0} /\ Before(k) \in Nat
  <2>1. k \in Nat \ {0}
    BY <1>1
  <2>2. QED
    BY <2>1, Places
<1>6. PICK e \in 0 .. DataBits : r = 2 * e + 3
  <2>1. r # 1 /\ r # 2 /\ r # RepeatPulses
    BY <1>3, <1>4, HeardPulse
  <2>2. ~ \E b \in 0 .. DataBits - 1 : r = 2 * b + 4
    BY <1>3, <1>4, HeardPulse
  <2>3. QED
    BY <2>1, <2>2, PulseKind
<1>7. ASSUME e > DataBits - count PROVE FALSE
  <2> DEFINE b == DataBits - e
             i == start + 2 * b + 1
  <2>1. b \in 0 .. count - 1
    BY <1>1, <1>7
  <2>2. i \in 1 .. Len(raw)
    BY <1>1, <1>2, <1>7
  <2>3. lost + i = Before(k) + RepeatPulses
    BY <1>1, <1>4, <1>5, <1>6
  <2>4. RepeatPulses \in 1 .. RepeatPulses
    BY <1>1
  <2>5. raw[i] \in ZeroSpace \cup OneSpace
    BY <1>2, <2>1
  <2> HIDE DEF i
  <2>6. QED
    BY <2>2, <2>3, <2>4, <2>5, HeardPulse
<1>8. e \in 0 .. DataBits - count
  BY <1>1, <1>7
<1>9. lost + start = Before(k) + 2 * e + 3
  BY <1>1, <1>4, <1>5, <1>6
<1>10. QED
  BY <1>8, <1>9

\* A bit that is read is the bit sent unless it was flipped.
LEMMA HeardBit ==
  ASSUME NEW states, NEW raw, NEW lost, LegiblePulses(states, raw, lost),
         NEW k \in 1 .. Len(states), NEW e \in Nat, NEW start \in Nat \ {0},
         lost + start = Before(k) + 2 * e + 3,
         NEW b \in Nat, b + e < DataBits, start + 2 * b + 1 <= Len(raw),
         ~Flipped(states, raw, lost, start + 2 * b + 1)
  PROVE  raw[start + 2 * b + 1] \in OneSpace <=> b + e \in states[k]
<1>1. /\ DataBits \in Nat \ {0} /\ RepeatPulses = 2 * DataBits + 4
      /\ Len(raw) \in Nat /\ lost \in Nat /\ Len(states) \in Nat \ {0}
  BY Sizes, Places, EmittedPulse DEF LegiblePulses
<1>2. Before(k) \in Nat
  <2>1. k \in Nat \ {0}
    BY <1>1
  <2>2. QED
    BY <2>1, Places
<1> DEFINE i == start + 2 * b + 1
           r == 2 * (b + e) + 4
<1>3. i \in 1 .. Len(raw) /\ lost + i = Before(k) + r
  BY <1>1, <1>2
<1>4. r \in 1 .. RepeatPulses /\ b + e \in 0 .. DataBits - 1
  BY <1>1
<1>5. ~Flipped(states, raw, lost, i) /\ r = 2 * (b + e) + 4
  OBVIOUS
<1> HIDE DEF i, r
<1>6. raw[i] \in OneSpace <=> b + e \in states[k]
  BY <1>3, <1>4, <1>5, HeardPulse
<1>7. QED
  BY <1>6 DEF i

\* Two supported states that differ in one bit at most do not differ.
LEMMA NearlyTheSame ==
  ASSUME NEW state \in States, NEW other \in States,
         validate_mitsubishi_state(state), validate_mitsubishi_state(other),
         \A b, c \in Bits : /\ (b \in other) # (b \in state)
                            /\ (c \in other) # (c \in state)
                            => b = c
  PROVE  other = state
<1>1. CASE \A b \in Bits : b \in other <=> b \in state
  BY <1>1 DEF States
<1>2. CASE \E b \in Bits : ~(b \in other <=> b \in state)
  <2>1. PICK b \in Bits : ~(b \in other <=> b \in state)
    BY <1>2
  <2>2. \A c \in Bits \ {b} : c \in other <=> c \in state
    BY <2>1
  <2>3. QED
    BY <2>2, OneFlipIsNoticed
<1>3. QED
  BY <1>1, <1>2

\* At most one pulse is flipped.
LEMMA OneFlip ==
  ASSUME NEW states, NEW raw, NEW lost, LegiblePulses(states, raw, lost),
         NEW i \in 1 .. Len(raw), NEW j \in 1 .. Len(raw),
         Flipped(states, raw, lost, i), Flipped(states, raw, lost, j)
  PROVE  i = j
<1>1. DOMAIN raw = 1 .. Len(raw)
  BY DEF LegiblePulses
<1>2. QED
  BY <1>1 DEF LegiblePulses, Legible, Flipped

\* The states are supported ones.
AllSupported(states) == \A k \in DOMAIN states : validate_mitsubishi_state(states[k])

\* A transmission has states.
LEMMA SentStates ==
  ASSUME NEW states \in Seq(States) \ {<<>>}, NEW k \in 1 .. Len(states)
  PROVE  states[k] \in States /\ k \in DOMAIN states
OBVIOUS

\* Supported data is the data of a frame.
LEMMA DataIsSent ==
  ASSUME NEW states, NEW raw, NEW lost, LegiblePulses(states, raw, lost),
         AllSupported(states), NEW start \in Nat \ {0},
         DataAt(raw, start), validate_mitsubishi_state(decode_data(raw, start))
  PROVE  \E k \in DOMAIN states : decode_data(raw, start) = states[k]
<1>1. DataBits \in Nat \ {0} /\ Len(raw) \in Nat
  BY Sizes DEF LegiblePulses
<1>2. start + 2 * DataBits <= Len(raw)
  BY DEF DataAt, BitsAt
<1>3. PICK k \in 1 .. Len(states) : lost + start = Before(k) + 2 * 0 + 3
  <2>1. DataBits \in 1 .. DataBits /\ BitsAt(raw, start, DataBits)
    BY <1>1 DEF DataAt
  <2>2. PICK k \in 1 .. Len(states), e \in 0 .. DataBits - DataBits :
          lost + start = Before(k) + 2 * e + 3
    BY <2>1, BitsPlace
  <2>3. e = 0
    BY <1>1
  <2>4. QED
    BY <2>2, <2>3
<1>4. states[k] \in States /\ k \in DOMAIN states
  BY SentStates DEF LegiblePulses
<1> DEFINE read == decode_data(raw, start)
<1>5. read \in States
  BY ScansFindStates
<1>6. ASSUME NEW b \in Bits, (b \in read) # (b \in states[k])
      PROVE  start + 2 * b + 1 \in 1 .. Len(raw) /\ Flipped(states, raw, lost, start + 2 * b + 1)
  <2>1. b \in Nat /\ b + 0 < DataBits /\ b + 0 = b /\ start + 2 * b + 1 \in 1 .. Len(raw)
    BY <1>1, <1>2 DEF Bits
  <2>2. b \in read <=> raw[start + 2 * b + 1] \in OneSpace
    BY DEF decode_data, OnesAt, Bits
  <2>3. 0 \in Nat /\ start + 2 * b + 1 <= Len(raw)
    BY <1>1, <2>1
  <2> HIDE DEF read
  <2>4. ASSUME ~Flipped(states, raw, lost, start + 2 * b + 1) PROVE FALSE
    <3>1. raw[start + 2 * b + 1] \in OneSpace <=> b + 0 \in states[k]
      BY <1>3, <2>1, <2>3, <2>4, HeardBit
    <3>2. QED
      BY <1>6, <2>1, <2>2, <3>1
  <2>5. QED
    BY <2>1, <2>4
<1>7. ASSUME NEW b \in Bits, NEW c \in Bits,
             (b \in read) # (b \in states[k]), (c \in read) # (c \in states[k])
      PROVE  b = c
  <2>1. /\ start + 2 * b + 1 \in 1 .. Len(raw) /\ Flipped(states, raw, lost, start + 2 * b + 1)
        /\ start + 2 * c + 1 \in 1 .. Len(raw) /\ Flipped(states, raw, lost, start + 2 * c + 1)
    BY <1>6, <1>7
  <2>2. start + 2 * b + 1 = start + 2 * c + 1
    BY <2>1, OneFlip
  <2>3. QED
    BY <2>2 DEF Bits
<1>8. validate_mitsubishi_state(states[k]) /\ validate_mitsubishi_state(read)
  BY <1>4 DEF AllSupported
<1>9. read = states[k]
  <2> HIDE DEF read
  <2>1. QED
    BY <1>4, <1>5, <1>7, <1>8, NearlyTheSame
<1>10. QED
  BY <1>4, <1>9

\* Of the bits behind the first byte, the suffix holds the one that is read there.
LEMMA SuffixBit ==
  ASSUME NEW raw, NEW start, NEW c \in Bits, c >= ByteBits
  PROVE  c \in decode_suffix(raw, start)
           <=> raw[start + 2 * (c - ByteBits) + 1] \in OneSpace
<1>1. DataBits \in Nat \ {0} /\ ByteBits \in Nat \ {0} /\ c \in Nat
  BY Sizes DEF Bits
<1>2. c \notin Signature \cap 0 .. ByteBits - 1
  BY <1>1
<1>3. c - ByteBits \in 0 .. DataBits - ByteBits - 1 /\ (c - ByteBits) + ByteBits = c
  BY <1>1 DEF Bits
<1>4. \A b \in OnesAt(raw, start, DataBits - ByteBits) : b + ByteBits = c => b = c - ByteBits
  BY <1>1 DEF OnesAt
<1>5. c \in decode_suffix(raw, start)
        <=> c - ByteBits \in OnesAt(raw, start, DataBits - ByteBits)
  BY <1>2, <1>3, <1>4 DEF decode_suffix
<1>6. QED
  BY <1>3, <1>5 DEF OnesAt

\* So does a supported suffix, whatever is flipped: it begins with a second byte, ...
LEMMA SuffixIsInPlace ==
  ASSUME NEW states, NEW raw, NEW lost, LegiblePulses(states, raw, lost),
         AllSupported(states), NEW start \in Nat \ {0},
         SuffixAt(raw, start), signature_matches(decode_suffix(raw, start)),
         NEW k \in 1 .. Len(states), NEW e \in 0 .. ByteBits,
         lost + start = Before(k) + 2 * e + 3
  PROVE  e = ByteBits
<1>1. /\ DataBits \in Nat \ {0} /\ ByteBits \in Nat \ {0} /\ SignatureBits \in Nat
      /\ SignatureBits < DataBits /\ ByteBits < SignatureBits
      /\ Len(raw) \in Nat
  BY Sizes DEF LegiblePulses
<1>2. start + 2 * (DataBits - ByteBits) <= Len(raw)
  BY DEF SuffixAt, BitsAt
<1>3. k \in DOMAIN states /\ signature_matches(states[k])
  BY SentStates DEF LegiblePulses, AllSupported, validate_mitsubishi_state
<1>4. ASSUME e \in 0 .. ByteBits - 1 PROVE FALSE
  <2>1. PICK a, b \in ByteBits .. SignatureBits - 1 :
          /\ a # b
          /\ (a \in Signature) # (a - ByteBits + e \in Signature)
          /\ (b \in Signature) # (b - ByteBits + e \in Signature)
    BY <1>4, SignatureAssumption
  <2>2. ASSUME NEW c \in ByteBits .. SignatureBits - 1,
               (c \in Signature) # (c - ByteBits + e \in Signature)
        PROVE  LET i == start + 2 * (c - ByteBits) + 1
               IN i \in 1 .. Len(raw) /\ Flipped(states, raw, lost, i)
    <3> DEFINE m == c - ByteBits
               i == start + 2 * m + 1
    <3>1. /\ c \in Bits /\ c >= ByteBits /\ c \in 0 .. SignatureBits - 1
          /\ m \in Nat /\ m + e < DataBits /\ m + e \in 0 .. SignatureBits - 1
          /\ m + e = c - ByteBits + e
          /\ i \in 1 .. Len(raw) /\ i <= Len(raw) /\ e \in Nat
      BY <1>1, <1>2, <1>4 DEF Bits
    <3>2. c \in decode_suffix(raw, start) <=> raw[i] \in OneSpace
      BY <3>1, SuffixBit
    <3>3. c \in decode_suffix(raw, start) <=> c \in Signature
      BY <3>1 DEF signature_matches
    <3>4. m + e \in states[k] <=> m + e \in Signature
      BY <1>3, <3>1 DEF signature_matches
    <3>5. ASSUME ~Flipped(states, raw, lost, i) PROVE FALSE
      <4>1. raw[i] \in OneSpace <=> m + e \in states[k]
        <5> HIDE DEF m
        <5>1. QED
          BY <3>1, <3>5, HeardBit
      <4>2. (c \in Signature) <=> (m + e \in Signature)
        <5> HIDE DEF i, m
        <5>1. QED
          BY <3>2, <3>3, <3>4, <4>1
      <4>3. c - ByteBits + e = m + e
        BY <3>1
      <4>4. QED
        BY <2>2, <4>2, <4>3
    <3>6. QED
      BY <3>1, <3>5
  <2>3. start + 2 * (a - ByteBits) + 1 = start + 2 * (b - ByteBits) + 1
    <3> DEFINE i == start + 2 * (a - ByteBits) + 1
               j == start + 2 * (b - ByteBits) + 1
    <3>1. /\ i \in 1 .. Len(raw) /\ Flipped(states, raw, lost, i)
          /\ j \in 1 .. Len(raw) /\ Flipped(states, raw, lost, j)
      BY <2>1, <2>2
    <3> HIDE DEF i, j
    <3>2. i = j
      BY <3>1, OneFlip
    <3>3. QED
      BY <3>2 DEF i, j
  <2>4. QED
    BY <1>1, <2>1, <2>3
<1>5. QED
  BY <1>1, <1>4

\* ... and with its first byte it is the data of a frame.
LEMMA SuffixIsSent ==
  ASSUME NEW states, NEW raw, NEW lost, LegiblePulses(states, raw, lost),
         AllSupported(states), NEW start \in Nat \ {0},
         SuffixAt(raw, start), validate_mitsubishi_state(decode_suffix(raw, start))
  PROVE  \E k \in DOMAIN states : decode_suffix(raw, start) = states[k]
<1>1. /\ DataBits \in Nat \ {0} /\ ByteBits \in Nat \ {0} /\ SignatureBits \in Nat
      /\ SignatureBits < DataBits /\ ByteBits < SignatureBits
      /\ Len(raw) \in Nat
  BY Sizes DEF LegiblePulses
<1>2. start + 2 * (DataBits - ByteBits) <= Len(raw)
  BY DEF SuffixAt, BitsAt
<1> DEFINE read == decode_suffix(raw, start)
<1>3. PICK k \in 1 .. Len(states) : lost + start = Before(k) + 2 * ByteBits + 3
  <2>1. DataBits - ByteBits \in 1 .. DataBits /\ BitsAt(raw, start, DataBits - ByteBits)
    BY <1>1 DEF SuffixAt
  <2>2. PICK k \in 1 .. Len(states), e \in 0 .. DataBits - (DataBits - ByteBits) :
          lost + start = Before(k) + 2 * e + 3
    BY <2>1, BitsPlace
  <2>3. e \in 0 .. ByteBits
    BY <1>1
  <2>4. e = ByteBits
    BY <2>2, <2>3, SuffixIsInPlace DEF validate_mitsubishi_state
  <2>5. QED
    BY <2>2, <2>4
<1>4. states[k] \in States /\ k \in DOMAIN states
  BY SentStates DEF LegiblePulses
<1>5. read \in States
  BY ScansFindStates
<1>6. validate_mitsubishi_state(states[k]) /\ validate_mitsubishi_state(read)
  BY <1>4 DEF AllSupported
<1>7. ASSUME NEW b \in Bits, (b \in read) # (b \in states[k])
      PROVE  LET i == start + 2 * (b - ByteBits) + 1
             IN i \in 1 .. Len(raw) /\ Flipped(states, raw, lost, i)
  <2> DEFINE m == b - ByteBits
             i == start + 2 * m + 1
  <2>1. b >= ByteBits
    <3>1. ASSUME ~(b >= ByteBits) PROVE FALSE
      <4>1. b \in 0 .. SignatureBits - 1
        BY <1>1, <3>1 DEF Bits
      <4>2. (b \in read <=> b \in Signature) /\ (b \in states[k] <=> b \in Signature)
        BY <1>6, <4>1 DEF validate_mitsubishi_state, signature_matches
      <4>3. QED
        BY <1>7, <4>2
    <3>2. QED
      BY <3>1
  <2>2. /\ m \in Nat /\ m + ByteBits < DataBits /\ m + ByteBits = b
        /\ i \in 1 .. Len(raw) /\ i <= Len(raw) /\ ByteBits \in Nat
    BY <1>1, <1>2, <2>1 DEF Bits
  <2>3. b \in read <=> raw[i] \in OneSpace
    BY <2>1, SuffixBit
  <2>4. ASSUME ~Flipped(states, raw, lost, i) PROVE FALSE
    <3>1. raw[i] \in OneSpace <=> m + ByteBits \in states[k]
      <4> HIDE DEF m
      <4>1. QED
        BY <1>3, <2>2, <2>4, HeardBit
    <3>2. QED
      <4> HIDE DEF read
      <4>1. QED
        BY <1>7, <2>2, <2>3, <3>1
  <2>5. QED
    BY <2>2, <2>4
<1>8. ASSUME NEW b \in Bits, NEW c \in Bits,
             (b \in read) # (b \in states[k]), (c \in read) # (c \in states[k])
      PROVE  b = c
  <2> DEFINE i == start + 2 * (b - ByteBits) + 1
             j == start + 2 * (c - ByteBits) + 1
  <2>1. /\ i \in 1 .. Len(raw) /\ Flipped(states, raw, lost, i)
        /\ j \in 1 .. Len(raw) /\ Flipped(states, raw, lost, j)
    BY <1>7, <1>8
  <2> HIDE DEF i, j
  <2>2. i = j
    BY <2>1, OneFlip
  <2>3. b \in Int /\ c \in Int
    BY DEF Bits
  <2>4. QED
    BY <1>1, <2>2, <2>3 DEF i, j
<1>9. read = states[k]
  <2> HIDE DEF read
  <2>1. QED
    BY <1>4, <1>5, <1>6, <1>8, NearlyTheSame
<1>10. QED
  BY <1>4, <1>9

\* No scan finds a state that was not sent.
LEMMA FoundIsSent ==
  ASSUME NEW states, NEW raw, NEW lost, LegiblePulses(states, raw, lost),
         AllSupported(states),
         NEW state \in HeaderFrames(raw) \cup HeaderlessFrames(raw) \cup SuffixFrames(raw)
  PROVE  \E k \in DOMAIN states : state = states[k]
<1>1. \A start \in DOMAIN raw : start \in Nat \ {0} /\ start + 2 \in Nat \ {0}
  BY DEF LegiblePulses
<1>2. CASE state \in HeaderFrames(raw)
  <2>1. PICK start \in DOMAIN raw : FrameAt(raw, start) /\ state = decode_frame(raw, start)
    BY <1>2 DEF HeaderFrames
  <2>2. /\ DataAt(raw, start + 2) /\ state = decode_data(raw, start + 2)
        /\ validate_mitsubishi_state(state)
    BY <1>2, <2>1 DEF HeaderFrames, FrameAt, decode_frame
  <2>3. QED
    BY <1>1, <2>2, DataIsSent
<1>3. CASE state \in HeaderlessFrames(raw)
  <2>1. PICK start \in DOMAIN raw : DataAt(raw, start) /\ state = decode_data(raw, start)
    BY <1>3 DEF HeaderlessFrames
  <2>2. validate_mitsubishi_state(state)
    BY <1>3 DEF HeaderlessFrames
  <2>3. QED
    BY <1>1, <2>1, <2>2, DataIsSent
<1>4. CASE state \in SuffixFrames(raw)
  <2>1. PICK start \in DOMAIN raw : SuffixAt(raw, start) /\ state = decode_suffix(raw, start)
    BY <1>4 DEF SuffixFrames
  <2>2. validate_mitsubishi_state(state)
    BY <1>4 DEF SuffixFrames
  <2>3. QED
    BY <1>1, <2>1, <2>2, SuffixIsSent
<1>5. QED
  BY <1>2, <1>3, <1>4

\* A pulse that reads as it was sent is not flipped.
LEMMA NotBoth ==
  ASSUME NEW p, NEW q \in Int, ReadsAs(p, q)
  PROVE  ~ReadsOtherBit(p, q)
<1>1. ReadsOtherBit(p, q) => p \in {420, 1300}
  BY DEF ReadsOtherBit
<1>2. QED
  BY <1>1, Readings

\* A whole frame is found, by the first scan if it has its header.
LEMMA WholeIsFound ==
  ASSUME NEW states, NEW raw, NEW lost, LegiblePulses(states, raw, lost),
         AllSupported(states), NEW k \in 1 .. Len(states), Whole(states, raw, lost, k)
  PROVE  /\ HeaderAt(raw, Place(k, lost)) => states[k] \in HeaderFrames(raw)
         /\ ~HeaderAt(raw, Place(k, lost)) => states[k] \in HeaderlessFrames(raw)
<1>1. /\ DataBits \in Nat \ {0} /\ RepeatPulses = 2 * DataBits + 4
      /\ FramePulses = 2 * DataBits + 3
      /\ Len(raw) \in Nat /\ lost \in Nat /\ Len(states) \in Nat \ {0}
      /\ k \in Nat \ {0}
  <2>1. DataBits \in Nat \ {0} /\ RepeatPulses = 2 * DataBits + 4 /\ FramePulses = 2 * DataBits + 3
    BY Sizes, Places
  <2>2. Len(states) \in Nat \ {0}
    BY EmittedPulse DEF LegiblePulses
  <2>3. QED
    BY <2>1, <2>2 DEF LegiblePulses
<1>2. /\ Before(k) \in Nat
      /\ Before(k) + RepeatPulses <= Before(Len(states) + 1)
      /\ Before(Len(states) + 1) \in Nat
  <2>1. Len(states) + 1 \in Nat \ {0} /\ k \in 1 .. (Len(states) + 1) - 1
    BY <1>1
  <2>2. QED
    BY <1>1, <2>1, Places
<1>3. PICK place \in Nat \ {0} : place = Place(k, lost) /\ place = Before(k) + 1 - lost
  <2>1. Place(k, lost) = Before(k) + 1 - lost /\ Place(k, lost) >= 1
    BY DEF Place, Before, Whole
  <2>2. Before(k) + 1 - lost \in Int
    BY <1>1, <1>2
  <2>3. QED
    BY <2>1, <2>2
<1>4. /\ Len(raw) = Len(Emitted(states)) - lost
      /\ Len(Emitted(states)) = Before(Len(states) + 1) - 1
      /\ Len(Emitted(states)) \in Nat
  BY EmittedPulse DEF LegiblePulses, Legible
<1>5. PICK start \in Nat \ {0} : start = place + 2
  BY <1>3
<1>6. /\ start + 2 * DataBits <= Len(raw) /\ start - 2 = place
      /\ lost + start = Before(k) + 3
      /\ lost + (start + 2 * DataBits) = Before(k) + (2 * DataBits + 3)
      /\ place + FramePulses - 1 <= Len(raw)
  <2>1. PICK d \in Nat, l \in Nat, before \in Nat, all \in Nat, len \in Nat :
          /\ d = DataBits /\ l = lost /\ before = Before(k)
          /\ all = Before(Len(states) + 1) /\ len = Len(raw)
    BY <1>1, <1>2
  <2>2. before + (2 * d + 4) <= all
    BY <1>1, <1>2, <2>1
  <2>3. len = (all - 1) - l
    BY <1>4, <2>1
  <2>4. place = before + 1 - l
    BY <1>3, <2>1
  <2>5. start + 2 * d <= len /\ start - 2 = place
    BY <1>5, <2>2, <2>3, <2>4
  <2>6. l + start = before + 3 /\ l + (start + 2 * d) = before + (2 * d + 3)
    BY <1>5, <2>4
  <2>7. FramePulses = 2 * d + 3 /\ place + (2 * d + 3) - 1 <= len
    <3>1. FramePulses = 2 * d + 3
      BY <1>1, <2>1
    <3>2. place + (2 * d + 3) - 1 <= len
      BY <2>2, <2>3, <2>4
    <3>3. QED
      BY <3>1, <3>2
  <2>8. start + 2 * DataBits <= Len(raw)
    <3>1. 2 * DataBits = 2 * d /\ Len(raw) = len
      BY <2>1
    <3>2. QED
      BY <2>5, <3>1
  <2>9. lost + start = Before(k) + 3
    BY <2>1, <2>6
  <2>10. lost + (start + 2 * DataBits) = Before(k) + (2 * DataBits + 3)
    BY <2>1, <2>6
  <2>11. place + FramePulses - 1 <= Len(raw)
    BY <2>1, <2>7
  <2>12. QED
    BY <2>5, <2>8, <2>9, <2>10, <2>11
<1>7. /\ start \in Nat \ {0} /\ start + 2 * DataBits <= Len(raw)
      /\ lost + start = Before(k) + 2 * 0 + 3
      /\ place \in DOMAIN raw /\ start \in DOMAIN raw /\ start - 2 = place
  <2>1. DOMAIN raw = 1 .. Len(raw)
    BY DEF LegiblePulses
  <2>2. lost + start = Before(k) + 2 * 0 + 3
    BY <1>1, <1>2, <1>6
  <2>3. place \in 1 .. Len(raw) /\ start \in 1 .. Len(raw)
    BY <1>1, <1>5, <1>6
  <2>4. QED
    BY <1>6, <2>1, <2>2, <2>3
<1>8. ASSUME NEW i \in start .. place + FramePulses - 1 PROVE ~Flipped(states, raw, lost, i)
  <2>1. ReadsAs(Emitted(states)[lost + i], raw[i])
    BY <1>3, <1>5 DEF Whole
  <2>2. i \in 1 .. Len(raw)
    <3>1. PICK j \in Int : j = i /\ j >= start /\ j <= place + FramePulses - 1
      BY <1>1, <1>5
    <3>2. j <= Len(raw) /\ j >= 1
      BY <1>1, <1>6, <3>1
    <3>3. QED
      BY <1>1, <3>1, <3>2
  <2>3. raw[i] \in Int
    BY <2>2 DEF LegiblePulses
  <2>4. QED
    BY <2>1, <2>3, NotBoth DEF Flipped
<1>9. states[k] \in States /\ validate_mitsubishi_state(states[k])
  BY <1>1, SentStates DEF LegiblePulses, AllSupported
<1>10. ASSUME NEW b \in Bits
      PROVE  /\ raw[start + 2 * b] \in BitMark
             /\ raw[start + 2 * b + 1] \in ZeroSpace \cup OneSpace
             /\ raw[start + 2 * b + 1] \in OneSpace <=> b \in states[k]
  <2>1. /\ b \in Nat /\ b + 0 < DataBits /\ b + 0 = b /\ 0 \in Nat
        /\ start + 2 * b + 1 <= Len(raw)
        /\ start + 2 * b \in 1 .. Len(raw) /\ start + 2 * b + 1 \in 1 .. Len(raw)
        /\ 2 * b + 3 \in 1 .. RepeatPulses /\ 2 * b + 4 \in 1 .. RepeatPulses
        /\ b \in 0 .. DataBits /\ b \in 0 .. DataBits - 1
    BY <1>1, <1>7 DEF Bits
  <2>2. /\ lost + (start + 2 * b) = Before(k) + (2 * b + 3)
        /\ lost + (start + 2 * b + 1) = Before(k) + (2 * b + 4)
    <3>1. lost \in Nat /\ Before(k) \in Nat /\ b \in Nat /\ lost + start = Before(k) + 3
      BY <1>1, <1>2, <1>6, <2>1
    <3>2. QED
      BY <3>1
  <2>3. raw[start + 2 * b] \in BitMark
    <3>1. PICK i \in 1 .. Len(raw), r \in 1 .. RepeatPulses :
            i = start + 2 * b /\ r = 2 * b + 3 /\ lost + i = Before(k) + r
      BY <2>1, <2>2
    <3>2. QED
      BY <2>1, <3>1, HeardPulse
  <2>4. raw[start + 2 * b + 1] \in ZeroSpace \cup OneSpace
    <3>1. PICK i \in 1 .. Len(raw), r \in 1 .. RepeatPulses :
            i = start + 2 * b + 1 /\ r = 2 * b + 4 /\ lost + i = Before(k) + r
      BY <2>1, <2>2
    <3>2. b \in 0 .. DataBits - 1
      BY <2>1
    <3>3. QED
      BY <3>1, <3>2, HeardPulse
  <2>5. ~Flipped(states, raw, lost, start + 2 * b + 1)
    <3>1. start + 2 * b + 1 \in start .. place + FramePulses - 1
      <4>1. b \in Nat /\ b < DataBits /\ FramePulses = 2 * DataBits + 3 /\ DataBits \in Nat
        BY <1>1, <2>1
      <4>2. QED
        BY <1>5, <4>1
    <3>2. QED
      BY <1>8, <3>1
  <2>6. raw[start + 2 * b + 1] \in OneSpace <=> b + 0 \in states[k]
    BY <1>1, <1>7, <2>1, <2>5, HeardBit
  <2>7. QED
    BY <2>1, <2>3, <2>4, <2>6
<1>11. DataAt(raw, start)
  <2>1. raw[start + 2 * DataBits] \in BitMark
    <3>1. start + 2 * DataBits \in 1 .. Len(raw)
      BY <1>1, <1>6
    <3>2. 2 * DataBits + 3 \in 1 .. RepeatPulses /\ DataBits \in 0 .. DataBits
      BY <1>1
    <3>3. QED
      BY <1>6, <3>1, <3>2, HeardPulse
  <2>2. \A b \in 0 .. DataBits - 1 : /\ raw[start + 2 * b] \in BitMark
                                     /\ raw[start + 2 * b + 1] \in ZeroSpace \cup OneSpace
    BY <1>10 DEF Bits
  <2>3. QED
    BY <1>7, <2>1, <2>2 DEF DataAt, BitsAt
<1>12. decode_data(raw, start) = states[k]
  <2>1. decode_data(raw, start) \in States
    BY ScansFindStates
  <2>2. \A b \in Bits : b \in decode_data(raw, start) <=> raw[start + 2 * b + 1] \in OneSpace
    BY DEF decode_data, OnesAt, Bits
  <2>3. QED
    BY <1>9, <1>10, <2>1, <2>2 DEF States
<1>13. ASSUME HeaderAt(raw, place) PROVE states[k] \in HeaderFrames(raw)
  <2>1. FrameAt(raw, place) /\ decode_frame(raw, place) = states[k]
    BY <1>5, <1>6, <1>11, <1>12, <1>13 DEF FrameAt, decode_frame
  <2>2. QED
    BY <1>7, <1>9, <2>1 DEF HeaderFrames
<1>14. ASSUME ~HeaderAt(raw, place) PROVE states[k] \in HeaderlessFrames(raw)
  <2>1. ~HeaderAt(raw, start - 2)
    BY <1>7, <1>14
  <2>2. QED
    BY <1>7, <1>9, <1>11, <1>12, <2>1 DEF HeaderlessFrames
<1>15. QED
  BY <1>3, <1>13, <1>14

\* What the codec makes of legible pulses of supported states.
LEMMA LegibleVerdict ==
  ASSUME NEW states, NEW pulses, NEW lost,
         LegiblePulses(states, sanitize_glitches(pulses), lost), AllSupported(states)
  PROVE  LET raw == sanitize_glitches(pulses)
             decoded == decode_and_normalize_mitsubishi(pulses)
             headed(k) == Whole(states, raw, lost, k) /\ HeaderAt(raw, Place(k, lost))
         IN /\ decoded.ok =>
                 /\ \E k \in DOMAIN states : decoded.raw = encode_mitsubishi_state(states[k])
                 /\ \A j, k \in DOMAIN states :
                      headed(j) /\ headed(k) => states[j] = states[k]
            /\ /\ \A k \in DOMAIN states : states[k] = states[1]
               /\ \E k \in DOMAIN states : Whole(states, raw, lost, k)
               => decoded.ok
<1> DEFINE raw == sanitize_glitches(pulses)
           decoded == decode_and_normalize_mitsubishi(pulses)
           headed(k) == Whole(states, raw, lost, k) /\ HeaderAt(raw, Place(k, lost))
           frames == DecodedStates(pulses)
           state == CHOOSE s \in frames : TRUE
<1>1. DOMAIN states = 1 .. Len(states)
  BY DEF LegiblePulses
<1>2. frames = IF HeaderFrames(raw) # {} THEN HeaderFrames(raw)
               ELSE IF HeaderlessFrames(raw) # {} THEN HeaderlessFrames(raw)
               ELSE SuffixFrames(raw)
  BY DEF DecodedStates
<1>3. LegiblePulses(states, raw, lost)
  OBVIOUS
<1> HIDE DEF raw
<1>4. \A s \in frames : \E k \in DOMAIN states : s = states[k]
  BY <1>2, <1>3, FoundIsSent
<1>5. \A k \in DOMAIN states : headed(k) => states[k] \in frames
  <2> SUFFICES ASSUME NEW k \in DOMAIN states, headed(k) PROVE states[k] \in frames
    OBVIOUS
  <2>1. states[k] \in HeaderFrames(raw)
    BY <1>1, <1>3, WholeIsFound
  <2>2. QED
    BY <1>2, <2>1
<1>6. \A k \in DOMAIN states : Whole(states, raw, lost, k) => frames # {}
  <2> SUFFICES ASSUME NEW k \in DOMAIN states, Whole(states, raw, lost, k) PROVE frames # {}
    OBVIOUS
  <2>1. HeaderFrames(raw) # {} \/ HeaderlessFrames(raw) # {}
    BY <1>1, <1>3, WholeIsFound
  <2>2. QED
    BY <1>2, <2>1
<1> HIDE DEF frames
<1>7. ASSUME decoded.ok
      PROVE  /\ \E k \in DOMAIN states : decoded.raw = encode_mitsubishi_state(states[k])
             /\ \A j, k \in DOMAIN states :
                  headed(j) /\ headed(k) => states[j] = states[k]
  <2>1. Accepted(frames) /\ decoded.raw = encode_mitsubishi_state(state)
    BY <1>7 DEF decode_and_normalize_mitsubishi, frames
  <2>2. PICK s : frames = {s}
    <3>1. Cardinality(frames) = 1
      BY <2>1 DEF Accepted
    <3>2. IsFiniteSet(frames)
      <4>1. frames \in SUBSET States
        BY DecodedAreSupported DEF frames
      <4>2. IsFiniteSet(Bits) /\ IsFiniteSet(States)
        <5>1. IsFiniteSet(Bits)
          BY Sizes, FS_Interval DEF Bits
        <5>2. QED
          BY <5>1, FS_SUBSET DEF States
      <4>3. QED
        BY <4>1, <4>2, FS_Subset
    <3>3. QED
      BY <3>1, <3>2, FS_Singleton
  <2>3. state \in frames
    BY <2>2
  <2>4. QED
    BY <1>4, <1>5, <2>1, <2>2, <2>3
<1>8. ASSUME \A k \in DOMAIN states : states[k] = states[1],
             \E k \in DOMAIN states : Whole(states, raw, lost, k)
      PROVE  decoded.ok
  <2>1. frames = {states[1]}
    BY <1>4, <1>6, <1>8
  <2>2. Accepted(frames)
    BY <2>1, FS_Singleton DEF Accepted
  <2>3. state \in States
    <3>1. state \in frames
      BY <2>1
    <3>2. QED
      BY <3>1, DecodedAreSupported DEF frames
  <2>4. \A start \in {1, RepeatPulses + 1} :
          /\ FrameAt(encode_mitsubishi_state(state), start)
          /\ decode_frame(encode_mitsubishi_state(state), start) = state
    <3> HIDE DEF state
    <3>1. QED
      BY <2>3, DecodeInvertsEncode
  <2>5. QED
    BY <2>2, <2>4 DEF decode_and_normalize_mitsubishi, frames
<1>9. QED
  BY <1>7, <1>8 DEF raw

-----------------------------------------------------------------------------
(* Every signal. *)

\* A signal with one pulse replaced is a signal.
LEMMA ReplacedPulse ==
  ASSUME NEW s \in Seq(Int), NEW i \in 1 .. Len(s), NEW r \in Seq(Int) \ {<<>>}
  PROVE  ReplaceSubSeqAt(i, r, <<s[i]>>, s) \in Seq(Int) \ {<<>>}
<1> DEFINE before == SubSeq(s, 1, i - 1)
           after == SubSeq(s, i + 1, Len(s))
<1>1. ReplaceSubSeqAt(i, r, <<s[i]>>, s) = (before \o r) \o after
  BY DEF ReplaceSubSeqAt
<1>2. before \in Seq(Int) /\ after \in Seq(Int)
  <2>1. \A m, n \in Int : m >= 1 /\ n <= Len(s) => SubSeq(s, m, n) \in Seq(Int)
    BY SubSeqProperties
  <2>2. i - 1 \in Int /\ i - 1 <= Len(s) /\ i + 1 \in Int /\ i + 1 >= 1 /\ Len(s) \in Int
    OBVIOUS
  <2>3. before \in Seq(Int)
    BY <2>1, <2>2
  <2>4. after \in Seq(Int)
    BY <2>1, <2>2
  <2>5. QED
    BY <2>3, <2>4
<1>3. Len(r) \in Nat \ {0}
  BY EmptySeq
<1> HIDE DEF before, after
<1> DEFINE u == before \o r
<1>4. u \in Seq(Int) /\ Len(u) = Len(before) + Len(r)
  BY <1>2, Concatenation
<1> HIDE DEF u
<1>5. u \o after \in Seq(Int) /\ Len(u \o after) = Len(u) + Len(after)
  BY <1>2, <1>4, Concatenation
<1>6. Len(before) \in Nat /\ Len(after) \in Nat
  BY <1>2
<1>7. Len(u \o after) # 0
  BY <1>3, <1>4, <1>5, <1>6
<1>8. u \o after # <<>>
  BY <1>5, <1>7, EmptySeq
<1>9. QED
  BY <1>1, <1>5, <1>8 DEF u

\* Whatever the receiver does, there are pulses, and it has been noticed.
LEMMA DisturbedSignal ==
  ASSUME signal \in Seq(Int) \ {<<>>}, noise \in Nat, Receiver
  PROVE  signal' \in Seq(Int) \ {<<>>} /\ noise' \in Nat \ {0} /\ onAir' = onAir
<1> DEFINE Good == signal' \in Seq(Int) \ {<<>>} /\ noise' \in Nat \ {0} /\ onAir' = onAir
<1>1. Len(signal) \in Nat \ {0} /\ DOMAIN signal = 1 .. Len(signal)
  BY EmptySeq
<1>2. /\ noise + 1 \in Nat \ {0}
      /\ \A i \in 1 .. Len(signal), r \in Seq(Int) \ {<<>>} :
           ReplaceSubSeqAt(i, r, <<signal[i]>>, signal) \in Seq(Int) \ {<<>>}
  BY ReplacedPulse
<1>3. \A i \in 1 .. Len(signal) : signal[i] \in Int /\ signal[i] \div 2 \in Int
  <2> SUFFICES ASSUME NEW i \in 1 .. Len(signal)
               PROVE  signal[i] \in Int /\ signal[i] \div 2 \in Int
    OBVIOUS
  <2>1. PICK p \in Int : p = signal[i]
    BY <1>1
  <2>2. p \div 2 \in Int
    BY SMT
  <2>3. QED
    BY <2>1, <2>2
<1>4. \A a, b, c \in Int : /\ <<a>> \in Seq(Int) \ {<<>>} /\ <<a, b>> \in Seq(Int) \ {<<>>}
                           /\ <<a, b, c>> \in Seq(Int) \ {<<>>}
  OBVIOUS
<1>5. ASSUME NEW i \in 1 .. Len(signal), SplitMark(i) PROVE Good
  <2>1. signal[i] + 222 \in Int /\ -68 \in Int /\ 154 \in Int
    BY <1>3
  <2>2. /\ <<-68, 154, signal[i] + 222>> \in Seq(Int) \ {<<>>}
        /\ <<signal[i] + 222, 154, -68>> \in Seq(Int) \ {<<>>}
    BY <1>4, <2>1
  <2>3. /\ ReplaceSubSeqAt(i, <<-68, 154, signal[i] + 222>>, <<signal[i]>>, signal) \in Seq(Int) \ {<<>>}
        /\ ReplaceSubSeqAt(i, <<signal[i] + 222, 154, -68>>, <<signal[i]>>, signal) \in Seq(Int) \ {<<>>}
    <3>1. PICK q \in Seq(Int) \ {<<>>}, t \in Seq(Int) \ {<<>>} :
            /\ q = <<-68, 154, signal[i] + 222>>
            /\ t = <<signal[i] + 222, 154, -68>>
      BY <2>2
    <3>2. ReplaceSubSeqAt(i, q, <<signal[i]>>, signal) \in Seq(Int) \ {<<>>}
      BY <1>2
    <3>3. ReplaceSubSeqAt(i, t, <<signal[i]>>, signal) \in Seq(Int) \ {<<>>}
      BY <1>2
    <3>4. QED
      BY <3>1, <3>2, <3>3
  <2>4. /\ \/ signal' = ReplaceSubSeqAt(i, <<-68, 154, signal[i] + 222>>, <<signal[i]>>, signal)
           \/ signal' = ReplaceSubSeqAt(i, <<signal[i] + 222, 154, -68>>, <<signal[i]>>, signal)
        /\ noise' = noise + 1
        /\ onAir' = onAir
    BY <1>5 DEF SplitMark, Becomes
  <2>5. QED
    BY <1>2, <2>3, <2>4
<1>6. ASSUME NEW i \in 1 .. Len(signal), WeakenMark(i) PROVE Good
  <2>1. -119 \in Int
    OBVIOUS
  <2>2. <<-119>> \in Seq(Int) \ {<<>>}
    BY <1>4, <2>1
  <2>3. ReplaceSubSeqAt(i, <<-119>>, <<signal[i]>>, signal) \in Seq(Int) \ {<<>>}
    BY <1>2, <2>2
  <2>4. /\ signal' = ReplaceSubSeqAt(i, <<-119>>, <<signal[i]>>, signal)
        /\ noise' = noise + 1
        /\ onAir' = onAir
    BY <1>6 DEF WeakenMark, Becomes
  <2>5. QED
    BY <1>2, <2>3, <2>4
<1>7. ASSUME NEW i \in 1 .. Len(signal), Spike(i) PROVE Good
  <2>1. signal[i] \div 2 \in Int /\ -60 \in Int
    BY <1>3
  <2>2. <<signal[i] \div 2, -60, signal[i] \div 2>> \in Seq(Int) \ {<<>>}
    BY <1>4, <2>1
  <2>3. ReplaceSubSeqAt(i, <<signal[i] \div 2, -60, signal[i] \div 2>>, <<signal[i]>>, signal) \in Seq(Int) \ {<<>>}
    BY <1>2, <2>2
  <2>4. /\ signal' = ReplaceSubSeqAt(i, <<signal[i] \div 2, -60, signal[i] \div 2>>, <<signal[i]>>, signal)
        /\ noise' = noise + 1
        /\ onAir' = onAir
    BY <1>7 DEF Spike, Becomes
  <2>5. QED
    BY <1>2, <2>3, <2>4
<1>8. ASSUME NEW i \in 1 .. Len(signal), DamageLeader(i) PROVE Good
  <2>1. PICK a \in Int, b \in Int : a = -1800 /\ b = 800
    OBVIOUS
  <2>2. /\ \/ signal' = ReplaceSubSeqAt(i, <<a>>, <<signal[i]>>, signal)
           \/ signal' = ReplaceSubSeqAt(i, <<b>>, <<signal[i]>>, signal)
        /\ noise' = noise + 1
        /\ onAir' = onAir
    BY <1>8, <2>1 DEF DamageLeader, Becomes
  <2>3. <<a>> \in Seq(Int) \ {<<>>} /\ <<b>> \in Seq(Int) \ {<<>>}
    BY <1>4
  <2>4. /\ ReplaceSubSeqAt(i, <<a>>, <<signal[i]>>, signal) \in Seq(Int) \ {<<>>}
        /\ ReplaceSubSeqAt(i, <<b>>, <<signal[i]>>, signal) \in Seq(Int) \ {<<>>}
    BY <1>2, <2>3
  <2>5. QED
    BY <1>2, <2>2, <2>4
<1>9. ASSUME NEW i \in 1 .. Len(signal), LoseMark(i) PROVE Good
  <2>1. -60 \in Int
    OBVIOUS
  <2>2. <<-60>> \in Seq(Int) \ {<<>>}
    BY <1>4, <2>1
  <2>3. ReplaceSubSeqAt(i, <<-60>>, <<signal[i]>>, signal) \in Seq(Int) \ {<<>>}
    BY <1>2, <2>2
  <2>4. /\ signal' = ReplaceSubSeqAt(i, <<-60>>, <<signal[i]>>, signal)
        /\ noise' = noise + 1
        /\ onAir' = onAir
    BY <1>9 DEF LoseMark, Becomes
  <2>5. QED
    BY <1>2, <2>3, <2>4
<1>10. ASSUME NEW i \in 1 .. Len(signal), FlipBit(i) PROVE Good
  <2>1. PICK q \in Int : q = 1720 - signal[i]
    BY <1>3
  <2>2. <<q>> \in Seq(Int) \ {<<>>}
    BY <1>4
  <2>3. /\ signal' = ReplaceSubSeqAt(i, <<q>>, <<signal[i]>>, signal)
        /\ noise' = noise + 1
        /\ onAir' = onAir
    BY <1>10, <2>1 DEF FlipBit, Becomes
  <2>4. QED
    BY <1>2, <2>2, <2>3
<1>11. ASSUME NEW i \in 1 .. Len(signal), InsertMark(i) PROVE Good
  <2>1. signal[i] \div 2 \in Int /\ -150 \in Int
    BY <1>3
  <2>2. <<signal[i] \div 2, -150, signal[i] \div 2>> \in Seq(Int) \ {<<>>}
    BY <1>4, <2>1
  <2>3. ReplaceSubSeqAt(i, <<signal[i] \div 2, -150, signal[i] \div 2>>, <<signal[i]>>, signal) \in Seq(Int) \ {<<>>}
    BY <1>2, <2>2
  <2>4. /\ signal' = ReplaceSubSeqAt(i, <<signal[i] \div 2, -150, signal[i] \div 2>>, <<signal[i]>>, signal)
        /\ noise' = noise + 1
        /\ onAir' = onAir
    BY <1>11 DEF InsertMark, Becomes
  <2>5. QED
    BY <1>2, <2>3, <2>4
<1>12. ASSUME NEW i \in 1 .. Len(signal), LoseStart(i) PROVE Good
  <2>1. signal' = SubSeq(signal, i + 1, Len(signal)) /\ i < Len(signal)
    BY <1>12 DEF LoseStart
  <2>2. ASSUME NEW m \in 1 .. Len(signal)
        PROVE  SubSeq(signal, m, Len(signal)) \in Seq(Int)
               /\ Len(SubSeq(signal, m, Len(signal))) = Len(signal) - m + 1
    BY <1>1, SubSeqProperties
  <2>3. i + 1 \in 1 .. Len(signal) /\ Len(signal) - (i + 1) + 1 # 0
    <3>1. PICK n \in Nat : n = Len(signal)
      BY <1>1
    <3>2. i \in 1 .. n /\ i < n
      BY <2>1, <3>1
    <3>3. i + 1 \in 1 .. n /\ n - (i + 1) + 1 # 0
      BY <3>2
    <3>4. QED
      BY <3>1, <3>3
  <2>4. signal' \in Seq(Int) /\ Len(signal') # 0
    BY <2>1, <2>2, <2>3
  <2>5. signal' # <<>>
    BY <2>4, EmptySeq
  <2>6. QED
    BY <1>12, <2>4, <2>5 DEF LoseStart, Good
<1>13. ASSUME EdgeGlitch PROVE Good
  <2>1. 1 \in 1 .. Len(signal) /\ Len(signal) \in 1 .. Len(signal) /\ 90 \in Int
    BY <1>1
  <2>2. /\ <<90, signal[1]>> \in Seq(Int) \ {<<>>}
        /\ <<signal[Len(signal)], 90>> \in Seq(Int) \ {<<>>}
    BY <1>3, <1>4, <2>1
  <2>3. /\ ReplaceSubSeqAt(1, <<90, signal[1]>>, <<signal[1]>>, signal) \in Seq(Int) \ {<<>>}
        /\ ReplaceSubSeqAt(Len(signal), <<signal[Len(signal)], 90>>,
                           <<signal[Len(signal)]>>, signal) \in Seq(Int) \ {<<>>}
    BY <1>2, <2>1, <2>2
  <2>4. /\ \/ signal' = ReplaceSubSeqAt(1, <<90, signal[1]>>, <<signal[1]>>, signal)
           \/ signal' = ReplaceSubSeqAt(Len(signal), <<signal[Len(signal)], 90>>,
                                        <<signal[Len(signal)]>>, signal)
        /\ noise' = noise + 1
        /\ onAir' = onAir
    BY <1>13 DEF EdgeGlitch, Becomes
  <2>5. QED
    BY <1>2, <2>3, <2>4
<1> HIDE DEF Good
<1>14. Good
  BY <1>1, <1>5, <1>6, <1>7, <1>8, <1>9, <1>10, <1>11, <1>12, <1>13 DEF Receiver
<1>15. QED
  BY <1>14 DEF Good

\* What is sent has pulses.
LEMMA SentSignal ==
  ASSUME NEW states \in Transmissions
  PROVE  /\ states \in Seq(States) \ {<<>>}
         /\ Emitted(states) \in Seq(Int) \ {<<>>}
<1>1. states \in Seq(States) \ {<<>>}
  BY TransmissionAssumption
<1>2. /\ Len(states) \in Nat \ {0} /\ Emitted(states) \in Seq(Int)
      /\ Len(Emitted(states)) = Before(Len(states) + 1) - 1
  BY <1>1, EmittedPulse
<1>3. /\ Before(Len(states)) \in Nat
      /\ Before(Len(states) + 1) = Before(Len(states)) + RepeatPulses
      /\ DataBits \in Nat /\ RepeatPulses = 2 * DataBits + 4
  BY <1>2, Places, Sizes
<1>4. Len(Emitted(states)) # 0
  BY <1>2, <1>3
<1>5. Emitted(states) # <<>>
  BY <1>4, EmptySeq
<1>6. QED
  BY <1>1, <1>2, <1>5

\* Every step keeps the invariant.
LEMMA VerdictStep == VerdictInv /\ [Next]_vars => VerdictInv'
<1> SUFFICES ASSUME VerdictInv, [Next]_vars PROVE VerdictInv'
  OBVIOUS
<1> USE DEF VerdictInv
<1>1. CASE Receiver
  <2>1. phase = "air" /\ phase' = phase
    BY <1>1, DisturbedInAir
  <2>2. signal' \in Seq(Int) \ {<<>>} /\ noise' \in Nat \ {0} /\ onAir' = onAir
    BY <1>1, DisturbedSignal
  <2>3. QED
    BY <2>1, <2>2 DEF VerdictInv
<1>2. CASE process_candidate_
  <2>1. UNCHANGED <<onAir, signal, noise>>
    BY <1>2 DEF process_candidate_, noiseVars
  <2>2. \/ /\ decode_and_normalize_mitsubishi(signal).ok
           /\ capture_' = decode_and_normalize_mitsubishi(signal).raw
           /\ phase' = "learned"
        \/ /\ ~(Plausible(signal) /\ decode_and_normalize_mitsubishi(signal).ok)
           /\ phase' = "rejected"
    BY <1>2 DEF process_candidate_
  <2>3. QED
    BY <2>1, <2>2 DEF VerdictInv
<1>3. CASE send
  <2>1. phase' = "sent" /\ UNCHANGED <<onAir, signal, noise>>
    BY <1>3 DEF send, noiseVars
  <2>2. QED
    BY <2>1 DEF VerdictInv
<1>4. CASE AnotherSignal
  <2>1. /\ phase' = "air" /\ onAir' \in Transmissions /\ signal' = Emitted(onAir')
        /\ noise' = 0
    BY <1>4 DEF AnotherSignal
  <2>2. signal' \in Seq(Int) \ {<<>>}
    BY <2>1, SentSignal
  <2>3. QED
    BY <2>1, <2>2 DEF VerdictInv
<1>5. CASE UNCHANGED vars
  <2>1. UNCHANGED <<phase, onAir, signal, noise, capture_>>
    BY <1>5 DEF vars, noiseVars
  <2>2. (phase = "learned" => /\ decode_and_normalize_mitsubishi(signal).ok
                             /\ capture_ = decode_and_normalize_mitsubishi(signal).raw)'
    BY <2>1 DEF VerdictInv
  <2>3. (phase = "rejected" =>
           ~(Plausible(signal) /\ decode_and_normalize_mitsubishi(signal).ok))'
    <3>1. phase = "rejected" => ~(Plausible(signal) /\ decode_and_normalize_mitsubishi(signal).ok)
      BY DEF VerdictInv
    <3>2. signal' = signal /\ phase' = phase
      BY <2>1
    <3>3. QED
      BY <3>1, <3>2
  <2>4. (/\ onAir \in Transmissions
         /\ signal \in Seq(Int) \ {<<>>}
         /\ noise \in Nat
         /\ noise = 0 => signal = Emitted(onAir))'
    BY <2>1 DEF VerdictInv
  <2>5. QED
    BY <2>2, <2>3, <2>4 DEF VerdictInv
<1>6. QED
  BY <1>1, <1>2, <1>3, <1>4, <1>5 DEF Next

\* The verdict is of the signal as it came.
LEMMA VerdictInvariant == Spec => []VerdictInv
<1>1. Init => VerdictInv
  <2> SUFFICES ASSUME Init PROVE VerdictInv
    OBVIOUS
  <2>1. /\ phase = "air" /\ onAir \in Transmissions /\ signal = Emitted(onAir) /\ noise = 0
    BY DEF Init
  <2>2. signal \in Seq(Int) \ {<<>>}
    BY <2>1, SentSignal
  <2>3. QED
    BY <2>1, <2>2 DEF VerdictInv
<1>2. QED
  BY <1>1, VerdictStep, PTL DEF Spec

\* The frames of supported states that count are the ones learned from, once the repair
\* leaves pulses within the decoder's limits (decode_and_normalize_mitsubishi).
THEOREM AlwaysLegibleIsLearned == Spec => []LegibleIsLearned
<1>1. VerdictInv => LegibleIsLearned
  <2> DEFINE raw == sanitize_glitches(signal)
             decoded == decode_and_normalize_mitsubishi(signal)
             whole(lost) == {k \in DOMAIN onAir : Whole(onAir, raw, lost, k)}
             headed(lost) == {k \in whole(lost) : HeaderAt(raw, Place(k, lost))}
             stands(lost, k) == Whole(onAir, raw, lost, k) /\ HeaderAt(raw, Place(k, lost))
             learned(lost) == /\ \E k \in DOMAIN onAir : capture_ = encode_mitsubishi_state(onAir[k])
                              /\ \A j, k \in headed(lost) : onAir[j] = onAir[k]
  <2> SUFFICES ASSUME VerdictInv, Supported, NEW lost \in 0 .. RepeatPulses,
                      Legible(onAir, raw, lost)
               PROVE  /\ phase = "learned" => learned(lost)
                      /\ phase = "rejected" /\ OneState /\ Plausible(signal) => whole(lost) = {}
    BY DEF LegibleIsLearned
  <2>1. /\ onAir \in Seq(States) \ {<<>>} /\ signal \in Seq(Int)
        /\ phase = "learned" => decoded.ok /\ capture_ = decoded.raw
        /\ phase = "rejected" => ~(Plausible(signal) /\ decoded.ok)
    BY TransmissionAssumption DEF VerdictInv
  <2>2. AllSupported(onAir)
    BY DEF Supported, AllSupported
  <2>3. LegiblePulses(onAir, raw, lost)
    <3>1. raw \in Seq(Int)
      BY <2>1, RepairEnds
    <3>2. lost \in Nat
      BY Places
    <3>3. QED
      BY <2>1, <3>1, <3>2 DEF LegiblePulses
  <2>4. /\ decoded.ok =>
             /\ \E k \in DOMAIN onAir : decoded.raw = encode_mitsubishi_state(onAir[k])
             /\ \A j, k \in DOMAIN onAir : stands(lost, j) /\ stands(lost, k) => onAir[j] = onAir[k]
        /\ /\ \A k \in DOMAIN onAir : onAir[k] = onAir[1]
           /\ \E k \in DOMAIN onAir : Whole(onAir, raw, lost, k)
           => decoded.ok
    BY <2>2, <2>3, LegibleVerdict
  <2> HIDE DEF decoded, raw
  <2>5. phase = "learned" => learned(lost)
    <3> SUFFICES ASSUME phase = "learned" PROVE learned(lost)
      OBVIOUS
    <3>1. decoded.ok /\ capture_ = decoded.raw
      BY <2>1
    <3>2. \A j, k \in headed(lost) : onAir[j] = onAir[k]
      BY <2>4, <3>1
    <3>3. \E k \in DOMAIN onAir : capture_ = encode_mitsubishi_state(onAir[k])
      BY <2>4, <3>1
    <3>4. QED
      BY <3>2, <3>3
  <2>6. phase = "rejected" /\ OneState /\ Plausible(signal) => whole(lost) = {}
    <3> SUFFICES ASSUME phase = "rejected", OneState, Plausible(signal) PROVE whole(lost) = {}
      OBVIOUS
    <3>1. ~decoded.ok
      BY <2>1
    <3>2. \A k \in DOMAIN onAir : onAir[k] = onAir[1]
      BY DEF OneState
    <3>3. QED
      BY <2>4, <3>1, <3>2
  <2>7. QED
    BY <2>5, <2>6
<1>2. QED
  BY <1>1, VerdictInvariant, PTL

-----------------------------------------------------------------------------
(* A signal that arrives as it was sent. *)

\* Each pulse that is sent is read as itself and is too long to be a glitch.
LEMMA NominalPulse ==
  ASSUME NEW p \in {-3400, 1750, -450, -440, 420, 1300, 15500}
  PROVE  p \in Int /\ ReadsAs(p, p) /\ duration_abs(p) > GLITCH_MAX
BY DEF ReadsAs, duration_abs, GLITCH_MAX, BitMark, BIT_MARK_MIN, ZeroSpace, OneSpace

\* A frame is of such pulses, marks and spaces in turn.
LEMMA NominalFrame ==
  ASSUME NEW state, NEW r \in 1 .. RepeatPulses
  PROVE  /\ CanonicalFrame(state)[r] \in {-3400, 1750, -450, -440, 420, 1300, 15500}
         /\ r > 1 => (CanonicalFrame(state)[r - 1] < 0 <=> ~(CanonicalFrame(state)[r] < 0))
         /\ CanonicalFrame(state)[1] = -3400 /\ CanonicalFrame(state)[2] = 1750
         /\ CanonicalFrame(state)[RepeatPulses] = 15500
<1> DEFINE frame == CanonicalFrame(state)
<1>1. DataBits \in Nat \ {0} /\ RepeatPulses = 2 * DataBits + 4
  BY Sizes, Places
<1>2. /\ frame[1] = -3400 /\ frame[2] = 1750
      /\ \A b \in 0 .. DataBits - 1 :
           /\ frame[2 * b + 3] = -450
           /\ frame[2 * b + 4] = IF b \in state THEN 1300 ELSE 420
      /\ frame[2 * DataBits + 3] = -440 /\ frame[RepeatPulses] = 15500
  BY <1>1, FramePulse
<1> HIDE DEF frame
<1>3. ASSUME NEW b \in 0 .. DataBits PROVE frame[2 * b + 3] \in {-450, -440}
  <2>1. b = DataBits \/ b \in 0 .. DataBits - 1
    BY <1>1
  <2>2. QED
    BY <1>2, <2>1
<1>4. ASSUME NEW b \in 0 .. DataBits - 1 PROVE frame[2 * b + 4] \in {420, 1300}
  BY <1>2
<1>5. CASE r = 1 \/ r = 2
  BY <1>2, <1>5 DEF frame
<1>6. ASSUME NEW b \in 0 .. DataBits, r = 2 * b + 3
      PROVE  frame[r] \in {-450, -440} /\ frame[r - 1] \in {1750, 420, 1300}
  <2>1. frame[r] \in {-450, -440}
    BY <1>3, <1>6
  <2>2. CASE b = 0
    <3>1. r - 1 = 2
      BY <1>6, <2>2
    <3>2. QED
      BY <1>2, <2>1, <3>1
  <2>3. CASE b # 0
    <3>1. b - 1 \in 0 .. DataBits - 1 /\ r - 1 = 2 * (b - 1) + 4
      BY <1>1, <1>6, <2>3
    <3>2. frame[r - 1] \in {420, 1300}
      BY <1>4, <3>1
    <3>3. QED
      BY <2>1, <3>2
  <2>4. QED
    BY <2>2, <2>3
<1>7. ASSUME NEW b \in 0 .. DataBits - 1, r = 2 * b + 4
      PROVE  frame[r] \in {420, 1300} /\ frame[r - 1] = -450
  <2>1. r - 1 = 2 * b + 3
    BY <1>1, <1>7
  <2>2. QED
    BY <1>2, <1>4, <1>7, <2>1
<1>8. CASE r = RepeatPulses
  <2>1. r - 1 = 2 * DataBits + 3
    BY <1>1, <1>8
  <2>2. QED
    BY <1>2, <1>8, <2>1 DEF frame
<1>9. CASE \E b \in 0 .. DataBits : r = 2 * b + 3
  BY <1>2, <1>6, <1>9 DEF frame
<1>10. CASE \E b \in 0 .. DataBits - 1 : r = 2 * b + 4
  BY <1>2, <1>7, <1>10 DEF frame
<1>11. QED
  BY <1>5, <1>8, <1>9, <1>10, PulseKind

\* A transmission is clean, and each of its pulses is read as itself.
LEMMA SentIsClean ==
  ASSUME NEW states \in Seq(States) \ {<<>>}
  PROVE  /\ Clean(Emitted(states))
         /\ \A i \in 1 .. Len(Emitted(states)) : ReadsAs(Emitted(states)[i], Emitted(states)[i])
<1> DEFINE sent == Emitted(states)
           n == Len(states)
<1>1. /\ n \in Nat \ {0} /\ sent \in Seq(Int) /\ Len(sent) \in Nat
      /\ Len(sent) = Before(n + 1) - 1
      /\ \A k \in 1 .. n, r \in 1 .. RepeatPulses :
           Before(k) + r < Before(n + 1) => sent[Before(k) + r] = CanonicalFrame(states[k])[r]
  BY EmittedPulse
<1> HIDE DEF sent, n
<1>2. Before(n + 1) \in Nat /\ RepeatPulses \in Nat \ {0} /\ Before(1) = 0
  <2>1. n + 1 \in Nat \ {0}
    BY <1>1
  <2>2. QED
    BY <2>1, Places
<1>3. ASSUME NEW k \in 1 .. n
      PROVE  Before(k) \in Nat /\ (k # 1 => Before(k) = Before(k - 1) + RepeatPulses)
  <2>1. k \in Nat \ {0} /\ (k # 1 => k - 1 \in Nat \ {0} /\ k = (k - 1) + 1)
    BY <1>1
  <2>2. QED
    BY <2>1, Places
<1>4. ASSUME NEW i \in 1 .. Len(sent)
      PROVE  \E k \in 1 .. n, r \in 1 .. RepeatPulses :
               i = Before(k) + r /\ sent[i] = CanonicalFrame(states[k])[r]
  <2>1. i \in 1 .. Before(n + 1) - 1
    BY <1>1
  <2>2. PICK k \in 1 .. n, r \in 1 .. RepeatPulses : i = Before(k) + r
    BY <1>1, <2>1, PulsePlace
  <2>3. i < Before(n + 1)
    BY <1>2, <2>1
  <2>4. QED
    BY <1>1, <2>2, <2>3
<1>5. ASSUME NEW i \in 1 .. Len(sent)
      PROVE  ReadsAs(sent[i], sent[i]) /\ duration_abs(sent[i]) > GLITCH_MAX
  <2>1. PICK k \in 1 .. n, r \in 1 .. RepeatPulses : sent[i] = CanonicalFrame(states[k])[r]
    BY <1>4
  <2>2. sent[i] \in {-3400, 1750, -450, -440, 420, 1300, 15500}
    BY <2>1, NominalFrame
  <2>3. QED
    BY <2>2, NominalPulse
<1>6. ASSUME NEW i \in 2 .. Len(sent) PROVE ~same_polarity(sent[i - 1], sent[i])
  <2>1. i \in 1 .. Len(sent) /\ i \in Nat \ {0, 1} /\ i - 1 \in 1 .. Len(sent)
    BY <1>1
  <2>2. PICK k \in 1 .. n, r \in 1 .. RepeatPulses :
          i = Before(k) + r /\ sent[i] = CanonicalFrame(states[k])[r]
    BY <1>4, <2>1
  <2>3. i < Before(n + 1)
    BY <1>1, <1>2
  <2>4. CASE r = 1
    <3>1. sent[i] = -3400
      BY <2>2, <2>4, NominalFrame
    <3>2. k # 1
      BY <1>2, <2>1, <2>2, <2>4
    <3>3. k - 1 \in 1 .. n /\ Before(k - 1) + RepeatPulses = i - 1
      <4>1. k - 1 \in 1 .. n
        BY <1>1, <3>2
      <4>2. Before(k - 1) \in Nat /\ Before(k) = Before(k - 1) + RepeatPulses
        BY <1>3, <3>2, <4>1
      <4>3. QED
        BY <1>2, <2>2, <2>4, <4>1, <4>2
    <3>4. i - 1 < Before(n + 1) /\ RepeatPulses \in 1 .. RepeatPulses
      BY <1>2, <2>1, <2>3
    <3>5. sent[i - 1] = CanonicalFrame(states[k - 1])[RepeatPulses]
      BY <1>1, <3>3, <3>4
    <3>6. sent[i - 1] = 15500
      BY <3>4, <3>5, NominalFrame
    <3>7. QED
      BY <3>1, <3>6 DEF same_polarity
  <2>5. CASE r # 1
    <3>1. r - 1 \in 1 .. RepeatPulses /\ Before(k) + (r - 1) = i - 1 /\ i - 1 < Before(n + 1)
      BY <1>2, <1>3, <2>1, <2>2, <2>3, <2>5
    <3>2. sent[i - 1] = CanonicalFrame(states[k])[r - 1]
      BY <1>1, <3>1
    <3>3. r > 1
      BY <1>2, <2>5
    <3>4. QED
      BY <2>2, <3>2, <3>3, NominalFrame DEF same_polarity
  <2>6. QED
    BY <2>4, <2>5
<1>7. QED
  BY <1>1, <1>5, <1>6 DEF Clean, sent

\* It is legible, and every frame of it is whole and has its header.
LEMMA SentIsLegible ==
  ASSUME NEW states \in Seq(States) \ {<<>>}
  PROVE  /\ LegiblePulses(states, Emitted(states), 0)
         /\ \A k \in 1 .. Len(states) : /\ Whole(states, Emitted(states), 0, k)
                                        /\ HeaderAt(Emitted(states), Place(k, 0))
<1> DEFINE sent == Emitted(states)
           n == Len(states)
<1>1. /\ n \in Nat \ {0} /\ sent \in Seq(Int) /\ Len(sent) \in Nat
      /\ Len(sent) = Before(n + 1) - 1
      /\ \A k \in 1 .. n, r \in 1 .. RepeatPulses :
           Before(k) + r < Before(n + 1) => sent[Before(k) + r] = CanonicalFrame(states[k])[r]
  BY EmittedPulse
<1>2. \A i \in 1 .. Len(sent) : ReadsAs(sent[i], sent[i]) /\ ~ReadsOtherBit(sent[i], sent[i])
  <2> SUFFICES ASSUME NEW i \in 1 .. Len(sent)
               PROVE  ReadsAs(sent[i], sent[i]) /\ ~ReadsOtherBit(sent[i], sent[i])
    OBVIOUS
  <2>1. ReadsAs(sent[i], sent[i])
    BY SentIsClean
  <2>2. sent[i] \in Int
    BY <1>1
  <2>3. QED
    BY <2>1, <2>2, NotBoth
<1>3. LegiblePulses(states, sent, 0)
  <2>1. Len(sent) = Len(sent) - 0 /\ DOMAIN sent = 1 .. Len(sent)
    BY <1>1
  <2>2. \A i \in 1 .. Len(sent) : 0 + i = i
    BY <1>1
  <2> HIDE DEF sent
  <2>3. Len(Emitted(states)) = Len(sent) /\ \A i \in 1 .. Len(sent) : Emitted(states)[i] = sent[i]
    BY DEF sent
  <2>4. Legible(states, sent, 0)
    BY <1>2, <2>1, <2>2, <2>3 DEF Legible
  <2>5. QED
    BY <1>1, <2>4 DEF LegiblePulses
<1> HIDE DEF n
<1>4. ASSUME NEW k \in 1 .. n PROVE Whole(states, sent, 0, k) /\ HeaderAt(sent, Place(k, 0))
  <2>1. /\ k \in Nat \ {0} /\ n + 1 \in Nat \ {0} /\ k \in 1 .. (n + 1) - 1
    BY <1>1
  <2>2. /\ RepeatPulses \in Nat \ {0} /\ FramePulses = RepeatPulses - 1
        /\ DataBits \in Nat \ {0} /\ RepeatPulses = 2 * DataBits + 4
    BY Sizes, Places
  <2>3. /\ Before(k) \in Nat /\ Before(n + 1) \in Nat
        /\ Before(k) + RepeatPulses <= Before(n + 1)
    BY <2>1, Places
  <2>4. PICK before \in Nat, all \in Nat, d \in Nat \ {0}, len \in Nat :
          /\ before = Before(k) /\ all = Before(n + 1) /\ d = DataBits /\ len = Len(sent)
          /\ before + (2 * d + 4) <= all /\ len = all - 1
    BY <1>1, <2>2, <2>3
  <2>5. PICK place \in Nat \ {0} : place = Before(k) + 1 /\ place = Place(k, 0)
    <3>1. Place(k, 0) = Before(k) + 1 - 0
      BY DEF Place, Before
    <3>2. QED
      BY <2>3, <3>1
  <2>6. place + FramePulses - 1 <= Len(sent) /\ place + 1 <= Len(sent)
    <3>1. place = before + 1 /\ FramePulses = 2 * d + 3
      BY <2>2, <2>4, <2>5
    <3>2. place + (2 * d + 3) - 1 <= len /\ place + 1 <= len
      BY <2>4, <3>1
    <3>3. QED
      BY <2>4, <3>1, <3>2
  <2>7. Whole(states, sent, 0, k)
    <3>1. \A i \in place + 2 .. place + FramePulses - 1 :
            /\ 0 + i = i
            /\ i \in 1 .. Len(sent)
      BY <1>1, <2>2, <2>5, <2>6
    <3>2. \A i \in place + 2 .. place + FramePulses - 1 : ReadsAs(sent[0 + i], sent[i])
      BY <1>2, <3>1
    <3>3. place >= 1
      OBVIOUS
    <3>4. QED
      BY <2>5, <3>2, <3>3 DEF Whole
  <2>8. HeaderAt(sent, place)
    <3>1. /\ place = Before(k) + 1 /\ place + 1 = Before(k) + 2
          /\ 1 \in 1 .. RepeatPulses /\ 2 \in 1 .. RepeatPulses
          /\ Before(k) + 1 < Before(n + 1) /\ Before(k) + 2 < Before(n + 1)
      BY <2>2, <2>3, <2>5
    <3>2. /\ sent[place] = CanonicalFrame(states[k])[1]
          /\ sent[place + 1] = CanonicalFrame(states[k])[2]
      BY <1>1, <3>1
    <3>3. sent[place] = -3400 /\ sent[place + 1] = 1750
      BY <3>1, <3>2, NominalFrame
    <3>4. place >= 1
      OBVIOUS
    <3> HIDE DEF sent
    <3>5. QED
      BY <2>6, <3>3, <3>4 DEF HeaderAt, HeaderMark, HeaderSpace
  <2>9. QED
    BY <2>5, <2>7, <2>8
<1>5. QED
  BY <1>3, <1>4 DEF n

\* What arrives as it was sent is learned, unless its states differ or it is too short or
\* too long (process_candidate_).
THEOREM AlwaysUndisturbedIsLearned == Spec => []UndisturbedIsLearned
<1>1. VerdictInv => UndisturbedIsLearned
  <2> DEFINE raw == Emitted(onAir)
             decoded == decode_and_normalize_mitsubishi(signal)
             stands(k) == Whole(onAir, raw, 0, k) /\ HeaderAt(raw, Place(k, 0))
  <2> SUFFICES ASSUME VerdictInv, noise = 0, Supported
               PROVE  /\ phase = "learned" =>
                           OneState /\ capture_ = encode_mitsubishi_state(onAir[1])
                      /\ phase = "rejected" /\ Plausible(signal) => ~OneState
    BY DEF UndisturbedIsLearned
  <2>1. /\ onAir \in Seq(States) \ {<<>>} /\ signal = raw
        /\ phase = "learned" => decoded.ok /\ capture_ = decoded.raw
        /\ phase = "rejected" => ~(Plausible(signal) /\ decoded.ok)
    BY TransmissionAssumption DEF VerdictInv
  <2>2. AllSupported(onAir)
    BY DEF Supported, AllSupported
  <2>3. 1 \in DOMAIN onAir /\ DOMAIN onAir = 1 .. Len(onAir)
    BY <2>1, EmptySeq
  <2>4. /\ LegiblePulses(onAir, raw, 0)
        /\ \A k \in DOMAIN onAir : stands(k)
    BY <2>1, <2>3, SentIsLegible
  <2>5. sanitize_glitches(signal) = raw
    BY <2>1, SentIsClean, CleanStaysAsItIs
  <2>6. /\ decoded.ok =>
             /\ \E k \in DOMAIN onAir : decoded.raw = encode_mitsubishi_state(onAir[k])
             /\ \A j, k \in DOMAIN onAir : stands(j) /\ stands(k) => onAir[j] = onAir[k]
        /\ /\ \A k \in DOMAIN onAir : onAir[k] = onAir[1]
           /\ \E k \in DOMAIN onAir : Whole(onAir, raw, 0, k)
           => decoded.ok
    BY <2>2, <2>4, <2>5, LegibleVerdict
  <2> HIDE DEF decoded, raw
  <2>7. ASSUME phase = "learned"
        PROVE  OneState /\ capture_ = encode_mitsubishi_state(onAir[1])
    <3>1. decoded.ok /\ capture_ = decoded.raw
      BY <2>1, <2>7
    <3>2. \A k \in DOMAIN onAir : onAir[k] = onAir[1]
      BY <2>3, <2>4, <2>6, <3>1
    <3>3. \E k \in DOMAIN onAir : capture_ = encode_mitsubishi_state(onAir[k])
      BY <2>6, <3>1
    <3>4. QED
      BY <3>2, <3>3 DEF OneState
  <2>8. ASSUME phase = "rejected", Plausible(signal), OneState PROVE FALSE
    <3>1. ~decoded.ok
      BY <2>1, <2>8
    <3>2. \A k \in DOMAIN onAir : onAir[k] = onAir[1]
      BY <2>8 DEF OneState
    <3>3. \E k \in DOMAIN onAir : Whole(onAir, raw, 0, k)
      BY <2>3, <2>4
    <3>4. QED
      BY <2>6, <3>1, <3>2, <3>3
  <2>9. QED
    BY <2>7, <2>8
<1>2. QED
  BY <1>1, VerdictInvariant, PTL

-----------------------------------------------------------------------------
(* What is learned can be sent. *)

\* Duration adds one pulse after the other.
LEMMA DurationSteps ==
  ASSUME NEW raw \in Seq(Int)
  PROVE  \E out : /\ out[0] = 0
                  /\ \A i \in 1 .. Len(raw) : out[i] = out[i - 1] + duration_abs(raw[i])
                  /\ out[Len(raw)] = Duration(raw)
<1> DEFINE S == DOMAIN raw
           pick == [s \in SUBSET S |-> Max(s)]
           step == [at \in S \X Int |-> at[2] + duration_abs(raw[at[1]])]
           body(f, s) == IF s = {} THEN 0 ELSE f[s \ {Max(s)}] + duration_abs(raw[Max(s)])
           iter == CHOOSE f : f = [s \in SUBSET S |-> body(f, s)]
<1>1. S = 1 .. Len(raw) /\ Len(raw) \in Nat /\ IsFiniteSet(S)
  BY FS_Interval
<1>2. Duration(raw) = iter[S]
  BY DEF Duration, FoldLeft, MapThenFoldSet
<1>3. \A s \in SUBSET S : s # {} => Max(s) \in s
  BY <1>1, MaxOfSome
<1>4. \A x \in S, out \in Int : step[<<x, out>>] \in Int
  <2> SUFFICES ASSUME NEW x \in S, NEW out \in Int PROVE step[<<x, out>>] \in Int
    OBVIOUS
  <2>1. step[<<x, out>>] = out + duration_abs(raw[x]) /\ raw[x] \in Int
    OBVIOUS
  <2> HIDE DEF step
  <2>2. QED
    BY <2>1 DEF duration_abs
<1>5. PICK f \in [SUBSET S -> Int] : IsFold(f, S, 0, pick, step)
  <2>1. \A s \in SUBSET S : s # {} => pick[s] \in s
    BY <1>3
  <2>2. 0 \in Int
    OBVIOUS
  <2> HIDE DEF S, pick, step
  <2>3. QED
    BY <1>1, <1>4, <2>1, <2>2, FoldExists
<1>6. \A s \in SUBSET S :
        (IF s = {} THEN 0 ELSE step[<<pick[s], f[s \ {pick[s]}]>>]) = body(f, s)
  <2> SUFFICES ASSUME NEW s \in SUBSET S, s # {}
               PROVE  step[<<pick[s], f[s \ {pick[s]}]>>] = body(f, s)
    OBVIOUS
  <2>1. pick[s] = Max(s) /\ Max(s) \in S /\ s \ {Max(s)} \in SUBSET S
    BY <1>3
  <2>2. f[s \ {Max(s)}] \in Int
    BY <2>1
  <2>3. QED
    BY <2>1, <2>2
<1>7. f = [s \in SUBSET S |-> body(f, s)]
  <2> HIDE DEF S, pick, step, body
  <2>1. QED
    BY <1>5, <1>6 DEF IsFold
<1>8. iter = [s \in SUBSET S |-> body(iter, s)]
  <2> HIDE DEF S, body
  <2>1. QED
    BY <1>7
<1>9. \A s \in SUBSET S : iter[s] = body(iter, s)
  <2> HIDE DEF S, body, iter
  <2>1. QED
    BY <1>8
<1> DEFINE out == [i \in 0 .. Len(raw) |-> iter[1 .. i]]
<1>10. out[0] = 0
  <2>1. 1 .. 0 = {} /\ {} \in SUBSET S /\ 0 \in 0 .. Len(raw)
    BY <1>1
  <2> HIDE DEF S, iter
  <2>2. QED
    BY <2>1, <1>9
<1>11. ASSUME NEW i \in 1 .. Len(raw) PROVE out[i] = out[i - 1] + duration_abs(raw[i])
  <2>1. /\ 1 .. i # {} /\ 1 .. i \in SUBSET S /\ Max(1 .. i) = i
        /\ (1 .. i) \ {i} = 1 .. (i - 1) /\ i - 1 \in 0 .. Len(raw) /\ i \in 0 .. Len(raw)
    <3>1. i \in Nat \ {0} /\ i \in 1 .. i
      BY <1>1
    <3>2. Max(1 .. i) = i
      BY <3>1, MaxOfIndices
    <3>3. 1 .. i \in SUBSET S /\ i - 1 \in 0 .. Len(raw) /\ i \in 0 .. Len(raw)
      BY <1>1
    <3>4. (1 .. i) \ {i} = 1 .. (i - 1)
      BY <3>1
    <3>5. QED
      BY <3>1, <3>2, <3>3, <3>4
  <2> HIDE DEF S, iter
  <2>2. iter[1 .. i] = iter[1 .. (i - 1)] + duration_abs(raw[i])
    BY <2>1, <1>9
  <2>3. QED
    BY <2>1, <2>2
<1>12. out[Len(raw)] = Duration(raw)
  <2> HIDE DEF iter
  <2>1. QED
    BY <1>1, <1>2
<1>13. QED
  <2> HIDE DEF out
  <2>1. QED
    BY <1>10, <1>11, <1>12

\* Pulses of at most 3400 us, but for the last one, last no longer altogether.
LEMMA DurationBounds ==
  ASSUME NEW raw \in Seq(Int), Len(raw) # 0,
         \A i \in 1 .. Len(raw) - 1 : duration_abs(raw[i]) <= 3400
  PROVE  /\ Duration(raw) \in Nat
         /\ Duration(raw) >= duration_abs(raw[Len(raw)])
         /\ Duration(raw) <= 3400 * (Len(raw) - 1) + duration_abs(raw[Len(raw)])
<1>1. PICK n \in Nat \ {0} : n = Len(raw)
  OBVIOUS
<1>2. PICK out : /\ out[0] = 0
                 /\ \A i \in 1 .. n : out[i] = out[i - 1] + duration_abs(raw[i])
                 /\ out[n] = Duration(raw)
  BY <1>1, DurationSteps
<1>3. \A i \in 1 .. n : duration_abs(raw[i]) \in Nat
  BY <1>1 DEF duration_abs
<1> DEFINE T == {i \in 0 .. n - 1 : ~(out[i] \in Nat /\ out[i] <= 3400 * i)}
<1>4. ASSUME T # {} PROVE FALSE
  <2>1. T \in SUBSET Nat
    OBVIOUS
  <2>2. PICK i \in T : \A j \in T : i <= j
    <3> HIDE DEF T
    <3>1. QED
      BY <1>4, <2>1, LeastNumber
  <2>3. i \in 0 .. n - 1 /\ ~(out[i] \in Nat /\ out[i] <= 3400 * i)
    BY <2>2
  <2>4. i # 0
    BY <1>2, <2>3
  <2>5. i - 1 \in 0 .. n - 1 /\ i - 1 \notin T
    BY <1>1, <2>2, <2>3, <2>4
  <2>6. out[i - 1] \in Nat /\ out[i - 1] <= 3400 * (i - 1)
    BY <2>5
  <2>7. /\ out[i] = out[i - 1] + duration_abs(raw[i])
        /\ duration_abs(raw[i]) \in Nat /\ duration_abs(raw[i]) <= 3400
    <3>1. i \in 1 .. n /\ i \in 1 .. Len(raw) - 1
      BY <1>1, <2>3, <2>4
    <3>2. QED
      BY <1>2, <1>3, <3>1
  <2>8. out[i] \in Nat /\ out[i] <= 3400 * i
    BY <2>3, <2>6, <2>7
  <2>9. QED
    BY <2>3, <2>8
<1>5. out[n - 1] \in Nat /\ out[n - 1] <= 3400 * (n - 1)
  BY <1>4
<1>6. n \in 1 .. n
  OBVIOUS
<1>7. Duration(raw) = out[n - 1] + duration_abs(raw[n]) /\ duration_abs(raw[n]) \in Nat
  BY <1>2, <1>3, <1>6
<1>8. QED
  BY <1>1, <1>5, <1>7

\* One frame of any state passes the checks.
LEMMA FramePasses ==
  ASSUME NEW state, NEW pulses \in Seq(Int), Len(pulses) = RepeatPulses,
         \A r \in 1 .. RepeatPulses : pulses[r] = CanonicalFrame(state)[r]
  PROVE  /\ Len(pulses) >= MIN_VALID_PULSES
         /\ Duration(pulses) >= 10000 /\ Duration(pulses) <= 2000000
         /\ \A i \in DOMAIN pulses : duration_abs(pulses[i]) >= 1 /\ duration_abs(pulses[i]) <= 32767
<1>1. RepeatPulses \in Nat \ {0} /\ RepeatPulses = 2 * DataBits + 4 /\ DataBits \in Nat \ {0}
  BY Sizes, Places
<1>2. ASSUME NEW r \in 1 .. RepeatPulses
      PROVE  /\ duration_abs(pulses[r]) \in Nat
             /\ duration_abs(pulses[r]) >= 1 /\ duration_abs(pulses[r]) <= 15500
             /\ r # RepeatPulses => duration_abs(pulses[r]) <= 3400
             /\ r = RepeatPulses => duration_abs(pulses[r]) = 15500
  <2>1. PICK p \in Int : p = pulses[r] /\ p = CanonicalFrame(state)[r]
    BY <1>1
  <2>2. p \in {-3400, 1750, -450, -440, 420, 1300, 15500} /\ (r = RepeatPulses => p = 15500)
    BY <2>1, NominalFrame
  <2>3. r # RepeatPulses => p # 15500
    <3>1. \A b \in 0 .. DataBits - 1 :
            /\ CanonicalFrame(state)[2 * b + 3] = -450
            /\ CanonicalFrame(state)[2 * b + 4] = IF b \in state THEN 1300 ELSE 420
      BY FramePulse
    <3>2. /\ CanonicalFrame(state)[1] = -3400 /\ CanonicalFrame(state)[2] = 1750
          /\ CanonicalFrame(state)[2 * DataBits + 3] = -440
      BY FramePulse
    <3>3. ASSUME r = 1 \/ r = 2 PROVE p # 15500
      BY <2>1, <3>2, <3>3
    <3>4. ASSUME NEW b \in 0 .. DataBits, r = 2 * b + 3 PROVE p # 15500
      <4>1. b = DataBits \/ b \in 0 .. DataBits - 1
        BY <1>1
      <4>2. p = -440 \/ p = -450
        BY <2>1, <3>1, <3>2, <3>4, <4>1
      <4>3. QED
        BY <4>2
    <3>5. ASSUME NEW b \in 0 .. DataBits - 1, r = 2 * b + 4 PROVE p # 15500
      <4>1. p = 1300 \/ p = 420
        BY <2>1, <3>1, <3>5
      <4>2. QED
        BY <4>1
    <3>6. QED
      BY <3>3, <3>4, <3>5, PulseKind
  <2>4. /\ duration_abs(p) \in Nat /\ duration_abs(p) >= 1 /\ duration_abs(p) <= 15500
        /\ r # RepeatPulses => duration_abs(p) <= 3400
        /\ r = RepeatPulses => duration_abs(p) = 15500
    BY <2>2, <2>3 DEF duration_abs
  <2>5. p = pulses[r]
    BY <2>1
  <2>6. QED
    BY <2>4, <2>5
<1>3. MIN_VALID_PULSES <= RepeatPulses /\ RepeatPulses <= 580
  BY <1>1, FrameAssumption, NoiseAssumption
<1>4. /\ RepeatPulses \in 1 .. RepeatPulses
      /\ \A i \in 1 .. RepeatPulses - 1 : i # RepeatPulses /\ i \in 1 .. RepeatPulses
  BY <1>1
<1>5. /\ Duration(pulses) \in Nat
      /\ Duration(pulses) >= duration_abs(pulses[RepeatPulses])
      /\ Duration(pulses) <= 3400 * (RepeatPulses - 1) + duration_abs(pulses[RepeatPulses])
  <2>1. Len(pulses) = RepeatPulses /\ Len(pulses) # 0
    BY <1>1
  <2>2. \A i \in 1 .. RepeatPulses - 1 : duration_abs(pulses[i]) <= 3400
    BY <1>2, <1>4
  <2>3. /\ Duration(pulses) \in Nat
        /\ Duration(pulses) >= duration_abs(pulses[Len(pulses)])
        /\ Duration(pulses) <= 3400 * (Len(pulses) - 1) + duration_abs(pulses[Len(pulses)])
    <3>1. \A i \in 1 .. Len(pulses) - 1 : duration_abs(pulses[i]) <= 3400
      BY <2>1, <2>2
    <3>2. QED
      BY <2>1, <3>1, DurationBounds
  <2>4. QED
    BY <2>1, <2>3
<1>6. Duration(pulses) >= 15500 /\ Duration(pulses) <= 3400 * (RepeatPulses - 1) + 15500
  BY <1>2, <1>4, <1>5
<1>7. Duration(pulses) >= 10000 /\ Duration(pulses) <= 2000000
  BY <1>1, <1>3, <1>5, <1>6
<1>8. \A i \in 1 .. RepeatPulses : /\ duration_abs(pulses[i]) >= 1
                                    /\ duration_abs(pulses[i]) <= 32767
  <2> SUFFICES ASSUME NEW i \in 1 .. RepeatPulses
               PROVE  duration_abs(pulses[i]) >= 1 /\ duration_abs(pulses[i]) <= 32767
    OBVIOUS
  <2>1. PICK d \in Nat : d = duration_abs(pulses[i]) /\ d >= 1 /\ d <= 15500
    BY <1>2
  <2>2. QED
    BY <2>1
<1>9. DOMAIN pulses = 1 .. RepeatPulses
  OBVIOUS
<1>10. QED
  BY <1>3, <1>7, <1>8, <1>9

\* What is learned passes the checks of send() and prepare_tx_symbols_(): no button is
\* left with a profile that it can never send.
THEOREM AlwaysCanBeSent == Spec => []LearnedCanBeSent
<1>1. ReceptionInv => LearnedCanBeSent
  <2> SUFFICES ASSUME ReceptionInv, phase = "learned"
               PROVE  Sendable(capture_)
    BY DEF LearnedCanBeSent
  <2>1. PICK state : /\ state \in States
                     /\ validate_mitsubishi_state(state)
                     /\ capture_ = encode_mitsubishi_state(state)
    BY ScansFindStates DEF ReceptionInv, CaptureIsCanonical
  <2> DEFINE raw == encode_mitsubishi_state(state)
             count == mitsubishi_replay_pulse_count(raw)
             sent == SubSeq(raw, 1, count)
  <2>2. /\ raw \in Seq(Int) /\ Len(raw) = CanonicalPulses
        /\ \A i \in 1 .. RepeatPulses : raw[i] = CanonicalFrame(state)[i]
    BY EncodedPulse
  <2>3. RepeatPulses \in Nat \ {0} /\ CanonicalPulses = 2 * RepeatPulses
    BY Places DEF CanonicalPulses
  <2>4. Len(sent) = RepeatPulses
    BY <2>1, OneFrameIsSent
  <2>5. count = RepeatPulses \/ count = CanonicalPulses
    BY <2>2 DEF mitsubishi_replay_pulse_count
  <2> HIDE DEF raw, count
  <2>6. count = RepeatPulses
    <3>1. ASSUME count = CanonicalPulses PROVE FALSE
      <4>1. Len(SubSeq(raw, 1, CanonicalPulses)) = CanonicalPulses
        BY <2>2, <2>3, SubSeqProperties
      <4>2. QED
        BY <2>3, <2>4, <3>1, <4>1
    <3>2. QED
      BY <2>5, <3>1
  <2>7. /\ SubSeq(raw, 1, RepeatPulses) \in Seq(Int)
        /\ \A i \in 1 .. RepeatPulses : SubSeq(raw, 1, RepeatPulses)[i] = raw[i]
    BY <2>2, <2>3, SubSeqProperties
  <2>8. sent \in Seq(Int) /\ \A i \in 1 .. RepeatPulses : sent[i] = CanonicalFrame(state)[i]
    BY <2>2, <2>6, <2>7
  <2>9. /\ Len(sent) >= MIN_VALID_PULSES
        /\ Duration(sent) >= 10000 /\ Duration(sent) <= 2000000
        /\ \A i \in DOMAIN sent : duration_abs(sent[i]) >= 1 /\ duration_abs(sent[i]) <= 32767
    <3> HIDE DEF sent
    <3>1. QED
      BY <2>4, <2>8, FramePasses
  <2>10. capture_ = raw /\ Len(capture_) <= MAX_RAW_DURATIONS
    <3>1. MIN_VALID_PULSES \in Nat /\ RepeatPulses <= 580
      BY <2>3, FrameAssumption, NoiseAssumption
    <3>2. capture_ = raw
      BY <2>1 DEF raw
    <3>3. QED
      BY <2>2, <2>3, <3>1, <3>2 DEF MAX_RAW_DURATIONS
  <2>11. Outgoing(capture_) = sent
    BY <2>10 DEF Outgoing, count
  <2>12. QED
    <3> HIDE DEF sent
    <3>1. QED
      BY <2>9, <2>10, <2>11 DEF Sendable, Plausible
<1>2. QED
  BY <1>1, ReceptionInvariant, PTL
=============================================================================
