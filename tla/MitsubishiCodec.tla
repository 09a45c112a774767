--------------------------- MODULE MitsubishiCodec ---------------------------
(***************************************************************************)
(* mitsubishi_codec.cpp: from the pulses of a receiver, glitches included, *)
(* to a state.                                                             *)
(*                                                                         *)
(* The loops of sanitize_glitches change the pulses in place and step back *)
(* after each change: here each is a function of the pulses and an index.  *)
(* Sums stay far below 2^31 (at most 2048 pulses of 15 bits), so that the  *)
(* overflow check of compact_adjacent_levels never fails.  Statistics that *)
(* are only logged are left out.                                           *)
(***************************************************************************)
EXTENDS MitsubishiFrame, SequencesExt

GLITCH_MAX == 220
MERGED_DURATION_MAX == 30000

duration_abs(pulse) == IF pulse < 0 THEN -pulse ELSE pulse
same_polarity(p, q) == (p < 0) <=> (q < 0)

\* Adjacent pulses of one polarity become one pulse.
compact_adjacent_levels(raw) ==
  FoldLeft(LAMBDA out, pulse :
             IF pulse = 0 THEN out
             ELSE IF out # <<>> /\ same_polarity(Last(out), pulse)
                  THEN Append(Front(out), Last(out) + pulse)
                  ELSE Append(out, pulse),
           <<>>, raw)

\* The pulse at i and its neighbours, of one polarity, as a single pulse.
MergedAt(raw, i) == duration_abs(raw[i - 1]) + duration_abs(raw[i]) + duration_abs(raw[i + 1])
MergeAt(raw, i) ==
  SubSeq(raw, 1, i - 2)
    \o <<IF raw[i - 1] < 0 THEN -MergedAt(raw, i) ELSE MergedAt(raw, i)>>
    \o SubSeq(raw, i + 2, Len(raw))

\* A short space between two marks that it has split.
SplitsMark(raw, i) == /\ raw[i] > 0 /\ raw[i] <= GLITCH_MAX
                      /\ raw[i - 1] < 0 /\ raw[i + 1] < 0
                      /\ MergedAt(raw, i) <= MERGED_DURATION_MAX

\* First loop, at an index into the pulses: repair the marks.
RepairMarks[at \in Seq(Int) \X (Nat \ {0, 1})] ==
  LET raw == at[1]
      i == at[2]
  IN IF i >= Len(raw) THEN raw
     ELSE IF SplitsMark(raw, i) THEN RepairMarks[<<MergeAt(raw, i), Max({i - 1, 2})>>]
     ELSE RepairMarks[<<raw, i + 1>>]

\* A short mark may still separate two data spaces and is kept.
ShortMark(pulse) == pulse < 0 /\ -pulse >= BIT_MARK_MIN

\* A glitch that can be merged into its neighbours.
GlitchAt(raw, i) == /\ ~ShortMark(raw[i])
                    /\ same_polarity(raw[i - 1], raw[i + 1])
                    /\ MergedAt(raw, i) <= MERGED_DURATION_MAX

\* Second loop: trim short pulses at the edges, merge the others.
RemoveGlitches[at \in Seq(Int) \X (Nat \ {0})] ==
  LET raw == at[1]
      i == at[2]
  IN IF i > Len(raw) THEN raw
     ELSE IF duration_abs(raw[i]) > GLITCH_MAX THEN RemoveGlitches[<<raw, i + 1>>]
     ELSE IF i = 1 \/ i = Len(raw) THEN RemoveGlitches[<<RemoveAt(raw, i), Max({i - 1, 1})>>]
     ELSE IF GlitchAt(raw, i) THEN RemoveGlitches[<<MergeAt(raw, i), Max({i - 1, 2})>>]
     ELSE RemoveGlitches[<<raw, i + 1>>]

\* Variant: without the first loop.
sanitize_glitches_OneLoop(raw) ==
  compact_adjacent_levels(RemoveGlitches[<<compact_adjacent_levels(raw), 1>>])

sanitize_glitches(raw) ==
  LET repaired == RepairMarks[<<compact_adjacent_levels(raw), 2>>]
  IN compact_adjacent_levels(RemoveGlitches[<<compact_adjacent_levels(repaired), 1>>])

-----------------------------------------------------------------------------
\* The valid states of the frames that have a header, ...
HeaderFrames(raw) ==
  {state \in {decode_frame(raw, start) : start \in {s \in DOMAIN raw : FrameAt(raw, s)}} :
     validate_mitsubishi_state(state)}

\* ... of data that has none before it, ...
HeaderlessFrames(raw) ==
  {state \in {decode_data(raw, start) :
                start \in {s \in DOMAIN raw : ~HeaderAt(raw, s - 2) /\ DataAt(raw, s)}} :
     validate_mitsubishi_state(state)}

\* ... and of data that begins with the second byte.
SuffixFrames(raw) ==
  {state \in {decode_suffix(raw, start) : start \in {s \in DOMAIN raw : SuffixAt(raw, s)}} :
     validate_mitsubishi_state(state)}

\* Variant: the first of several valid states wins.
Accepted_FirstOfMany(frames) == frames # {}

\* accept_decoded over one scan: several states are ambiguous.
Accepted(frames) == Cardinality(frames) = 1

\* Each scan is made only if those before it found nothing.  The result is the
\* set of states to choose from; the capture is refused unless it has one member.
DecodedStates(raw) ==
  LET cleaned == sanitize_glitches(raw)
      headed == HeaderFrames(cleaned)
      headless == HeaderlessFrames(cleaned)
  IN IF headed # {} THEN headed
     ELSE IF headless # {} THEN headless
     ELSE SuffixFrames(cleaned)

\* Variant: the capture stays as it was received.
decode_and_normalize_mitsubishi_KeepsRaw(raw) ==
  IF Accepted(DecodedStates(raw)) THEN [ok |-> TRUE, raw |-> raw] ELSE [ok |-> FALSE]

\* decode_and_normalize_mitsubishi: the state and the pulses that replace the
\* capture, decoded once more to verify them; or a refusal.
decode_and_normalize_mitsubishi(raw) ==
  LET frames == DecodedStates(raw)
      state == CHOOSE s \in frames : TRUE
      encoded == encode_mitsubishi_state(state)
      verified == \A start \in {1, RepeatPulses + 1} :
                    FrameAt(encoded, start) /\ decode_frame(encoded, start) = state
  IN IF Accepted(frames) /\ verified
     THEN [ok |-> TRUE, state |-> state, raw |-> encoded]
     ELSE [ok |-> FALSE]
=============================================================================
