---------------------------- MODULE ButtonManager ----------------------------
(***************************************************************************)
(* button_manager.cpp: two buttons, debounced and turned into events.      *)
(*                                                                         *)
(* The whole component is one function, called once per loop() with the    *)
(* current time.  Time is relative and in ticks: a field called `...Ago' is*)
(* now_ms minus the source's field, capped where it no longer matters.     *)
(* The pins are external: a call may find them at any level.               *)
(***************************************************************************)
EXTENDS Naturals

CONSTANTS DEBOUNCE, LONG_PRESS,
          MaxGap    \* bound: ticks between two calls of update()

ASSUME DebounceAssumption == DEBOUNCE \in Nat \ {0}
ASSUME LongPressAssumption == LONG_PRESS \in Nat /\ LONG_PRESS > DEBOUNCE
ASSUME GapAssumption == MaxGap \in Nat \ {0}

Buttons == {"A", "B"}
Short(b) == <<"SHORT", b>>
Long(b) == <<"LONG", b>>
BothLong == <<"LONG", "BOTH">>
NoEvent == <<"NONE", "">>
Events == {NoEvent, BothLong} \cup {Short(b) : b \in Buttons} \cup {Long(b) : b \in Buttons}

VARIABLES
  button,       \* a_ and b_
  chord_active_, chord_emitted_, chordAgo,
  suppress,     \* suppress_a_release_ and suppress_b_release_
  event         \* what the last call of update() returned

vars == <<button, chord_active_, chord_emitted_, chordAgo, suppress, event>>

ButtonState == [raw_pressed : BOOLEAN, stable_pressed : BOOLEAN,
                rawChangedAgo : 0 .. DEBOUNCE, pressedAgo : 0 .. LONG_PRESS]

TypeOK ==
  /\ button \in [Buttons -> ButtonState]
  /\ chord_active_ \in BOOLEAN
  /\ chord_emitted_ \in BOOLEAN
  /\ chordAgo \in 0 .. LONG_PRESS
  /\ suppress \in [Buttons -> BOOLEAN]
  /\ event \in Events

Init ==
  /\ button = [b \in Buttons |->
                 [raw_pressed |-> FALSE, stable_pressed |-> FALSE,
                  rawChangedAgo |-> DEBOUNCE, pressedAgo |-> LONG_PRESS]]
  /\ chord_active_ = FALSE
  /\ chord_emitted_ = FALSE
  /\ chordAgo = LONG_PRESS
  /\ suppress = [b \in Buttons |-> FALSE]
  /\ event = NoEvent

\* An age, gap ticks later.  The code subtracts absolute times, the cap is the
\* model's own: every age is only compared with a limit, and stays beyond it.
Later(ago, gap, cap) == IF ago + gap > cap THEN cap ELSE ago + gap

\* Variant: the time of the last accepted change is kept, not of the last edge.
update_button__SinceAccepted(state, pressed, gap) ==
  LET changedAgo == Later(state.rawChangedAgo, gap, DEBOUNCE)
      settles == state.stable_pressed # pressed /\ changedAgo >= DEBOUNCE
  IN [raw_pressed |-> pressed,
      stable_pressed |-> IF settles THEN pressed ELSE state.stable_pressed,
      rawChangedAgo |-> IF settles THEN 0 ELSE changedAgo,
      pressedAgo |-> IF settles /\ pressed THEN 0
                     ELSE Later(state.pressedAgo, gap, LONG_PRESS)]

\* update_button_(): a new level counts once it was read for DEBOUNCE.
update_button_(state, pressed, gap) ==
  LET changedAgo == IF pressed # state.raw_pressed THEN 0
                    ELSE Later(state.rawChangedAgo, gap, DEBOUNCE)
      settles == state.stable_pressed # pressed /\ changedAgo >= DEBOUNCE
  IN [raw_pressed |-> pressed,
      stable_pressed |-> IF settles THEN pressed ELSE state.stable_pressed,
      rawChangedAgo |-> changedAgo,
      pressedAgo |-> IF settles /\ pressed THEN 0
                     ELSE Later(state.pressedAgo, gap, LONG_PRESS)]

Down(b) == button[b].stable_pressed
BothDown == \A b \in Buttons : Down(b)
Released(b) == Down(b) /\ ~button'[b].stable_pressed

-----------------------------------------------------------------------------
(* The rest of update(), once button' is known. *)

\* Variant: only the second button's release is kept silent.
StartChord_SuppressOne ==
  /\ chord_active_' = TRUE
  /\ chord_emitted_' = FALSE
  /\ chordAgo' = 0
  /\ suppress' = [suppress EXCEPT !["B"] = TRUE]
  /\ event' = NoEvent

\* Both buttons came to be down.
StartChord ==
  /\ chord_active_' = TRUE
  /\ chord_emitted_' = FALSE
  /\ chordAgo' = 0
  /\ suppress' = [b \in Buttons |-> TRUE]
  /\ event' = NoEvent

\* Both buttons are down and were so before, or one of them is down again.
HoldChord(gap) ==
  /\ chordAgo' = Later(chordAgo, gap, LONG_PRESS)
  /\ LET emits == ~chord_emitted_ /\ chordAgo' >= LONG_PRESS
     IN /\ event' = IF emits THEN BothLong ELSE NoEvent
        /\ chord_emitted_' = (chord_emitted_ \/ emits)
  /\ UNCHANGED <<chord_active_, suppress>>

\* Variant: the chord is over as soon as one button is up.
ChordAfterRelease_FirstUp == FALSE

\* The chord is over when both buttons are up.
ChordAfterRelease ==
  chord_active_ /\ \E b \in Buttons : button'[b].stable_pressed

\* Variant: a suppression is never used up.
StillSuppressed_Sticky(b) == suppress[b]

\* Variant: one suppression for both buttons, used up by the first to come up.
StillSuppressed_Shared(b) == suppress[b] /\ \A c \in Buttons : ~Released(c)

\* A suppression lasts until the button comes up.
StillSuppressed(b) == suppress[b] /\ ~Released(b)

Reported(b) == Released(b) /\ ~suppress[b]

\* A release that was not suppressed is reported, the first button's first: the
\* second one is not looked at any more in this call.
Report ==
  LET kind(b) == IF button'[b].pressedAgo >= LONG_PRESS THEN Long(b) ELSE Short(b)
  IN \/ /\ Reported("A")
        /\ event' = kind("A")
        /\ UNCHANGED suppress
     \/ /\ ~Reported("A")
        /\ event' = IF Reported("B") THEN kind("B") ELSE NoEvent
        /\ suppress' = [b \in Buttons |-> StillSuppressed(b)]

\* update(): gap ticks after the previous call, with the pins at these levels.
update(gap, pins) ==
  /\ button' = [b \in Buttons |-> update_button_(button[b], pins[b], gap)]
  /\ IF \A b \in Buttons : button'[b].stable_pressed
     THEN \/ ~chord_active_ /\ StartChord
          \/ chord_active_ /\ HoldChord(gap)
     ELSE /\ chord_active_' = ChordAfterRelease
          /\ chordAgo' = Later(chordAgo, gap, LONG_PRESS)
          /\ Report
          /\ UNCHANGED chord_emitted_

Next == \E gap \in 1 .. MaxGap, pins \in [Buttons -> BOOLEAN] : update(gap, pins)

Spec == Init /\ [][Next]_vars
=============================================================================
