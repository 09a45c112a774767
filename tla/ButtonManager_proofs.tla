------------------------- MODULE ButtonManager_proofs -------------------------
(***************************************************************************)
(* Theorems about button_manager.cpp, for every debounce time, long-press   *)
(* time and gap between two calls.                                          *)
(***************************************************************************)
EXTENDS MCButtonManager, TLAPS

\* An age stays below its cap.
LEMMA LaterType ==
  ASSUME NEW cap \in Nat, NEW ago \in 0 .. cap, NEW gap \in Nat
  PROVE  Later(ago, gap, cap) \in 0 .. cap
  BY DEF Later

\* A button's record is built from what it was, the pin and the time.
LEMMA ButtonType ==
  ASSUME NEW state \in ButtonState, NEW pressed \in BOOLEAN, NEW gap \in Nat
  PROVE  update_button_(state, pressed, gap) \in ButtonState
<1> USE DebounceAssumption, LongPressAssumption
<1> DEFINE new == update_button_(state, pressed, gap)
<1>1. /\ state.raw_pressed \in BOOLEAN /\ state.stable_pressed \in BOOLEAN
      /\ state.rawChangedAgo \in 0 .. DEBOUNCE /\ state.pressedAgo \in 0 .. LONG_PRESS
  BY DEF ButtonState
<1>2. /\ Later(state.rawChangedAgo, gap, DEBOUNCE) \in 0 .. DEBOUNCE
      /\ Later(state.pressedAgo, gap, LONG_PRESS) \in 0 .. LONG_PRESS
  BY <1>1, LaterType
<1>3. new.raw_pressed \in BOOLEAN /\ new.stable_pressed \in BOOLEAN
  BY <1>1, Zenon DEF update_button_
<1>4. new.rawChangedAgo \in 0 .. DEBOUNCE /\ new.pressedAgo \in 0 .. LONG_PRESS
  BY <1>1, <1>2 DEF update_button_
<1>5. new = [raw_pressed |-> new.raw_pressed, stable_pressed |-> new.stable_pressed,
             rawChangedAgo |-> new.rawChangedAgo, pressedAgo |-> new.pressedAgo]
  BY DEF update_button_
<1>6. QED
  BY <1>3, <1>4, <1>5 DEF ButtonState

\* What a call makes of one button.
LEMMA ButtonAfter ==
  ASSUME TypeOK, NEW gap \in 1 .. MaxGap, NEW pins \in [Buttons -> BOOLEAN],
         update(gap, pins), NEW b \in Buttons
  PROVE  /\ button' \in [Buttons -> ButtonState]
         /\ button'[b] = update_button_(button[b], pins[b], gap)
         /\ button[b] \in ButtonState /\ button'[b] \in ButtonState
         /\ pins[b] \in BOOLEAN /\ gap \in Nat
<1>1. gap \in Nat
  BY GapAssumption
<1>2. \A c \in Buttons : button[c] \in ButtonState /\ pins[c] \in BOOLEAN
  BY DEF TypeOK
<1>3. button' = [c \in Buttons |-> update_button_(button[c], pins[c], gap)]
  BY DEF update
<1>4. \A c \in Buttons : update_button_(button[c], pins[c], gap) \in ButtonState
  BY <1>1, <1>2, ButtonType
<1>5. QED
  BY <1>1, <1>2, <1>3, <1>4

\* The cases of the rest of the call.
LEMMA CallCases ==
  ASSUME NEW gap, NEW pins, update(gap, pins)
  PROVE  \/ BothDown' /\ ~chord_active_ /\ StartChord
         \/ BothDown' /\ chord_active_ /\ HoldChord(gap)
         \/ /\ ~BothDown'
            /\ chord_active_' = ChordAfterRelease
            /\ chordAgo' = Later(chordAgo, gap, LONG_PRESS)
            /\ Report
            /\ UNCHANGED chord_emitted_
  BY DEF update, BothDown, Down

\* The events tell the buttons and the kinds of press apart.
LEMMA EventsDiffer ==
  ASSUME NEW b \in Buttons
  PROVE  /\ Long(b) \in Events \ {BothLong, NoEvent}
         /\ Short(b) \in Events \ {BothLong, NoEvent}
         /\ BothLong \in Events /\ NoEvent \in Events /\ NoEvent # BothLong
         /\ \A c \in Buttons \ {b} : /\ Long(b) # Long(c) /\ Short(b) # Short(c)
                                     /\ Long(b) # Short(c)
<1>1. Long(b) \in Events /\ Short(b) \in Events /\ BothLong \in Events /\ NoEvent \in Events
  BY DEF Events
<1>2. /\ Long(b) # BothLong /\ Long(b) # NoEvent
      /\ Short(b) # BothLong /\ Short(b) # NoEvent
      /\ NoEvent # BothLong
  BY DEF Buttons, Long, Short, BothLong, NoEvent
<1>3. \A c \in Buttons \ {b} : /\ Long(b) # Long(c) /\ Short(b) # Short(c)
                               /\ Long(b) # Short(c)
  BY DEF Long, Short
<1>4. QED
  BY <1>1, <1>2, <1>3

\* A report names a button that has come up and was not suppressed, and a
\* suppression that a release does not find stays.
LEMMA ReportSays ==
  ASSUME TypeOK, Report
  PROVE  /\ event' \in Events \ {BothLong}
         /\ suppress' \in [Buttons -> BOOLEAN]
         /\ \A b \in Buttons : Answered(b) => Reported(b)
         /\ \A b \in Buttons : ~Released(b) => suppress'[b] = suppress[b]
         /\ \A b \in Buttons : suppress'[b] => suppress[b]
<1>1. \A b \in Buttons : suppress[b] \in BOOLEAN
  BY DEF TypeOK
<1>2. CASE Reported("A")
  <2>1. event' \in {Long("A"), Short("A")} /\ suppress' = suppress
    BY <1>2 DEF Report
  <2>2. QED
    BY <2>1, <1>2 DEF TypeOK, Buttons, Events, Long, Short, BothLong, Answered
<1>3. CASE ~Reported("A")
  <2>1. /\ event' \in {Long("B"), Short("B"), NoEvent}
        /\ event' # NoEvent => Reported("B")
    BY <1>3 DEF Report
  <2>2. suppress' = [b \in Buttons |-> StillSuppressed(b)]
    BY <1>3 DEF Report
  <2>3. suppress' \in [Buttons -> BOOLEAN]
    BY <2>2, <1>1, Zenon DEF StillSuppressed
  <2>4. event' \in Events \ {BothLong}
    BY <2>1, EventsDiffer DEF Buttons
  <2>5. \A b \in Buttons : Answered(b) => b = "B" /\ event' # NoEvent
    BY <2>1, EventsDiffer DEF Buttons, Answered
  <2>6. \A b \in Buttons : /\ ~Released(b) => suppress'[b] = suppress[b]
                           /\ suppress'[b] => suppress[b]
    BY <2>2, <1>1 DEF StillSuppressed
  <2>7. QED
    BY <2>1, <2>3, <2>4, <2>5, <2>6
<1>4. QED
  BY <1>2, <1>3

\* The first state is well typed.
LEMMA TypeInit == Init => TypeOK
<1> SUFFICES ASSUME Init PROVE TypeOK
  OBVIOUS
<1> USE DebounceAssumption, LongPressAssumption DEF Init
<1>1. /\ button \in [Buttons -> ButtonState] /\ chordAgo \in 0 .. LONG_PRESS
      /\ suppress \in [Buttons -> BOOLEAN]
  BY DEF ButtonState
<1>2. QED
  BY <1>1 DEF Events, TypeOK

\* Every call keeps the types.
LEMMA TypeStep ==
  ASSUME TypeOK, NEW gap \in 1 .. MaxGap, NEW pins \in [Buttons -> BOOLEAN],
         update(gap, pins)
  PROVE  TypeOK'
<1> USE LongPressAssumption
<1>1. button' \in [Buttons -> ButtonState] /\ gap \in Nat
  BY ButtonAfter DEF Buttons
<1>2. Later(chordAgo, gap, LONG_PRESS) \in 0 .. LONG_PRESS /\ 0 \in 0 .. LONG_PRESS
  <2>1. chordAgo \in 0 .. LONG_PRESS /\ LONG_PRESS \in Nat
    BY DEF TypeOK
  <2>2. Later(chordAgo, gap, LONG_PRESS) \in 0 .. LONG_PRESS
    BY <1>1, <2>1, LaterType
  <2>3. QED
    BY <2>1, <2>2
<1>3. CASE BothDown' /\ ~chord_active_ /\ StartChord
  <2>1. /\ chord_active_' \in BOOLEAN /\ chord_emitted_' \in BOOLEAN
        /\ suppress' \in [Buttons -> BOOLEAN]
    BY <1>3, Zenon DEF StartChord
  <2>2. chordAgo' \in 0 .. LONG_PRESS /\ event' \in Events
    BY <1>3, <1>2 DEF StartChord, Events
  <2>3. QED
    BY <1>1, <2>1, <2>2 DEF TypeOK
<1>4. CASE BothDown' /\ chord_active_ /\ HoldChord(gap)
  <2>1. chord_active_' \in BOOLEAN /\ suppress' \in [Buttons -> BOOLEAN]
    BY <1>4 DEF HoldChord, TypeOK
  <2>2. chord_emitted_' \in BOOLEAN
    BY <1>4, Zenon DEF HoldChord, TypeOK
  <2>3. chordAgo' \in 0 .. LONG_PRESS /\ event' \in Events
    BY <1>4, <1>2 DEF HoldChord, Events
  <2>4. QED
    BY <1>1, <2>1, <2>2, <2>3 DEF TypeOK
<1>5. CASE /\ ~BothDown'
           /\ chord_active_' = ChordAfterRelease
           /\ chordAgo' = Later(chordAgo, gap, LONG_PRESS)
           /\ Report
           /\ UNCHANGED chord_emitted_
  <2>1. chord_active_' \in BOOLEAN
    BY <1>5, Zenon DEF ChordAfterRelease, TypeOK
  <2>2. QED
    BY <1>1, <1>2, <1>5, <2>1, ReportSays DEF TypeOK
<1>6. QED
  BY <1>3, <1>4, <1>5, CallCases

-----------------------------------------------------------------------------
(* The history and the inductive invariant. *)

\* What a call and its history leave of each button, without the numbers: a press
\* or a release, and whether the two met.
LEMMA MetAfter ==
  ASSUME TypeOK, HistoryTypeOK, NEW gap \in 1 .. MaxGap,
         NEW pins \in [Buttons -> BOOLEAN], update(gap, pins), Follow(gap, pins)
  PROVE  /\ \A b \in Buttons : Down(b) \in BOOLEAN /\ Down(b)' \in BOOLEAN
         /\ \A b \in Buttons : Released(b) <=> Down(b) /\ ~Down(b)'
         /\ \A b \in Buttons : met'[b] <=> Down(b)' /\ (met[b] \/ BothDown')
         /\ AllUp <=> \A b \in Buttons : ~Down(b)'
<1>1. \A b \in Buttons : button[b] \in ButtonState /\ button'[b] \in ButtonState
  BY ButtonAfter
<1>2. \A b \in Buttons : Down(b) \in BOOLEAN /\ Down(b)' \in BOOLEAN
  BY <1>1 DEF Down, ButtonState
<1>3. met' = [b \in Buttons |-> /\ button'[b].stable_pressed
                                /\ met[b] \/ \A c \in Buttons : button'[c].stable_pressed]
  BY DEF Follow
<1>4. \A b \in Buttons : met'[b] <=> Down(b)' /\ (met[b] \/ BothDown')
  BY <1>3 DEF Down, BothDown
<1>5. QED
  BY <1>2, <1>4 DEF Released, AllUp, Down

\* The history is well typed.
LEMMA HistoryTypeStep ==
  ASSUME TypeOK, HistoryTypeOK, NEW gap \in 1 .. MaxGap,
         NEW pins \in [Buttons -> BOOLEAN], update(gap, pins), Follow(gap, pins)
  PROVE  HistoryTypeOK'
<1> USE DebounceAssumption
<1>1. level' \in [Buttons -> [pressed : BOOLEAN, since : 0 .. DEBOUNCE]]
  <2>1. \A b \in Buttons : level[b].since \in 0 .. DEBOUNCE
    BY DEF HistoryTypeOK
  <2>2. \A b \in Buttons : Later(level[b].since, gap, DEBOUNCE) \in 0 .. DEBOUNCE
    BY <2>1, LaterType, ButtonAfter
  <2>3. 0 \in 0 .. DEBOUNCE
    OBVIOUS
  <2>4. QED
    BY <2>2, <2>3 DEF Follow
<1>2. met' \in [Buttons -> BOOLEAN]
  BY Zenon DEF Follow
<1>3. repressed' \in BOOLEAN /\ longSeen' \in BOOLEAN
  BY Zenon DEF Follow
<1>4. swallowed' \in [Buttons -> Nat]
  BY DEF Follow, HistoryTypeOK
<1>5. QED
  BY <1>1, <1>2, <1>3, <1>4 DEF HistoryTypeOK

\* The manager's record of a pin is brought up to date as the history is.
LEMMA LevelStep ==
  ASSUME TypeOK, LevelIsRead, NEW gap \in 1 .. MaxGap,
         NEW pins \in [Buttons -> BOOLEAN], update(gap, pins), Follow(gap, pins)
  PROVE  LevelIsRead'
<1> SUFFICES ASSUME NEW b \in Buttons
             PROVE  /\ level'[b].pressed = button'[b].raw_pressed
                    /\ level'[b].since = button'[b].rawChangedAgo
  BY DEF LevelIsRead
<1>1. button'[b] = update_button_(button[b], pins[b], gap)
  BY ButtonAfter
<1>2. level'[b] = [pressed |-> pins[b],
                   since |-> IF pins[b] # level[b].pressed THEN 0
                             ELSE Later(level[b].since, gap, DEBOUNCE)]
  BY DEF Follow
<1>3. level[b].pressed = button[b].raw_pressed /\ level[b].since = button[b].rawChangedAgo
  BY DEF LevelIsRead
<1>4. QED
  BY <1>1, <1>2, <1>3 DEF update_button_

\* A chord begins when both are down, ends when both are up, and BothLong is said in
\* it at most once.
LEMMA ChordStep ==
  ASSUME TypeOK, HistoryTypeOK, ChordIsWhereTheyMet, NEW gap \in 1 .. MaxGap,
         NEW pins \in [Buttons -> BOOLEAN], update(gap, pins), Follow(gap, pins)
  PROVE  ChordIsWhereTheyMet' /\ (event' = BothLong => ~longSeen)
<1> USE MetAfter DEF ChordIsWhereTheyMet
<1>1. /\ longSeen' <=> ~AllUp /\ (longSeen \/ event' = BothLong)
      /\ longSeen \in BOOLEAN /\ chord_active_ \in BOOLEAN /\ chord_emitted_ \in BOOLEAN
  BY DEF Follow, TypeOK, HistoryTypeOK
<1>2. "A" \in Buttons /\ "B" \in Buttons /\ Buttons = {"A", "B"}
  BY DEF Buttons
<1>3. CASE BothDown' /\ ~chord_active_ /\ StartChord
  <2>1. chord_active_' /\ event' # BothLong
    BY <1>3, EventsDiffer, <1>2 DEF StartChord
  <2>2. QED
    BY <1>1, <1>2, <1>3, <2>1 DEF BothDown
<1>4. CASE BothDown' /\ chord_active_ /\ HoldChord(gap)
  <2>1. /\ chord_active_' = chord_active_
        /\ event' = BothLong => ~chord_emitted_ /\ chord_emitted_'
        /\ chord_emitted_ => chord_emitted_'
    BY <1>4, EventsDiffer, <1>2 DEF HoldChord
  <2>2. QED
    BY <1>1, <1>2, <1>4, <2>1 DEF BothDown
<1>5. CASE /\ ~BothDown'
           /\ chord_active_' = ChordAfterRelease
           /\ chordAgo' = Later(chordAgo, gap, LONG_PRESS)
           /\ Report
           /\ UNCHANGED chord_emitted_
  <2>1. /\ chord_active_' <=> chord_active_ /\ \E b \in Buttons : Down(b)'
        /\ event' # BothLong /\ chord_emitted_' = chord_emitted_
    BY <1>5, ReportSays DEF ChordAfterRelease, Down
  <2>2. QED
    BY <1>1, <1>2, <1>5, <2>1
<1>6. QED
  BY <1>3, <1>4, <1>5, CallCases

\* While a chord lasts and no button was pressed again, what is down since both were
\* is still to be kept silent: a release uses its own suppression only.
LEMMA SuppressedStep ==
  ASSUME TypeOK, HistoryTypeOK, ChordIsWhereTheyMet, ChordIsSuppressed,
         NEW gap \in 1 .. MaxGap, NEW pins \in [Buttons -> BOOLEAN],
         update(gap, pins), Follow(gap, pins)
  PROVE  ChordIsSuppressed' /\ \A b \in Buttons : met[b] /\ ~repressed => ~Answered(b)
<1> USE MetAfter DEF ChordIsSuppressed
<1>1. /\ repressed' <=> ~AllUp /\ (repressed \/ \E b, c \in Buttons :
                          ~Down(b) /\ Down(b)' /\ Down(c) /\ met[c])
      /\ repressed \in BOOLEAN /\ chord_active_ \in BOOLEAN
  BY DEF Follow, TypeOK, HistoryTypeOK, Down
<1>2. \A b \in Buttons : met[b] => Down(b) /\ chord_active_
  BY DEF ChordIsWhereTheyMet
<1>3. chord_active_ /\ ~AllUp /\ ~repressed' =>
        \A b \in Buttons : Down(b)' => Down(b) /\ met[b] /\ suppress[b]
  BY <1>1 DEF ChordIsWhereTheyMet
<1>4. CASE BothDown' /\ ~chord_active_ /\ StartChord
  BY <1>2, <1>4, EventsDiffer DEF StartChord, BothDown, Answered
<1>5. CASE BothDown' /\ chord_active_ /\ HoldChord(gap)
  <2>1. event' \in {BothLong, NoEvent} /\ suppress' = suppress
    BY <1>5 DEF HoldChord
  <2>2. \A b \in Buttons : ~Answered(b)
    BY <2>1, EventsDiffer DEF Answered
  <2>3. ~AllUp
    BY <1>5 DEF BothDown, Buttons
  <2>4. QED
    BY <1>3, <1>5, <2>1, <2>2, <2>3 DEF BothDown
<1>6. CASE /\ ~BothDown'
           /\ chord_active_' = ChordAfterRelease
           /\ chordAgo' = Later(chordAgo, gap, LONG_PRESS)
           /\ Report
           /\ UNCHANGED chord_emitted_
  <2>1. chord_active_' => chord_active_ /\ ~AllUp
    BY <1>6 DEF ChordAfterRelease, Down
  <2>2. \A b \in Buttons : Down(b)' => suppress'[b] = suppress[b]
    BY <1>6, ReportSays
  <2>3. \A b \in Buttons : Answered(b) => ~suppress[b]
    BY <1>6, ReportSays DEF Reported
  <2>4. QED
    BY <1>2, <1>3, <2>1, <2>2, <2>3
<1>7. QED
  BY <1>4, <1>5, <1>6, CallCases

\* A release that is not answered met no other button only if it used a suppression
\* up, and only a chord, where the presses meet, brings suppressions back.
LEMMA SwallowStep ==
  ASSUME TypeOK, HistoryTypeOK, ChordIsWhereTheyMet, SwallowUsesSuppression,
         NEW gap \in 1 .. MaxGap, NEW pins \in [Buttons -> BOOLEAN],
         update(gap, pins), Follow(gap, pins)
  PROVE  SwallowUsesSuppression'
<1> SUFFICES ASSUME NEW b \in Buttons
             PROVE  swallowed'[b] = 0 \/ (swallowed'[b] = 1 /\ ~suppress'[b])
  BY DEF SwallowUsesSuppression
<1> USE MetAfter
<1>1. swallowed'[b] = IF ~Released(b) \/ met[b] THEN IF met'[b] THEN 0 ELSE swallowed[b]
                      ELSE IF Answered(b) THEN 0 ELSE swallowed[b] + 1
  BY DEF Follow
<1>2. swallowed[b] = 0 \/ (swallowed[b] = 1 /\ ~suppress[b])
  BY DEF SwallowUsesSuppression
<1>3. CASE BothDown'
  <2>1. met'[b] /\ ~Released(b)
    BY <1>3 DEF BothDown
  <2>2. QED
    BY <1>1, <2>1
<1>4. CASE ~BothDown'
  <2>1. Report
    BY <1>4, CallCases
  <2>2. suppress'[b] => suppress[b]
    BY <2>1, ReportSays
  <2>3. CASE Released(b) /\ ~met[b] /\ ~Answered(b)
    <3>1. \A c \in Buttons \ {b} : ~Released(c)
      BY <2>3 DEF ChordIsWhereTheyMet, BothDown, Buttons
    <3>2. ~Reported("A")
      BY <2>1, <2>3, <3>1, EventsDiffer DEF Report, Reported, Answered, Buttons
    <3>3. ~Reported("B")
      BY <2>1, <2>3, <3>1, <3>2 DEF Report, Reported, Answered, Buttons
    <3>4. suppress[b]
      BY <2>3, <3>2, <3>3 DEF Reported, Buttons
    <3>5. suppress' = [c \in Buttons |-> StillSuppressed(c)]
      BY <2>1, <3>2 DEF Report
    <3>6. ~suppress'[b]
      BY <2>3, <3>5 DEF StillSuppressed
    <3>7. QED
      BY <1>1, <1>2, <2>3, <3>4, <3>6
  <2>4. CASE ~(Released(b) /\ ~met[b] /\ ~Answered(b))
    BY <1>1, <1>2, <2>2, <2>4
  <2>5. QED
    BY <2>3, <2>4
<1>5. QED
  BY <1>3, <1>4

\* The first state satisfies the invariant.
LEMMA ButtonInit == HistoryInit => ButtonInv
<1> SUFFICES ASSUME HistoryInit PROVE ButtonInv
  OBVIOUS
<1>1. TypeOK
  BY TypeInit DEF HistoryInit
<1> USE DebounceAssumption DEF HistoryInit, Init
<1>2. HistoryTypeOK
  <2>1. level \in [Buttons -> [pressed : BOOLEAN, since : 0 .. DEBOUNCE]]
    OBVIOUS
  <2>2. met \in [Buttons -> BOOLEAN] /\ swallowed \in [Buttons -> Nat]
    OBVIOUS
  <2>3. repressed \in BOOLEAN /\ longSeen \in BOOLEAN
    BY Zenon
  <2>4. QED
    BY <2>1, <2>2, <2>3 DEF HistoryTypeOK
<1>3. "A" \in Buttons
  BY DEF Buttons
<1>4. LevelIsRead /\ ChordIsWhereTheyMet /\ ChordIsSuppressed /\ SwallowUsesSuppression
  BY <1>3 DEF LevelIsRead, ChordIsWhereTheyMet, ChordIsSuppressed, SwallowUsesSuppression,
              BothDown, Down
<1>5. QED
  BY <1>1, <1>2, <1>4 DEF ButtonInv

\* Every call keeps it.
LEMMA ButtonStep == ButtonInv /\ [HistoryNext]_<<vars, history>> => ButtonInv'
<1> SUFFICES ASSUME ButtonInv, [HistoryNext]_<<vars, history>> PROVE ButtonInv'
  OBVIOUS
<1> USE DEF ButtonInv
<1>1. CASE HistoryNext
  <2>1. PICK gap \in 1 .. MaxGap, pins \in [Buttons -> BOOLEAN] :
          update(gap, pins) /\ Follow(gap, pins)
    BY <1>1 DEF HistoryNext
  <2>2. QED
    BY <2>1, TypeStep, HistoryTypeStep, LevelStep, ChordStep, SuppressedStep, SwallowStep
<1>2. CASE UNCHANGED <<vars, history>>
  <2>1. /\ TypeOK' /\ HistoryTypeOK' /\ LevelIsRead'
    BY <1>2 DEF vars, history, TypeOK, HistoryTypeOK, LevelIsRead
  <2>2. /\ ChordIsWhereTheyMet' /\ ChordIsSuppressed' /\ SwallowUsesSuppression'
    BY <1>2 DEF vars, history, ChordIsWhereTheyMet, ChordIsSuppressed,
                SwallowUsesSuppression, BothDown, Down
  <2>3. QED
    BY <2>1, <2>2
<1>3. QED
  BY <1>1, <1>2

-----------------------------------------------------------------------------
(* The theorems. *)

\* Every reachable state of the manager is well typed, whoever watches it or not.
THEOREM TypeCorrect == Spec => []TypeOK
<1>1. TypeOK /\ [Next]_vars => TypeOK'
  <2>1. TypeOK /\ Next => TypeOK'
    BY TypeStep DEF Next
  <2>2. TypeOK /\ UNCHANGED vars => TypeOK'
    BY DEF vars, TypeOK
  <2>3. QED
    BY <2>1, <2>2
<1>2. QED
  BY TypeInit, <1>1, PTL DEF Spec

\* In every reachable state the manager's flags are where the presses met, and every
\* unanswered press has used a suppression up: the inductive invariant.
THEOREM ButtonInvariant == HistorySpec => []ButtonInv
  BY ButtonInit, ButtonStep, PTL DEF HistorySpec

\* No bounce presses or releases a button, however long it goes on.
THEOREM AlwaysDebounced == HistorySpec => Debounced
<1>1. ButtonInv /\ [HistoryNext]_<<vars, history>> =>
        [\A b \in Buttons : Down(b) # button'[b].stable_pressed =>
           /\ level'[b].since >= DEBOUNCE
           /\ level'[b].pressed = button'[b].stable_pressed]_<<vars, history>>
  <2> SUFFICES ASSUME ButtonInv, HistoryNext, NEW b \in Buttons,
                      Down(b) # button'[b].stable_pressed
               PROVE  /\ level'[b].since >= DEBOUNCE
                      /\ level'[b].pressed = button'[b].stable_pressed
    OBVIOUS
  <2> USE DEF ButtonInv
  <2>1. PICK gap \in 1 .. MaxGap, pins \in [Buttons -> BOOLEAN] :
          update(gap, pins) /\ Follow(gap, pins)
    BY DEF HistoryNext
  <2>2. button'[b] = update_button_(button[b], pins[b], gap)
    BY <2>1, ButtonAfter
  <2>3. /\ button'[b].rawChangedAgo >= DEBOUNCE
        /\ button'[b].raw_pressed = button'[b].stable_pressed
    BY <2>2 DEF update_button_, Down
  <2>4. LevelIsRead'
    BY <2>1, LevelStep
  <2>5. QED
    BY <2>3, <2>4 DEF LevelIsRead
<1>2. QED
  BY <1>1, ButtonInvariant, PTL DEF HistorySpec, Debounced

\* BothLong is reported at most once between two moments with both buttons up.
THEOREM BothLongIsOnce == HistorySpec => BothLongOnce
<1>1. ButtonInv /\ [HistoryNext]_<<vars, history>> =>
        [event' = BothLong => ~longSeen]_<<vars, history>>
  <2> SUFFICES ASSUME ButtonInv, HistoryNext PROVE event' = BothLong => ~longSeen
    OBVIOUS
  <2>1. PICK gap \in 1 .. MaxGap, pins \in [Buttons -> BOOLEAN] :
          update(gap, pins) /\ Follow(gap, pins)
    BY DEF HistoryNext
  <2>2. QED
    BY <2>1, ChordStep DEF ButtonInv
<1>2. QED
  BY <1>1, ButtonInvariant, PTL DEF HistorySpec, BothLongOnce

\* A press that met the other button ends silently, unless a button was pressed again
\* before the other one was up.
THEOREM ChordStaysSilent == HistorySpec => ChordIsSilent
<1>1. ButtonInv /\ [HistoryNext]_<<vars, history>> =>
        [\A b \in Buttons : met[b] /\ ~repressed => ~Answered(b)]_<<vars, history>>
  <2> SUFFICES ASSUME ButtonInv, HistoryNext
               PROVE  \A b \in Buttons : met[b] /\ ~repressed => ~Answered(b)
    OBVIOUS
  <2>1. PICK gap \in 1 .. MaxGap, pins \in [Buttons -> BOOLEAN] :
          update(gap, pins) /\ Follow(gap, pins)
    BY DEF HistoryNext
  <2>2. QED
    BY <2>1, SuppressedStep DEF ButtonInv
<1>2. QED
  BY <1>1, ButtonInvariant, PTL DEF HistorySpec, ChordIsSilent

\* A left-over suppression swallows one press and no more.
THEOREM SwallowsAtMostOne == HistorySpec => []NoSecondSwallow
<1>1. ButtonInv => NoSecondSwallow
  BY DEF ButtonInv, SwallowUsesSuppression, NoSecondSwallow
<1>2. QED
  BY <1>1, ButtonInvariant, PTL
=============================================================================
