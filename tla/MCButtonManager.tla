--------------------------- MODULE MCButtonManager ---------------------------
(***************************************************************************)
(* ButtonManager with history variables that follow what the user did: what*)
(* the pins read lately, which presses met the other button, and which went*)
(* unanswered.                                                             *)
(***************************************************************************)
EXTENDS ButtonManager, FiniteSets

VARIABLES
  level,      \* per button: its pin and how long it has read like this
  met,        \* per button: its current press met the other button's
  repressed,  \* a button was pressed again before the other one came up
  longSeen,   \* BothLong was reported since both buttons were up
  swallowed   \* per button: presses unanswered since the last answered one

history == <<level, met, repressed, longSeen, swallowed>>

AllUp == \A b \in Buttons : ~button'[b].stable_pressed

HistoryInit ==
  /\ Init
  /\ level = [b \in Buttons |-> [pressed |-> FALSE, since |-> DEBOUNCE]]
  /\ met = [b \in Buttons |-> FALSE]
  /\ repressed = FALSE
  /\ longSeen = FALSE
  /\ swallowed = [b \in Buttons |-> 0]

Answered(b) == event' \in {Short(b), Long(b)}

Follow(gap, pins) ==
  /\ level' = [b \in Buttons |->
                 [pressed |-> pins[b],
                  since |-> IF pins[b] # level[b].pressed THEN 0
                            ELSE Later(level[b].since, gap, DEBOUNCE)]]
  /\ met' = [b \in Buttons |->
               /\ button'[b].stable_pressed
               /\ met[b] \/ \A c \in Buttons : button'[c].stable_pressed]
  /\ repressed' = (~AllUp /\ (repressed \/ \E b, c \in Buttons :
                      ~Down(b) /\ button'[b].stable_pressed /\ Down(c) /\ met[c]))
  /\ longSeen' = (~AllUp /\ (longSeen \/ event' = BothLong))
  /\ swallowed' = [b \in Buttons |->
                     IF ~Released(b) \/ met[b] THEN IF met'[b] THEN 0 ELSE swallowed[b]
                     ELSE IF Answered(b) THEN 0 ELSE swallowed[b] + 1]

HistoryNext == \E gap \in 1 .. MaxGap, pins \in [Buttons -> BOOLEAN] :
                 update(gap, pins) /\ Follow(gap, pins)

HistorySpec == HistoryInit /\ [][HistoryNext]_<<vars, history>>

\* A button changes only after its pin has read the same in every call for
\* DEBOUNCE: no bounce, however long it goes on, presses or releases a button.
Debounced ==
  [][\A b \in Buttons : Down(b) # button'[b].stable_pressed =>
       /\ level'[b].since >= DEBOUNCE
       /\ level'[b].pressed = button'[b].stable_pressed]_<<vars, history>>

\* BothLong is reported once per chord, whichever buttons come up and go down
\* again before both are up.
BothLongOnce == [][event' = BothLong => ~longSeen]_<<vars, history>>

\* A press that met the other button is not reported as a press of its own when
\* it ends, in whatever order the two come up, unless a button was pressed again
\* before the other was up.
ChordIsSilent ==
  [][\A b \in Buttons : met[b] /\ ~repressed => ~Answered(b)]_<<vars, history>>

\* Of the presses of one button that met no other, no two in a row go without
\* an answer: a suppression that is left over is used up by the first.
NoSecondSwallow == \A b \in Buttons : swallowed[b] <= 1

-----------------------------------------------------------------------------
(* Why these properties hold: the parts of the inductive invariant.         *)

HistoryTypeOK ==
  /\ level \in [Buttons -> [pressed : BOOLEAN, since : 0 .. DEBOUNCE]]
  /\ met \in [Buttons -> BOOLEAN]
  /\ repressed \in BOOLEAN
  /\ longSeen \in BOOLEAN
  /\ swallowed \in [Buttons -> Nat]

\* What the manager remembers of a pin is what the pin did.
LevelIsRead ==
  \A b \in Buttons : /\ level[b].pressed = button[b].raw_pressed
                     /\ level[b].since = button[b].rawChangedAgo

\* A chord lasts from the call that finds both buttons down to the one that finds
\* both up, and BothLong belongs to it.
ChordIsWhereTheyMet ==
  /\ \A b \in Buttons : met[b] => Down(b) /\ chord_active_
  /\ BothDown => \A b \in Buttons : met[b]
  /\ chord_active_ => \E b \in Buttons : Down(b)
  /\ longSeen => chord_active_ /\ chord_emitted_

\* Until a button is pressed again, what is still down has met the other and will
\* come up silently.
ChordIsSuppressed ==
  chord_active_ /\ ~repressed => \A b \in Buttons : Down(b) => met[b] /\ suppress[b]

\* A press goes unanswered by using up a suppression.
SwallowUsesSuppression ==
  \A b \in Buttons : swallowed[b] = 0 \/ (swallowed[b] = 1 /\ ~suppress[b])

\* The inductive invariant behind all of them.
ButtonInv ==
  /\ TypeOK
  /\ HistoryTypeOK
  /\ LevelIsRead
  /\ ChordIsWhereTheyMet
  /\ ChordIsSuppressed
  /\ SwallowUsesSuppression
=============================================================================
