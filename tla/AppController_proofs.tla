------------------------ MODULE AppController_proofs ------------------------
(***************************************************************************)
(* Proofs about AppController, with the infrared and the screen manager it *)
(* composes, for every number of slots, every set of signals and all       *)
(* limits of time.                                                         *)
(***************************************************************************)
EXTENDS AppController, TLAPS

\* The steps, sorted by who takes them.
LoopStep == setup \/ LoopStart \/ Update
PageStep == DispatchSending \/ DispatchLearning \/ DispatchResult \/ DispatchOther
KeyStep == \/ NoEvent \/ ShortB
           \/ AOnHome \/ AOnMenu \/ AOnLearning \/ AOnConfirm \/ AOnResult \/ AOnSending
           \/ MenuTimeout
SendStep == request_send_slot \/ Prepare \/ Raise \/ Transmit \/ TransmitFails
Surroundings == Tick \/ Interrupt

\* The steps of the main task, by their place in loop(), and those around it.
LEMMA NextCases ==
  ASSUME Next
  PROVE  LoopStep \/ PageStep \/ KeyStep \/ SendStep \/ Surroundings
  BY DEF Next, Main, LoopStep, PageStep, KeyStep, SendStep, Surroundings

\* From here on an action is expanded with the operations it calls, all but the
\* refresh of the screen.
USE DEF irVars, rxVars, txVars, appVars, pageVars, stateVars, userVars, choiceVars,
        arm_, start_learning, cancel_learning, take_capture, take_send_complete,
        cancel_send, prepare_tx_symbols_, raise_sending, transmit, transmit_fails,
        ChannelTick, enter_state_, show_result, show_result_as_is, start_learning_,
        send_selected_, SendError, ShortA, AtLoopStart, AtThisMoment

-----------------------------------------------------------------------------
(* Time. *)

\* Ages count up to a limit that is at least every timeout of the code.
LEMMA LimitsAreBounded ==
  /\ Max(Limits) \in Nat
  /\ \A limit \in Limits : limit <= Max(Limits)
<1>1. /\ LEARNING_TIMEOUT \in Nat /\ SENDING_TIMEOUT \in Nat
      /\ SENT_AUTO_RETURN \in Nat /\ MENU_TIMEOUT \in Nat
  BY TimeAssumption DEF Limits
<1>2. \E longest \in Limits : \A limit \in Limits : longest >= limit
  BY <1>1 DEF Limits
<1>3. Max(Limits) \in Limits /\ \A limit \in Limits : Max(Limits) >= limit
  BY <1>2 DEF Max
<1>4. QED
  BY <1>3, TimeAssumption

\* That limit and the age it is counted in are numbers.
LEMMA AgeCapType ==
  /\ AgeCap \in Nat /\ MaxLag \in Nat /\ MaxLag <= AgeCap
  /\ SENDING_TIMEOUT \in Nat /\ SENDING_TIMEOUT <= AgeCap
<1>1. /\ Max(Limits) \in Nat /\ MaxLag \in Nat /\ SENDING_TIMEOUT \in Nat
      /\ SENDING_TIMEOUT <= Max(Limits)
  BY LimitsAreBounded, TimeAssumption DEF Limits
<1>2. QED
  BY <1>1 DEF AgeCap

-----------------------------------------------------------------------------
(* Types: TypeOK, sorted by kind of value.  A capture that is saved has to be  *)
(* one, so the types rest on CaptureWasHeard.                                  *)

Flags ==
  /\ receive_done_ \in BOOLEAN /\ learning_ \in BOOLEAN
  /\ capture_ready_ \in BOOLEAN /\ error_ \in BOOLEAN
  /\ transmit_done_ \in BOOLEAN /\ sending_ \in BOOLEAN
  /\ send_complete_ \in BOOLEAN /\ delivered \in BOOLEAN
  /\ result_auto_return_ \in BOOLEAN /\ held \in BOOLEAN

Signals ==
  /\ rx_symbols_ \in Frames \cup Rejects \cup {None}
  /\ capture_ \in Frames \cup {None}
  /\ heard \in SUBSET Frames
  /\ tx_symbols_ \in Profiles \cup {None}
  /\ pending_profile_ \in Profiles \cup {None}
  /\ stored \in [Slots -> Profiles]
  /\ selected_slot_ \in Slots
  /\ learnSlot \in Slots

Channel == tx \in [busy : BOOLEAN, frame : Profiles \cup {None}, age : 0 .. TxMax]

Places ==
  /\ rx \in {"idle", "armed"}
  /\ pc \in {"setup", "failed", "idle", "update_tx", "update_rx", "process", "rearm", "dispatch",
             "buttons", "menu", "prepare", "raise", "transmit"}
  /\ state_ \in Pages
  /\ result_title_ \in Titles
  /\ ret \in {"idle", "menu"}

Numbers ==
  /\ selected_action_ \in 0 .. 2
  /\ confirm_choice_ \in 0 .. 2
  /\ age \in 0 .. AgeCap
  /\ lag \in 0 .. MaxLag

\* The type invariant, by the kind of its parts: each kind is proved on its own.
LEMMA TypeParts == TypeOK <=> Flags /\ Signals /\ Channel /\ Places /\ Numbers
  BY Zenon DEF TypeOK, IRTypeOK, Flags, Signals, Channel, Places, Numbers

\* The first state is well typed.
LEMMA TypeInit == Init => TypeOK
<1> SUFFICES ASSUME Init PROVE TypeOK
  OBVIOUS
<1>1. Flags
  BY Zenon DEF Init, IRInit, Flags
<1>2. Signals
  <2>1. 0 \in Slots
    BY SlotAssumption DEF Slots
  <2>2. QED
    BY <2>1 DEF Init, IRInit, Signals, Profiles
<1>3. Channel
  <2>1. tx = [busy |-> FALSE, frame |-> None, age |-> 0]
    BY DEF Init, IRInit
  <2>2. 0 \in 0 .. TxMax
    BY TxAssumption
  <2>3. QED
    BY <2>1, <2>2 DEF Channel
<1>4. Places
  BY DEF Init, IRInit, Places, Pages, Titles
<1>5. Numbers
  <2>1. age = 0 /\ lag = 0 /\ selected_action_ = 0 /\ confirm_choice_ = 0
    BY DEF Init
  <2>2. QED
    BY <2>1, AgeCapType DEF Numbers
<1>6. QED
  BY <1>1, <1>2, <1>3, <1>4, <1>5, TypeParts

\* The choices stay within their lists.
LEMMA FollowingType ==
  /\ \A slot \in Slots : Following(slot, SlotCount) \in Slots
  /\ \A choice \in 0 .. 2 : Following(choice, 3) \in 0 .. 2
  BY SlotAssumption DEF Following, Slots

\* The flags stay Booleans.
LEMMA FlagsStep ==
  ASSUME Flags, [Next]_vars
  PROVE  Flags'
<1> USE DEF Flags
<1>1. CASE setup \/ LoopStart
  BY <1>1, Zenon DEF setup, LoopStart
<1>2. CASE DispatchOther
  BY <1>2, Zenon DEF DispatchOther
<1>3. CASE NoEvent
  BY <1>3, Zenon DEF NoEvent
<1>4. CASE AOnSending
  BY <1>4, Zenon DEF AOnSending
<1>5. CASE (UpdateTransmit /\ UNCHANGED appVars) \/ (UpdateReceive /\ UNCHANGED appVars)
  BY <1>5, Zenon DEF UpdateTransmit, UpdateReceive
<1>6. CASE (ProcessCandidate /\ UNCHANGED appVars) \/ (Rearm /\ UNCHANGED appVars)
  BY <1>6, Zenon DEF ProcessCandidate, Rearm
<1>7. CASE DispatchSending
  BY <1>7, Zenon DEF DispatchSending
<1>8. CASE DispatchLearning
  BY <1>8, Zenon DEF DispatchLearning
<1>9. CASE DispatchResult \/ AOnHome
  BY <1>9, Zenon DEF DispatchResult, AOnHome
<1>10. CASE ShortB
  BY <1>10, Zenon DEF ShortB
<1>11. CASE AOnMenu
  BY <1>11, Zenon DEF AOnMenu
<1>12. CASE AOnLearning \/ AOnResult
  BY <1>12, Zenon DEF AOnLearning, AOnResult
<1>13. CASE AOnConfirm
  BY <1>13, Zenon DEF AOnConfirm
<1>14. CASE MenuTimeout
  BY <1>14, Zenon DEF MenuTimeout
<1>15. CASE request_send_slot
  BY <1>15, Zenon DEF request_send_slot
<1>16. CASE Prepare
  BY <1>16, Zenon DEF Prepare
<1>17. CASE Raise \/ Transmit
  BY <1>17, Zenon DEF Raise, Transmit
<1>18. CASE TransmitFails
  BY <1>18, Zenon DEF TransmitFails
<1>19. CASE Surroundings
  BY <1>19, Zenon DEF Surroundings, Interrupt, Tick, OnReceive, OnTransmit
<1>20. CASE UNCHANGED vars
  BY <1>20, Zenon DEF vars
<1>21. QED
  BY <1>1, <1>2, <1>3, <1>4, <1>5, <1>6, <1>7, <1>8, <1>9, <1>10, <1>11, <1>12, <1>13, <1>14,
         <1>15, <1>16, <1>17, <1>18, <1>19, <1>20, NextCases DEF LoopStep, Update, PageStep,
         KeyStep, SendStep

\* The buffers, the capture and the profiles stay signals.
LEMMA SignalsStep ==
  ASSUME Signals, CaptureWasHeard, [Next]_vars
  PROVE  Signals'
<1>1. CASE LoopStep
  BY <1>1 DEF Signals, LoopStep, Update, setup, LoopStart, UpdateTransmit, UpdateReceive,
         ProcessCandidate, Rearm
<1>2. CASE PageStep
  BY <1>2 DEF Profiles, Signals, PageStep, DispatchSending, DispatchLearning, DispatchResult,
         DispatchOther
<1>3. CASE KeyStep /\ ~AOnConfirm
  BY <1>3, FollowingType DEF Signals, KeyStep, NoEvent, ShortB, AOnHome, AOnMenu, AOnLearning,
         AOnResult, AOnSending, MenuTimeout
<1>4. CASE AOnConfirm
  <2>1. selected_slot_ \in Slots /\ stored \in [Slots -> Profiles]
    BY DEF Signals
  <2>2. stored' \in [Slots -> Profiles]
    <3>1. heard \subseteq Profiles
      BY DEF Signals, Profiles
    <3>2. state_ = "SAVE_CONFIRM"
      BY <1>4 DEF AOnConfirm
    <3>3. pending_profile_ \in Profiles
      BY <3>1, <3>2 DEF CaptureWasHeard
    <3>4. \/ stored' = [stored EXCEPT ![selected_slot_] = pending_profile_]
          \/ UNCHANGED stored
      BY <1>4 DEF AOnConfirm
    <3>5. QED
      BY <2>1, <3>3, <3>4
  <2>3. QED
    BY <1>4, <2>1, <2>2 DEF AOnConfirm, Signals
<1>5. CASE SendStep
  BY <1>5 DEF Signals, SendStep, request_send_slot, Prepare, Raise, Transmit, TransmitFails
<1>6. CASE Surroundings
  BY <1>6 DEF Signals, Surroundings, Interrupt, Tick, OnReceive, OnTransmit
<1>7. CASE UNCHANGED vars
  BY <1>7 DEF vars, Signals
<1>8. QED
  BY <1>1, <1>2, <1>3, <1>4, <1>5, <1>6, <1>7, NextCases DEF KeyStep

\* The transmit channel stays idle or with a frame and its age.
LEMMA ChannelStep ==
  ASSUME Channel, Signals, [Next]_vars
  PROVE  Channel'
<1>1. CASE LoopStep
  BY <1>1 DEF Channel, LoopStep, Update, setup, LoopStart, UpdateTransmit, UpdateReceive,
         ProcessCandidate, Rearm
<1>2. CASE PageStep
  BY <1>2 DEF Channel, PageStep, DispatchSending, DispatchLearning, DispatchResult,
         DispatchOther
<1>3. CASE KeyStep
  BY <1>3 DEF Channel, KeyStep, NoEvent, ShortB, AOnHome, AOnMenu, AOnLearning, AOnConfirm,
         AOnResult, AOnSending, MenuTimeout
<1>4. CASE Transmit
  BY <1>4, TxAssumption DEF Signals, Channel, Transmit
<1>5. CASE SendStep /\ ~Transmit
  BY <1>5 DEF Channel, SendStep, request_send_slot, Prepare, Raise, TransmitFails
<1>6. CASE Tick
  BY <1>6, TxAssumption DEF Channel, Tick
<1>7. CASE OnReceive /\ UNCHANGED appVars
  BY <1>7, TxAssumption DEF Channel, OnReceive
<1>8. CASE OnTransmit /\ UNCHANGED appVars
  BY <1>8, TxAssumption DEF Channel, OnTransmit
<1>9. CASE UNCHANGED vars
  BY <1>9 DEF vars, Channel
<1>10. QED
  BY <1>1, <1>2, <1>3, <1>4, <1>5, <1>6, <1>7, <1>8, <1>9, NextCases DEF SendStep, Surroundings,
         Interrupt

\* The page and the place in loop() stay in their sets.
LEMMA PlacesStep ==
  ASSUME Places, [Next]_vars
  PROVE  Places'
<1> USE DEF Places, Pages, Titles
<1>1. CASE LoopStep
  BY <1>1 DEF LoopStep, Update, setup, LoopStart, UpdateTransmit, UpdateReceive,
         ProcessCandidate, Rearm
<1>2. CASE PageStep
  BY <1>2 DEF PageStep, DispatchSending, DispatchLearning, DispatchResult, DispatchOther
<1>3. CASE KeyStep
  BY <1>3 DEF KeyStep, NoEvent, ShortB, AOnHome, AOnMenu, AOnLearning, AOnConfirm, AOnResult,
         AOnSending, MenuTimeout
<1>4. CASE SendStep
  BY <1>4 DEF SendStep, request_send_slot, Prepare, Raise, Transmit, TransmitFails
<1>5. CASE Surroundings
  BY <1>5 DEF Surroundings, Interrupt, Tick, OnReceive, OnTransmit
<1>6. CASE UNCHANGED vars
  BY <1>6 DEF vars
<1>7. QED
  BY <1>1, <1>2, <1>3, <1>4, <1>5, <1>6, NextCases

\* Slot, choices and times stay within their bounds.
LEMMA NumbersStep ==
  ASSUME Numbers, [Next]_vars
  PROVE  Numbers'
<1> USE AgeCapType DEF Numbers
<1>1. CASE LoopStep
  BY <1>1 DEF LoopStep, Update, setup, LoopStart, UpdateTransmit, UpdateReceive,
         ProcessCandidate, Rearm
<1>2. CASE PageStep
  BY <1>2 DEF PageStep, DispatchSending, DispatchLearning, DispatchResult, DispatchOther
<1>3. CASE KeyStep
  BY <1>3, FollowingType DEF KeyStep, NoEvent, ShortB, AOnHome, AOnMenu, AOnLearning,
         AOnConfirm, AOnResult, AOnSending, MenuTimeout
<1>4. CASE SendStep
  BY <1>4 DEF SendStep, request_send_slot, Prepare, Raise, Transmit, TransmitFails
<1>5. CASE Surroundings
  BY <1>5 DEF Surroundings, Interrupt, Tick, OnReceive, OnTransmit
<1>6. CASE UNCHANGED vars
  BY <1>6 DEF vars
<1>7. QED
  BY <1>1, <1>2, <1>3, <1>4, <1>5, <1>6, NextCases

\* A step keeps the types; what is saved has to be known to be one that was heard.
LEMMA TypeStep ==
  ASSUME TypeOK, CaptureWasHeard, [Next]_vars
  PROVE  TypeOK'
<1>1. Flags /\ Signals /\ Channel /\ Places /\ Numbers
  BY TypeParts
<1>2. Flags' /\ Signals' /\ Channel' /\ Places' /\ Numbers'
  BY <1>1, FlagsStep, SignalsStep, ChannelStep, PlacesStep, NumbersStep
<1>3. QED
  BY <1>2, TypeParts, PTL

-----------------------------------------------------------------------------
(* Pages and modes. *)

\* The page says what the receiver does: in every step that moves one of them.
LEMMA ReceiverStep ==
  ASSUME TypeOK, ReceiverByMode, SenderByMode, [Next]_vars
  PROVE  ReceiverByMode'
<1> USE DEF TypeOK, IRTypeOK, ReceiverByMode, SenderByMode
<1>1. CASE LoopStep
  BY <1>1 DEF LoopStep, Update, setup, LoopStart, UpdateTransmit, UpdateReceive,
         ProcessCandidate, Rearm
<1>2. CASE PageStep
  BY <1>2 DEF PageStep, DispatchSending, DispatchLearning, DispatchResult, DispatchOther
<1>3. CASE KeyStep
  BY <1>3 DEF KeyStep, NoEvent, ShortB, AOnHome, AOnMenu, AOnLearning, AOnConfirm, AOnResult,
         AOnSending, MenuTimeout
<1>4. CASE SendStep
  BY <1>4 DEF SendStep, request_send_slot, Prepare, Raise, Transmit, TransmitFails
<1>5. CASE Surroundings
  BY <1>5 DEF Surroundings, Interrupt, Tick, OnReceive, OnTransmit
<1>6. CASE UNCHANGED vars
  BY <1>6 DEF vars
<1>7. QED
  BY <1>1, <1>2, <1>3, <1>4, <1>5, <1>6, NextCases

\* The same for the sender: it is left only with the page.
LEMMA SenderStep ==
  ASSUME TypeOK, ReceiverByMode, SenderByMode, [Next]_vars
  PROVE  SenderByMode'
<1> USE DEF TypeOK, IRTypeOK, ReceiverByMode, SenderByMode
<1>1. CASE LoopStep
  BY <1>1 DEF LoopStep, Update, setup, LoopStart, UpdateTransmit, UpdateReceive,
         ProcessCandidate, Rearm
<1>2. CASE PageStep
  BY <1>2 DEF PageStep, DispatchSending, DispatchLearning, DispatchResult, DispatchOther
<1>3. CASE KeyStep
  BY <1>3 DEF KeyStep, NoEvent, ShortB, AOnHome, AOnMenu, AOnLearning, AOnConfirm, AOnResult,
         AOnSending, MenuTimeout
<1>4. CASE SendStep
  BY <1>4 DEF SendStep, request_send_slot, Prepare, Raise, Transmit, TransmitFails
<1>5. CASE Surroundings
  BY <1>5 DEF Surroundings, Interrupt, Tick, OnReceive, OnTransmit
<1>6. CASE UNCHANGED vars
  BY <1>6 DEF vars
<1>7. QED
  BY <1>1, <1>2, <1>3, <1>4, <1>5, <1>6, NextCases

\* A result that leaves the automatic return as it is replaces a page without one.
LEMMA ReturnStep ==
  ASSUME ReturnOnlyAfterSent, [Next]_vars
  PROVE  ReturnOnlyAfterSent'
<1> USE DEF ReturnOnlyAfterSent
<1>1. CASE LoopStep
  BY <1>1 DEF LoopStep, Update, setup, LoopStart, UpdateTransmit, UpdateReceive,
         ProcessCandidate, Rearm
<1>2. CASE PageStep
  BY <1>2 DEF PageStep, DispatchSending, DispatchLearning, DispatchResult, DispatchOther
<1>3. CASE KeyStep
  BY <1>3 DEF KeyStep, NoEvent, ShortB, AOnHome, AOnMenu, AOnLearning, AOnConfirm, AOnResult,
         AOnSending, MenuTimeout
<1>4. CASE SendStep
  BY <1>4 DEF SendStep, request_send_slot, Prepare, Raise, Transmit, TransmitFails
<1>5. CASE Surroundings
  BY <1>5 DEF Surroundings, Interrupt, Tick, OnReceive, OnTransmit
<1>6. CASE UNCHANGED vars
  BY <1>6 DEF vars
<1>7. QED
  BY <1>1, <1>2, <1>3, <1>4, <1>5, <1>6, NextCases

\* What was heard before learning started cannot become the capture: the flag of an
\* earlier receive is reset, and the slot stays selected until the user has answered.
LEMMA CaptureStep ==
  ASSUME TypeOK, ReceiverByMode, SenderByMode, CaptureWasHeard, [Next]_vars
  PROVE  CaptureWasHeard'
<1> USE DEF TypeOK, IRTypeOK, ReceiverByMode, SenderByMode, CaptureWasHeard
<1>1. CASE LoopStep
  BY <1>1 DEF LoopStep, Update, setup, LoopStart, UpdateTransmit, UpdateReceive,
         ProcessCandidate, Rearm
<1>2. CASE PageStep
  BY <1>2 DEF PageStep, DispatchSending, DispatchLearning, DispatchResult, DispatchOther
<1>3. CASE KeyStep
  BY <1>3 DEF KeyStep, NoEvent, ShortB, AOnHome, AOnMenu, AOnLearning, AOnConfirm, AOnResult,
         AOnSending, MenuTimeout
<1>4. CASE SendStep
  BY <1>4 DEF SendStep, request_send_slot, Prepare, Raise, Transmit, TransmitFails
<1>5. CASE Surroundings
  BY <1>5 DEF Surroundings, Interrupt, Tick, OnReceive, OnTransmit
<1>6. CASE UNCHANGED vars
  BY <1>6 DEF vars
<1>7. QED
  BY <1>1, <1>2, <1>3, <1>4, <1>5, <1>6, NextCases

-----------------------------------------------------------------------------
(* The screen. *)

\* Drawing a page, or leaving it out as drawn already, shows the page.
LEMMA RefreshShows ==
  ASSUME DrawnIsDisplayed, refresh_screen_
  PROVE  DrawnIsDisplayed' /\ display' = CurrentPicture'
<1> USE DEF DrawnIsDisplayed, DrawUnlessDrawn, Draw, Picture, screenVars
<1>1. CASE state_' = "HOME" /\ render_home(selected_slot_')
  <2>1. CurrentPicture' = Picture("HOME", selected_slot_', 0, "")
    BY <1>1 DEF CurrentPicture
  <2>2. CASE view_ = "HOME" /\ drawn_ = <<selected_slot_'>>
    BY <1>1, <2>1, <2>2 DEF render_home
  <2>3. CASE ~(view_ = "HOME" /\ drawn_ = <<selected_slot_'>>)
    <3>1. /\ view_' = "HOME" /\ drawn_' = <<selected_slot_'>>
          /\ display' = Picture("HOME", selected_slot_', 0, "")
      BY <1>1, <2>3 DEF render_home
    <3>2. drawn_'[1] = selected_slot_'
      BY <3>1
    <3>3. QED
      BY <2>1, <3>1, <3>2
  <2>4. QED
    BY <2>2, <2>3
<1>2. CASE state_' = "ACTION_MENU" /\ render_action_menu(selected_slot_', selected_action_')
  <2>1. CurrentPicture' = Picture("ACTION_MENU", selected_slot_', selected_action_', "")
    BY <1>2 DEF CurrentPicture
  <2>2. CASE view_ = "ACTION_MENU" /\ drawn_ = <<selected_slot_', selected_action_'>>
    BY <1>2, <2>1, <2>2 DEF render_action_menu
  <2>3. CASE ~(view_ = "ACTION_MENU" /\ drawn_ = <<selected_slot_', selected_action_'>>)
    <3>1. /\ view_' = "ACTION_MENU" /\ drawn_' = <<selected_slot_', selected_action_'>>
          /\ display' = Picture("ACTION_MENU", selected_slot_', selected_action_', "")
      BY <1>2, <2>3 DEF render_action_menu
    <3>2. drawn_'[1] = selected_slot_' /\ drawn_'[2] = selected_action_'
      BY <3>1
    <3>3. QED
      BY <2>1, <3>1, <3>2
  <2>4. QED
    BY <2>2, <2>3
<1>3. CASE state_' = "LEARNING" /\ render_learning(selected_slot_')
  <2>1. CurrentPicture' = Picture("LEARNING", selected_slot_', 0, "")
    BY <1>3 DEF CurrentPicture
  <2>2. CASE view_ = "LEARNING" /\ drawn_ = <<selected_slot_'>>
    BY <1>3, <2>1, <2>2 DEF render_learning
  <2>3. CASE ~(view_ = "LEARNING" /\ drawn_ = <<selected_slot_'>>)
    <3>1. /\ view_' = "LEARNING" /\ drawn_' = <<selected_slot_'>>
          /\ display' = Picture("LEARNING", selected_slot_', 0, "")
      BY <1>3, <2>3 DEF render_learning
    <3>2. drawn_'[1] = selected_slot_'
      BY <3>1
    <3>3. QED
      BY <2>1, <3>1, <3>2
  <2>4. QED
    BY <2>2, <2>3
<1>4. CASE state_' = "SAVE_CONFIRM" /\ render_save_confirm(selected_slot_', confirm_choice_')
  BY <1>4 DEF render_save_confirm, CurrentPicture
<1>5. CASE state_' = "SENDING" /\ render_sending(selected_slot_')
  BY <1>5 DEF render_sending, CurrentPicture
<1>6. CASE state_' = "RESULT" /\ render_result(result_title_')
  BY <1>6 DEF render_result, CurrentPicture
<1>7. QED
  BY <1>1, <1>2, <1>3, <1>4, <1>5, <1>6 DEF refresh_screen_

\* A step either refreshes the screen or leaves what it should show as it is.
LEMMA RefreshCases ==
  ASSUME TypeOK, SenderByMode, [Next]_vars
  PROVE  \/ refresh_screen_ /\ pc' \notin {"setup", "failed"}
         \/ /\ UNCHANGED screenVars
            /\ \/ pc \in {"setup", "failed"} /\ pc' \in {"setup", "failed"}
               \/ /\ pc \notin {"setup", "failed"} /\ pc' \notin {"setup", "failed"}
                  /\ UNCHANGED CurrentPicture
<1> USE DEF CurrentPicture, SenderByMode, TypeOK
<1>1. CASE LoopStep
  BY <1>1 DEF LoopStep, Update, setup, LoopStart, UpdateTransmit, UpdateReceive,
         ProcessCandidate, Rearm
<1>2. CASE PageStep
  BY <1>2 DEF PageStep, DispatchSending, DispatchLearning, DispatchResult, DispatchOther
<1>3. CASE KeyStep
  BY <1>3 DEF KeyStep, NoEvent, ShortB, AOnHome, AOnMenu, AOnLearning, AOnConfirm, AOnResult,
         AOnSending, MenuTimeout
<1>4. CASE SendStep
  BY <1>4 DEF SendStep, request_send_slot, Prepare, Raise, Transmit, TransmitFails
<1>5. CASE Surroundings
  BY <1>5 DEF Surroundings, Interrupt, Tick, OnReceive, OnTransmit
<1>6. CASE UNCHANGED vars
  BY <1>6 DEF vars
<1>7. QED
  BY <1>1, <1>2, <1>3, <1>4, <1>5, <1>6, NextCases

\* A step that does not draw does not change what a drawing would show.
LEMMA ScreenStep ==
  ASSUME TypeOK, SenderByMode, DrawnIsDisplayed, ScreenIsCurrent, [Next]_vars
  PROVE  DrawnIsDisplayed' /\ ScreenIsCurrent'
<1>1. CASE refresh_screen_ /\ pc' \notin {"setup", "failed"}
  BY <1>1, RefreshShows DEF ScreenIsCurrent
<1>2. CASE /\ UNCHANGED screenVars
           /\ \/ pc \in {"setup", "failed"} /\ pc' \in {"setup", "failed"}
              \/ /\ pc \notin {"setup", "failed"} /\ pc' \notin {"setup", "failed"}
                 /\ UNCHANGED CurrentPicture
  BY <1>2 DEF DrawnIsDisplayed, ScreenIsCurrent, screenVars
<1>3. QED
  BY <1>1, <1>2, RefreshCases

-----------------------------------------------------------------------------
(* The controller's invariant and what follows from it. *)

\* The first state satisfies the controller's invariant.
LEMMA ControllerInit == Init => ControllerInv
<1> SUFFICES ASSUME Init PROVE ControllerInv
  OBVIOUS
<1>1. TypeOK
  BY TypeInit
<1>2. ReceiverByMode /\ SenderByMode /\ ReturnOnlyAfterSent
  BY DEF Init, IRInit, ReceiverByMode, SenderByMode, ReturnOnlyAfterSent
<1>3. CaptureWasHeard
  BY DEF Init, IRInit, CaptureWasHeard
<1>4. DrawnIsDisplayed
  BY DEF Init, ScreenInit, DrawnIsDisplayed, Blank, Picture
<1>5. ScreenIsCurrent
  BY DEF Init, ScreenInit, ScreenIsCurrent
<1>6. QED
  BY <1>1, <1>2, <1>3, <1>4, <1>5 DEF ControllerInv

\* Every step keeps it.
LEMMA ControllerStep == ControllerInv /\ [Next]_vars => ControllerInv'
<1> SUFFICES ASSUME ControllerInv, [Next]_vars PROVE ControllerInv'
  OBVIOUS
<1>1. /\ TypeOK /\ ReceiverByMode /\ SenderByMode /\ ReturnOnlyAfterSent
      /\ CaptureWasHeard /\ DrawnIsDisplayed /\ ScreenIsCurrent
  BY DEF ControllerInv
<1>2. /\ TypeOK' /\ ReceiverByMode' /\ SenderByMode' /\ ReturnOnlyAfterSent'
      /\ CaptureWasHeard' /\ DrawnIsDisplayed' /\ ScreenIsCurrent'
  BY <1>1, TypeStep, ReceiverStep, SenderStep, ReturnStep, CaptureStep, ScreenStep
<1>3. QED
  BY <1>2 DEF ControllerInv

\* In every reachable state the infrared manager and the page agree on what is going
\* on at every step of loop(), and what may be saved was heard for its slot.
THEOREM ControllerInvariant == Spec => []ControllerInv
  BY ControllerInit, ControllerStep, PTL DEF Spec

\* Every reachable state of the controller, its channels and its screen is well typed.
THEOREM TypeCorrect == Spec => []TypeOK
<1>1. ControllerInv => TypeOK
  BY DEF ControllerInv
<1>2. QED
  BY <1>1, ControllerInvariant, PTL

\* Between two steps of loop() the page, the learner and the sender agree, and no
\* receiver is left armed behind another page (app_controller.cpp, every early return).
THEOREM ModesAlwaysAgree == Spec => []ModesAgree
<1>1. ControllerInv => ModesAgree
  BY DEF ControllerInv, TypeOK, ReceiverByMode, SenderByMode, ModesAgree
<1>2. QED
  BY <1>1, ControllerInvariant, PTL

\* The receive buffer is never decoded while the channel may write it.
THEOREM ReceiveBufferIsQuiet == Spec => []ReceiveBufferQuiet
<1>1. ControllerInv => ReceiveBufferQuiet
  BY DEF ControllerInv, ReceiverByMode, ReceiveBufferQuiet
<1>2. QED
  BY <1>1, ControllerInvariant, PTL

\* The display always shows the page, the slot and the choice the keys act on.
THEOREM ScreenAlwaysCurrent == Spec => []ScreenIsCurrent
<1>1. ControllerInv => ScreenIsCurrent
  BY DEF ControllerInv
<1>2. QED
  BY <1>1, ControllerInvariant, PTL

\* A page says "RETURNING" exactly if it will leave by itself.
THEOREM PagesReturnAsTheySay == Spec => []ReturnsAsItSays
<1>1. ControllerInv => ReturnsAsItSays
  <2> SUFFICES ASSUME ControllerInv PROVE ReturnsAsItSays
    OBVIOUS
  <2>1. CASE pc \in {"setup", "failed"}
    <3>1. display.page = "NONE"
      BY <2>1 DEF ControllerInv, ScreenIsCurrent, Blank, Picture
    <3>2. QED
      BY <2>1, <3>1 DEF ControllerInv, ReceiverByMode, ReturnOnlyAfterSent, ReturnsAsItSays
  <2>2. CASE pc \notin {"setup", "failed"}
    <3>1. display = CurrentPicture
      BY <2>2 DEF ControllerInv, ScreenIsCurrent
    <3>2. display.page = state_ /\ (state_ = "RESULT" => display.title = result_title_)
      BY <3>1 DEF CurrentPicture, Picture
    <3>3. QED
      BY <3>2 DEF ControllerInv, ReturnOnlyAfterSent, ReturnsAsItSays
  <2>3. QED
    BY <2>1, <2>2
<1>2. QED
  BY <1>1, ControllerInvariant, PTL

\* Only the answer to "Save?" writes a slot.
LEMMA OnlyConfirmStores ==
  ASSUME [Next]_vars
  PROVE  UNCHANGED stored \/ AOnConfirm
<1>1. CASE LoopStep
  BY <1>1 DEF LoopStep, Update, setup, LoopStart, UpdateTransmit, UpdateReceive,
         ProcessCandidate, Rearm
<1>2. CASE PageStep
  BY <1>2 DEF PageStep, DispatchSending, DispatchLearning, DispatchResult, DispatchOther
<1>3. CASE AOnConfirm
  BY <1>3
<1>4. CASE KeyStep /\ ~AOnConfirm
  BY <1>4 DEF KeyStep, NoEvent, ShortB, AOnHome, AOnMenu, AOnLearning, AOnResult, AOnSending,
         MenuTimeout
<1>5. CASE SendStep
  BY <1>5 DEF SendStep, request_send_slot, Prepare, Raise, Transmit, TransmitFails
<1>6. CASE Surroundings
  BY <1>6 DEF Surroundings, Interrupt, Tick, OnReceive, OnTransmit
<1>7. CASE UNCHANGED vars
  BY <1>7 DEF vars
<1>8. QED
  BY <1>1, <1>2, <1>3, <1>4, <1>5, <1>6, <1>7, NextCases DEF KeyStep

\* A slot only ever changes to a frame that was received since learning was started
\* for that very slot.
THEOREM SavedWasLearned == Spec => SavesWhatWasLearned
<1>1. ControllerInv /\ [Next]_vars =>
        \A s \in Slots : stored'[s] # stored[s] => s = learnSlot /\ stored'[s] \in heard
  <2> SUFFICES ASSUME ControllerInv, [Next]_vars, NEW s \in Slots, stored'[s] # stored[s]
               PROVE  s = learnSlot /\ stored'[s] \in heard
    OBVIOUS
  <2>1. AOnConfirm
    BY OnlyConfirmStores
  <2>2. state_ = "SAVE_CONFIRM"
    BY <2>1 DEF AOnConfirm
  <2>3. stored' = [stored EXCEPT ![selected_slot_] = pending_profile_]
    BY <2>1 DEF AOnConfirm
  <2>4. /\ stored \in [Slots -> Profiles]
        /\ learnSlot = selected_slot_
        /\ pending_profile_ \in heard
    BY <2>2 DEF ControllerInv, TypeOK, CaptureWasHeard
  <2>5. QED
    BY <2>3, <2>4
<1>2. QED
  BY <1>1, ControllerInvariant, PTL DEF Spec, SavesWhatWasLearned

\* While the user is asked about a capture, nothing replaces it: not Home Assistant,
\* which shares the profile it is in (app_controller.cpp:270).
LEMMA KeptWhileAsked ==
  ASSUME [Next]_vars
  PROVE  pending_profile_' # pending_profile_ => state_ # "SAVE_CONFIRM"
<1>1. CASE LoopStep
  BY <1>1 DEF LoopStep, Update, setup, LoopStart, UpdateTransmit, UpdateReceive,
         ProcessCandidate, Rearm
<1>2. CASE PageStep
  BY <1>2 DEF PageStep, DispatchSending, DispatchLearning, DispatchResult, DispatchOther
<1>3. CASE KeyStep
  BY <1>3 DEF KeyStep, NoEvent, ShortB, AOnHome, AOnMenu, AOnLearning, AOnConfirm, AOnResult,
         AOnSending, MenuTimeout
<1>4. CASE SendStep
  BY <1>4 DEF SendStep, request_send_slot, Prepare, Raise, Transmit, TransmitFails
<1>5. CASE Surroundings
  BY <1>5 DEF Surroundings, Interrupt, Tick, OnReceive, OnTransmit
<1>6. CASE UNCHANGED vars
  BY <1>6 DEF vars
<1>7. QED
  BY <1>1, <1>2, <1>3, <1>4, <1>5, <1>6, NextCases

\* A capture that the user is asked about stays what it is, whatever signals arrive
\* and whatever Home Assistant requests.
THEOREM CaptureAlwaysKept == Spec => CaptureIsKept
  BY KeptWhileAsked, PTL DEF Spec, CaptureIsKept

-----------------------------------------------------------------------------
(* The transmit channel, when it is fast enough. *)

\* A send ages no faster than its transmission, but for the ticks of the loop that
\* started it.
LEMMA YoungStep ==
  ASSUME ChannelIsFast, TypeOK, ReceiverByMode, SenderByMode,
         SendIsYoung, ChannelIsOurs, [Next]_vars
  PROVE  SendIsYoung'
<1> USE AgeCapType, TxAssumption DEF ChannelIsFast, TypeOK, IRTypeOK, SenderByMode,
            ReceiverByMode, SendIsYoung, ChannelIsOurs
<1>1. CASE LoopStep
  BY <1>1 DEF LoopStep, Update, setup, LoopStart, UpdateTransmit, UpdateReceive,
         ProcessCandidate, Rearm
<1>2. CASE PageStep
  BY <1>2 DEF PageStep, DispatchSending, DispatchLearning, DispatchResult, DispatchOther
<1>3. CASE KeyStep
  BY <1>3 DEF KeyStep, NoEvent, ShortB, AOnHome, AOnMenu, AOnLearning, AOnConfirm, AOnResult,
         AOnSending, MenuTimeout
<1>4. CASE SendStep
  BY <1>4 DEF SendStep, request_send_slot, Prepare, Raise, Transmit, TransmitFails
<1>5. CASE Surroundings
  BY <1>5 DEF Surroundings, Interrupt, Tick, OnReceive, OnTransmit
<1>6. CASE UNCHANGED vars
  BY <1>6 DEF vars
<1>7. QED
  BY <1>1, <1>2, <1>3, <1>4, <1>5, <1>6, NextCases

\* So the send timeout finds the channel idle, and whoever starts a send after it
\* meets neither the channel nor the interrupt of the one before.
LEMMA OursStep ==
  ASSUME ChannelIsFast, TypeOK, ReceiverByMode, SenderByMode,
         SendIsYoung, ChannelIsOurs, [Next]_vars
  PROVE  ChannelIsOurs'
<1> USE AgeCapType, TxAssumption DEF ChannelIsFast, TypeOK, IRTypeOK, SenderByMode,
            ReceiverByMode, SendIsYoung, ChannelIsOurs, Elapsed
<1>1. CASE LoopStep
  BY <1>1 DEF LoopStep, Update, setup, LoopStart, UpdateTransmit, UpdateReceive,
         ProcessCandidate, Rearm
<1>2. CASE PageStep
  BY <1>2 DEF PageStep, DispatchSending, DispatchLearning, DispatchResult, DispatchOther
<1>3. CASE KeyStep
  BY <1>3 DEF KeyStep, NoEvent, ShortB, AOnHome, AOnMenu, AOnLearning, AOnConfirm, AOnResult,
         AOnSending, MenuTimeout
<1>4. CASE SendStep
  BY <1>4 DEF SendStep, request_send_slot, Prepare, Raise, Transmit, TransmitFails
<1>5. CASE Surroundings
  BY <1>5 DEF Surroundings, Interrupt, Tick, OnReceive, OnTransmit
<1>6. CASE UNCHANGED vars
  BY <1>6 DEF vars
<1>7. QED
  BY <1>1, <1>2, <1>3, <1>4, <1>5, <1>6, NextCases

\* Nobody fills the buffer while the channel reads it: prepare runs on an idle channel.
LEMMA BufferStep ==
  ASSUME ChannelIsFast, TypeOK, ReceiverByMode, SenderByMode,
         SendIsYoung, ChannelIsOurs, TransmitBufferStable, [Next]_vars
  PROVE  TransmitBufferStable'
<1> USE DEF TypeOK, IRTypeOK, SenderByMode, ReceiverByMode, ChannelIsOurs, TransmitBufferStable
<1>1. CASE LoopStep
  BY <1>1 DEF LoopStep, Update, setup, LoopStart, UpdateTransmit, UpdateReceive,
         ProcessCandidate, Rearm
<1>2. CASE PageStep
  BY <1>2 DEF PageStep, DispatchSending, DispatchLearning, DispatchResult, DispatchOther
<1>3. CASE KeyStep
  BY <1>3 DEF KeyStep, NoEvent, ShortB, AOnHome, AOnMenu, AOnLearning, AOnConfirm, AOnResult,
         AOnSending, MenuTimeout
<1>4. CASE SendStep
  BY <1>4 DEF SendStep, request_send_slot, Prepare, Raise, Transmit, TransmitFails
<1>5. CASE Surroundings
  BY <1>5 DEF Surroundings, Interrupt, Tick, OnReceive, OnTransmit
<1>6. CASE UNCHANGED vars
  BY <1>6 DEF vars
<1>7. QED
  BY <1>1, <1>2, <1>3, <1>4, <1>5, <1>6, NextCases

\* The page turns to "Sent" only for a completed send whose frame is out.
LEMMA SentStep ==
  ASSUME ChannelIsFast, TypeOK, ReceiverByMode, SenderByMode,
         SendIsYoung, ChannelIsOurs, SentMeansDelivered, [Next]_vars
  PROVE  SentMeansDelivered'
<1> USE DEF TypeOK, IRTypeOK, SenderByMode, ReceiverByMode, ChannelIsOurs, SentMeansDelivered
<1>1. CASE LoopStep
  BY <1>1 DEF LoopStep, Update, setup, LoopStart, UpdateTransmit, UpdateReceive,
         ProcessCandidate, Rearm
<1>2. CASE PageStep
  BY <1>2 DEF PageStep, DispatchSending, DispatchLearning, DispatchResult, DispatchOther
<1>3. CASE KeyStep
  BY <1>3 DEF KeyStep, NoEvent, ShortB, AOnHome, AOnMenu, AOnLearning, AOnConfirm, AOnResult,
         AOnSending, MenuTimeout
<1>4. CASE SendStep
  BY <1>4 DEF SendStep, request_send_slot, Prepare, Raise, Transmit, TransmitFails
<1>5. CASE Surroundings
  BY <1>5 DEF Surroundings, Interrupt, Tick, OnReceive, OnTransmit
<1>6. CASE UNCHANGED vars
  BY <1>6 DEF vars
<1>7. QED
  BY <1>1, <1>2, <1>3, <1>4, <1>5, <1>6, NextCases

\* The first state satisfies the channel's invariant.
LEMMA ChannelInit == Init => ChannelInv
<1> SUFFICES ASSUME Init PROVE ChannelInv
  OBVIOUS
<1>1. /\ pc = "setup" /\ state_ = "HOME" /\ ~tx.busy
      /\ ~transmit_done_ /\ ~sending_ /\ ~send_complete_
  BY DEF Init, IRInit
<1>2. QED
  BY <1>1 DEF ChannelInv, SendIsYoung, ChannelIsOurs, TransmitBufferStable, SentMeansDelivered

\* Every step keeps it, if the channel is fast.
LEMMA ChannelInvStep ==
  ASSUME ChannelIsFast
  PROVE  ControllerInv /\ ChannelInv /\ [Next]_vars => ChannelInv'
<1> SUFFICES ASSUME ControllerInv, ChannelInv, [Next]_vars PROVE ChannelInv'
  OBVIOUS
<1>1. TypeOK /\ ReceiverByMode /\ SenderByMode
  BY DEF ControllerInv
<1>2. SendIsYoung /\ ChannelIsOurs /\ TransmitBufferStable /\ SentMeansDelivered
  BY DEF ChannelInv
<1>3. SendIsYoung' /\ ChannelIsOurs' /\ TransmitBufferStable' /\ SentMeansDelivered'
  BY <1>1, <1>2, YoungStep, OursStep, BufferStep, SentStep
<1>4. QED
  BY <1>3 DEF ChannelInv

\* With a channel that finishes before a send times out, the channel is only ever busy
\* with the send the controller waits for.
THEOREM ChannelInvariant == ASSUME ChannelIsFast PROVE Spec => []ChannelInv
<1>1. ControllerInv /\ ChannelInv /\ [Next]_vars => ChannelInv'
  BY ChannelInvStep
<1>2. QED
  BY <1>1, ChannelInit, ControllerInvariant, PTL DEF Spec

\* The buffer that a transmission reads is not filled for another frame.
THEOREM TransmitBufferIsStable == ASSUME ChannelIsFast PROVE Spec => []TransmitBufferStable
<1>1. ChannelInv => TransmitBufferStable
  BY DEF ChannelInv
<1>2. QED
  BY <1>1, ChannelInvariant, PTL

\* The page says "Sent" only of a frame that is out.
THEOREM SentIsDelivered == ASSUME ChannelIsFast PROVE Spec => []SentMeansDelivered
<1>1. ChannelInv => SentMeansDelivered
  BY DEF ChannelInv
<1>2. QED
  BY <1>1, ChannelInvariant, PTL
=============================================================================
