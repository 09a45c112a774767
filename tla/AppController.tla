---------------------------- MODULE AppController ----------------------------
(***************************************************************************)
(* app_controller.cpp over the infrared and the screen manager: the pages  *)
(* of the device, its main loop, the buttons, the requests of Home         *)
(* Assistant and time.                                                     *)
(*                                                                         *)
(* The main task runs loop() step by step; between two of its steps an     *)
(* interrupt may arrive and the clock may advance.  Time is relative: `age'*)
(* is the clock minus state_entered_at_, `lag' the clock minus the value   *)
(* of millis() that the current loop() read at its start.                  *)
(*                                                                         *)
(* External here: the storage, which keeps one profile per slot, may refuse*)
(* a save and may fail a load; the amplifier check before learning; the    *)
(* buttons, which turn a press and its release into one event.             *)
(***************************************************************************)
EXTENDS IRManager, ScreenManager, FiniteSetsExt

CONSTANTS SlotCount,
          LEARNING_TIMEOUT, SENDING_TIMEOUT, SENT_AUTO_RETURN, MENU_TIMEOUT,
          MaxLag    \* bound: ticks that may pass within one loop()

Slots == 0 .. SlotCount - 1
Limits == {LEARNING_TIMEOUT, SENDING_TIMEOUT, SENT_AUTO_RETURN, MENU_TIMEOUT}
\* Beyond this age every limit has passed, whatever the lag.
AgeCap == Max(Limits) + MaxLag

ASSUME SlotAssumption == SlotCount \in Nat \ {0}
ASSUME TimeAssumption == Limits \subseteq Nat \ {0} /\ MaxLag \in Nat

\* NOTICE, a reserved page, is left out: nothing enters it.
Pages == {"HOME", "ACTION_MENU", "LEARNING", "SAVE_CONFIRM", "SENDING", "RESULT"}
\* Every result that is neither "Sent" nor "Saved" is an error of some kind.
Titles == {"", "Sent", "Saved", "Error"}

VARIABLES
  state_, selected_slot_, selected_action_, confirm_choice_,
  result_title_, result_auto_return_,
  pending_profile_,   \* the long profile shared by learning and sending
  stored,             \* the storage: slot -> profile
  age, lag,
  held,               \* the A button is down and its press may still be short
  ret,                \* where the main task goes on after a send
  learnSlot           \* history: the slot chosen when learning started

stateVars == <<state_, result_auto_return_, age, screenVars>>
pageVars == <<stateVars, result_title_>>
choiceVars == <<selected_slot_, selected_action_, confirm_choice_>>
userVars == <<choiceVars, held, learnSlot>>
appVars == <<pageVars, userVars, pending_profile_, stored, lag, ret>>
vars == <<pc, irVars, appVars>>

TypeOK ==
  /\ IRTypeOK
  /\ pc \in {"setup", "failed", "idle", "update_tx", "update_rx", "process", "rearm", "dispatch",
             "buttons", "menu", "prepare", "raise", "transmit"}
  /\ state_ \in Pages
  /\ selected_slot_ \in Slots
  /\ selected_action_ \in 0 .. 2
  /\ confirm_choice_ \in 0 .. 2
  /\ result_title_ \in Titles
  /\ result_auto_return_ \in BOOLEAN
  /\ pending_profile_ \in Profiles \cup {None}
  /\ stored \in [Slots -> Profiles]
  /\ age \in 0 .. AgeCap
  /\ lag \in 0 .. MaxLag
  /\ held \in BOOLEAN
  /\ ret \in {"idle", "menu"}
  /\ learnSlot \in Slots

Init ==
  /\ IRInit
  /\ ScreenInit
  /\ pc = "setup"
  /\ state_ = "HOME"
  /\ selected_slot_ = 0
  /\ selected_action_ = 0
  /\ confirm_choice_ = 0
  /\ result_title_ = ""
  /\ result_auto_return_ = FALSE
  /\ pending_profile_ = None
  /\ stored = [s \in Slots |-> Factory]
  /\ age = 0
  /\ lag = 0
  /\ held = FALSE
  /\ ret = "idle"
  /\ learnSlot = 0

-----------------------------------------------------------------------------
\* `now - state_entered_at_ >= limit' in uint32_t: when the page was entered
\* after `now' was read, the difference wraps and exceeds every limit.
Elapsed(limit) == age < lag \/ age - lag >= limit

\* The age of a page entered at the loop's `now', and at a fresh millis().
AtLoopStart == lag
AtThisMoment == 0

\* refresh_screen_(): the picture of the state after this step.
refresh_screen_ ==
  \/ state_' = "HOME" /\ render_home(selected_slot_')
  \/ state_' = "ACTION_MENU" /\ render_action_menu(selected_slot_', selected_action_')
  \/ state_' = "LEARNING" /\ render_learning(selected_slot_')
  \/ state_' = "SAVE_CONFIRM" /\ render_save_confirm(selected_slot_', confirm_choice_')
  \/ state_' = "SENDING" /\ render_sending(selected_slot_')
  \/ state_' = "RESULT" /\ render_result(result_title_')

\* Variant: the automatic return is not cleared by the pages it is not for.
enter_state__KeepsReturn(page, entered) ==
  /\ state_' = page
  /\ age' = entered
  /\ UNCHANGED result_auto_return_
  /\ refresh_screen_

\* Variant: the clock of the page is not started again.
enter_state__KeepsClock(page, entered) ==
  /\ state_' = page
  /\ result_auto_return_' = (page = "RESULT" /\ result_auto_return_)
  /\ refresh_screen_
  /\ UNCHANGED age

\* enter_state_(): the automatic return survives only on the result page.
enter_state_(page, entered) ==
  /\ state_' = page
  /\ age' = entered
  /\ result_auto_return_' = (page = "RESULT" /\ result_auto_return_)
  /\ refresh_screen_

\* A result page that sets result_auto_return_ itself.
show_result(title, auto, entered) ==
  /\ state_' = "RESULT"
  /\ result_title_' = title
  /\ result_auto_return_' = auto
  /\ age' = entered
  /\ refresh_screen_

\* A result page that leaves result_auto_return_ to enter_state_.
show_result_as_is(title, entered) ==
  /\ result_title_' = title
  /\ enter_state_("RESULT", entered)

\* start_learning_(): the amplifier check, then the receiver.
start_learning_(entered) ==
  /\ \/ /\ show_result_as_is("Error", entered)
        /\ UNCHANGED rxVars
     \/ /\ start_learning(FALSE)
        /\ show_result_as_is("Error", entered)
     \/ /\ start_learning(TRUE)
        /\ enter_state_("LEARNING", entered)
        /\ UNCHANGED result_title_
  /\ learnSlot' = selected_slot_
  /\ UNCHANGED pending_profile_

\* send_selected_() up to ir_.send: load the slot into the pending profile.
send_selected_(slot, after) ==
  \/ /\ pending_profile_' \in {pending_profile_, stored[slot]}
     /\ show_result("Error", FALSE, AtThisMoment)
     /\ pc' = after
     /\ UNCHANGED ret
  \/ /\ pending_profile_' = stored[slot]
     /\ enter_state_("SENDING", AtThisMoment)
     /\ pc' = "prepare"
     /\ ret' = after
     /\ UNCHANGED result_title_

-----------------------------------------------------------------------------
\* setup(): the hardware, the profile's memory, the storage and ir_.setup() with
\* its two channels; when one of them fails, loop() and the requests do nothing.
setup ==
  /\ pc = "setup"
  /\ UNCHANGED <<state_, result_auto_return_, result_title_, userVars>>
  /\ \/ pc' = "idle" /\ age' = AtThisMoment /\ refresh_screen_
     \/ pc' = "failed" /\ UNCHANGED <<age, screenVars>>
  /\ UNCHANGED <<irVars, pending_profile_, stored, lag, ret>>

(* loop(), in the order of its statements. *)

LoopStart ==
  /\ pc = "idle"
  /\ lag' = 0
  /\ pc' = "update_tx"
  /\ UNCHANGED <<irVars, pageVars, userVars, pending_profile_, stored, ret>>

\* ir_.update(), one step of it.
Update == /\ UpdateTransmit \/ UpdateReceive \/ ProcessCandidate \/ Rearm
          /\ UNCHANGED appVars

\* Variant: no send timeout.
DispatchSending_NoTimeout ==
  /\ pc = "dispatch" /\ state_ = "SENDING"
  /\ IF send_complete_
     THEN take_send_complete /\ show_result("Sent", TRUE, AtLoopStart)
     ELSE UNCHANGED <<txVars, pageVars>>
  /\ pc' = "buttons"
  /\ UNCHANGED <<rxVars, userVars, pending_profile_, stored, lag, ret>>

DispatchSending ==
  /\ pc = "dispatch" /\ state_ = "SENDING"
  /\ \/ /\ send_complete_
        /\ take_send_complete
        /\ show_result("Sent", TRUE, AtLoopStart)
     \/ /\ ~send_complete_ /\ Elapsed(SENDING_TIMEOUT)
        /\ cancel_send
        /\ show_result("Error", FALSE, AtLoopStart)
     \/ /\ ~send_complete_ /\ ~Elapsed(SENDING_TIMEOUT)
        /\ UNCHANGED <<txVars, pageVars>>
  /\ pc' = "buttons"
  /\ UNCHANGED <<rxVars, userVars, pending_profile_, stored, lag, ret>>

\* Variant: no learning timeout.
DispatchLearning_NoTimeout ==
  /\ pc = "dispatch" /\ state_ = "LEARNING"
  /\ UNCHANGED <<selected_slot_, selected_action_>>
  /\ IF capture_ready_
     THEN /\ take_capture
          /\ pending_profile_' = capture_
          /\ confirm_choice_' = 0
          /\ enter_state_("SAVE_CONFIRM", AtLoopStart)
     ELSE UNCHANGED <<rxVars, stateVars, pending_profile_, confirm_choice_>>
  /\ pc' = "buttons"
  /\ UNCHANGED <<txVars, result_title_, held, learnSlot, stored, lag, ret>>

DispatchLearning ==
  /\ pc = "dispatch" /\ state_ = "LEARNING"
  /\ UNCHANGED <<selected_slot_, selected_action_>>
  /\ \/ /\ capture_ready_
        /\ take_capture
        /\ pending_profile_' = capture_
        /\ confirm_choice_' = 0
        /\ enter_state_("SAVE_CONFIRM", AtLoopStart)
        /\ UNCHANGED result_title_
     \/ /\ ~capture_ready_
        /\ \/ /\ error_
              /\ show_result_as_is("Error", AtLoopStart)
              /\ UNCHANGED rxVars
           \/ /\ ~error_ /\ Elapsed(LEARNING_TIMEOUT)
              /\ cancel_learning
              /\ show_result_as_is("Error", AtLoopStart)
           \/ /\ ~error_ /\ ~Elapsed(LEARNING_TIMEOUT)
              /\ UNCHANGED <<rxVars, pageVars>>
        /\ UNCHANGED <<pending_profile_, confirm_choice_>>
  /\ pc' = "buttons"
  /\ UNCHANGED <<txVars, held, learnSlot, stored, lag, ret>>

DispatchResult ==
  /\ pc = "dispatch" /\ state_ = "RESULT"
  /\ UNCHANGED userVars
  /\ IF result_auto_return_ /\ Elapsed(SENT_AUTO_RETURN)
     THEN enter_state_("HOME", AtLoopStart)
     ELSE UNCHANGED stateVars
  /\ pc' = "buttons"
  /\ UNCHANGED <<irVars, result_title_, pending_profile_, stored, lag, ret>>

DispatchOther ==
  /\ pc = "dispatch" /\ state_ \in {"HOME", "ACTION_MENU", "SAVE_CONFIRM"}
  /\ pc' = "buttons"
  /\ UNCHANGED <<irVars, appVars>>

\* buttons_.update() reports nothing, a press that begins, or a press that
\* turned out long and means nothing.
NoEvent ==
  /\ pc = "buttons"
  /\ \/ UNCHANGED held
     \/ held' = ~held
  /\ pc' = "menu"
  /\ UNCHANGED <<irVars, pageVars, choiceVars, learnSlot, pending_profile_, stored,
                 lag, ret>>

\* Variant: the choice runs off its list.
Following_NoWrap(choice, count) == choice + 1

Following(choice, count) == (choice + 1) % count

\* Event SHORT_B.
ShortB ==
  /\ pc = "buttons"
  /\ \/ /\ state_ = "HOME"
        /\ selected_slot_' = Following(selected_slot_, SlotCount)
        /\ UNCHANGED <<selected_action_, confirm_choice_, age>>
     \/ /\ state_ = "ACTION_MENU"
        /\ selected_action_' = Following(selected_action_, 3)
        /\ age' = AtThisMoment
        /\ UNCHANGED <<selected_slot_, confirm_choice_>>
     \/ /\ state_ = "SAVE_CONFIRM"
        /\ confirm_choice_' = Following(confirm_choice_, 3)
        /\ UNCHANGED <<selected_slot_, selected_action_, age>>
     \/ /\ state_ \in {"LEARNING", "SENDING", "RESULT"}
        /\ UNCHANGED <<choiceVars, age>>
  /\ UNCHANGED <<state_, result_title_, result_auto_return_>>
  /\ refresh_screen_
  /\ pc' = "menu"
  /\ UNCHANGED <<irVars, held, learnSlot, pending_profile_, stored, lag, ret>>

\* Event SHORT_A, page by page; it comes with the release of the button.
ShortA == pc = "buttons" /\ held /\ held' = FALSE

AOnHome ==
  /\ ShortA /\ state_ = "HOME"
  /\ selected_action_' = 0
  /\ UNCHANGED selected_slot_
  /\ enter_state_("ACTION_MENU", AtThisMoment)
  /\ pc' = "menu"
  /\ UNCHANGED <<irVars, result_title_, confirm_choice_, learnSlot, pending_profile_,
                 stored, lag, ret>>

AOnMenu ==
  /\ ShortA /\ state_ = "ACTION_MENU"
  /\ UNCHANGED choiceVars
  /\ \/ /\ selected_action_ = 2
        /\ enter_state_("HOME", AtThisMoment)
        /\ pc' = "menu"
        /\ UNCHANGED <<irVars, result_title_, learnSlot, pending_profile_, ret>>
     \/ /\ selected_action_ = 1
        /\ start_learning_(AtThisMoment)
        /\ pc' = "menu"
        /\ UNCHANGED <<txVars, ret>>
     \/ /\ selected_action_ = 0
        /\ send_selected_(selected_slot_, "menu")
        /\ UNCHANGED <<irVars, learnSlot>>
  /\ UNCHANGED <<stored, lag>>

AOnLearning ==
  /\ ShortA /\ state_ = "LEARNING"
  /\ UNCHANGED choiceVars
  /\ cancel_learning
  /\ enter_state_("HOME", AtThisMoment)
  /\ pc' = "menu"
  /\ UNCHANGED <<txVars, result_title_, learnSlot, pending_profile_, stored, lag, ret>>

AOnConfirm ==
  /\ ShortA /\ state_ = "SAVE_CONFIRM"
  /\ UNCHANGED choiceVars
  /\ \/ /\ confirm_choice_ = 0
        /\ \/ /\ stored' = [stored EXCEPT ![selected_slot_] = pending_profile_]
              /\ show_result_as_is("Saved", AtThisMoment)
           \/ /\ show_result_as_is("Error", AtThisMoment)
              /\ UNCHANGED stored
        /\ UNCHANGED <<rxVars, learnSlot, pending_profile_>>
     \/ /\ confirm_choice_ = 1
        /\ start_learning_(AtThisMoment)
        /\ UNCHANGED stored
     \/ /\ confirm_choice_ = 2
        /\ enter_state_("HOME", AtThisMoment)
        /\ UNCHANGED <<rxVars, result_title_, learnSlot, pending_profile_, stored>>
  /\ pc' = "menu"
  /\ UNCHANGED <<txVars, lag, ret>>

AOnResult ==
  /\ ShortA /\ state_ = "RESULT"
  /\ UNCHANGED choiceVars
  /\ enter_state_("HOME", AtThisMoment)
  /\ pc' = "menu"
  /\ UNCHANGED <<irVars, result_title_, learnSlot, pending_profile_, stored, lag, ret>>

AOnSending ==
  /\ ShortA /\ state_ = "SENDING"
  /\ pc' = "menu"
  /\ UNCHANGED <<irVars, pageVars, choiceVars, learnSlot, pending_profile_, stored,
                 lag, ret>>

\* The menu times out; now and then a page that counts is drawn again.
MenuTimeout ==
  /\ pc = "menu"
  /\ UNCHANGED userVars
  /\ IF state_ = "ACTION_MENU" /\ Elapsed(MENU_TIMEOUT)
     THEN enter_state_("HOME", AtLoopStart)
     ELSE /\ UNCHANGED <<state_, age, result_auto_return_>>
          /\ \/ UNCHANGED screenVars
             \/ state_ \in {"HOME", "LEARNING"} /\ refresh_screen_
  /\ lag' = 0
  /\ pc' = "idle"
  /\ UNCHANGED <<irVars, result_title_, pending_profile_, stored, ret>>

-----------------------------------------------------------------------------
(* Sending, from the menu or for Home Assistant. *)

\* Variant: a save confirmation does not count as busy.
request_send_slot_OverCapture ==
  /\ pc = "idle"
  /\ state_ \notin {"LEARNING", "SENDING"}
  /\ \E slot \in Slots : /\ selected_slot_' = slot
                         /\ send_selected_(slot, "idle")
  /\ selected_action_' = 0
  /\ UNCHANGED <<irVars, confirm_choice_, held, learnSlot, stored, lag>>

\* request_send_slot(), between two loops; refused while the device is busy.
request_send_slot ==
  /\ pc = "idle"
  /\ state_ \notin {"LEARNING", "SAVE_CONFIRM", "SENDING"}
  /\ \E slot \in Slots : /\ selected_slot_' = slot
                         /\ send_selected_(slot, "idle")
  /\ selected_action_' = 0
  /\ UNCHANGED <<irVars, confirm_choice_, held, learnSlot, stored, lag>>

SendError == /\ show_result("Error", FALSE, AtThisMoment)
             /\ pc' = ret

\* ir_.send() up to the carrier: it may refuse before or after it has filled
\* the transmit buffer.
Prepare ==
  /\ pc = "prepare"
  /\ \/ /\ prepare_tx_symbols_(pending_profile_)
        /\ \/ pc' = "raise" /\ UNCHANGED pageVars
           \/ SendError
     \/ SendError /\ UNCHANGED txVars
  /\ UNCHANGED <<rxVars, userVars, pending_profile_, stored, lag, ret>>

Raise ==
  /\ pc = "raise"
  /\ raise_sending
  /\ pc' = "transmit"
  /\ UNCHANGED <<rxVars, appVars>>

Transmit ==
  /\ pc = "transmit"
  /\ transmit
  /\ pc' = ret
  /\ UNCHANGED <<rxVars, appVars>>

TransmitFails ==
  /\ pc = "transmit"
  /\ transmit_fails
  /\ SendError
  /\ UNCHANGED <<rxVars, userVars, pending_profile_, stored, lag, ret>>

-----------------------------------------------------------------------------
\* The clock advances, at most MaxLag times within one loop().
Tick ==
  /\ pc \in {"idle", "failed"} \/ lag < MaxLag
  /\ age' = IF age < AgeCap THEN age + 1 ELSE age
  /\ lag' = IF pc \in {"idle", "failed"} THEN lag ELSE lag + 1
  /\ ChannelTick
  /\ UNCHANGED <<pc, rxVars, state_, result_title_, result_auto_return_, screenVars, userVars,
                 pending_profile_, stored, ret>>

Interrupt == (OnReceive \/ OnTransmit) /\ UNCHANGED appVars

\* What the main task does by itself, a loop() after the other.
Main ==
  \/ setup \/ LoopStart \/ Update
  \/ DispatchSending \/ DispatchLearning \/ DispatchResult \/ DispatchOther
  \/ NoEvent \/ ShortB
  \/ AOnHome \/ AOnMenu \/ AOnLearning \/ AOnConfirm \/ AOnResult \/ AOnSending
  \/ MenuTimeout
  \/ Prepare \/ Raise \/ Transmit

Next == Main \/ request_send_slot \/ TransmitFails \/ Tick \/ Interrupt

Spec == Init /\ [][Next]_vars

\* The scheduler runs loop() forever and the clock does not stop.  Nothing is
\* assumed of the buttons, the channels' interrupts or Home Assistant.
FairSpec == Spec /\ WF_vars(Main) /\ WF_vars(Tick)

-----------------------------------------------------------------------------
\* Between two steps of loop() the page and the infrared manager agree on what
\* is going on, and no receiver is left armed behind another page.
ModesAgree ==
  pc \in {"idle", "buttons", "menu"} =>
    /\ learning_ <=> state_ = "LEARNING"
    /\ sending_ <=> state_ = "SENDING"
    /\ rx = "armed" => learning_
    /\ ~capture_ready_ /\ ~send_complete_

\* A slot only ever changes to a frame that was received since learning was
\* started for that very slot: no capture of an earlier session, cancelled or
\* timed out, and no slot that Home Assistant selected meanwhile.
SavesWhatWasLearned ==
  [][\A s \in Slots : stored'[s] # stored[s] =>
       s = learnSlot /\ stored'[s] \in heard]_vars

\* "Overwriting it with a stored slot would silently destroy an unsaved capture"
\* (app_controller.cpp:270): nobody does while the user is asked about it.
CaptureIsKept ==
  [][pending_profile_' # pending_profile_ => state_ # "SAVE_CONFIRM"]_vars

\* While a received signal is decoded, the channel does not write the buffer.
ReceiveBufferQuiet == pc = "process" => rx = "idle"

CurrentPicture ==
  Picture(state_,
          IF state_ = "RESULT" THEN 0 ELSE selected_slot_,
          CASE state_ = "ACTION_MENU" -> selected_action_
            [] state_ = "SAVE_CONFIRM" -> confirm_choice_
            [] state_ \notin {"ACTION_MENU", "SAVE_CONFIRM"} -> 0,
          IF state_ = "RESULT" THEN result_title_ ELSE "")

\* The display shows the page the keys are for, with the slot and the choice they
\* act on: no page is left out of a refresh or skipped as drawn already when it is
\* not (ScreenManager's remembered arguments).
ScreenIsCurrent ==
  display = IF pc \in {"setup", "failed"} THEN Blank ELSE CurrentPicture

\* Whether a page leaves by itself is what it says: a result page shows "RETURNING"
\* when its title is "Sent", and "A  BACK" otherwise (screen_manager.cpp:286).
ReturnsAsItSays ==
  result_auto_return_ <=> display.page = "RESULT" /\ display.title = "Sent"

\* "An active transmission must also finish before the shared TX buffer can be
\* reused" (app_controller.cpp:271): the channel never reads a buffer that was
\* filled for another frame.
TransmitBufferStable == tx.busy => tx_symbols_ = tx.frame

\* The page says "Sent" only when the frame it is about is out.
SentMeansDelivered == state_ = "RESULT" /\ result_title_ = "Sent" => delivered

\* Learning always comes to an end: a capture, an error, the user or the limit.
LearningEnds == state_ = "LEARNING" ~> state_ # "LEARNING"

\* A transmission the channel never finishes does not hold the page.
SendTimesOut ==
  (state_ = "SENDING" /\ sending_ /\ pc # "transmit") ~> state_ # "SENDING"

\* The loop stops only in a transmission on a channel that hangs, where the driver
\* waits for the one before (ir_manager.cpp:543).
LoopRunsOn == []<>(pc \in {"idle", "failed"}) \/ <>[](pc = "transmit" /\ tx.busy)

\* The menu closes by itself only after its limit without a key
\* (docs/device-test.zh-CN.md:40).
MenuClosesOnlyAfterIdle ==
  [][pc = "menu" /\ state_ = "ACTION_MENU" /\ state_' = "HOME"
       => age >= MENU_TIMEOUT]_vars

-----------------------------------------------------------------------------
(* Why these properties hold: the parts of the inductive invariants.        *)

\* Learning goes on exactly while its page is up, from the step that arms the
\* receiver to the step of loop() that takes the capture or the error.
ReceiverByMode ==
  /\ rx = "armed" => learning_
  /\ receive_done_ => rx = "idle"
  /\ learning_ => state_ = "LEARNING" /\ ~error_ /\ ~capture_ready_
  /\ capture_ready_ => state_ = "LEARNING" /\ pc = "dispatch"
  /\ state_ = "LEARNING" => learning_ \/ (pc = "dispatch" /\ (capture_ready_ \/ error_))
  /\ pc \in {"process", "rearm"} => learning_ /\ rx = "idle" /\ ~receive_done_
  /\ pc \in {"setup", "failed"} => state_ = "HOME"

\* The sending page is up from the load of the profile to the step of loop() that
\* takes the completion or gives up.
SenderByMode ==
  /\ sending_ => state_ = "SENDING" /\ ~send_complete_ /\ pc \notin {"prepare", "raise"}
  /\ send_complete_ => state_ = "SENDING" /\ pc \in {"update_rx", "dispatch"}
  /\ state_ = "SENDING" => sending_ \/ send_complete_ \/ pc \in {"prepare", "raise"}
  /\ pc \in {"prepare", "raise"} => state_ = "SENDING" /\ ~send_complete_
  /\ pc = "transmit" => sending_

\* An automatic return is set by the result "Sent" and by nothing else.
ReturnOnlyAfterSent ==
  result_auto_return_ <=> state_ = "RESULT" /\ result_title_ = "Sent"

\* What may become the capture, and then what is asked about, was heard since
\* learning was started for the selected slot.
CaptureWasHeard ==
  /\ state_ \in {"LEARNING", "SAVE_CONFIRM"} => learnSlot = selected_slot_
  /\ (receive_done_ \/ pc = "process") /\ rx_symbols_ \in Frames => rx_symbols_ \in heard
  /\ capture_ready_ => capture_ \in heard
  /\ state_ = "SAVE_CONFIRM" => pending_profile_ \in heard

\* The inductive invariant behind the properties of pages, captures and screen.
ControllerInv ==
  /\ TypeOK
  /\ ReceiverByMode
  /\ SenderByMode
  /\ ReturnOnlyAfterSent
  /\ CaptureWasHeard
  /\ DrawnIsDisplayed
  /\ ScreenIsCurrent

\* The channel finishes a frame before a send that started with it times out, even
\* when the loop is late: 2 s at most against 3 s (MAX_FRAME_DURATION_US and
\* SENDING_TIMEOUT_MS).
ChannelIsFast == ~TxMayHang /\ TxMax + MaxLag < SENDING_TIMEOUT

\* How late the clock may be: a page is entered before the `now' that the steps up
\* to the page's own part compare it with, and a send is `age' old at most.
SendIsYoung ==
  /\ pc \in {"update_tx", "update_rx", "process", "rearm", "dispatch"} => lag <= age
  /\ pc \in {"prepare", "raise", "transmit"} => age <= lag
  /\ tx.busy => age <= tx.age + MaxLag

\* With a channel that is fast, the channel is busy only for the send the flags are
\* about, and "done" is only ever said of that send.
ChannelIsOurs ==
  /\ tx.busy => sending_ /\ pc # "transmit" /\ ~transmit_done_ /\ ~delivered
  /\ pc = "transmit" => ~transmit_done_
  /\ sending_ /\ transmit_done_ => delivered
  /\ send_complete_ => delivered

\* The inductive invariant behind TransmitBufferStable and SentMeansDelivered.
ChannelInv ==
  /\ SendIsYoung
  /\ ChannelIsOurs
  /\ TransmitBufferStable
  /\ SentMeansDelivered
=============================================================================
