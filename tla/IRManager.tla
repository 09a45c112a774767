------------------------------ MODULE IRManager ------------------------------
(***************************************************************************)
(* ir_manager.cpp: the learner and the sender around the two RMT channels. *)
(*                                                                         *)
(* Two actors share this state: the main task, which calls the operations  *)
(* below, and the interrupt of a channel that finished, which may come     *)
(* between any two of their steps.  The RMT driver is external: a receive  *)
(* is one-shot, so the receive buffer may change only while the channel is *)
(* armed; a transmission reads the transmit buffer until it is done.       *)
(*                                                                         *)
(* A received signal is a member of Frames, which decodes as a Mitsubishi  *)
(* frame, or "rejected": it is empty, too short, of a wrong duration, or   *)
(* the decoder refuses it.  Counters that are only displayed are left out. *)
(***************************************************************************)
EXTENDS Naturals

CONSTANTS Frames,     \* signals that decode
          Factory,    \* the profile every slot starts with
          None,
          TxMax,      \* ticks a healthy channel needs at most for a frame
          TxMayHang   \* whether the channel may also never finish

Rejects == {"rejected"}
Profiles == Frames \cup {Factory}

ASSUME FramesAssumption == /\ Factory \notin Frames
                           /\ None \notin Profiles \cup Rejects
                           /\ Rejects \cap Profiles = {}
ASSUME TxAssumption == TxMax \in Nat \ {0} /\ TxMayHang \in BOOLEAN

VARIABLES
  pc,             \* where the main task is
  rx,             \* RX channel: "idle" or "armed"
  rx_symbols_,    \* what the last receive left in the buffer
  receive_done_, learning_, capture_ready_, error_, capture_,
  heard,          \* history: frames received since learning started
  tx,             \* TX channel: busy, the frame it sends, for how long so far
  tx_symbols_, transmit_done_, sending_, send_complete_,
  delivered       \* history: the last frame handed to the channel is out

rxVars == <<rx, rx_symbols_, receive_done_, learning_, capture_ready_, error_,
            capture_, heard>>
txVars == <<tx, tx_symbols_, transmit_done_, sending_, send_complete_, delivered>>
irVars == <<rxVars, txVars>>

IRTypeOK ==
  /\ rx \in {"idle", "armed"}
  /\ rx_symbols_ \in Frames \cup Rejects \cup {None}
  /\ receive_done_ \in BOOLEAN
  /\ learning_ \in BOOLEAN
  /\ capture_ready_ \in BOOLEAN
  /\ error_ \in BOOLEAN
  /\ capture_ \in Frames \cup {None}
  /\ heard \in SUBSET Frames
  /\ tx \in [busy : BOOLEAN, frame : Profiles \cup {None}, age : 0 .. TxMax]
  /\ tx_symbols_ \in Profiles \cup {None}
  /\ transmit_done_ \in BOOLEAN
  /\ sending_ \in BOOLEAN
  /\ send_complete_ \in BOOLEAN
  /\ delivered \in BOOLEAN

IRInit ==
  /\ rx = "idle"
  /\ rx_symbols_ = None
  /\ receive_done_ = FALSE
  /\ learning_ = FALSE
  /\ capture_ready_ = FALSE
  /\ error_ = FALSE
  /\ capture_ = None
  /\ heard = {}
  /\ tx = [busy |-> FALSE, frame |-> None, age |-> 0]
  /\ tx_symbols_ = None
  /\ transmit_done_ = FALSE
  /\ sending_ = FALSE
  /\ send_complete_ = FALSE
  /\ delivered = FALSE

-----------------------------------------------------------------------------
(* Learning. *)

\* rmt_receive: refused while the channel is armed, and it may fail anyway.
arm_(ok) ==
  /\ ok => rx = "idle"
  /\ rx' = IF ok THEN "armed" ELSE rx

\* Variant: a receive that was done before is not forgotten.
start_learning_KeepsDone(ok) ==
  /\ arm_(ok)
  /\ capture_ready_' = FALSE
  /\ error_' = ~ok
  /\ learning_' = ok
  /\ heard' = {}
  /\ UNCHANGED <<rx_symbols_, receive_done_, capture_>>

\* start_learning(); ok is what it returns.
start_learning(ok) ==
  /\ arm_(ok)
  /\ capture_ready_' = FALSE
  /\ error_' = ~ok
  /\ receive_done_' = FALSE
  /\ learning_' = ok
  /\ heard' = {}
  /\ UNCHANGED <<rx_symbols_, capture_>>

\* Variant: the channel is not stopped.
cancel_learning_LeavesArmed ==
  /\ learning_' = FALSE
  /\ capture_ready_' = FALSE
  /\ UNCHANGED <<rx, rx_symbols_, receive_done_, error_, capture_, heard>>

\* cancel_learning(): rmt_disable and rmt_enable stop a receive in progress.
cancel_learning ==
  /\ learning_' = FALSE
  /\ capture_ready_' = FALSE
  /\ rx' = "idle"
  /\ UNCHANGED <<rx_symbols_, receive_done_, error_, capture_, heard>>

\* take_capture(), which the caller calls only when has_capture().
take_capture ==
  /\ capture_ready_' = FALSE
  /\ UNCHANGED <<rx, rx_symbols_, receive_done_, learning_, error_, capture_, heard>>

\* Interrupt on_receive: the armed channel saw the end of a signal.
OnReceive ==
  /\ rx = "armed"
  /\ \E signal \in Frames \cup Rejects :
       /\ rx_symbols_' = signal
       /\ heard' = heard \cup ({signal} \cap Frames)
  /\ rx' = "idle"
  /\ receive_done_' = TRUE
  /\ UNCHANGED <<pc, learning_, capture_ready_, error_, capture_, txVars>>

\* Variant: the channel is armed again before the buffer is decoded.
UpdateReceive_ArmFirst ==
  /\ pc = "update_rx"
  /\ IF learning_ /\ receive_done_
     THEN /\ receive_done_' = FALSE
          /\ rx' = "armed"
          /\ pc' = "process"
     ELSE pc' = "dispatch" /\ UNCHANGED <<receive_done_, rx>>
  /\ UNCHANGED <<rx_symbols_, learning_, capture_ready_, error_, capture_, heard, txVars>>

\* update(), second part: is there a received signal to decode?
UpdateReceive ==
  /\ pc = "update_rx"
  /\ IF learning_ /\ receive_done_
     THEN receive_done_' = FALSE /\ pc' = "process"
     ELSE pc' = "dispatch" /\ UNCHANGED receive_done_
  /\ UNCHANGED <<rx, rx_symbols_, learning_, capture_ready_, error_, capture_, heard, txVars>>

\* process_candidate_(), finalize_capture_() and what update() makes of it.
ProcessCandidate ==
  /\ pc = "process"
  /\ IF rx_symbols_ \in Frames
     THEN /\ capture_' = rx_symbols_
          /\ learning_' = FALSE
          /\ capture_ready_' = TRUE
          /\ pc' = "dispatch"
     ELSE /\ pc' = "rearm"
          /\ UNCHANGED <<capture_, learning_, capture_ready_>>
  /\ UNCHANGED <<rx, rx_symbols_, receive_done_, error_, heard, txVars>>

\* update(), last part: a rejected signal leaves learning armed.
Rearm ==
  /\ pc = "rearm"
  /\ \E ok \in BOOLEAN :
       /\ arm_(ok)
       /\ error_' = (error_ \/ ~ok)
       /\ learning_' = ok
  /\ pc' = "dispatch"
  /\ UNCHANGED <<rx_symbols_, receive_done_, capture_ready_, capture_, heard, txVars>>

-----------------------------------------------------------------------------
(* Sending. *)

\* Interrupt on_transmit: the channel has sent its frame.
OnTransmit ==
  /\ tx.busy
  /\ tx' = [busy |-> FALSE, frame |-> None, age |-> 0]
  /\ transmit_done_' = TRUE
  /\ delivered' = TRUE
  /\ UNCHANGED <<pc, tx_symbols_, sending_, send_complete_, rxVars>>

\* Variant: the send counts as complete without the interrupt.
UpdateTransmit_Early ==
  /\ pc = "update_tx"
  /\ IF sending_
     THEN sending_' = FALSE /\ transmit_done_' = FALSE /\ send_complete_' = TRUE
     ELSE UNCHANGED <<sending_, transmit_done_, send_complete_>>
  /\ pc' = "update_rx"
  /\ UNCHANGED <<tx, tx_symbols_, delivered, rxVars>>

\* Variant: the update waits for the channel to finish.
UpdateTransmit_Waits ==
  /\ pc = "update_tx"
  /\ IF sending_
     THEN transmit_done_ /\ sending_' = FALSE /\ transmit_done_' = FALSE /\ send_complete_' = TRUE
     ELSE UNCHANGED <<sending_, transmit_done_, send_complete_>>
  /\ pc' = "update_rx"
  /\ UNCHANGED <<tx, tx_symbols_, delivered, rxVars>>

\* update(), first part.
UpdateTransmit ==
  /\ pc = "update_tx"
  /\ IF sending_ /\ transmit_done_
     THEN sending_' = FALSE /\ transmit_done_' = FALSE /\ send_complete_' = TRUE
     ELSE UNCHANGED <<sending_, transmit_done_, send_complete_>>
  /\ pc' = "update_rx"
  /\ UNCHANGED <<tx, tx_symbols_, delivered, rxVars>>

\* take_send_complete() when there is one to take.
take_send_complete ==
  /\ send_complete_' = FALSE
  /\ UNCHANGED <<tx, tx_symbols_, transmit_done_, sending_, delivered>>

\* cancel_send(): forgets the transmission, which the channel goes on with.
cancel_send ==
  /\ sending_' = FALSE
  /\ send_complete_' = FALSE
  /\ transmit_done_' = FALSE
  /\ UNCHANGED <<tx, tx_symbols_, delivered>>

\* send() up to prepare_tx_symbols_, which fills the buffer.
prepare_tx_symbols_(profile) ==
  /\ ~learning_ /\ ~sending_
  /\ tx_symbols_' = profile
  /\ UNCHANGED <<tx, transmit_done_, sending_, send_complete_, delivered>>

\* send(): the flags are reset before the channel is started.
raise_sending ==
  /\ transmit_done_' = FALSE
  /\ send_complete_' = FALSE
  /\ sending_' = TRUE
  /\ UNCHANGED <<tx, tx_symbols_, delivered>>

\* rmt_transmit returns ESP_OK.  The channel queues one transaction, so a call
\* on a busy channel waits for it.
transmit ==
  /\ ~tx.busy
  /\ tx' = [busy |-> TRUE, frame |-> tx_symbols_, age |-> 0]
  /\ delivered' = FALSE
  /\ UNCHANGED <<tx_symbols_, transmit_done_, sending_, send_complete_>>

\* rmt_transmit fails.
transmit_fails ==
  /\ sending_' = FALSE
  /\ UNCHANGED <<tx, tx_symbols_, transmit_done_, send_complete_, delivered>>

\* Time passes for the channel.
ChannelTick ==
  /\ IF tx.busy /\ ~TxMayHang
     THEN tx.age < TxMax /\ tx' = [tx EXCEPT !.age = @ + 1]
     ELSE UNCHANGED tx
  /\ UNCHANGED <<tx_symbols_, transmit_done_, sending_, send_complete_, delivered>>
=============================================================================
