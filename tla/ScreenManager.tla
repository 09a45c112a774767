---------------------------- MODULE ScreenManager ----------------------------
(***************************************************************************)
(* screen_manager.cpp: drawing the pages, and leaving out what is drawn    *)
(* already.  Some pages remember the arguments they were drawn with, and   *)
(* are not drawn again while they are up and the arguments are the same.   *)
(* The code keeps these arguments after another page has been drawn, but   *)
(* reads them only while the page they belong to is up.                    *)
(*                                                                         *)
(* A picture is what the user has to tell apart: the page, the slot, the   *)
(* choice marked and the title of a result.  Left out are the battery, the *)
(* network lights and the slots' READY marks of the home page, and the     *)
(* countdown and the counters of the learning page: values that are only   *)
(* displayed.                                                              *)
(***************************************************************************)

VARIABLES
  view_,     \* the page drawn last, "NONE" at first
  drawn_,    \* the arguments it remembers
  display    \* external: the picture on the display

screenVars == <<view_, drawn_, display>>

Picture(page, slot, choice, title) ==
  [page |-> page, slot |-> slot, choice |-> choice, title |-> title]
Blank == Picture("NONE", 0, 0, "")

ScreenInit == view_ = "NONE" /\ drawn_ = <<>> /\ display = Blank

\* begin_page_() and what is drawn on it.
Draw(picture, arguments) ==
  /\ view_' = picture.page
  /\ drawn_' = arguments
  /\ display' = picture

DrawUnlessDrawn(picture, arguments) ==
  IF view_ = picture.page /\ drawn_ = arguments
  THEN UNCHANGED screenVars
  ELSE Draw(picture, arguments)

render_home(slot) == DrawUnlessDrawn(Picture("HOME", slot, 0, ""), <<slot>>)

render_action_menu(slot, action) ==
  DrawUnlessDrawn(Picture("ACTION_MENU", slot, action, ""), <<slot, action>>)

\* While the page is up for this slot, only the countdown and the counters are
\* drawn again.
render_learning(slot) == DrawUnlessDrawn(Picture("LEARNING", slot, 0, ""), <<slot>>)

render_save_confirm(slot, choice) == Draw(Picture("SAVE_CONFIRM", slot, choice, ""), <<>>)

render_sending(slot) == Draw(Picture("SENDING", slot, 0, ""), <<>>)

\* Variant: the page drawn before still counts as the one that is up.
render_result_KeepsView(title) ==
  /\ display' = Picture("RESULT", 0, 0, title)
  /\ UNCHANGED <<view_, drawn_>>

render_result(title) == Draw(Picture("RESULT", 0, 0, title), <<>>)

-----------------------------------------------------------------------------
\* The remembered arguments are those of the picture that is up: to leave out a
\* drawing of the same page with the same arguments changes nothing to be seen.
DrawnIsDisplayed ==
  /\ view_ = display.page
  /\ view_ \in {"HOME", "LEARNING"} => display = Picture(view_, drawn_[1], 0, "")
  /\ view_ = "ACTION_MENU" => display = Picture(view_, drawn_[1], drawn_[2], "")
=============================================================================
