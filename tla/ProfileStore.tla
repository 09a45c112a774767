---------------------------- MODULE ProfileStore ----------------------------
(***************************************************************************)
(* What the profile storage promises its user, without copies, generations *)
(* or an NVS driver.  Every slot shows one profile while the device runs,  *)
(* and `restart' is the set of profiles a power loss at this moment could  *)
(* bring back.  An attempted save widens that set, a settled write narrows *)
(* it, and a save is acknowledged only once a restart can bring back       *)
(* nothing else.  A boot shows what every restart would show, except in a  *)
(* slot in which it found nothing at all: that one it fills (`filling').   *)
(* The profile the slot shows changes in no other way.                     *)
(***************************************************************************)
CONSTANTS Slots,     \* the remote's buttons: Cool, Heat, Off
          AllProfiles,
          None       \* nothing readable

VARIABLES shown,     \* the profile the running device shows in each slot
          restart,   \* the profiles a power loss now could bring back
          filling    \* slots this boot found empty and has not filled yet

vars == <<shown, restart, filling>>

TypeOK == /\ shown \in [Slots -> AllProfiles \cup {None}]
          /\ restart \in [Slots -> (SUBSET (AllProfiles \cup {None})) \ {{}}]
          /\ filling \in SUBSET Slots

Init == /\ shown = [s \in Slots |-> None]
        /\ restart = [s \in Slots |-> {None}]
        /\ filling = {}

\* A write has started: from now on a restart may show the new profile, the
\* one shown now, or whatever an earlier attempt left behind.  It may fail at
\* once, and a boot may then give up filling the slot.
Attempt(s, p) ==
  /\ restart' = [restart EXCEPT ![s] = @ \cup {p, shown[s]}]
  /\ filling' \in {filling, filling \ {s}}
  /\ UNCHANGED shown

\* Pending writes reach the flash, each slot keeping one outcome or several.
Settle ==
  /\ restart' \in [Slots -> (SUBSET (AllProfiles \cup {None})) \ {{}}]
  /\ \A s \in Slots : restart'[s] \subseteq restart[s]
  /\ UNCHANGED <<shown, filling>>

\* A save, or a boot that found a record, shows what every restart will show.
Acknowledge(s) ==
  /\ s \notin filling
  /\ \E p \in AllProfiles : /\ restart[s] = {p}
                            /\ shown' = [shown EXCEPT ![s] = p]
  /\ UNCHANGED <<restart, filling>>

\* A boot finds that a slot has nothing readable, and nothing that a restart
\* could find either.
FindEmpty(s) ==
  /\ shown[s] = None
  /\ restart[s] = {None}
  /\ filling' = filling \cup {s}
  /\ UNCHANGED <<shown, restart>>

\* The boot has filled an empty slot.  It shows what it wrote last, which is not
\* what a restart shows if a first, given up attempt has reached the flash too.
Install(s) ==
  /\ s \in filling
  /\ \E p \in AllProfiles : shown' = [shown EXCEPT ![s] = p]
  /\ filling' = filling \ {s}
  /\ UNCHANGED restart

\* The boot gives up filling the slot.
GiveUp(s) ==
  /\ s \in filling
  /\ filling' = filling \ {s}
  /\ UNCHANGED <<shown, restart>>

\* What an abandoned attempt has left behind is gone.
Drop(s) ==
  /\ shown[s] # None
  /\ restart' = [restart EXCEPT ![s] = {shown[s]}]
  /\ UNCHANGED <<shown, filling>>

PowerLoss ==
  /\ \E f \in [Slots -> AllProfiles \cup {None}] :
       /\ \A s \in Slots : f[s] \in restart[s]
       /\ restart' = [s \in Slots |-> {f[s]}]
  /\ shown' = [s \in Slots |-> None]
  /\ filling' = {}

Next == \/ \E s \in Slots : \/ \E p \in AllProfiles : Attempt(s, p)
                            \/ Acknowledge(s)
                            \/ FindEmpty(s)
                            \/ Install(s)
                            \/ GiveUp(s)
                            \/ Drop(s)
        \/ Settle
        \/ PowerLoss

Spec == Init /\ [][Next]_vars
=============================================================================
