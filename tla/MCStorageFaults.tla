--------------------------- MODULE MCStorageFaults ---------------------------
(***************************************************************************)
(* StorageManager with silent faults, and two history variables that       *)
(* follow what the user was told: the newest generation acknowledged of a  *)
(* slot, its V1 profile or else its factory profile counting as the first, *)
(* and whether a write was abandoned (it failed, or the power did) that no *)
(* save has made good since, one newer than all that was acknowledged.     *)
(***************************************************************************)
EXTENDS MCStorageManager

VARIABLES acked, abandoned

\* The newer of the V1 copies of slot s, if there is one, and the generation that
\* setup() writes when it finds no record of the slot and every V1 copy loads.
V1Copy(s) == NewestCopy(legacy[key_(s, 0)], legacy[key_(s, 1)])
BootGeneration(s) ==
  IF V1Copy(s) = NoCopy THEN 1 ELSE legacy[key_(s, V1Copy(s))].generation

Finished == /\ pc \in {"verify", "adopt"}
            /\ pc' # "off"
            /\ active_copy' # active_copy

\* The write that ends is newer than all that was acknowledged of its slot.
Newest == Finished /\ op.generation > acked[op.slot]

Dropped == op.kind # "none" /\ op'.kind = "none" /\ ~Finished

Follow ==
  LET s == op.slot IN
  /\ acked' = IF Newest THEN [acked EXCEPT ![s] = op.generation] ELSE acked
  /\ abandoned' = IF Dropped THEN [abandoned EXCEPT ![s] = TRUE]
                  ELSE IF Newest /\ op.kind = "save"
                  THEN [abandoned EXCEPT ![s] = FALSE]
                  ELSE abandoned

FaultInit == /\ Init
             /\ acked = [s \in Slots |-> BootGeneration(s)]
             /\ abandoned = [s \in Slots |-> FALSE]

FaultNext == Next /\ Follow

FaultSpec == FaultInit /\ [][FaultNext]_<<vars, acked, abandoned>>

\* What two copies buy: as long as no write of the slot was abandoned, or a newer save
\* has made it good, a silent fault (a decayed record, a read that fails for once, a
\* record spoilt as it is written) costs one generation at most, and never one that is
\* as old as the V1 profile, which setup() migrates again.  A learned profile falls back
\* to the one before it; after the first save of a seeded slot that is the factory's.
OneFaultLosesOneSave ==
  pc = "idle" =>
    \A s \in Slots :
      \/ abandoned[s]
      \/ /\ generation[s] + faults >= acked[s]
         /\ generation[s] >= BootGeneration(s)

-----------------------------------------------------------------------------
(* Why it holds: the parts of the inductive invariant.                      *)

HistoryTypeOK ==
  /\ acked \in [Slots -> Generations]
  /\ abandoned \in [Slots -> BOOLEAN]

\* A copy of slot s is readable and at least of this generation.
Holds(s, c, g) == /\ stored[key_(s, c)] # Invalid
                  /\ stored[key_(s, c)].generation >= g

IsBlank(s, c) == stored[key_(s, c)] = Invalid

\* What setup() would write costs one generation at most, or nothing.
Restorable(s) == acked[s] <= BootGeneration(s) + 1
Untouched(s) == acked[s] <= BootGeneration(s) /\ \A c \in Copies : IsBlank(s, c)

\* The record in use stays as it was adopted, unless a fault spoils it; a slot that
\* is not in use has none.
ActiveIsKept ==
  \A s \in Slots :
    IF learned[s]
    THEN /\ afterCrash[ActiveKey(s)] = {stored[ActiveKey(s)]}
         /\ stored[ActiveKey(s)] # Invalid => stored[ActiveKey(s)].generation = generation[s]
         /\ stored[ActiveKey(s)] = Invalid => faults > 0
    ELSE active_copy[s] = NoCopy

\* What RAM says of a slot is one generation behind at most.
RamIsRecent ==
  \A s \in Slots : learned[s] /\ ~abandoned[s] => generation[s] + faults >= acked[s]

\* No record is older than what setup() would write, the V1 profile.
NothingOlder ==
  \A s \in Slots :
    /\ acked[s] >= BootGeneration(s)
    /\ ~abandoned[s] =>
         /\ learned[s] => generation[s] >= BootGeneration(s)
         /\ \A c \in Copies : IsBlank(s, c) \/ Holds(s, c, BootGeneration(s))

\* One fault more costs one generation at most: there is a copy to lose, the record
\* before the last one, or setup() would write the slot again.
Recoverable(s) ==
  IF faults = 0
  THEN \/ Untouched(s)
       \/ \E c \in Copies : /\ Holds(s, c, acked[s])
                            /\ \/ Holds(s, 1 - c, acked[s] - 1)
                               \/ IsBlank(s, 1 - c) /\ Restorable(s)
  ELSE \/ \E c \in Copies : Holds(s, c, acked[s] - 1)
       \/ (\A c \in Copies : IsBlank(s, c)) /\ Restorable(s)

BeingWritten(s) == pc \in Writing /\ op.slot = s

FlashIsRecent ==
  \A s \in Slots : ~abandoned[s] /\ ~BeingWritten(s) => Settled(s) /\ Recoverable(s)

\* setup() turns to a slot without a record only when nothing, or one generation, can
\* be lost by writing it, and to the factory profile only without a V1 profile.
BootLosesLittle ==
  pc \in {"migrate", "seed"} /\ ~abandoned[bootSlot] =>
    /\ acked[bootSlot] <= BootGeneration(bootSlot) + faults
    /\ pc = "seed" => BootGeneration(bootSlot) = 1
    /\ faults = 0 => \A c \in Copies : IsBlank(bootSlot, c)

BootWriteLosesLittle ==
  pc \in Writing /\ op.kind # "save" /\ ~abandoned[op.slot] =>
    /\ acked[op.slot] <= op.generation + faults
    /\ op.generation = BootGeneration(op.slot)
    /\ faults = 0 => \A c \in Copies : c # op.generation % 2 => IsBlank(op.slot, c)
    /\ pc # "set" /\ stored[Target(op)] = Invalid => Untouched(op.slot)

\* What nvs_set_blob wrote is there, unless a fault spoilt it.
WriteIsThere ==
  pc \in {"commit", "adopt", "verify"} =>
    \/ stored[Target(op)] = NewRecord(op)
    \/ stored[Target(op)] = Invalid /\ faults > 0

\* Only a migrated record is taken without being read back.
AdoptIsMigration == pc = "adopt" => op.kind = "migrate"

\* The inductive invariant behind OneFaultLosesOneSave.
FaultInv ==
  /\ ParityInv
  /\ BootSettled
  /\ CommitSettles
  /\ BootLeavesLearned
  /\ SaveIsNext
  /\ HistoryTypeOK
  /\ AdoptIsMigration
  /\ ActiveIsKept
  /\ RamIsRecent
  /\ NothingOlder
  /\ FlashIsRecent
  /\ BootLosesLittle
  /\ BootWriteLosesLittle
  /\ WriteIsThere

\* What it speaks of: one silent fault, no slot that is saved 2^32 times, and, where
\* there may be a V1 profile, no fault of the calls that read it: an allocation or a
\* preference load that fails once loses it for good (SeedsOnlyNewOrErased).
OneFault == /\ MaxFaults <= 1
            /\ SaveBound < GenModulus
            /\ LegacyRecords = {} \/ Faults \cap {"alloc", "load"} = {}
=============================================================================
