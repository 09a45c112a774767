--------------------------- MODULE StorageManager ---------------------------
(***************************************************************************)
(* storage_manager.cpp: each slot of the remote keeps its profile in two   *)
(* NVS records, one per parity of the generation number, each with a CRC.  *)
(* A save writes the copy that is not active, commits, reads the record    *)
(* back, and only then makes it the active one.  A boot picks the newer of *)
(* the two readable copies, migrates a V1 profile when there is none, and  *)
(* seeds the factory profile when there is no V1 profile either.           *)
(*                                                                         *)
(* The power can fail between any two calls into NVS.  `stored' is what a  *)
(* read returns now, `afterCrash' the records a restart may find instead:  *)
(* until nvs_commit has returned, the old record, the new one or a torn    *)
(* one.  Payloads are model values; a record that fails any of the checks  *)
(* of read_record_ (missing, magic, version, lengths, CRC) is Invalid.     *)
(***************************************************************************)
EXTENDS Integers, FiniteSets

CONSTANTS SlotCount,      \* number of slots (3 in the code)
          Profiles,       \* profiles a user can learn
          Factory,        \* the slot's compiled-in profile
          Invalid,        \* a record that read_record_ refuses
          LegacyRecords,  \* V1 records the previous firmware may have left
          GenModulus,     \* generations are uint32_t: 2^32 in the code
          SaveBound,      \* bound: no save starts at this generation or later
          Faults,         \* kinds of silent fault that may happen
          MaxFaults       \* bound: how many of them

Slots == 0 .. SlotCount - 1
Copies == {0, 1}
Generations == 0 .. GenModulus - 1
AllProfiles == Profiles \cup {Factory}
Records == [profile : AllProfiles, generation : Generations]
Key == Slots \X Copies
NoCopy == 255
FaultKinds == {"rot", "sparerot", "read", "badwrite", "alloc", "load"}

ASSUME SlotAssumption == SlotCount \in Nat \ {0}
ASSUME FactoryAssumption == Factory \notin Profiles
ASSUME InvalidAssumption == Invalid \notin Records \cup AllProfiles
ASSUME LegacyAssumption ==
  LegacyRecords \subseteq [profile : Profiles, generation : Generations]
ASSUME GenerationAssumption == /\ GenModulus \in Nat \ {0, 1}
                               /\ GenModulus % 2 = 0
                               /\ SaveBound \in Nat
ASSUME FaultAssumption == /\ Faults \subseteq FaultKinds
                          /\ MaxFaults \in Nat

VARIABLES
  stored,       \* NVS: key -> record a read returns now
  afterCrash,   \* NVS: key -> records a restart may find
  legacy,       \* preferences of the V1 firmware: key -> record
  learned, active_copy, generation,   \* RAM of StorageManager, per slot
  pc,           \* where the main task is
  bootSlot,     \* loop variable of setup()
  op,           \* the write in progress
  faults        \* silent faults so far

ram == <<learned, active_copy, generation>>
vars == <<stored, afterCrash, legacy, ram, pc, bootSlot, op, faults>>

NoOp == [kind |-> "none", slot |-> 0, profile |-> Factory, generation |-> 0]
Ops == [kind : {"none", "migrate", "seed", "save"}, slot : Slots,
        profile : AllProfiles, generation : Generations]

key_(s, c) == <<s, c>>
Target(o) == key_(o.slot, o.generation % 2)
ActiveKey(s) == key_(s, active_copy[s])
NewRecord(o) == [profile |-> o.profile, generation |-> o.generation]

Fault(kind) == /\ kind \in Faults
               /\ faults < MaxFaults
               /\ faults' = faults + 1

TypeOK ==
  /\ stored \in [Key -> Records \cup {Invalid}]
  /\ afterCrash \in [Key -> SUBSET (Records \cup {Invalid})]
  /\ legacy \in [Key -> LegacyRecords \cup {Invalid}]
  /\ learned \in [Slots -> BOOLEAN]
  /\ active_copy \in [Slots -> Copies \cup {NoCopy}]
  /\ generation \in [Slots -> Generations]
  /\ pc \in {"off", "scan", "migrate", "seed", "set", "commit", "adopt",
             "verify", "idle", "failed"}
  /\ bootSlot \in Slots
  /\ op \in Ops
  /\ faults \in 0 .. MaxFaults

Init ==
  /\ stored = [k \in Key |-> Invalid]
  /\ afterCrash = [k \in Key |-> {Invalid}]
  /\ legacy \in [Key -> LegacyRecords \cup {Invalid}]
  /\ learned = [s \in Slots |-> FALSE]
  /\ active_copy = [s \in Slots |-> NoCopy]
  /\ generation = [s \in Slots |-> 0]
  /\ pc = "off"
  /\ bootSlot = 0
  /\ op = NoOp
  /\ faults = 0

-----------------------------------------------------------------------------
\* Variant: the older copy wins.
NewestCopy_Older(r0, r1) ==
  IF r0 # Invalid /\ (r1 = Invalid \/ r1.generation > r0.generation) THEN 0
  ELSE IF r1 # Invalid THEN 1 ELSE NoCopy

\* Variant: an unreadable first copy hides the second.
NewestCopy_FirstOnly(r0, r1) ==
  IF r0 = Invalid THEN NoCopy
  ELSE IF r1 # Invalid /\ r1.generation > r0.generation THEN 1 ELSE 0

\* Which of two copies wins: the first readable one, unless the second one is
\* readable and strictly newer.
NewestCopy(r0, r1) ==
  IF r0 # Invalid /\ (r1 = Invalid \/ r1.generation <= r0.generation) THEN 0
  ELSE IF r1 # Invalid THEN 1 ELSE NoCopy

\* Boot moves on to the next slot, or to the running device.
NextSlot ==
  IF bootSlot = SlotCount - 1
  THEN pc' = "idle" /\ UNCHANGED bootSlot
  ELSE pc' = "scan" /\ bootSlot' = bootSlot + 1

\* RAM now says that slot s holds generation g, in copy c.
Adopt(s, c, g) ==
  /\ active_copy' = [active_copy EXCEPT ![s] = c]
  /\ generation' = [generation EXCEPT ![s] = g]
  /\ learned' = [learned EXCEPT ![s] = TRUE]

StartWrite(kind, s, p, g) ==
  /\ op' = [kind |-> kind, slot |-> s, profile |-> p, generation |-> g]
  /\ pc' = "set"

\* uint32_t addition.
Successor(g) == IF g = GenModulus - 1 THEN 0 ELSE g + 1

\* Variant: the generation is not advanced, so a save rewrites the active copy.
next_generation_Same(s) == IF learned[s] THEN generation[s] ELSE 1

\* Variant: the generation skips one, which keeps the parity of the active copy.
next_generation_Skip(s) ==
  IF learned[s] THEN Successor(Successor(generation[s])) ELSE 1

next_generation(s) ==
  IF learned[s] THEN Successor(generation[s]) ELSE 1

\* setup() up to nvs_open: buffers are allocated and the namespace is opened.
Boot ==
  /\ pc = "off"
  /\ pc' \in {"scan", "failed"}
  /\ bootSlot' = 0
  /\ UNCHANGED <<stored, afterCrash, legacy, ram, op, faults>>

\* setup(), one slot: read both copies and keep the newer readable one.  A
\* read that fails for once is taken for a copy that is not there.
Scan ==
  /\ pc = "scan"
  /\ \E lost \in {{}, {0}, {1}} :
       /\ IF lost = {} THEN UNCHANGED faults ELSE Fault("read")
       /\ LET seen(c) == IF c \in lost THEN Invalid
                         ELSE stored[key_(bootSlot, c)]
              winner == NewestCopy(seen(0), seen(1))
          IN IF winner = NoCopy
             THEN pc' = "migrate" /\ UNCHANGED <<ram, bootSlot>>
             ELSE /\ Adopt(bootSlot, winner, seen(winner).generation)
                  /\ NextSlot
  /\ UNCHANGED <<stored, afterCrash, legacy, op>>

\* The V1 copies as migrate_legacy_slot_() sees them: a preference load that fails
\* for once is taken for a copy that is not there.
LegacySeen(lost, c) == IF c \in lost THEN Invalid ELSE legacy[key_(bootSlot, c)]
LegacyLoads(lost) == IF lost = {} THEN UNCHANGED faults ELSE Fault("load")

\* migrate_legacy_slot_() up to its write: choose the newer V1 copy that loads.
Migrate ==
  /\ pc = "migrate"
  /\ \E lost \in {{}, {0}, {1}} :
       LET winner == NewestCopy(LegacySeen(lost, 0), LegacySeen(lost, 1))
       IN /\ winner # NoCopy
          /\ LegacyLoads(lost)
          /\ StartWrite("migrate", bootSlot, LegacySeen(lost, winner).profile,
                        LegacySeen(lost, winner).generation)
  /\ UNCHANGED <<stored, afterCrash, legacy, ram, bootSlot>>

\* migrate_legacy_slot_() returns false before it writes: no V1 copy that loads,
\* or no memory for the buffer it reads them into.
MigrateNothing ==
  /\ pc = "migrate"
  /\ \/ \E lost \in {{}, {0}, {1}} : /\ \A c \in Copies : LegacySeen(lost, c) = Invalid
                                     /\ LegacyLoads(lost)
     \/ Fault("alloc")
  /\ pc' = "seed"
  /\ UNCHANGED <<stored, afterCrash, legacy, ram, bootSlot, op>>

\* seed_factory_slot_(): encode the compiled-in state and save it.
Seed ==
  /\ pc = "seed"
  /\ StartWrite("seed", bootSlot, Factory, next_generation(bootSlot))
  /\ UNCHANGED <<stored, afterCrash, legacy, ram, bootSlot, faults>>

\* save_slot() up to write_record_, called by the confirmation page.
Save(s, p) ==
  /\ pc = "idle"
  /\ generation[s] < SaveBound
  /\ StartWrite("save", s, p, next_generation(s))
  /\ UNCHANGED <<stored, afterCrash, legacy, ram, bootSlot, faults>>

-----------------------------------------------------------------------------
\* Variant: a failed migration is tried again.
GiveUp_Retry ==
  /\ \/ op.kind = "migrate" /\ pc' = "migrate"
     \/ op.kind = "seed" /\ pc' = "failed"
     \/ op.kind = "save" /\ pc' = "idle"
  /\ op' = NoOp
  /\ UNCHANGED <<ram, bootSlot>>

\* write_record_ or the verification failed: the caller gives up, and setup()
\* turns from migration to the factory profile, or marks the device failed.
GiveUp ==
  /\ \/ op.kind = "migrate" /\ pc' = "seed"
     \/ op.kind = "seed" /\ pc' = "failed"
     \/ op.kind = "save" /\ pc' = "idle"
  /\ op' = NoOp
  /\ UNCHANGED <<ram, bootSlot>>

\* The write succeeded: RAM points at the new record and the caller returns.
Finish ==
  /\ Adopt(op.slot, op.generation % 2, op.generation)
  /\ IF op.kind = "save" THEN pc' = "idle" /\ UNCHANGED bootSlot ELSE NextSlot
  /\ op' = NoOp

\* nvs_set_blob returns ESP_OK; a silent fault may still spoil the record.
SetBlob ==
  /\ pc = "set"
  /\ \/ /\ stored' = [stored EXCEPT ![Target(op)] = NewRecord(op)]
        /\ UNCHANGED faults
     \/ /\ stored' = [stored EXCEPT ![Target(op)] = Invalid]
        /\ Fault("badwrite")
  /\ afterCrash' =
       [afterCrash EXCEPT ![Target(op)] = @ \cup {NewRecord(op), Invalid}]
  /\ pc' = "commit"
  /\ UNCHANGED <<legacy, ram, bootSlot, op>>

\* nvs_set_blob fails; it does not say what it left behind.
SetBlobFails ==
  /\ pc = "set"
  /\ \E r \in {stored[Target(op)], NewRecord(op), Invalid} :
       stored' = [stored EXCEPT ![Target(op)] = r]
  /\ afterCrash' =
       [afterCrash EXCEPT ![Target(op)] = @ \cup {NewRecord(op), Invalid}]
  /\ GiveUp
  /\ UNCHANGED <<legacy, faults>>

\* Variant: the write returns without nvs_commit.
Commit_Skipped ==
  /\ pc = "commit"
  /\ pc' = IF op.kind = "migrate" THEN "adopt" ELSE "verify"
  /\ UNCHANGED <<stored, afterCrash, legacy, ram, bootSlot, op, faults>>

\* nvs_commit returns ESP_OK: every pending write of the handle, of whatever
\* slot, is in the flash.
Commit ==
  /\ pc = "commit"
  /\ afterCrash' = [k \in Key |-> {stored[k]}]
  /\ pc' = IF op.kind = "migrate" THEN "adopt" ELSE "verify"
  /\ UNCHANGED <<stored, legacy, ram, bootSlot, op, faults>>

CommitFails ==
  /\ pc = "commit"
  /\ GiveUp
  /\ UNCHANGED <<stored, afterCrash, legacy, faults>>

\* A migrated record is taken as it was written, without reading it back.
AdoptMigrated ==
  /\ pc = "adopt"
  /\ Finish
  /\ UNCHANGED <<stored, afterCrash, legacy, faults>>

\* The record just written can be read and has the new generation.
Readable(o) == /\ stored[Target(o)] # Invalid
               /\ stored[Target(o)].generation = o.generation

\* Variant: the record is not read back.
Verify_Skipped ==
  /\ pc = "verify"
  /\ Finish
  /\ UNCHANGED <<stored, afterCrash, legacy, faults>>

\* save_slot() reads the record back and checks its generation.
Verify ==
  /\ pc = "verify"
  /\ \/ /\ Readable(op)
        /\ Finish
        /\ UNCHANGED faults
     \/ /\ ~Readable(op)
        /\ GiveUp
        /\ UNCHANGED faults
     \/ /\ Fault("read")
        /\ GiveUp
  /\ UNCHANGED <<stored, afterCrash, legacy>>

\* The power fails at any point; RAM is lost and each key keeps one of the
\* records a restart may find.
PowerLoss ==
  /\ pc # "off"
  /\ \E f \in [Key -> UNION {afterCrash[k] : k \in Key}] :
       /\ \A k \in Key : f[k] \in afterCrash[k]
       /\ stored' = f
       /\ afterCrash' = [k \in Key |-> {f[k]}]
  /\ learned' = [s \in Slots |-> FALSE]
  /\ active_copy' = [s \in Slots |-> NoCopy]
  /\ generation' = [s \in Slots |-> 0]
  /\ pc' = "off"
  /\ bootSlot' = 0
  /\ op' = NoOp
  /\ UNCHANGED <<legacy, faults>>

\* A record of a slot in use that is not the one in use.
Spare(k) == learned[k[1]] /\ k # ActiveKey(k[1])

\* A record decays in the flash: any record, or a spare one.
Rot(k) ==
  /\ stored[k] # Invalid
  /\ Fault("rot") \/ (Spare(k) /\ Fault("sparerot"))
  /\ stored' = [stored EXCEPT ![k] = Invalid]
  /\ afterCrash' = [afterCrash EXCEPT ![k] = {Invalid}]
  /\ UNCHANGED <<legacy, ram, pc, bootSlot, op>>

\* load_slot(): the profile a send transmits, or Invalid when it returns false.
load_slot(s) ==
  IF /\ learned[s]
     /\ stored[ActiveKey(s)] # Invalid
     /\ stored[ActiveKey(s)].generation = generation[s]
  THEN stored[ActiveKey(s)].profile
  ELSE Invalid

StorageStep ==
  \/ Boot \/ Scan \/ Migrate \/ MigrateNothing \/ Seed
  \/ SetBlob \/ SetBlobFails \/ Commit \/ CommitFails
  \/ AdoptMigrated \/ Verify

Next ==
  \/ StorageStep
  \/ \E s \in Slots, p \in Profiles : Save(s, p)
  \/ PowerLoss
  \/ \E k \in Key : Rot(k)

Spec == Init /\ [][Next]_vars
FairSpec == Spec /\ WF_vars(StorageStep)

-----------------------------------------------------------------------------
\* The profile a restart would choose from a pair of copies.
Winner(r0, r1) == IF NewestCopy(r0, r1) = 0 THEN r0.profile
                  ELSE IF NewestCopy(r0, r1) = 1 THEN r1.profile ELSE Invalid

\* The profiles a power loss now could bring back in slot s.
RestartProfiles(s) ==
  {Winner(r0, r1) : r0 \in afterCrash[key_(s, 0)], r1 \in afterCrash[key_(s, 1)]}

Writing == {"set", "commit", "adopt", "verify"}
Booting == pc \in {"migrate", "seed"} \/ (pc \in Writing /\ op.kind # "save")

\* The slot setup() found without a record and has not given a profile yet.
Filling == IF Booting THEN {bootSlot} ELSE {}

\* The storage implements the profile store: what a slot shows is what
\* load_slot() would return, what a restart may show is computed from the
\* records a crash may leave, and a slot is being filled from the boot's finding
\* no record to the end of the write that fills it.  Holds while records in use
\* do not decay and no read fails.
Store == INSTANCE ProfileStore
           WITH Slots <- Slots, AllProfiles <- AllProfiles, None <- Invalid,
                shown <- [s \in Slots |-> load_slot(s)],
                restart <- [s \in Slots |-> RestartProfiles(s)],
                filling <- Filling
ImplementsProfileStore == Store!Spec

\* A write in progress never touches the record of the profile in use, so a
\* write that fails at any point cannot damage it (save_slot's `target').
NeverWritesActiveCopy ==
  [][\A s \in Slots :
       pc \in {"set", "commit", "adopt", "verify"} /\ pc' \notin {pc, "off"} /\ learned[s]
       => stored'[ActiveKey(s)] = stored[ActiveKey(s)]]_vars

\* Whatever slot the device treats as learned has its record in the flash for
\* good: no crash from here on can lose it or make it older, whichever other
\* write is in progress or has failed.
LearnedIsDurable ==
  \A s \in Slots : learned[s] =>
    /\ stored[ActiveKey(s)] # Invalid
    /\ stored[ActiveKey(s)].generation = generation[s]
    /\ afterCrash[ActiveKey(s)] = {stored[ActiveKey(s)]}

\* When a save is acknowledged the previous profile is still there, one
\* generation older: the redundancy the two copies are kept for.
SaveKeepsPrevious ==
  [][\A s \in Slots :
       learned[s] /\ generation'[s] # generation[s] /\ pc' # "off" =>
         /\ stored'[ActiveKey(s)] # Invalid
         /\ stored'[ActiveKey(s)].generation = generation[s]
         /\ active_copy'[s] # active_copy[s]]_vars

\* Why a learned slot is safe: the parts of the inductive invariant.
\* What a restart finds in slot s is what a read returns now.
Settled(s) == \A c \in Copies : afterCrash[key_(s, c)] = {stored[key_(s, c)]}

\* A generation is only ever stored in the copy of its parity.
CopiesByParity ==
  \A s \in Slots, c \in Copies :
    \A r \in afterCrash[key_(s, c)] \cup {stored[key_(s, c)]} :
      r # Invalid => r.generation % 2 = c

ActiveByParity ==
  \A s \in Slots : learned[s] => active_copy[s] = generation[s] % 2

\* The target of a write is never the active copy, and setup() writes only the
\* slot it is at.
TargetIsOther ==
  pc \in Writing =>
    /\ op.kind # "none"
    /\ learned[op.slot] => op.generation % 2 # generation[op.slot] % 2
    /\ op.kind # "save" => op.slot = bootSlot

\* setup() has not yet given a profile to the slots from the current one on.
BootUnlearned ==
  /\ pc = "off" => bootSlot = 0 /\ \A s \in Slots : ~learned[s]
  /\ pc = "scan" \/ Booting => \A s \in Slots : s >= bootSlot => ~learned[s]

\* The inductive invariant behind NeverWritesActiveCopy: it needs nothing of
\* the flash, so it holds whatever faults happen.
ParityInv ==
  /\ TypeOK
  /\ CopiesByParity
  /\ ActiveByParity
  /\ TargetIsOther
  /\ BootUnlearned

\* setup() has not written the slots it has not reached.
BootSettled ==
  /\ pc = "off" => \A s \in Slots : Settled(s)
  /\ pc = "scan" => \A s \in Slots : s >= bootSlot => Settled(s)
  /\ Booting => \A s \in Slots : s > bootSlot => Settled(s)

\* A committed write is there for good, and a migrated one is readable.
CommittedIsDurable ==
  /\ pc \in {"adopt", "verify"} =>
       afterCrash[Target(op)] = {stored[Target(op)]}
  /\ pc = "adopt" => op.kind = "migrate"
  /\ pc \in {"commit", "adopt"} /\ op.kind = "migrate" => Readable(op)
  /\ op.kind = "migrate" => LegacyRecords # {}

\* The inductive invariant behind LearnedIsDurable: RAM turns to a record only
\* after it was committed and read back.
StorageInv ==
  /\ ParityInv
  /\ BootSettled
  /\ CommittedIsDurable
  /\ LearnedIsDurable

\* What LearnedIsDurable rests on: flash that keeps the records in use, and no
\* spoilt write where nothing is read back.
ReliableFlash == "rot" \notin Faults /\ ("badwrite" \notin Faults \/ LegacyRecords = {})

\* What a read returns now, a restart may find: a pending write replaces nothing.
StoredMayStay == \A k \in Key : stored[k] \in afterCrash[k]

\* After nvs_commit nothing of any slot is pending until the next write.
CommitSettles == pc \in {"adopt", "verify"} => \A s \in Slots : Settled(s)

\* setup() leaves no slot without a profile behind.
BootLeavesLearned ==
  /\ pc = "scan" \/ Booting => \A s \in Slots : s < bootSlot => learned[s]
  /\ pc = "idle" \/ (pc \in Writing /\ op.kind = "save") => \A s \in Slots : learned[s]

\* A save writes the generation after the one in use.
SaveIsNext ==
  pc \in Writing /\ op.kind = "save" => op.generation = generation[op.slot] + 1

\* setup() writes a slot only where a restart may still find no record at all: a
\* migration that is given up has not been committed.
BootWritesBlank ==
  /\ pc \in {"migrate", "seed"} \/ (pc \in {"set", "commit"} /\ op.kind # "save") =>
       \A c \in Copies : Invalid \in afterCrash[key_(bootSlot, c)]
  /\ pc = "verify" => op.kind # "migrate"

\* The inductive invariant behind ImplementsProfileStore.
StoreInv ==
  /\ StorageInv
  /\ StoredMayStay
  /\ CommitSettles
  /\ BootLeavesLearned
  /\ SaveIsNext
  /\ BootWritesBlank

\* What the refinement rests on besides: no record is misread by a boot, and no slot
\* is saved 2^32 times, so that the later of two generations is the greater one.
BootsReadRight == "read" \notin Faults /\ SaveBound < GenModulus

\* Factory profiles "seed only new or erased slots and never overwrite
\* existing learned profiles" (README.md): a slot is filled with the factory
\* profile only if no V2 record and no V1 profile of the user is there.
SeedsOnlyNewOrErased ==
  op.kind = "seed" =>
    \A c \in Copies :
      /\ stored[key_(op.slot, c)] \notin [profile : Profiles, generation : Generations]
      /\ legacy[key_(op.slot, c)] = Invalid

\* "Old profile kept" (app_controller.cpp:163): after a save that failed, the
\* old profile is the one every later restart shows.
FailedSaveKeepsOld ==
  pc = "idle" => \A s \in Slots : RestartProfiles(s) = {load_slot(s)}

\* A boot always comes to an end, with the device ready or marked failed, and
\* so does every save: no NVS error leaves it waiting.
BootSettles ==
  (<>[][~PowerLoss]_vars) => []<>(pc \in {"idle", "failed"})
=============================================================================
