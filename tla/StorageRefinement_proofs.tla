---------------------- MODULE StorageRefinement_proofs ----------------------
(***************************************************************************)
(* Proof that the two copies, generations and commits of StorageManager    *)
(* implement ProfileStore: each slot shows one profile, and a power loss    *)
(* can bring back only profiles that ProfileStore names.                    *)
(***************************************************************************)
EXTENDS StorageManager_proofs

\* A boot that reads right adopts the newest copy in the flash, or goes on to migrate
\* when no copy is readable.
LEMMA ScanExact ==
  ASSUME BootsReadRight, Scan
  PROVE  LET winner == NewestCopy(stored[key_(bootSlot, 0)], stored[key_(bootSlot, 1)])
         IN \/ winner = NoCopy /\ pc' = "migrate" /\ UNCHANGED <<ram, bootSlot>>
            \/ /\ winner \in Copies
               /\ Adopt(bootSlot, winner, stored[key_(bootSlot, winner)].generation)
               /\ NextSlot
<1> DEFINE winner == NewestCopy(stored[key_(bootSlot, 0)], stored[key_(bootSlot, 1)])
<1>1. \/ winner = NoCopy /\ pc' = "migrate" /\ UNCHANGED <<ram, bootSlot>>
      \/ /\ winner # NoCopy
         /\ Adopt(bootSlot, winner, stored[key_(bootSlot, winner)].generation)
         /\ NextSlot
  <2>1. PICK lost \in {{}, {0}, {1}} :
          /\ IF lost = {} THEN UNCHANGED faults ELSE Fault("read")
          /\ LET seen(c) == IF c \in lost THEN Invalid ELSE stored[key_(bootSlot, c)]
                 newest == NewestCopy(seen(0), seen(1))
             IN IF newest = NoCopy
                THEN pc' = "migrate" /\ UNCHANGED <<ram, bootSlot>>
                ELSE /\ Adopt(bootSlot, newest, seen(newest).generation)
                     /\ NextSlot
    BY DEF Scan
  <2>2. lost = {}
    BY <2>1 DEF Fault, BootsReadRight
  <2>3. QED
    BY <2>1, <2>2
<1>2. QED
  BY <1>1, NewestCopyReadable

\* Of a pair of copies nothing is chosen only when none is readable.
LEMMA NoCopyIsInvalid ==
  ASSUME NEW r0, NEW r1, NewestCopy(r0, r1) = NoCopy
  PROVE  r0 = Invalid /\ r1 = Invalid
  BY DEF NewestCopy, NoCopy

-----------------------------------------------------------------------------
(* The parts of the invariant. *)

\* A read finds only what a restart may find too.
LEMMA StoredStep ==
  ASSUME TypeOK, StoredMayStay, [Next]_vars
  PROVE  StoredMayStay'
<1> USE DEF TypeOK, StoredMayStay
<1>1. CASE SetBlob \/ SetBlobFails
  BY <1>1 DEF SetBlob, SetBlobFails
<1>2. CASE Commit \/ PowerLoss
  BY <1>2 DEF Commit, PowerLoss
<1>3. CASE \E k \in Key : Rot(k)
  BY <1>3 DEF Rot
<1>4. CASE UNCHANGED <<stored, afterCrash>>
  BY <1>4
<1>5. QED
  BY <1>1, <1>2, <1>3, <1>4, NextCases
     DEF Boot, Scan, Migrate, MigrateNothing, Seed, Save, CommitFails, AdoptMigrated,
         Verify, vars

\* A slot stays settled when one of its records decays.
LEMMA SettlesStep ==
  ASSUME TypeOK, CommitSettles, [Next]_vars
  PROVE  CommitSettles'
<1> USE DEF TypeOK, CommitSettles
<1>1. CASE Commit
  BY <1>1 DEF Commit, Settled, key_, Key
<1>2. CASE \E k \in Key : Rot(k)
  BY <1>2 DEF Rot, Settled, key_, Key
<1>3. CASE UNCHANGED vars
  BY <1>3 DEF vars, Settled
<1>4. CASE pc' \notin {"adopt", "verify"}
  BY <1>4
<1>5. QED
  BY <1>1, <1>2, <1>3, <1>4, NextCases
     DEF Boot, Scan, Migrate, MigrateNothing, Seed, Save, StartWrite, SetBlob,
         SetBlobFails, CommitFails, AdoptMigrated, Verify, GiveUp, Finish, NextSlot,
         PowerLoss

\* What a step of the boot or of a write does with the list of learned slots.
LEMMA LeavesLearnedStep ==
  ASSUME ParityInv, BootLeavesLearned, [Next]_vars
  PROVE  BootLeavesLearned'
<1> USE SlotAssumption DEF ParityInv, TypeOK, BootLeavesLearned, Booting, Writing, Slots
<1>1. CASE Boot \/ PowerLoss
  BY <1>1 DEF Boot, PowerLoss
<1>2. CASE Scan
  BY <1>2, ScanCases DEF Scan, Adopt, NextSlot, ram
<1>3. CASE Migrate \/ MigrateNothing \/ Seed \/ \E s \in Slots, p \in Profiles : Save(s, p)
  BY <1>3 DEF Migrate, MigrateNothing, Seed, Save, StartWrite, ram
<1>4. CASE SetBlob \/ Commit \/ (\E k \in Key : Rot(k)) \/ UNCHANGED vars
  BY <1>4 DEF SetBlob, Commit, Rot, vars, ram
<1>5. CASE GiveUp /\ pc \in Writing
  BY <1>5 DEF GiveUp, ram
<1>6. CASE Finish /\ pc \in Writing
  BY <1>6 DEF Finish, Adopt, NextSlot, TargetIsOther, Ops
<1>7. QED
  BY <1>1, <1>2, <1>3, <1>4, <1>5, <1>6, NextCases
     DEF SetBlobFails, CommitFails, AdoptMigrated, Verify

\* A save is started only at a generation that has a successor.
LEMMA SaveNextStep ==
  ASSUME SaveBound < GenModulus, ParityInv, BootLeavesLearned, SaveIsNext, [Next]_vars
  PROVE  SaveIsNext'
<1> USE DEF ParityInv, SaveIsNext, Writing
<1>1. CASE \E s \in Slots, p \in Profiles : Save(s, p)
  <2>1. PICK s \in Slots, p \in Profiles : Save(s, p)
    BY <1>1
  <2>2. learned[s] /\ generation[s] \in Generations
    BY <2>1 DEF Save, BootLeavesLearned, TypeOK
  <2>3. next_generation(s) = generation[s] + 1
    BY <2>1, <2>2, GenerationAssumption
       DEF Save, next_generation, Successor, Generations
  <2>4. QED
    BY <2>1, <2>3 DEF Save, StartWrite, ram
<1>2. CASE Boot \/ Scan \/ Migrate \/ MigrateNothing \/ Seed \/ PowerLoss
  BY <1>2 DEF Boot, Scan, Migrate, MigrateNothing, Seed, StartWrite, NextSlot, PowerLoss
<1>3. CASE SetBlob \/ Commit \/ (\E k \in Key : Rot(k)) \/ UNCHANGED vars
  BY <1>3 DEF SetBlob, Commit, Rot, vars, ram
<1>4. CASE GiveUp \/ Finish
  BY <1>4 DEF GiveUp, Finish, NoOp
<1>5. QED
  BY <1>1, <1>2, <1>3, <1>4, NextCases
     DEF SetBlobFails, CommitFails, AdoptMigrated, Verify

\* Until a write of setup() is committed, a restart may find both copies unreadable.
LEMMA BlankStep ==
  ASSUME ReliableFlash, BootsReadRight, StorageInv, BootWritesBlank, [Next]_vars
  PROVE  BootWritesBlank'
<1> USE DEF StorageInv, ParityInv, TypeOK, BootWritesBlank
<1>1. CASE Scan
  <2>1. CASE pc' = "migrate" /\ UNCHANGED <<ram, bootSlot>>
    <3>1. \A c \in Copies : stored[key_(bootSlot, c)] = Invalid
      BY <1>1, <2>1, ScanExact, NoCopyIsInvalid DEF Copies, NextSlot
    <3>2. Settled(bootSlot)
      BY <1>1, SlotAssumption DEF Scan, BootSettled, Slots
    <3>3. QED
      BY <1>1, <2>1, <3>1, <3>2 DEF Scan, Settled
  <2>2. CASE NextSlot
    BY <2>2 DEF NextSlot
  <2>3. QED
    BY <1>1, <2>1, <2>2, ScanCases
<1>2. CASE Boot \/ PowerLoss \/ \E s \in Slots, p \in Profiles : Save(s, p)
  BY <1>2 DEF Boot, PowerLoss, Save, StartWrite
<1>3. CASE Migrate \/ MigrateNothing \/ Seed
  BY <1>3 DEF Migrate, MigrateNothing, Seed, StartWrite
<1>4. CASE SetBlob
  BY <1>4 DEF SetBlob, key_, Key
<1>5. CASE SetBlobFails
  BY <1>5 DEF SetBlobFails, GiveUp, key_, Key
<1>6. CASE Commit \/ CommitFails
  BY <1>6 DEF Commit, CommitFails, GiveUp
<1>7. CASE AdoptMigrated \/ Verify
  BY <1>7 DEF AdoptMigrated, Verify, Finish, NextSlot, GiveUp
<1>8. CASE \E k \in Key : Rot(k)
  <2>1. PICK k \in Key : Rot(k)
    BY <1>8
  <2>2. /\ afterCrash' = [afterCrash EXCEPT ![k] = {Invalid}]
        /\ UNCHANGED <<pc, bootSlot, op>>
    BY <2>1, OnlySparesRot
  <2>3. QED
    BY <2>2 DEF key_
<1>9. CASE UNCHANGED vars
  BY <1>9 DEF vars
<1>10. QED
  BY <1>1, <1>2, <1>3, <1>4, <1>5, <1>6, <1>7, <1>8, <1>9, NextCases

\* The first state satisfies the invariant.
LEMMA StoreInit == Init => StoreInv
<1> SUFFICES ASSUME Init PROVE StoreInv
  OBVIOUS
<1>1. StoredMayStay /\ CommitSettles /\ BootLeavesLearned /\ SaveIsNext /\ BootWritesBlank
  BY DEF Init, StoredMayStay, CommitSettles, BootLeavesLearned, SaveIsNext,
         BootWritesBlank, Booting, Writing
<1>2. QED
  BY <1>1, StorageInit DEF StoreInv

\* Every step keeps it.
LEMMA StoreStep ==
  ASSUME ReliableFlash, BootsReadRight
  PROVE  StoreInv /\ [Next]_vars => StoreInv'
<1>1. ASSUME StoreInv, [Next]_vars PROVE StoreInv'
  <2>1. StorageInv'
    BY <1>1, ParityStep, LearnedStep, BootSettledStep, CommittedStep
       DEF StoreInv, StorageInv
  <2>2. /\ StoredMayStay' /\ CommitSettles' /\ BootLeavesLearned' /\ SaveIsNext'
        /\ BootWritesBlank'
    BY <1>1, StoredStep, SettlesStep, LeavesLearnedStep, SaveNextStep, BlankStep
       DEF StoreInv, StorageInv, ParityInv, BootsReadRight
  <2>3. QED
    BY <2>1, <2>2 DEF StoreInv
<1>2. QED
  BY <1>1

\* The invariant the refinement rests on: what is pending, and what a save and a boot
\* may write.
THEOREM StoreInvariant ==
  ASSUME ReliableFlash, BootsReadRight
  PROVE  Spec => []StoreInv
  BY StoreInit, StoreStep, PTL DEF Spec

-----------------------------------------------------------------------------
(* What the abstract state is, in terms of records. *)

MayBeRecord == Records \cup {Invalid}
MayBeProfile == AllProfiles \cup {Invalid}

\* The profile a restart chooses from record r in copy c and record x in the other.
WinnerAt(c, r, x) == IF c = 0 THEN Winner(r, x) ELSE Winner(x, r)

\* An unreadable copy never wins over a readable one, nor an older one.
LEMMA WinnerIs ==
  ASSUME NEW c \in Copies, NEW r \in MayBeRecord, NEW x \in MayBeRecord
  PROVE  /\ WinnerAt(c, Invalid, Invalid) = Invalid
         /\ r # Invalid => WinnerAt(c, r, Invalid) = r.profile
         /\ x # Invalid => WinnerAt(c, Invalid, x) = x.profile
         /\ r # Invalid /\ x # Invalid => WinnerAt(c, r, x) \in {r.profile, x.profile}
         /\ r # Invalid /\ x # Invalid /\ r.generation > x.generation
              => WinnerAt(c, r, x) = r.profile
         /\ WinnerAt(c, r, x) \in MayBeProfile
<1>1. /\ r # Invalid => r.generation \in Int /\ r.profile \in AllProfiles
      /\ x # Invalid => x.generation \in Int /\ x.profile \in AllProfiles
  BY GenerationAssumption DEF MayBeRecord, Records, Generations
<1>2. QED
  BY <1>1 DEF WinnerAt, Winner, NewestCopy, Copies, NoCopy, MayBeProfile

\* A restart chooses from one record of each copy.
LEMMA RestartIs ==
  ASSUME TypeOK, NEW s \in Slots, NEW c \in Copies
  PROVE  /\ RestartProfiles(s) = {WinnerAt(c, r, x) : r \in afterCrash[key_(s, c)],
                                                      x \in afterCrash[key_(s, 1 - c)]}
         /\ afterCrash[key_(s, c)] \subseteq MayBeRecord
         /\ afterCrash[key_(s, 1 - c)] \subseteq MayBeRecord
<1>1. CASE c = 0
  BY <1>1 DEF RestartProfiles, WinnerAt, TypeOK, key_, Key, Copies, MayBeRecord
<1>2. CASE c = 1
  BY <1>2 DEF RestartProfiles, WinnerAt, TypeOK, key_, Key, Copies, MayBeRecord
<1>3. QED
  BY <1>1, <1>2 DEF Copies

\* A restart always shows something, or nothing readable.
LEMMA RestartType ==
  ASSUME TypeOK, StoredMayStay, NEW s \in Slots
  PROVE  RestartProfiles(s) \in (SUBSET MayBeProfile) \ {{}}
<1>1. RestartProfiles(s) = {WinnerAt(0, r, x) : r \in afterCrash[key_(s, 0)],
                                                x \in afterCrash[key_(s, 1 - 0)]}
  BY RestartIs DEF Copies
<1>2. /\ afterCrash[key_(s, 0)] \subseteq MayBeRecord
      /\ afterCrash[key_(s, 1 - 0)] \subseteq MayBeRecord
  BY RestartIs DEF Copies
<1>3. /\ stored[key_(s, 0)] \in afterCrash[key_(s, 0)]
      /\ stored[key_(s, 1 - 0)] \in afterCrash[key_(s, 1 - 0)]
  BY DEF StoredMayStay, key_, Key, Copies
<1>4. \A r, x \in MayBeRecord : WinnerAt(0, r, x) \in MayBeProfile
  BY WinnerIs DEF Copies
<1>5. WinnerAt(0, stored[key_(s, 0)], stored[key_(s, 1 - 0)]) \in RestartProfiles(s)
  BY <1>1, <1>3
<1>6. \A p \in RestartProfiles(s) : p \in MayBeProfile
  BY <1>1, <1>2, <1>4
<1>7. QED
  BY <1>5, <1>6

\* A settled slot has one restart: the newest copy.
LEMMA SettledRestart ==
  ASSUME TypeOK, NEW s \in Slots, NEW c \in Copies, Settled(s)
  PROVE  RestartProfiles(s) = {WinnerAt(c, stored[key_(s, c)], stored[key_(s, 1 - c)])}
<1>1. /\ afterCrash[key_(s, c)] = {stored[key_(s, c)]}
      /\ afterCrash[key_(s, 1 - c)] = {stored[key_(s, 1 - c)]}
  BY DEF Settled, Copies
<1>2. QED
  BY <1>1, RestartIs

\* What a slot in use shows is the record in use; a slot not in use shows nothing.
LEMMA ShownIs ==
  ASSUME StorageInv, NEW s \in Slots
  PROVE  /\ learned[s] => /\ load_slot(s) = stored[ActiveKey(s)].profile
                          /\ stored[ActiveKey(s)] \in Records
                          /\ load_slot(s) \in AllProfiles
         /\ ~learned[s] => load_slot(s) = Invalid
         /\ load_slot(s) \in MayBeProfile
<1>1. CASE learned[s]
  <2>1. ActiveKey(s) \in Key
    BY <1>1, ActiveKeyInKey DEF StorageInv
  <2>2. stored[ActiveKey(s)] # Invalid /\ stored[ActiveKey(s)].generation = generation[s]
    BY <1>1 DEF StorageInv, LearnedIsDurable
  <2>3. stored[ActiveKey(s)] \in Records
    BY <2>1, <2>2 DEF StorageInv, ParityInv, TypeOK
  <2>4. load_slot(s) = stored[ActiveKey(s)].profile
    BY <1>1, <2>2 DEF load_slot
  <2>5. QED
    BY <1>1, <2>3, <2>4 DEF Records, MayBeProfile
<1>2. CASE ~learned[s]
  BY <1>2 DEF load_slot, MayBeProfile
<1>3. QED
  BY <1>1, <1>2

\* A profile cannot be mistaken for "nothing readable".
LEMMA ProfilesAreReadable == Invalid \notin AllProfiles
  BY InvalidAssumption

\* The slot shows the same while RAM and its record stay.
LEMMA ShownSame ==
  ASSUME NEW s \in Slots, UNCHANGED ram,
         learned[s] => stored'[ActiveKey(s)] = stored[ActiveKey(s)]
  PROVE  load_slot(s)' = load_slot(s)
  BY DEF load_slot, ActiveKey, key_, ram

\* A restart shows the same while nothing of the slot becomes pending or settled.
LEMMA RestartSame ==
  ASSUME NEW s \in Slots, \A c \in Copies : afterCrash'[key_(s, c)] = afterCrash[key_(s, c)]
  PROVE  RestartProfiles(s)' = RestartProfiles(s)
  BY DEF RestartProfiles, key_, Copies

-----------------------------------------------------------------------------
(* The steps. *)

\* A slot is filled by the writes of setup(): up to the end of one, nothing changes,
LEMMA FillingStays ==
  ASSUME \/ SetBlob \/ Commit \/ Migrate \/ MigrateNothing \/ Seed \/ Boot
         \/ \E k \in Key : Rot(k)
         \/ \E s \in Slots, p \in Profiles : Save(s, p)
  PROVE  Filling' = Filling
  BY DEF SetBlob, Commit, Migrate, MigrateNothing, Seed, StartWrite, Rot, Boot, Save,
         Filling, Booting, Writing

\* one that is given up may be the last,
LEMMA FillingGivenUp ==
  ASSUME StoreInv, GiveUp, pc \in Writing
  PROVE  \/ Filling' = Filling
         \/ op.slot \in Filling /\ Filling' = Filling \ {op.slot}
<1>1. op.kind # "save" => op.slot = bootSlot
  BY DEF StoreInv, StorageInv, ParityInv, TargetIsOther
<1>2. QED
  BY <1>1 DEF GiveUp, Filling, Booting, Writing

\* and one that ends well is.
LEMMA FillingEnds ==
  ASSUME StoreInv, Finish, pc \in Writing
  PROVE  /\ Filling = IF op.kind = "save" THEN {} ELSE {op.slot}
         /\ Filling' = {}
<1>1. op.kind # "save" => op.slot = bootSlot
  BY DEF StoreInv, StorageInv, ParityInv, TargetIsOther
<1>2. pc \notin {"migrate", "seed"} /\ pc' \in {"scan", "idle"}
  BY DEF Writing, Finish, NextSlot
<1>3. QED
  BY <1>1, <1>2 DEF Filling, Booting, Writing

\* A write that has started adds the new profile, and the one in use, to what a
\* restart may show: the old record of the key it replaces may be gone.
LEMMA WriteAttempts ==
  ASSUME StoreInv, SetBlob \/ SetBlobFails
  PROVE  Store!Attempt(op.slot, op.profile) /\ op.slot \in Slots /\ op.profile \in AllProfiles
<1> USE DEF StoreInv, StorageInv, ParityInv
<1>0. op.generation % 2 \in Copies /\ op.slot \in Slots
  BY OpTypes DEF TypeOK, Ops
<1> PICK s \in Slots, c \in Copies : s = op.slot /\ c = op.generation % 2
  BY <1>0
<1> DEFINE A == afterCrash[key_(s, c)]
           B == afterCrash[key_(s, 1 - c)]
           N == NewRecord(op)
<1>1. /\ Target(op) = key_(s, c) /\ Target(op) \in Key
      /\ N \in Records /\ N # Invalid /\ N.profile = op.profile
      /\ N.generation = op.generation /\ op.profile \in AllProfiles
  BY OpTypes, ConstantTypes DEF TypeOK, Ops, NewRecord, key_
<1>2. /\ pc \in Writing /\ pc = "set" /\ UNCHANGED ram
      /\ afterCrash' = [afterCrash EXCEPT ![Target(op)] = @ \cup {N, Invalid}]
      /\ \A k \in Key : k # Target(op) => stored'[k] = stored[k]
  BY DEF SetBlob, SetBlobFails, GiveUp, Writing, TypeOK
<1>3. \A t \in Slots : load_slot(t)' = load_slot(t)
  BY <1>2, ShownSame, TargetNotActive, ActiveKeyInKey
<1>4. \A t \in Slots \ {s} : RestartProfiles(t)' = RestartProfiles(t)
  BY <1>1, <1>2, RestartSame DEF key_, TypeOK
<1>5. /\ afterCrash'[key_(s, c)] = A \cup {N, Invalid}
      /\ afterCrash'[key_(s, 1 - c)] = B
  BY <1>1, <1>2 DEF TypeOK, key_, Key, Copies
<1>6. A \subseteq MayBeRecord /\ B \subseteq MayBeRecord
      /\ RestartProfiles(s) = {WinnerAt(c, r, x) : r \in A, x \in B}
  BY <1>1, RestartIs
<1>7. RestartProfiles(s)' = {WinnerAt(c, r, x) : r \in A \cup {N, Invalid}, x \in B}
  <2> HIDE DEF A, B, N
  <2>1. CASE c = 0
    <3>1. /\ afterCrash'[key_(s, 0)] = A \cup {N, Invalid}
          /\ afterCrash'[key_(s, 1)] = B
      BY <1>5, <2>1
    <3>2. RestartProfiles(s)' = {Winner(r, x) : r \in A \cup {N, Invalid}, x \in B}
      BY <3>1 DEF RestartProfiles, key_
    <3>3. QED
      BY <3>2, <2>1 DEF WinnerAt
  <2>2. CASE c = 1
    <3>1. /\ afterCrash'[key_(s, 0)] = B
          /\ afterCrash'[key_(s, 1)] = A \cup {N, Invalid}
      BY <1>5, <2>2
    <3>2. RestartProfiles(s)' = {Winner(x, r) : x \in B, r \in A \cup {N, Invalid}}
      BY <3>1 DEF RestartProfiles, key_
    <3>3. QED
      BY <3>2, <2>2 DEF WinnerAt
  <2>3. QED
    BY <2>1, <2>2 DEF Copies
<1>8. N \in MayBeRecord /\ Invalid \in MayBeRecord
  BY <1>1 DEF MayBeRecord
<1> HIDE DEF A, B, N
<1>9. RestartProfiles(s)' = RestartProfiles(s) \cup {op.profile, load_slot(s)}
  <2>1. CASE learned[s]
    <3>1. op.kind = "save"
      BY <1>1, <1>2, <2>1, SlotAssumption
         DEF TargetIsOther, BootUnlearned, Booting, Slots, TypeOK
    <3>2. op.generation = generation[s] + 1
      BY <1>2, <3>1 DEF SaveIsNext
    <3>3. key_(s, 1 - c) = ActiveKey(s)
      BY <1>1, <1>2, <2>1, GenerationAssumption
         DEF ActiveByParity, TargetIsOther, ActiveKey, key_, Copies, TypeOK, Generations
    <3>4. PICK rec \in Records : /\ B = {rec} /\ rec.generation = generation[s]
                                 /\ load_slot(s) = rec.profile
      BY <1>1, <2>1, <3>3, ShownIs DEF B, LearnedIsDurable
    <3>5. rec # Invalid /\ rec \in MayBeRecord /\ N.generation > rec.generation
      BY <1>1, <3>2, <3>4, ConstantTypes, GenerationAssumption
         DEF MayBeRecord, TypeOK, Generations
    <3>6. WinnerAt(c, N, rec) = op.profile /\ WinnerAt(c, Invalid, rec) = load_slot(s)
      BY <1>1, <1>8, <3>4, <3>5, WinnerIs
    <3>7. QED
      BY <1>6, <1>7, <3>4, <3>6
  <2>2. CASE ~learned[s]
    <3>1. op.kind # "save" /\ s = bootSlot
      BY <1>1, <1>2, <2>2 DEF BootLeavesLearned, TargetIsOther
    <3>2. Invalid \in A /\ Invalid \in B
      BY <1>1, <1>2, <3>1 DEF A, B, BootWritesBlank, Copies
    <3>3. load_slot(s) = Invalid
      BY <1>1, <2>2, ShownIs
    <3>4. WinnerAt(c, N, Invalid) = op.profile /\ WinnerAt(c, Invalid, Invalid) = Invalid
      BY <1>1, <1>8, WinnerIs
    <3>5. \A x \in B : /\ WinnerAt(c, N, x) \in {op.profile, WinnerAt(c, Invalid, x)}
      BY <1>1, <1>6, <1>8, <3>4, WinnerIs
    <3>6. QED
      BY <1>6, <1>7, <3>2, <3>3, <3>4, <3>5
  <2>3. QED
    BY <2>1, <2>2
<1>10. Filling' \in {Filling, Filling \ {s}}
  BY <1>1, <1>2, FillingStays, FillingGivenUp DEF SetBlobFails
<1>11. QED
  BY <1>1, <1>3, <1>4, <1>9, <1>10 DEF Store!Attempt

\* Adopting a readable record shows its profile and touches no other slot.
LEMMA AdoptShows ==
  ASSUME TypeOK, UNCHANGED stored, NEW s \in Slots, NEW c \in Copies, NEW g \in Generations,
         Adopt(s, c, g), stored[key_(s, c)] # Invalid, stored[key_(s, c)].generation = g
  PROVE  /\ load_slot(s)' = stored[key_(s, c)].profile
         /\ stored[key_(s, c)].profile \in AllProfiles
         /\ \A t \in Slots \ {s} : load_slot(t)' = load_slot(t)
<1>1. /\ learned'[s] /\ active_copy'[s] = c /\ generation'[s] = g
      /\ \A t \in Slots \ {s} : /\ learned'[t] = learned[t]
                                /\ active_copy'[t] = active_copy[t]
                                /\ generation'[t] = generation[t]
  BY DEF Adopt, TypeOK
<1>2. load_slot(s)' = stored[key_(s, c)].profile
  BY <1>1 DEF load_slot, ActiveKey, key_
<1>3. \A t \in Slots \ {s} : load_slot(t)' = load_slot(t)
  BY <1>1 DEF load_slot, ActiveKey, key_
<1>4. stored[key_(s, c)].profile \in AllProfiles
  BY DEF TypeOK, Records, key_, Key
<1>5. QED
  BY <1>2, <1>3, <1>4

\* Nothing of what is promised changes while flash and RAM stay.
LEMMA StepStutters ==
  ASSUME UNCHANGED <<stored, afterCrash, ram, Filling>>
  PROVE  UNCHANGED Store!vars
<1>1. \A s \in Slots : load_slot(s)' = load_slot(s) /\ RestartProfiles(s)' = RestartProfiles(s)
  BY ShownSame, RestartSame DEF ram
<1>2. QED
  BY <1>1 DEF Store!vars

\* A write that is given up shows nothing new.
LEMMA GiveUpStutters ==
  ASSUME StoreInv, GiveUp, pc \in Writing, UNCHANGED <<stored, afterCrash>>
  PROVE  UNCHANGED Store!vars \/ Store!GiveUp(op.slot)
<1>1. \A s \in Slots : load_slot(s)' = load_slot(s) /\ RestartProfiles(s)' = RestartProfiles(s)
  BY ShownSame, RestartSame DEF GiveUp, ram
<1>2. CASE Filling' = Filling
  BY <1>1, <1>2 DEF Store!vars
<1>3. CASE Filling' # Filling
  BY <1>1, <1>3, FillingGivenUp DEF Store!GiveUp
<1>4. QED
  BY <1>2, <1>3

\* A boot that finds a record shows what every restart would show; one that finds none
\* goes on to fill a slot in which a restart would find none either.
LEMMA ScanAcknowledges ==
  ASSUME BootsReadRight, StoreInv, Scan
  PROVE  Store!Acknowledge(bootSlot) \/ Store!FindEmpty(bootSlot)
<1> USE DEF StoreInv, StorageInv, ParityInv
<1> DEFINE w == NewestCopy(stored[key_(bootSlot, 0)], stored[key_(bootSlot, 1)])
<1>1. UNCHANGED <<stored, afterCrash>> /\ bootSlot \in Slots /\ Settled(bootSlot)
  BY SlotAssumption DEF Scan, TypeOK, BootSettled, Slots
<1>2. CASE w = NoCopy /\ pc' = "migrate" /\ UNCHANGED <<ram, bootSlot>>
  <2>1. \A t \in Slots : load_slot(t)' = load_slot(t) /\ RestartProfiles(t)' = RestartProfiles(t)
    BY <1>1, <1>2, ShownSame, RestartSame
  <2>2. load_slot(bootSlot) = Invalid
    BY <1>1, SlotAssumption, ShownIs DEF BootUnlearned, Scan, Slots
  <2>3. RestartProfiles(bootSlot) = {Invalid}
    <3>1. \A c \in Copies : afterCrash[key_(bootSlot, c)] = {Invalid}
      BY <1>1, <1>2, NoCopyIsInvalid DEF Settled, Copies
    <3>2. RestartProfiles(bootSlot) = {Winner(Invalid, Invalid)}
      BY <3>1 DEF RestartProfiles, Copies
    <3>3. QED
      BY <3>2 DEF Winner, NewestCopy, NoCopy
  <2>4. Filling = {} /\ Filling' = {bootSlot}
    BY <1>2 DEF Filling, Booting, Scan, Writing
  <2>5. QED
    BY <1>1, <2>1, <2>2, <2>3, <2>4 DEF Store!FindEmpty
<1>3. CASE /\ w \in Copies
           /\ Adopt(bootSlot, w, stored[key_(bootSlot, w)].generation)
           /\ NextSlot
  <2> PICK c \in Copies, s \in Slots : c = w /\ s = bootSlot
    BY <1>1, <1>3
  <2>1. stored[key_(s, c)] # Invalid
    BY NewestCopyReadable DEF Copies
  <2>2. stored[key_(s, c)].generation \in Generations
    BY <2>1 DEF TypeOK, Records, key_, Key
  <2>3. /\ load_slot(s)' = stored[key_(s, c)].profile
        /\ stored[key_(s, c)].profile \in AllProfiles
        /\ \A t \in Slots \ {s} : load_slot(t)' = load_slot(t)
    BY <1>1, <1>3, <2>1, <2>2, AdoptShows
  <2>4. RestartProfiles(s) = {stored[key_(s, c)].profile}
    <3>1. RestartProfiles(s) = {WinnerAt(0, stored[key_(s, 0)], stored[key_(s, 1 - 0)])}
      BY <1>1, SettledRestart DEF Copies
    <3>2. RestartProfiles(s) = {Winner(stored[key_(s, 0)], stored[key_(s, 1)])}
      BY <3>1 DEF WinnerAt
    <3>3. QED
      BY <3>2 DEF Winner, Copies
  <2>5. \A t \in Slots : RestartProfiles(t)' = RestartProfiles(t)
    BY <1>1, RestartSame
  <2>6. Filling = {} /\ Filling' = {}
    BY <1>3 DEF Filling, Booting, Scan, NextSlot, Writing
  <2>7. QED
    BY <2>3, <2>4, <2>5, <2>6 DEF Store!Acknowledge
<1>4. QED
  BY <1>2, <1>3, ScanExact

\* A write that ends well shows its record: after a save it is the newest of two
\* committed copies, and at boot the slot was found empty.
LEMMA FinishShows ==
  ASSUME StoreInv, Finish, pc \in {"adopt", "verify"}, Readable(op),
         UNCHANGED <<stored, afterCrash>>
  PROVE  Store!Acknowledge(op.slot) \/ Store!Install(op.slot)
<1> USE DEF StoreInv, StorageInv, ParityInv
<1>1. /\ op.slot \in Slots /\ op.generation % 2 \in Copies /\ op.generation \in Generations
      /\ Target(op) = key_(op.slot, op.generation % 2)
  BY OpTypes DEF TypeOK, Ops, key_
<1> PICK s \in Slots, c \in Copies : s = op.slot /\ c = op.generation % 2
  BY <1>1
<1>2. stored[key_(s, c)] # Invalid /\ stored[key_(s, c)].generation = op.generation
  BY <1>1 DEF Readable
<1>3. /\ load_slot(s)' = stored[key_(s, c)].profile
      /\ stored[key_(s, c)].profile \in AllProfiles
      /\ \A t \in Slots \ {s} : load_slot(t)' = load_slot(t)
  BY <1>1, <1>2, AdoptShows DEF Finish
<1>4. \A t \in Slots : RestartProfiles(t)' = RestartProfiles(t)
  BY RestartSame
<1>5. CASE ~learned[s]
  <2>1. op.kind # "save"
    BY <1>5 DEF BootLeavesLearned, Writing
  <2>2. Filling = {s} /\ Filling' = {}
    BY <2>1, FillingEnds DEF Writing
  <2>3. QED
    BY <1>3, <1>4, <2>2 DEF Store!Install
<1>6. CASE learned[s]
  <2>1. op.kind = "save"
    BY <1>6, SlotAssumption
       DEF TargetIsOther, BootUnlearned, Booting, Writing, Slots, TypeOK
  <2>2. op.generation = generation[s] + 1
    BY <2>1 DEF SaveIsNext, Writing
  <2>3. key_(s, 1 - c) = ActiveKey(s)
    BY <1>6, GenerationAssumption
       DEF ActiveByParity, TargetIsOther, Writing, ActiveKey, key_, Copies, TypeOK, Generations
  <2>4. /\ stored[key_(s, 1 - c)] \in Records
        /\ stored[key_(s, 1 - c)].generation = generation[s]
    BY <1>6, <2>3, ShownIs DEF LearnedIsDurable
  <2>5. stored[key_(s, c)] \in Records
    BY <1>2 DEF TypeOK, key_, Key
  <2>6. WinnerAt(c, stored[key_(s, c)], stored[key_(s, 1 - c)]) = stored[key_(s, c)].profile
    <3>1. stored[key_(s, c)].generation > stored[key_(s, 1 - c)].generation
      BY <1>2, <2>2, <2>4, GenerationAssumption DEF TypeOK, Generations
    <3>2. /\ stored[key_(s, c)] \in MayBeRecord /\ stored[key_(s, 1 - c)] \in MayBeRecord
          /\ stored[key_(s, 1 - c)] # Invalid
      BY <2>4, <2>5, ConstantTypes DEF MayBeRecord
    <3>3. QED
      BY <1>2, <3>1, <3>2, WinnerIs
  <2>7. RestartProfiles(s) = {stored[key_(s, c)].profile}
    BY <2>6, SettledRestart DEF CommitSettles
  <2>8. Store!Acknowledge(s)
    <3>1. Filling = {} /\ Filling' = {}
      BY <2>1, FillingEnds DEF Writing
    <3>2. QED
      BY <1>3, <1>4, <2>7, <3>1 DEF Store!Acknowledge
  <2>9. QED
    BY <2>8
<1>7. QED
  BY <1>5, <1>6

\* A commit leaves each slot one of the outcomes that were possible.
LEMMA CommitSettlesAll ==
  ASSUME StoreInv, Commit
  PROVE  Store!Settle
<1> USE DEF StoreInv, StorageInv, ParityInv
<1>1. /\ UNCHANGED <<stored, ram>> /\ \A k \in Key : afterCrash'[k] = {stored[k]}
      /\ \A k \in Key : stored[k] \in afterCrash[k]
  BY DEF Commit, StoredMayStay
<1>2. \A s \in Slots : load_slot(s)' = load_slot(s)
  BY <1>1, ShownSame DEF ram
<1>3. \A s \in Slots : /\ RestartProfiles(s)' \subseteq RestartProfiles(s)
                       /\ RestartProfiles(s)' # {}
  BY <1>1 DEF RestartProfiles, key_, Key, Copies
<1>4. \A s \in Slots : RestartProfiles(s)' \in (SUBSET MayBeProfile) \ {{}}
  BY <1>3, RestartType
<1>5. Filling' = Filling
  BY FillingStays
<1>6. QED
  BY <1>2, <1>3, <1>4, <1>5 DEF Store!Settle, MayBeProfile

\* A power loss shows nothing until the next boot, which finds one of the profiles
\* that were possible.
LEMMA PowerLossLoses ==
  ASSUME StoreInv, PowerLoss
  PROVE  Store!PowerLoss
<1> USE DEF StoreInv, StorageInv, ParityInv
<1>1. PICK f \in [Key -> UNION {afterCrash[k] : k \in Key}] :
        /\ \A k \in Key : f[k] \in afterCrash[k]
        /\ stored' = f
        /\ afterCrash' = [k \in Key |-> {f[k]}]
  BY DEF PowerLoss
<1> DEFINE found == [s \in Slots |-> Winner(f[key_(s, 0)], f[key_(s, 1)])]
<1>2. \A s \in Slots, c \in Copies : key_(s, c) \in Key
  BY DEF key_, Key
<1>3. \A s \in Slots : /\ found[s] \in RestartProfiles(s)
                       /\ RestartProfiles(s)' = {found[s]}
  <2> SUFFICES ASSUME NEW s \in Slots
               PROVE  /\ found[s] \in RestartProfiles(s)
                      /\ RestartProfiles(s)' = {found[s]}
    OBVIOUS
  <2>1. \A c \in Copies : /\ f[key_(s, c)] \in afterCrash[key_(s, c)]
                          /\ afterCrash'[key_(s, c)] = {f[key_(s, c)]}
    BY <1>1, <1>2
  <2>2. RestartProfiles(s)' = {Winner(f[key_(s, 0)], f[key_(s, 1)])}
    BY <2>1 DEF RestartProfiles, key_, Copies
  <2>3. Winner(f[key_(s, 0)], f[key_(s, 1)]) \in RestartProfiles(s)
    BY <2>1 DEF RestartProfiles, Copies
  <2>4. QED
    BY <2>2, <2>3
<1>4. \A s \in Slots : found[s] \in MayBeProfile
  BY <1>3, RestartType
<1>5. found \in [Slots -> AllProfiles \cup {Invalid}]
  BY <1>4 DEF MayBeProfile
<1>6. \A s \in Slots : load_slot(s)' = Invalid
  BY DEF PowerLoss, load_slot
<1>7. Filling' = {}
  BY DEF PowerLoss, Filling, Booting, Writing
<1> HIDE DEF found
<1>8. QED
  BY <1>3, <1>5, <1>6, <1>7 DEF Store!PowerLoss

\* When a record that is not in use decays, what an abandoned write left is gone.
LEMMA RotDrops ==
  ASSUME ReliableFlash, StoreInv, NEW k \in Key, Rot(k)
  PROVE  \E s \in Slots : Store!Drop(s)
<1> USE DEF StoreInv, StorageInv, ParityInv
<1>1. /\ Spare(k)
      /\ stored' = [stored EXCEPT ![k] = Invalid]
      /\ afterCrash' = [afterCrash EXCEPT ![k] = {Invalid}]
      /\ UNCHANGED <<ram, pc, bootSlot, op>>
  BY OnlySparesRot
<1> PICK s \in Slots, c \in Copies : k = key_(s, c)
  BY DEF key_, Key
<1>2. learned[s] /\ ActiveKey(s) = key_(s, 1 - c)
  BY <1>1, GenerationAssumption
     DEF Spare, ActiveKey, ActiveByParity, key_, Copies, TypeOK, Generations
<1>3. \A t \in Slots : load_slot(t)' = load_slot(t)
  BY <1>1, ShownSame, ActiveKeyInKey DEF Spare, ActiveKey, key_, TypeOK
<1>4. \A t \in Slots \ {s} : RestartProfiles(t)' = RestartProfiles(t)
  BY <1>1, RestartSame DEF key_, TypeOK
<1>5. /\ load_slot(s) = stored[key_(s, 1 - c)].profile
      /\ stored[key_(s, 1 - c)] \in Records
      /\ load_slot(s) \in AllProfiles
      /\ afterCrash[key_(s, 1 - c)] = {stored[key_(s, 1 - c)]}
  BY <1>2, ShownIs DEF LearnedIsDurable
<1>6. /\ afterCrash'[key_(s, c)] = {Invalid}
      /\ afterCrash'[key_(s, 1 - c)] = {stored[key_(s, 1 - c)]}
  BY <1>1, <1>5 DEF TypeOK, key_, Key, Copies
<1>7. RestartProfiles(s)' = {load_slot(s)}
  <2> DEFINE r == stored[key_(s, 1 - c)]
  <2>1. r # Invalid /\ r \in MayBeRecord
    BY <1>5, ConstantTypes DEF MayBeRecord
  <2>2. WinnerAt(c, Invalid, r) = load_slot(s)
    BY <1>5, <2>1, WinnerIs DEF MayBeRecord
  <2> HIDE DEF r
  <2>3. CASE c = 0
    <3>1. afterCrash'[key_(s, 0)] = {Invalid} /\ afterCrash'[key_(s, 1)] = {r}
      BY <1>6, <2>3 DEF r
    <3>2. RestartProfiles(s)' = {Winner(Invalid, r)}
      BY <3>1 DEF RestartProfiles, key_
    <3>3. QED
      BY <2>2, <2>3, <3>2 DEF WinnerAt
  <2>4. CASE c = 1
    <3>1. afterCrash'[key_(s, 0)] = {r} /\ afterCrash'[key_(s, 1)] = {Invalid}
      BY <1>6, <2>4 DEF r
    <3>2. RestartProfiles(s)' = {Winner(r, Invalid)}
      BY <3>1 DEF RestartProfiles, key_
    <3>3. QED
      BY <2>2, <2>4, <3>2 DEF WinnerAt
  <2>5. QED
    BY <2>3, <2>4 DEF Copies
<1>8. Store!Drop(s)
  <2>1. Filling' = Filling
    BY FillingStays
  <2>2. QED
    BY <1>3, <1>4, <1>5, <1>7, <2>1, ProfilesAreReadable DEF Store!Drop
<1>9. QED
  BY <1>8

-----------------------------------------------------------------------------
(* The refinement. *)

\* An empty flash shows nothing and a restart would show nothing.
LEMMA InitImplements == Init => Store!Init
<1> SUFFICES ASSUME Init PROVE Store!Init
  OBVIOUS
<1>1. \A s \in Slots : load_slot(s) = Invalid
  BY DEF Init, load_slot
<1>2. \A s \in Slots : RestartProfiles(s) = {Winner(Invalid, Invalid)}
  <2>1. \A s \in Slots, c \in Copies : afterCrash[key_(s, c)] = {Invalid}
    BY DEF Init, key_, Key
  <2>2. QED
    BY <2>1 DEF RestartProfiles, Copies
<1>3. Winner(Invalid, Invalid) = Invalid
  BY DEF Winner, NewestCopy, NoCopy
<1>4. Filling = {}
  BY DEF Init, Filling, Booting, Writing
<1>5. QED
  BY <1>1, <1>2, <1>3, <1>4 DEF Store!Init

\* Every step of the storage is a step of the profile store or changes nothing of it.
LEMMA StepImplements ==
  ASSUME ReliableFlash, BootsReadRight, StoreInv, [Next]_vars
  PROVE  [Store!Next]_Store!vars
<1> USE DEF Store!Next
<1>1. CASE Scan
  <2>1. bootSlot \in Slots
    BY DEF StoreInv, StorageInv, ParityInv, TypeOK
  <2>2. QED
    BY <1>1, <2>1, ScanAcknowledges
<1>2. CASE SetBlob \/ SetBlobFails
  BY <1>2, WriteAttempts
<1>3. CASE Commit
  BY <1>3, CommitSettlesAll
<1>4. CASE Finish /\ pc \in {"adopt", "verify"} /\ Readable(op) /\ UNCHANGED <<stored, afterCrash>>
  <2>1. op.slot \in Slots
    BY DEF StoreInv, StorageInv, ParityInv, TypeOK, Ops
  <2>2. QED
    BY <1>4, <2>1, FinishShows
<1>5. CASE AdoptMigrated
  <2>1. Readable(op)
    BY <1>5 DEF AdoptMigrated, StoreInv, StorageInv, CommittedIsDurable
  <2>2. QED
    BY <1>4, <1>5, <2>1 DEF AdoptMigrated
<1>6. CASE GiveUp /\ pc \in Writing /\ UNCHANGED <<stored, afterCrash>>
  <2>1. op.slot \in Slots
    BY DEF StoreInv, StorageInv, ParityInv, TypeOK, Ops
  <2>2. QED
    BY <1>6, <2>1, GiveUpStutters
<1>7. CASE Verify \/ CommitFails
  BY <1>4, <1>6, <1>7 DEF Verify, CommitFails, Writing
<1>8. CASE PowerLoss
  BY <1>8, PowerLossLoses
<1>9. CASE \E k \in Key : Rot(k)
  BY <1>9, RotDrops
<1>10. CASE Boot \/ Migrate \/ MigrateNothing \/ Seed
            \/ (\E s \in Slots, p \in Profiles : Save(s, p)) \/ UNCHANGED vars
  <2>1. UNCHANGED <<stored, afterCrash, ram>>
    BY <1>10 DEF Boot, Migrate, MigrateNothing, Seed, Save, vars
  <2>2. Filling' = Filling
    BY <1>10, FillingStays DEF vars, Filling, Booting, Writing
  <2>3. QED
    BY <2>1, <2>2, StepStutters
<1>11. QED
  BY <1>1, <1>2, <1>3, <1>5, <1>7, <1>8, <1>9, <1>10, NextCases

\* The storage keeps the promise of the profile store, whatever calls into NVS fail
\* and wherever the power does: a slot shows one profile, a save is acknowledged only
\* once every restart shows the new one, and a restart brings back only a profile
\* that was shown or whose save was attempted.
THEOREM StorageImplementsStore ==
  ASSUME ReliableFlash, BootsReadRight
  PROVE  Spec => ImplementsProfileStore
<1>1. StoreInv /\ [Next]_vars => [Store!Next]_Store!vars
  BY StepImplements
<1>2. QED
  BY <1>1, InitImplements, StoreInvariant, PTL DEF Spec, ImplementsProfileStore, Store!Spec
=============================================================================
