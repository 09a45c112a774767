------------------------ MODULE StorageManager_proofs ------------------------
(***************************************************************************)
(* Proofs about StorageManager for every number of slots, profiles, V1     *)
(* records and faults, and for every width of the generation counter.      *)
(***************************************************************************)
EXTENDS StorageManager, TLAPS

\* Every action of the module, as one disjunction for the case splits below.
LEMMA NextCases ==
  ASSUME Next
  PROVE  \/ Boot \/ Scan \/ Migrate \/ MigrateNothing \/ Seed
         \/ SetBlob \/ SetBlobFails \/ Commit \/ CommitFails
         \/ AdoptMigrated \/ Verify \/ PowerLoss
         \/ \E s \in Slots, p \in Profiles : Save(s, p)
         \/ \E k \in Key : Rot(k)
BY DEF Next, StorageStep

\* What the choice between two copies returns: a readable one, or none when
\* neither is readable.
LEMMA NewestCopyReadable ==
  ASSUME NEW r0, NEW r1
  PROVE  /\ NewestCopy(r0, r1) \in Copies \cup {NoCopy}
         /\ NewestCopy(r0, r1) = 0 => r0 # Invalid
         /\ NewestCopy(r0, r1) = 1 => r1 # Invalid
BY DEF NewestCopy, Copies, NoCopy

\* What the constants stand for has the types the code gives it.
LEMMA ConstantTypes ==
  /\ Invalid \notin Records
  /\ LegacyRecords \subseteq Records
  /\ 1 \in Generations
  /\ 0 \in Generations
  /\ 0 \in Slots
  /\ Factory \in AllProfiles
  /\ \A g \in Generations : Successor(g) \in Generations
BY SlotAssumption, InvalidAssumption, LegacyAssumption, GenerationAssumption
   DEF Records, Generations, Slots, AllProfiles, Successor

\* uint32_t addition changes the parity of a generation, even when it wraps.
LEMMA SuccessorParity ==
  ASSUME NEW g \in Generations
  PROVE  Successor(g) % 2 # g % 2
<1>1. CASE g = GenModulus - 1
  BY <1>1, GenerationAssumption DEF Successor, Generations
<1>2. CASE g # GenModulus - 1
  BY <1>2, GenerationAssumption DEF Successor, Generations
<1> QED BY <1>1, <1>2

\* A write's key, record and the generation a save would use are well typed.
LEMMA OpTypes ==
  ASSUME TypeOK
  PROVE  /\ Target(op) \in Key
         /\ Target(op) = <<op.slot, op.generation % 2>>
         /\ op.generation % 2 \in Copies
         /\ NewRecord(op) \in Records
         /\ NoOp \in Ops
         /\ \A s \in Slots : next_generation(s) \in Generations
<1>1. /\ op.slot \in Slots
      /\ op.generation \in Generations
      /\ op.profile \in AllProfiles
  BY DEF TypeOK, Ops
<1>2. op.generation % 2 \in Copies
  BY <1>1, GenerationAssumption DEF Generations, Copies
<1>3. NewRecord(op) \in Records
  BY <1>1 DEF NewRecord, Records
<1>4. NoOp \in Ops
  BY ConstantTypes DEF NoOp, Ops
<1>5. \A s \in Slots : next_generation(s) \in Generations
  BY ConstantTypes DEF next_generation, TypeOK
<1> QED BY <1>1, <1>2, <1>3, <1>4, <1>5 DEF Target, key_, Key

\* Before the first boot everything is typed.
LEMMA TypeInit == Init => TypeOK
BY ConstantTypes, FaultAssumption
   DEF Init, TypeOK, NoOp, Ops, Copies, NoCopy, Key

\* Giving up and finishing a write keep the types of what they set.
LEMMA TypeEndOfWrite ==
  ASSUME TypeOK, GiveUp \/ Finish
  PROVE  /\ learned' \in [Slots -> BOOLEAN]
         /\ active_copy' \in [Slots -> Copies \cup {NoCopy}]
         /\ generation' \in [Slots -> Generations]
         /\ pc' \in {"scan", "seed", "idle", "failed"}
         /\ bootSlot' \in Slots
         /\ op' = NoOp
         /\ op' \in Ops
<1>1. op.slot \in Slots /\ op.generation \in Generations
  BY DEF TypeOK, Ops
<1>2. CASE GiveUp
  BY <1>2, OpTypes DEF GiveUp, TypeOK, ram
<1>3. CASE Finish
  <2>1. op' = NoOp /\ op' \in Ops
    BY <1>3, OpTypes DEF Finish
  <2>2. /\ learned' \in [Slots -> BOOLEAN]
        /\ active_copy' \in [Slots -> Copies \cup {NoCopy}]
        /\ generation' \in [Slots -> Generations]
    BY <1>1, <1>3, OpTypes DEF Finish, Adopt, TypeOK
  <2>3. pc' \in {"scan", "idle"} /\ bootSlot' \in Slots
    BY <1>3, SlotAssumption DEF Finish, NextSlot, TypeOK, Slots
  <2> QED BY <2>1, <2>2, <2>3
<1> QED BY <1>2, <1>3

\* Faults are counted within their bound.
LEMMA FaultType ==
  ASSUME TypeOK, NEW kind, Fault(kind)
  PROVE  faults' \in 0 .. MaxFaults
BY FaultAssumption DEF Fault, TypeOK

\* A migration writes a V1 copy that loaded.
LEMMA MigrateCases ==
  ASSUME TypeOK, Migrate
  PROVE  /\ \E r \in LegacyRecords : StartWrite("migrate", bootSlot, r.profile, r.generation)
         /\ faults' \in 0 .. MaxFaults
         /\ UNCHANGED <<stored, afterCrash, legacy, ram, bootSlot>>
<1>1. PICK lost \in {{}, {0}, {1}} :
        LET winner == NewestCopy(LegacySeen(lost, 0), LegacySeen(lost, 1))
        IN /\ winner # NoCopy
           /\ LegacyLoads(lost)
           /\ StartWrite("migrate", bootSlot, LegacySeen(lost, winner).profile,
                         LegacySeen(lost, winner).generation)
  BY DEF Migrate
<1> DEFINE winner == NewestCopy(LegacySeen(lost, 0), LegacySeen(lost, 1))
           r == LegacySeen(lost, winner)
<1>2. winner \in Copies
  BY <1>1, NewestCopyReadable
<1>3. r # Invalid
  BY <1>2, NewestCopyReadable DEF Copies
<1>4. r \in LegacyRecords
  BY <1>2, <1>3 DEF LegacySeen, TypeOK, key_, Key
<1>5. faults' \in 0 .. MaxFaults
  BY <1>1, FaultType DEF LegacyLoads, TypeOK
<1> HIDE DEF winner
<1>6. QED
  BY <1>1, <1>4, <1>5 DEF Migrate, winner

\* Every step keeps the types.
LEMMA TypeStep ==
  ASSUME TypeOK, [Next]_vars
  PROVE  TypeOK'
<1> USE DEF TypeOK
<1>1. CASE Boot
  BY <1>1, ConstantTypes DEF Boot, ram
<1>2. CASE Scan
  <2>1. PICK lost \in {{}, {0}, {1}} :
          /\ IF lost = {} THEN UNCHANGED faults ELSE Fault("read")
          /\ LET seen(c) == IF c \in lost THEN Invalid
                            ELSE stored[key_(bootSlot, c)]
                 winner == NewestCopy(seen(0), seen(1))
             IN IF winner = NoCopy
                THEN pc' = "migrate" /\ UNCHANGED <<ram, bootSlot>>
                ELSE /\ Adopt(bootSlot, winner, seen(winner).generation)
                     /\ NextSlot
    BY <1>2 DEF Scan
  <2> DEFINE seen(c) == IF c \in lost THEN Invalid ELSE stored[key_(bootSlot, c)]
             winner == NewestCopy(seen(0), seen(1))
  <2>2. faults' \in 0 .. MaxFaults
    BY <2>1, FaultType
  <2>3. UNCHANGED <<stored, afterCrash, legacy, op>>
    BY <1>2 DEF Scan
  <2>4. CASE winner = NoCopy
    BY <2>1, <2>2, <2>3, <2>4 DEF ram
  <2>5. CASE winner # NoCopy
    <3>1. winner \in Copies /\ seen(winner) \in Records
      <4>1. winner \in Copies
        BY <2>5, NewestCopyReadable
      <4>2. \A c \in Copies : seen(c) \in Records \cup {Invalid}
        BY DEF key_, Key
      <4>3. seen(winner) # Invalid
        BY <4>1, NewestCopyReadable DEF Copies
      <4> QED BY <4>1, <4>2, <4>3
    <3>2. seen(winner).generation \in Generations
      BY <3>1 DEF Records
    <3>3. Adopt(bootSlot, winner, seen(winner).generation) /\ NextSlot
      BY <2>1, <2>5
    <3>4. pc' \in {"scan", "idle"} /\ bootSlot' \in Slots
      BY <3>3, SlotAssumption DEF NextSlot, Slots
    <3> HIDE DEF winner, seen
    <3> QED BY <2>2, <2>3, <3>1, <3>2, <3>3, <3>4 DEF Adopt
  <2> QED BY <2>4, <2>5
<1>3. CASE Migrate
  <2>1. PICK r \in LegacyRecords : StartWrite("migrate", bootSlot, r.profile, r.generation)
    BY <1>3, MigrateCases
  <2>2. r.profile \in AllProfiles /\ r.generation \in Generations
    BY ConstantTypes DEF Records
  <2>3. op' \in Ops /\ pc' = "set"
    BY <2>1, <2>2 DEF StartWrite, Ops
  <2> QED BY <1>3, <2>3, MigrateCases DEF ram
<1>4. CASE MigrateNothing
  BY <1>4, FaultType DEF MigrateNothing, LegacyLoads, ram
<1>5. CASE Seed
  <2>1. op' \in Ops /\ pc' = "set"
    BY <1>5, OpTypes, ConstantTypes DEF Seed, StartWrite, Ops
  <2> QED BY <1>5, <2>1 DEF Seed, ram
<1>6. CASE SetBlob
  <2>1. stored' \in [Key -> Records \cup {Invalid}]
    BY <1>6, OpTypes DEF SetBlob
  <2>2. afterCrash' \in [Key -> SUBSET (Records \cup {Invalid})]
    BY <1>6, OpTypes DEF SetBlob
  <2>3. faults' \in 0 .. MaxFaults
    BY <1>6, FaultType DEF SetBlob
  <2> QED BY <1>6, <2>1, <2>2, <2>3 DEF SetBlob, ram
<1>7. CASE SetBlobFails
  <2>1. stored' \in [Key -> Records \cup {Invalid}]
    BY <1>7, OpTypes DEF SetBlobFails
  <2>2. afterCrash' \in [Key -> SUBSET (Records \cup {Invalid})]
    BY <1>7, OpTypes DEF SetBlobFails
  <2> QED BY <1>7, <2>1, <2>2, TypeEndOfWrite DEF SetBlobFails
<1>8. CASE Commit
  <2>1. afterCrash' \in [Key -> SUBSET (Records \cup {Invalid})]
    BY <1>8 DEF Commit
  <2> QED BY <1>8, <2>1 DEF Commit, ram
<1>9. CASE CommitFails
  BY <1>9, TypeEndOfWrite DEF CommitFails
<1>10. CASE AdoptMigrated
  BY <1>10, TypeEndOfWrite DEF AdoptMigrated
<1>11. CASE Verify
  <2>1. faults' \in 0 .. MaxFaults
    BY <1>11, FaultType DEF Verify
  <2>2. GiveUp \/ Finish
    BY <1>11 DEF Verify
  <2> QED BY <1>11, <2>1, <2>2, TypeEndOfWrite DEF Verify
<1>12. CASE PowerLoss
  <2>1. PICK f \in [Key -> UNION {afterCrash[k] : k \in Key}] :
          /\ \A k \in Key : f[k] \in afterCrash[k]
          /\ stored' = f
          /\ afterCrash' = [k \in Key |-> {f[k]}]
    BY <1>12 DEF PowerLoss
  <2>2. \A k \in Key : f[k] \in Records \cup {Invalid}
    BY <2>1
  <2>3. /\ stored' \in [Key -> Records \cup {Invalid}]
        /\ afterCrash' \in [Key -> SUBSET (Records \cup {Invalid})]
    BY <2>1, <2>2
  <2> QED BY <1>12, <2>3, ConstantTypes, OpTypes DEF PowerLoss
<1>13. CASE \E s \in Slots, p \in Profiles : Save(s, p)
  <2>1. PICK s \in Slots, p \in Profiles : Save(s, p)
    BY <1>13
  <2>2. op' \in Ops /\ pc' = "set"
    BY <2>1, OpTypes DEF Save, StartWrite, Ops, AllProfiles
  <2> QED BY <2>1, <2>2 DEF Save, ram
<1>14. CASE \E k \in Key : Rot(k)
  <2>1. PICK k \in Key : Rot(k)
    BY <1>14
  <2>2. faults' \in 0 .. MaxFaults
    BY <2>1, FaultType DEF Rot
  <2> QED BY <2>1, <2>2 DEF Rot, ram
<1>15. CASE UNCHANGED vars
  BY <1>15 DEF vars, ram
<1> QED
  BY <1>1, <1>2, <1>3, <1>4, <1>5, <1>6, <1>7, <1>8, <1>9, <1>10, <1>11,
     <1>12, <1>13, <1>14, <1>15, NextCases

\* Types, for every number of slots and whatever faults happen.
THEOREM TypeCorrect == Spec => []TypeOK
<1>1. Init => TypeOK
  BY TypeInit
<1>2. TypeOK /\ [Next]_vars => TypeOK'
  BY TypeStep
<1> QED BY <1>1, <1>2, PTL DEF Spec

-----------------------------------------------------------------------------
\* A write's record belongs to the copy it is written to.
LEMMA NewRecordParity ==
  /\ NewRecord(op).generation % 2 = op.generation % 2
  /\ Target(op)[2] = op.generation % 2
BY DEF NewRecord, Target, key_

\* Before the first boot no generation is stored anywhere.
LEMMA ParityInit == Init => ParityInv
<1> SUFFICES ASSUME Init PROVE ParityInv
  OBVIOUS
<1>1. TypeOK
  BY TypeInit
<1>2. CopiesByParity
  BY DEF Init, CopiesByParity, key_, Key
<1>3. ActiveByParity /\ TargetIsOther /\ BootUnlearned
  BY DEF Init, ActiveByParity, TargetIsOther, BootUnlearned, Booting, Writing
<1> QED BY <1>1, <1>2, <1>3 DEF ParityInv

\* Flash: every step leaves a copy with records of its parity.
LEMMA ParityFlashStep ==
  ASSUME ParityInv, [Next]_vars
  PROVE  CopiesByParity'
<1> USE DEF ParityInv
<1>1. CASE SetBlob \/ SetBlobFails
  <2> SUFFICES ASSUME NEW s \in Slots, NEW c \in Copies,
                      NEW r \in afterCrash'[key_(s, c)] \cup {stored'[key_(s, c)]},
                      r # Invalid
               PROVE  r.generation % 2 = c
    BY DEF CopiesByParity
  <2> DEFINE k == key_(s, c)
  <2>1. k \in Key /\ k[2] = c
    BY DEF key_, Key
  <2>2. CASE k # Target(op)
    <3>1. stored'[k] = stored[k] /\ afterCrash'[k] = afterCrash[k]
      BY <1>1, <2>1, <2>2 DEF SetBlob, SetBlobFails, TypeOK
    <3> QED BY <3>1 DEF CopiesByParity
  <2>3. CASE k = Target(op)
    <3>1. stored'[k] \in {stored[k], NewRecord(op), Invalid}
      BY <1>1, <2>1, <2>3 DEF SetBlob, SetBlobFails, TypeOK
    <3>2. afterCrash'[k] = afterCrash[k] \cup {NewRecord(op), Invalid}
      BY <1>1, <2>1, <2>3 DEF SetBlob, SetBlobFails, TypeOK
    <3>3. r \in afterCrash[k] \cup {stored[k]} \/ r = NewRecord(op)
      BY <3>1, <3>2
    <3>4. NewRecord(op).generation % 2 = c
      BY <2>1, <2>3, NewRecordParity
    <3> QED BY <3>3, <3>4 DEF CopiesByParity
  <2> QED BY <2>2, <2>3
<1>2. CASE Commit
  <2>1. \A s \in Slots, c \in Copies :
          /\ stored'[key_(s, c)] = stored[key_(s, c)]
          /\ afterCrash'[key_(s, c)] = {stored[key_(s, c)]}
    BY <1>2 DEF Commit, key_, Key
  <2> QED BY <2>1 DEF CopiesByParity
<1>3. CASE PowerLoss
  <2>1. \A s \in Slots, c \in Copies :
          /\ stored'[key_(s, c)] \in afterCrash[key_(s, c)]
          /\ afterCrash'[key_(s, c)] = {stored'[key_(s, c)]}
    BY <1>3 DEF PowerLoss, key_, Key
  <2> QED BY <2>1 DEF CopiesByParity
<1>4. CASE \E k \in Key : Rot(k)
  <2>1. PICK k \in Key : Rot(k)
    BY <1>4
  <2>2. \A s \in Slots, c \in Copies :
          \/ /\ stored'[key_(s, c)] = stored[key_(s, c)]
             /\ afterCrash'[key_(s, c)] = afterCrash[key_(s, c)]
          \/ /\ stored'[key_(s, c)] = Invalid
             /\ afterCrash'[key_(s, c)] = {Invalid}
    BY <2>1 DEF Rot, TypeOK, key_, Key
  <2> QED BY <2>2 DEF CopiesByParity
<1>5. CASE UNCHANGED <<stored, afterCrash>>
  BY <1>5 DEF CopiesByParity
<1>6. \/ SetBlob \/ SetBlobFails \/ Commit \/ PowerLoss
      \/ (\E k \in Key : Rot(k)) \/ UNCHANGED <<stored, afterCrash>>
  <2>1. CASE \E s \in Slots, p \in Profiles : Save(s, p)
    BY <2>1 DEF Save
  <2>2. CASE UNCHANGED vars
    BY <2>2 DEF vars
  <2>3. CASE Boot \/ Scan \/ Migrate \/ MigrateNothing \/ Seed \/ CommitFails
             \/ AdoptMigrated \/ Verify
    BY <2>3 DEF Boot, Scan, Migrate, MigrateNothing, Seed, CommitFails,
                AdoptMigrated, Verify
  <2> QED BY <2>1, <2>2, <2>3, NextCases
<1> QED BY <1>1, <1>2, <1>3, <1>4, <1>5, <1>6

\* Scanning adopts a readable copy, at the slot setup() is at.
LEMMA ScanCases ==
  ASSUME TypeOK, Scan
  PROVE  \/ /\ pc' = "migrate"
            /\ UNCHANGED <<ram, bootSlot>>
         \/ \E c \in Copies :
              /\ stored[key_(bootSlot, c)] # Invalid
              /\ Adopt(bootSlot, c, stored[key_(bootSlot, c)].generation)
              /\ NextSlot
<1>1. PICK lost \in {{}, {0}, {1}} :
        LET seen(c) == IF c \in lost THEN Invalid ELSE stored[key_(bootSlot, c)]
            winner == NewestCopy(seen(0), seen(1))
        IN IF winner = NoCopy
           THEN pc' = "migrate" /\ UNCHANGED <<ram, bootSlot>>
           ELSE /\ Adopt(bootSlot, winner, seen(winner).generation)
                /\ NextSlot
  BY DEF Scan
<1> DEFINE seen(c) == IF c \in lost THEN Invalid ELSE stored[key_(bootSlot, c)]
           winner == NewestCopy(seen(0), seen(1))
<1>2. CASE winner = NoCopy
  BY <1>1, <1>2
<1>3. CASE winner # NoCopy
  <2>1. winner \in Copies
    BY <1>3, NewestCopyReadable
  <2>2. seen(winner) # Invalid
    BY <2>1, NewestCopyReadable DEF Copies
  <2>3. seen(winner) = stored[key_(bootSlot, winner)]
    BY <2>2
  <2>4. Adopt(bootSlot, winner, seen(winner).generation) /\ NextSlot
    BY <1>1, <1>3
  <2> HIDE DEF winner, seen
  <2> QED BY <2>1, <2>2, <2>3, <2>4
<1> QED BY <1>2, <1>3

\* RAM points at the copy of its generation's parity.
LEMMA ParityRamStep ==
  ASSUME ParityInv, [Next]_vars
  PROVE  ActiveByParity'
<1> USE DEF ParityInv
<1>1. CASE UNCHANGED ram
  BY <1>1 DEF ActiveByParity, ram
<1>2. CASE Scan
  <2>1. CASE UNCHANGED ram
    BY <2>1, <1>1
  <2>2. ASSUME NEW c \in Copies,
               stored[key_(bootSlot, c)] # Invalid,
               Adopt(bootSlot, c, stored[key_(bootSlot, c)].generation)
        PROVE  ActiveByParity'
    <3>1. stored[key_(bootSlot, c)].generation % 2 = c
      BY <2>2 DEF CopiesByParity, TypeOK
    <3> QED BY <2>2, <3>1 DEF Adopt, ActiveByParity, TypeOK
  <2> QED BY <1>2, <2>1, <2>2, ScanCases
<1>3. CASE Finish
  <2>1. op.slot \in Slots
    BY DEF TypeOK, Ops
  <2> QED BY <1>3, <2>1 DEF Finish, Adopt, ActiveByParity, TypeOK
<1>4. CASE PowerLoss
  BY <1>4 DEF PowerLoss, ActiveByParity
<1>5. UNCHANGED ram \/ Scan \/ Finish \/ PowerLoss
  <2>1. CASE \E s \in Slots, p \in Profiles : Save(s, p)
    BY <2>1 DEF Save
  <2>2. CASE \E k \in Key : Rot(k)
    BY <2>2 DEF Rot
  <2>3. CASE UNCHANGED vars
    BY <2>3 DEF vars
  <2>4. CASE Boot \/ Migrate \/ MigrateNothing \/ Seed \/ SetBlob \/ SetBlobFails
             \/ Commit \/ CommitFails \/ AdoptMigrated \/ Verify
    BY <2>4 DEF Boot, Migrate, MigrateNothing, Seed, SetBlob, SetBlobFails,
                Commit, CommitFails, AdoptMigrated, Verify, GiveUp
  <2> QED BY <2>1, <2>2, <2>3, <2>4, NextCases
<1> QED BY <1>1, <1>2, <1>3, <1>4, <1>5

\* The main task: what a write targets and which slots have a profile yet.
LEMMA ParityTaskStep ==
  ASSUME ParityInv, [Next]_vars
  PROVE  TargetIsOther' /\ BootUnlearned'
<1> USE DEF ParityInv
<1> USE DEF TargetIsOther, BootUnlearned, Booting, Writing
<1>0. bootSlot \in Slots /\ bootSlot \in Nat /\ op.slot \in Slots
  BY SlotAssumption DEF TypeOK, Ops, Slots
<1>1. CASE Boot
  BY <1>1, SlotAssumption DEF Boot, ram, Slots
<1>2. CASE Scan
  <2>1. CASE pc' = "migrate" /\ UNCHANGED <<ram, bootSlot>>
    BY <1>2, <2>1 DEF Scan, ram
  <2>2. ASSUME NEW c \in Copies, NEW g, Adopt(bootSlot, c, g), NextSlot
        PROVE  TargetIsOther' /\ BootUnlearned'
    <3>1. CASE pc' = "idle"
      BY <3>1
    <3>2. CASE pc' = "scan" /\ bootSlot' = bootSlot + 1
      <4>1. \A s \in Slots : s >= bootSlot' => s # bootSlot /\ s >= bootSlot
        BY <1>0, <3>2 DEF Slots
      <4> QED BY <1>2, <2>2, <3>2, <4>1 DEF Adopt, Scan, TypeOK
    <3> QED BY <2>2, <3>1, <3>2 DEF NextSlot
  <2> QED BY <1>2, <2>1, <2>2, ScanCases
<1>3. CASE Migrate \/ Seed
  <2>1. /\ pc' = "set"
        /\ op'.kind \in {"migrate", "seed"}
        /\ op'.slot = bootSlot
        /\ UNCHANGED <<ram, bootSlot>>
    BY <1>3 DEF Migrate, Seed, StartWrite
  <2>2. \A s \in Slots : s >= bootSlot => ~learned[s]
    BY <1>3 DEF Migrate, Seed
  <2>3. ~learned[bootSlot]
    BY <1>0, <2>2
  <2> QED BY <2>1, <2>2, <2>3 DEF ram
<1>4. CASE MigrateNothing
  BY <1>4 DEF MigrateNothing, ram
<1>5. CASE SetBlob \/ Commit
  BY <1>5 DEF SetBlob, Commit, ram
<1>6. CASE GiveUp /\ pc \in {"set", "commit", "verify"}
  BY <1>6 DEF GiveUp, ram
<1>7. CASE Finish /\ pc \in {"adopt", "verify"}
  <2>1. CASE pc' = "idle"
    BY <2>1
  <2>2. CASE NextSlot /\ op.kind # "save"
    <3>1. CASE pc' = "scan" /\ bootSlot' = bootSlot + 1
      <4>1. op.slot = bootSlot /\ \A s \in Slots : s >= bootSlot => ~learned[s]
        BY <1>7, <2>2
      <4>2. \A s \in Slots : s >= bootSlot' => s # bootSlot /\ s >= bootSlot
        BY <1>0, <3>1 DEF Slots
      <4> QED BY <1>7, <3>1, <4>1, <4>2 DEF Finish, Adopt, TypeOK
    <3> QED BY <2>1, <2>2, <3>1 DEF NextSlot
  <2> QED BY <1>7, <2>1, <2>2 DEF Finish
<1>8. CASE PowerLoss
  BY <1>8 DEF PowerLoss
<1>9. CASE \E s \in Slots, p \in Profiles : Save(s, p)
  <2>1. PICK s \in Slots, p \in Profiles : Save(s, p)
    BY <1>9
  <2>2. /\ pc' = "set"
        /\ op'.kind = "save"
        /\ op'.slot = s
        /\ op'.generation = next_generation(s)
        /\ UNCHANGED <<ram, bootSlot>>
    BY <2>1 DEF Save, StartWrite
  <2>3. generation[s] \in Generations
    BY DEF TypeOK
  <2>4. learned[s] => op'.generation % 2 # generation[s] % 2
    BY <2>2, <2>3, SuccessorParity DEF next_generation
  <2> QED BY <2>2, <2>4 DEF ram
<1>10. CASE UNCHANGED <<ram, pc, bootSlot, op>>
  BY <1>10 DEF ram
<1>11. \/ Boot \/ Scan \/ Migrate \/ Seed \/ MigrateNothing \/ SetBlob \/ Commit
       \/ (GiveUp /\ pc \in {"set", "commit", "verify"})
       \/ (Finish /\ pc \in {"adopt", "verify"})
       \/ PowerLoss \/ (\E s \in Slots, p \in Profiles : Save(s, p))
       \/ UNCHANGED <<ram, pc, bootSlot, op>>
  <2>1. CASE SetBlobFails \/ CommitFails \/ AdoptMigrated \/ Verify
    BY <2>1 DEF SetBlobFails, CommitFails, AdoptMigrated, Verify
  <2>2. CASE \E k \in Key : Rot(k)
    BY <2>2 DEF Rot
  <2>3. CASE UNCHANGED vars
    BY <2>3 DEF vars
  <2> QED BY <2>1, <2>2, <2>3, NextCases
<1> QED
  BY <1>1, <1>2, <1>3, <1>4, <1>5, <1>6, <1>7, <1>8, <1>9, <1>10, <1>11

\* Every step keeps generations and copies in agreement.
LEMMA ParityStep == ParityInv /\ [Next]_vars => ParityInv'
BY TypeStep, ParityFlashStep, ParityRamStep, ParityTaskStep DEF ParityInv

\* Whatever faults happen, generations and copies agree in parity and the
\* write in progress never targets the active copy.
THEOREM ParityInvariant == Spec => []ParityInv
<1>1. Init => ParityInv
  BY ParityInit
<1>2. ParityInv /\ [Next]_vars => ParityInv'
  BY ParityStep
<1> QED BY <1>1, <1>2, PTL DEF Spec

-----------------------------------------------------------------------------
\* The key a write targets is not the key of any profile in use.
LEMMA TargetNotActive ==
  ASSUME ParityInv, pc \in Writing, NEW s \in Slots, learned[s]
  PROVE  ActiveKey(s) # Target(op)
<1>1. CASE s = op.slot
  <2>1. active_copy[s] = generation[s] % 2
    BY DEF ParityInv, ActiveByParity
  <2>2. op.generation % 2 # generation[s] % 2
    BY <1>1 DEF ParityInv, TargetIsOther
  <2> QED BY <2>1, <2>2 DEF ActiveKey, Target, key_
<1>2. CASE s # op.slot
  BY <1>2 DEF ActiveKey, Target, key_
<1> QED BY <1>1, <1>2

\* The active copy of a slot in use is one of its two records.
LEMMA ActiveKeyInKey ==
  ASSUME ParityInv, NEW s \in Slots, learned[s]
  PROVE  ActiveKey(s) \in Key
<1>1. generation[s] % 2 \in Copies
  BY GenerationAssumption DEF ParityInv, TypeOK, Generations, Copies
<1> QED BY <1>1 DEF ParityInv, ActiveByParity, ActiveKey, key_, Key

\* No step of a write changes the record of a profile in use, whatever faults
\* happen and however often the generation counter wraps.
THEOREM ActiveCopyUntouched == Spec => NeverWritesActiveCopy
<1>1. ParityInv /\ [Next]_vars =>
        [\A s \in Slots :
           pc \in {"set", "commit", "adopt", "verify"} /\ pc' \notin {pc, "off"} /\ learned[s]
           => stored'[ActiveKey(s)] = stored[ActiveKey(s)]]_vars
  <2> SUFFICES ASSUME ParityInv, [Next]_vars, NEW s \in Slots,
                      pc \in Writing, pc' \notin {pc, "off"}, learned[s]
               PROVE  stored'[ActiveKey(s)] = stored[ActiveKey(s)]
    BY DEF Writing
  <2>1. CASE SetBlob \/ SetBlobFails
    BY <2>1, TargetNotActive, ActiveKeyInKey
       DEF SetBlob, SetBlobFails, ParityInv, TypeOK
  <2>2. CASE Commit \/ CommitFails \/ AdoptMigrated \/ Verify
    BY <2>2 DEF Commit, CommitFails, AdoptMigrated, Verify
  <2>3. SetBlob \/ SetBlobFails \/ Commit \/ CommitFails \/ AdoptMigrated \/ Verify
    <3>1. CASE Boot \/ Scan \/ Migrate \/ MigrateNothing \/ Seed
      BY <3>1 DEF Boot, Scan, Migrate, MigrateNothing, Seed, Writing
    <3>2. CASE PowerLoss
      BY <3>2 DEF PowerLoss
    <3>3. CASE \E t \in Slots, p \in Profiles : Save(t, p)
      BY <3>3 DEF Save, Writing
    <3>4. CASE \E k \in Key : Rot(k)
      BY <3>4 DEF Rot
    <3>5. CASE UNCHANGED vars
      BY <3>5 DEF vars
    <3> QED BY <3>1, <3>2, <3>3, <3>4, <3>5, NextCases
  <2> QED BY <2>1, <2>2, <2>3
<1> QED BY <1>1, ParityInvariant, PTL DEF Spec, NeverWritesActiveCopy

-----------------------------------------------------------------------------
\* Before the first boot nothing is pending and no slot is in use.
LEMMA StorageInit == Init => StorageInv
<1> SUFFICES ASSUME Init PROVE StorageInv
  OBVIOUS
<1>1. BootSettled
  BY DEF Init, BootSettled, Settled, Booting, Writing, key_, Key
<1>2. CommittedIsDurable
  BY DEF Init, CommittedIsDurable, NoOp
<1>3. LearnedIsDurable
  BY DEF Init, LearnedIsDurable
<1> QED BY <1>1, <1>2, <1>3, ParityInit DEF StorageInv

\* A finished write: the record is readable, committed, and RAM points at it.
LEMMA FinishedIsDurable ==
  ASSUME StorageInv, Finish, Readable(op), pc \in {"adopt", "verify"},
         UNCHANGED <<stored, afterCrash>>
  PROVE  LearnedIsDurable'
<1> SUFFICES ASSUME NEW s \in Slots, learned'[s]
             PROVE  /\ stored[ActiveKey(s)'] # Invalid
                    /\ stored[ActiveKey(s)'].generation = generation'[s]
                    /\ afterCrash[ActiveKey(s)'] = {stored[ActiveKey(s)']}
  BY DEF LearnedIsDurable, ActiveKey, key_
<1>1. op.slot \in Slots
  BY DEF StorageInv, ParityInv, TypeOK, Ops
<1>2. CASE s = op.slot
  <2>1. ActiveKey(s)' = Target(op) /\ generation'[s] = op.generation
    BY <1>2 DEF Finish, Adopt, ActiveKey, Target, key_, StorageInv, ParityInv, TypeOK
  <2> QED BY <2>1 DEF Readable, StorageInv, CommittedIsDurable
<1>3. CASE s # op.slot
  <2>1. /\ ActiveKey(s)' = ActiveKey(s)
        /\ generation'[s] = generation[s]
        /\ learned[s]
    BY <1>3 DEF Finish, Adopt, ActiveKey, key_, StorageInv, ParityInv, TypeOK
  <2> QED BY <2>1 DEF StorageInv, LearnedIsDurable
<1> QED BY <1>2, <1>3

\* On reliable flash only a record that is not in use may decay.
LEMMA OnlySparesRot ==
  ASSUME ReliableFlash, NEW k \in Key, Rot(k)
  PROVE  /\ Spare(k)
         /\ stored' = [stored EXCEPT ![k] = Invalid]
         /\ afterCrash' = [afterCrash EXCEPT ![k] = {Invalid}]
         /\ UNCHANGED <<ram, pc, bootSlot, op>>
BY DEF Rot, Fault, ReliableFlash

\* Nothing else that touches the flash or RAM loses a learned record.
LEMMA LearnedStep ==
  ASSUME ReliableFlash, StorageInv, [Next]_vars
  PROVE  LearnedIsDurable'
<1> USE DEF StorageInv
<1>1. CASE UNCHANGED <<stored, afterCrash, ram>>
  BY <1>1 DEF LearnedIsDurable, ActiveKey, ram
<1>2. CASE Scan
  <2>1. CASE UNCHANGED <<ram, bootSlot>>
    BY <1>1, <1>2, <2>1 DEF Scan
  <2>2. ASSUME NEW c \in Copies,
               stored[key_(bootSlot, c)] # Invalid,
               Adopt(bootSlot, c, stored[key_(bootSlot, c)].generation)
        PROVE  LearnedIsDurable'
    <3> SUFFICES ASSUME NEW s \in Slots, learned'[s]
                 PROVE  /\ stored[ActiveKey(s)'] # Invalid
                        /\ stored[ActiveKey(s)'].generation = generation'[s]
                        /\ afterCrash[ActiveKey(s)'] = {stored[ActiveKey(s)']}
      BY <1>2 DEF Scan, LearnedIsDurable, ActiveKey, key_
    <3>1. CASE s = bootSlot
      <4>1. ActiveKey(s)' = key_(bootSlot, c)
            /\ generation'[s] = stored[key_(bootSlot, c)].generation
        BY <2>2, <3>1 DEF Adopt, ActiveKey, key_, ParityInv, TypeOK
      <4>2. s >= bootSlot
        BY <3>1, SlotAssumption DEF Slots
      <4>3. afterCrash[key_(bootSlot, c)] = {stored[key_(bootSlot, c)]}
        BY <1>2, <3>1, <4>2 DEF Scan, BootSettled, Settled
      <4> QED BY <2>2, <4>1, <4>3
    <3>2. CASE s # bootSlot
      <4>1. /\ ActiveKey(s)' = ActiveKey(s)
            /\ generation'[s] = generation[s]
            /\ learned[s]
        BY <2>2, <3>2 DEF Adopt, ActiveKey, key_, ParityInv, TypeOK
      <4> QED BY <4>1 DEF LearnedIsDurable
    <3> QED BY <3>1, <3>2
  <2> QED BY <1>2, <2>1, <2>2, ScanCases DEF ParityInv
<1>3. CASE (SetBlob \/ SetBlobFails) /\ UNCHANGED ram
  <2>1. pc \in Writing
    BY <1>3 DEF SetBlob, SetBlobFails, Writing
  <2>2. \A s \in Slots : learned[s] =>
          /\ stored'[ActiveKey(s)] = stored[ActiveKey(s)]
          /\ afterCrash'[ActiveKey(s)] = afterCrash[ActiveKey(s)]
    BY <1>3, <2>1, TargetNotActive, ActiveKeyInKey
       DEF SetBlob, SetBlobFails, ParityInv, TypeOK
  <2> QED BY <1>3, <2>2 DEF LearnedIsDurable, ActiveKey, ram
<1>4. CASE Commit
  <2>1. \A s \in Slots : learned[s] =>
          afterCrash'[ActiveKey(s)] = {stored[ActiveKey(s)]}
    BY <1>4, ActiveKeyInKey DEF Commit
  <2> QED BY <1>4, <2>1 DEF Commit, LearnedIsDurable, ActiveKey, ram
<1>5. CASE Finish /\ Readable(op) /\ pc \in {"adopt", "verify"}
             /\ UNCHANGED <<stored, afterCrash>>
  BY <1>5, FinishedIsDurable
<1>6. CASE PowerLoss
  BY <1>6 DEF PowerLoss, LearnedIsDurable
<1>7. \/ UNCHANGED <<stored, afterCrash, ram>>
      \/ Scan
      \/ (SetBlob \/ SetBlobFails) /\ UNCHANGED ram
      \/ Commit
      \/ /\ Finish /\ Readable(op) /\ pc \in {"adopt", "verify"}
         /\ UNCHANGED <<stored, afterCrash>>
      \/ PowerLoss
      \/ \E k \in Key : Rot(k)
  <2>1. CASE Boot \/ Migrate \/ MigrateNothing \/ Seed \/ SetBlob \/ SetBlobFails
             \/ CommitFails \/ Verify
    BY <2>1 DEF Boot, Migrate, MigrateNothing, Seed, SetBlob, SetBlobFails,
                CommitFails, Verify, GiveUp
  <2>2. CASE AdoptMigrated
    BY <2>2 DEF AdoptMigrated, CommittedIsDurable
  <2>3. CASE \E s \in Slots, p \in Profiles : Save(s, p)
    BY <2>3 DEF Save
  <2>5. CASE UNCHANGED vars
    BY <2>5 DEF vars
  <2> QED BY <2>1, <2>2, <2>3, <2>5, NextCases
<1>8. CASE \E k \in Key : Rot(k)
  <2>1. PICK k \in Key : Rot(k)
    BY <1>8
  <2>2. ASSUME NEW s \in Slots, learned[s]
        PROVE  /\ stored'[ActiveKey(s)] = stored[ActiveKey(s)]
               /\ afterCrash'[ActiveKey(s)] = afterCrash[ActiveKey(s)]
    <3>1. ActiveKey(s) # k
      BY <2>1, OnlySparesRot DEF Spare, ActiveKey, key_
    <3> QED BY <2>1, <2>2, <3>1, OnlySparesRot, ActiveKeyInKey DEF ParityInv, TypeOK
  <2> QED BY <2>1, <2>2, OnlySparesRot DEF LearnedIsDurable, ActiveKey, ram
<1> QED BY <1>1, <1>2, <1>3, <1>4, <1>5, <1>6, <1>7, <1>8

\* setup() leaves the slots it has not reached as the restart found them.
LEMMA BootSettledStep ==
  ASSUME ParityInv, BootSettled, [Next]_vars
  PROVE  BootSettled'
<1> USE DEF BootSettled, Booting, Writing
<1>0. bootSlot \in Slots /\ bootSlot \in Nat /\ Slots \subseteq Nat
  BY SlotAssumption DEF ParityInv, TypeOK, Slots
<1>1. \A s \in Slots : UNCHANGED <<stored, afterCrash>> => Settled(s)' = Settled(s)
  BY DEF Settled, key_
<1>2. CASE Boot
  BY <1>1, <1>2 DEF Boot
<1>3. CASE Scan
  <2>1. UNCHANGED <<stored, afterCrash>> /\ pc = "scan"
    BY <1>3 DEF Scan
  <2>2. CASE pc' = "migrate" /\ UNCHANGED bootSlot
    BY <1>0, <1>1, <2>1, <2>2
  <2>3. CASE NextSlot
    BY <1>0, <1>1, <2>1, <2>3, SlotAssumption DEF NextSlot, Slots
  <2> QED BY <1>3, <2>2, <2>3, ScanCases DEF ParityInv
<1>4. CASE Migrate \/ Seed \/ MigrateNothing
  BY <1>1, <1>4 DEF Migrate, Seed, MigrateNothing, StartWrite
<1>5. CASE SetBlob \/ SetBlobFails
  <2>1. op.kind # "save" => \A s \in Slots : s > bootSlot => Settled(s)'
    <3> SUFFICES ASSUME op.kind # "save", NEW s \in Slots, s > bootSlot, NEW c \in Copies
                 PROVE  afterCrash'[key_(s, c)] = {stored'[key_(s, c)]}
      BY DEF Settled, key_
    <3>1. op.slot = bootSlot /\ s # bootSlot
      BY <1>0, <1>5 DEF ParityInv, TargetIsOther, SetBlob, SetBlobFails
    <3>2. key_(s, c) # Target(op) /\ key_(s, c) \in Key
      BY <3>1 DEF key_, Target, Key
    <3>3. /\ stored'[key_(s, c)] = stored[key_(s, c)]
          /\ afterCrash'[key_(s, c)] = afterCrash[key_(s, c)]
      BY <1>5, <3>2 DEF SetBlob, SetBlobFails, ParityInv, TypeOK
    <3> QED BY <1>5, <3>3 DEF Settled, SetBlob, SetBlobFails
  <2>2. CASE SetBlob
    BY <2>1, <2>2 DEF SetBlob
  <2>3. CASE SetBlobFails
    BY <2>1, <2>3 DEF SetBlobFails, GiveUp
  <2> QED BY <1>5, <2>2, <2>3
<1>6. CASE Commit
  <2>1. \A s \in Slots : Settled(s)'
    BY <1>6 DEF Commit, Settled, key_, Key
  <2> QED BY <1>6, <2>1 DEF Commit
<1>7. CASE CommitFails
  BY <1>1, <1>7 DEF CommitFails, GiveUp
<1>8. CASE AdoptMigrated \/ Verify
  <2>1. UNCHANGED <<stored, afterCrash>>
    BY <1>8 DEF AdoptMigrated, Verify
  <2>2. CASE GiveUp /\ pc = "verify"
    BY <1>1, <2>1, <2>2 DEF GiveUp
  <2>3. CASE Finish /\ pc \in {"adopt", "verify"}
    <3>1. CASE pc' = "idle"
      BY <3>1
    <3>2. CASE op.kind # "save" /\ NextSlot
      BY <1>0, <1>1, <2>1, <2>3, <3>2, SlotAssumption DEF NextSlot, Slots
    <3> QED BY <2>3, <3>1, <3>2 DEF Finish
  <2> QED BY <1>8, <2>2, <2>3 DEF AdoptMigrated, Verify
<1>9. CASE PowerLoss
  <2>1. \A s \in Slots : Settled(s)'
    BY <1>9 DEF PowerLoss, Settled, key_, Key
  <2> QED BY <1>9, <2>1 DEF PowerLoss
<1>10. CASE \E s \in Slots, p \in Profiles : Save(s, p)
  <2>1. pc' = "set" /\ op'.kind = "save"
    BY <1>10 DEF Save, StartWrite
  <2> QED BY <2>1
<1>11. CASE \E k \in Key : Rot(k)
  <2>1. PICK k \in Key : Rot(k)
    BY <1>11
  <2>2. ASSUME NEW s \in Slots, Settled(s)
        PROVE  Settled(s)'
    BY <2>1, <2>2 DEF Rot, Settled, key_, Key, ParityInv, TypeOK
  <2> QED BY <2>1, <2>2 DEF Rot
<1>12. CASE UNCHANGED vars
  BY <1>1, <1>12 DEF vars
<1> QED
  BY <1>2, <1>3, <1>4, <1>5, <1>6, <1>7, <1>8, <1>9, <1>10, <1>11, <1>12,
     NextCases

\* A committed write is in the flash, and a migration writes what it says.
LEMMA CommittedStep ==
  ASSUME ReliableFlash, StorageInv, [Next]_vars
  PROVE  CommittedIsDurable'
<1> USE DEF StorageInv
<1>0. Target(op) \in Key /\ NewRecord(op) \in Records /\ NewRecord(op) # Invalid
  BY OpTypes, ConstantTypes DEF ParityInv
<1>1. CASE Migrate
  <2>1. LegacyRecords # {}
    BY <1>1, MigrateCases DEF ParityInv
  <2>2. pc' = "set"
    BY <1>1 DEF Migrate, StartWrite
  <2> QED BY <2>1, <2>2 DEF CommittedIsDurable
<1>2. CASE Seed \/ \E s \in Slots, p \in Profiles : Save(s, p)
  <2>1. pc' = "set" /\ op'.kind \in {"seed", "save"}
    BY <1>2 DEF Seed, Save, StartWrite
  <2> QED BY <2>1 DEF CommittedIsDurable
<1>3. CASE SetBlob
  <2>1. pc' = "commit" /\ op' = op
    BY <1>3 DEF SetBlob
  <2>2. op.kind = "migrate" => LegacyRecords # {}
    BY DEF CommittedIsDurable
  <2>3. op.kind = "migrate" => stored' = [stored EXCEPT ![Target(op)] = NewRecord(op)]
    BY <1>3, <2>2 DEF SetBlob, Fault, ReliableFlash
  <2>4. op.kind = "migrate" => Readable(op)'
    BY <1>0, <2>1, <2>3 DEF Readable, NewRecord, Target, ParityInv, TypeOK
  <2> QED BY <2>1, <2>2, <2>4 DEF CommittedIsDurable
<1>4. CASE Commit
  <2>1. /\ afterCrash'[Target(op)] = {stored[Target(op)]}
        /\ op' = op
        /\ stored' = stored
        /\ pc = "commit"
        /\ pc' = IF op.kind = "migrate" THEN "adopt" ELSE "verify"
    BY <1>0, <1>4 DEF Commit
  <2>2. Target(op)' = Target(op) /\ Readable(op)' = Readable(op)
    BY <2>1 DEF Target, Readable
  <2> QED BY <2>1, <2>2 DEF CommittedIsDurable
<1>5. CASE pc' \notin {"adopt", "verify", "commit"} /\ op'.kind \in {op.kind, "none"}
  BY <1>5 DEF CommittedIsDurable
<1>6. CASE UNCHANGED <<stored, afterCrash, pc, op>>
  BY <1>6 DEF CommittedIsDurable, Target, Readable
<1>7. CASE \E k \in Key : Rot(k)
  <2>1. PICK k \in Key : Rot(k)
    BY <1>7
  <2>2. Target(op)' = Target(op) /\ op' = op /\ pc' = pc
    BY <2>1, OnlySparesRot DEF Target
  <2>3. pc \in {"adopt", "verify"} => afterCrash'[Target(op)] = {stored'[Target(op)]}
    BY <1>0, <2>1, OnlySparesRot DEF CommittedIsDurable, ParityInv, TypeOK
  <2>4. pc \in {"commit", "adopt"} /\ op.kind = "migrate" => Target(op) # k
    BY <2>1, OnlySparesRot, OpTypes, SlotAssumption
       DEF Spare, Target, key_, ParityInv, TargetIsOther, BootUnlearned, Booting,
           Writing, TypeOK, Slots
  <2>5. pc \in {"commit", "adopt"} /\ op.kind = "migrate" => Readable(op)'
    BY <1>0, <2>1, <2>2, <2>4, OnlySparesRot
       DEF Readable, CommittedIsDurable, ParityInv, TypeOK
  <2> QED BY <2>2, <2>3, <2>5 DEF CommittedIsDurable
<1>8. \/ Migrate \/ Seed \/ (\E s \in Slots, p \in Profiles : Save(s, p))
      \/ SetBlob \/ Commit
      \/ pc' \notin {"adopt", "verify", "commit"} /\ op'.kind \in {op.kind, "none"}
      \/ UNCHANGED <<stored, afterCrash, pc, op>>
      \/ \E k \in Key : Rot(k)
  <2>1. CASE Boot \/ MigrateNothing
    BY <2>1 DEF Boot, MigrateNothing
  <2>2. CASE Scan
    BY <2>2, ScanCases DEF Scan, NextSlot, ParityInv
  <2>3. CASE SetBlobFails \/ CommitFails \/ AdoptMigrated \/ Verify
    <3>1. GiveUp \/ Finish
      BY <2>3 DEF SetBlobFails, CommitFails, AdoptMigrated, Verify
    <3> QED BY <3>1, TypeEndOfWrite DEF ParityInv, NoOp
  <2>4. CASE PowerLoss
    BY <2>4 DEF PowerLoss, NoOp
  <2>5. CASE UNCHANGED vars
    BY <2>5 DEF vars
  <2> QED BY <2>1, <2>2, <2>3, <2>4, <2>5, NextCases
<1> QED BY <1>1, <1>2, <1>3, <1>4, <1>5, <1>6, <1>7, <1>8

\* On flash that keeps what it was given, the inductive invariant holds.
THEOREM StorageInvariant ==
  ASSUME ReliableFlash
  PROVE  Spec => []StorageInv
<1>1. Init => StorageInv
  BY StorageInit
<1>2. StorageInv /\ [Next]_vars => StorageInv'
  BY ParityStep, LearnedStep, BootSettledStep, CommittedStep DEF StorageInv
<1> QED BY <1>1, <1>2, PTL DEF Spec

\* A learned slot survives every crash, every failed write of its own or of
\* another slot, and a restart of setup() at any point.
THEOREM LearnedSurvives ==
  ASSUME ReliableFlash
  PROVE  Spec => []LearnedIsDurable
<1>1. StorageInv => LearnedIsDurable
  BY DEF StorageInv
<1> QED BY <1>1, StorageInvariant, PTL

\* A generation in RAM changes only as a boot finds a slot, as a write ends or as
\* the power fails.
LEMMA GenerationChanges ==
  ASSUME StorageInv, [Next]_vars, NEW s \in Slots,
         learned[s], generation'[s] # generation[s], pc' # "off"
  PROVE  /\ Finish /\ s = op.slot
         /\ pc \in {"adopt", "verify"}
         /\ stored' = stored
<1> USE DEF StorageInv
<1>1. CASE Scan
  <2>1. s # bootSlot
    BY <1>1, SlotAssumption DEF Scan, ParityInv, BootUnlearned, TypeOK, Slots
  <2> QED BY <1>1, <2>1, ScanCases DEF Scan, Adopt, ram, ParityInv, TypeOK
<1>2. CASE Finish /\ pc \in {"adopt", "verify"} /\ stored' = stored
  BY <1>2 DEF Finish, Adopt, ParityInv, TypeOK
<1>3. CASE Boot \/ Migrate \/ MigrateNothing \/ Seed \/ SetBlob \/ SetBlobFails
           \/ Commit \/ CommitFails
  BY <1>3 DEF Boot, Migrate, MigrateNothing, Seed, SetBlob, SetBlobFails, Commit,
              CommitFails, GiveUp, ram
<1>4. CASE AdoptMigrated \/ Verify
  BY <1>2, <1>4 DEF AdoptMigrated, Verify, GiveUp, ram
<1>5. CASE PowerLoss
  BY <1>5 DEF PowerLoss
<1>6. CASE \E t \in Slots, p \in Profiles : Save(t, p)
  BY <1>6 DEF Save, ram
<1>7. CASE \E k \in Key : Rot(k)
  BY <1>7 DEF Rot, ram
<1>8. CASE UNCHANGED vars
  BY <1>8 DEF vars, ram
<1> QED BY <1>1, <1>3, <1>4, <1>5, <1>6, <1>7, <1>8, NextCases

\* The redundancy the two copies are for: at the moment a save is acknowledged
\* the profile it replaces is still in the other copy.
THEOREM PreviousIsKept ==
  ASSUME ReliableFlash
  PROVE  Spec => SaveKeepsPrevious
<1>1. StorageInv /\ [Next]_vars =>
        [\A s \in Slots :
           learned[s] /\ generation'[s] # generation[s] /\ pc' # "off" =>
             /\ stored'[ActiveKey(s)] # Invalid
             /\ stored'[ActiveKey(s)].generation = generation[s]
             /\ active_copy'[s] # active_copy[s]]_vars
  <2> SUFFICES ASSUME StorageInv, [Next]_vars, NEW s \in Slots,
                      learned[s], generation'[s] # generation[s], pc' # "off"
               PROVE  /\ stored'[ActiveKey(s)] # Invalid
                      /\ stored'[ActiveKey(s)].generation = generation[s]
                      /\ active_copy'[s] # active_copy[s]
    OBVIOUS
  <2>1. Finish /\ s = op.slot /\ pc \in Writing /\ stored' = stored
    BY GenerationChanges DEF Writing
  <2>2. active_copy'[s] = op.generation % 2
    BY <2>1 DEF Finish, Adopt, StorageInv, ParityInv, TypeOK
  <2>3. active_copy[s] = generation[s] % 2 /\ op.generation % 2 # generation[s] % 2
    BY <2>1 DEF StorageInv, ParityInv, ActiveByParity, TargetIsOther
  <2>4. stored[ActiveKey(s)] # Invalid /\ stored[ActiveKey(s)].generation = generation[s]
    BY DEF StorageInv, LearnedIsDurable
  <2> QED BY <2>1, <2>2, <2>3, <2>4
<1> QED BY <1>1, StorageInvariant, PTL DEF Spec, SaveKeepsPrevious
=============================================================================
