------------------------ MODULE StorageFaults_proofs ------------------------
(***************************************************************************)
(* Proof that one silent fault costs a slot one generation at most, and    *)
(* never its V1 profile: what the second copy, and a boot that writes a    *)
(* blank slot again, are good for.  Left out (OneFault, abandoned) are the *)
(* allocations and preference loads that fail where there is a V1 profile, *)
(* which lose it, and writes that were given up.                           *)
(***************************************************************************)
EXTENDS MCStorageFaults, StorageRefinement_proofs

\* There is one fault at most, and it counts.
LEMMA FaultsStep ==
  ASSUME OneFault, TypeOK, [Next]_vars
  PROVE  /\ faults \in {0, 1}
         /\ faults' = faults \/ (faults = 0 /\ faults' = 1)
<1>1. faults \in {0, 1}
  BY FaultAssumption DEF OneFault, TypeOK
<1>2. \A kind : Fault(kind) => faults = 0 /\ faults' = 1
  BY <1>1, FaultAssumption DEF OneFault, Fault
<1>3. faults' = faults \/ \E kind : Fault(kind)
  BY NextCases
     DEF Boot, Scan, Migrate, MigrateNothing, Seed, Save, SetBlob, SetBlobFails, Commit,
         CommitFails, AdoptMigrated, Verify, PowerLoss, Rot, vars, LegacyLoads
<1>4. QED
  BY <1>1, <1>2, <1>3

\* What setup() would write has a generation.
LEMMA BootGenerationType ==
  ASSUME TypeOK, NEW s \in Slots
  PROVE  BootGeneration(s) \in Nat /\ BootGeneration(s) \in Generations
<1>1. V1Copy(s) \in Copies \cup {NoCopy}
  BY NewestCopyReadable DEF V1Copy
<1>2. CASE V1Copy(s) = NoCopy
  BY <1>2, ConstantTypes DEF BootGeneration
<1>3. CASE V1Copy(s) \in Copies
  <2>1. legacy[key_(s, V1Copy(s))] # Invalid
    BY <1>3, NewestCopyReadable DEF V1Copy, Copies
  <2>2. legacy[key_(s, V1Copy(s))] \in LegacyRecords \cup {Invalid}
    BY <1>3 DEF TypeOK, key_, Key
  <2>3. legacy[key_(s, V1Copy(s))].generation \in Generations
    BY <2>1, <2>2, ConstantTypes DEF Records
  <2>4. QED
    BY <2>3, ConstantTypes, GenerationAssumption DEF BootGeneration, Generations
<1>4. QED
  BY <1>1, <1>2, <1>3

\* A record that a read returns is invalid or has a generation.
LEMMA StoredType ==
  ASSUME TypeOK, NEW s \in Slots, NEW c \in Copies
  PROVE  /\ key_(s, c) \in Key
         /\ stored[key_(s, c)] # Invalid => stored[key_(s, c)].generation \in Generations
<1>1. key_(s, c) \in Key
  BY DEF key_, Key
<1>2. QED
  BY <1>1 DEF TypeOK, Records

\* Generations are compared as numbers.
LEMMA GenerationsAreNumbers == Generations \subseteq Nat
BY GenerationAssumption DEF Generations

-----------------------------------------------------------------------------
(* What the history makes of a step. *)

\* A write that ends well turns RAM to the other copy, or to one at all.
LEMMA FinishMoves ==
  ASSUME FaultInv, Finish, pc \in Writing
  PROVE  /\ op.slot \in Slots /\ op.generation \in Generations
         /\ active_copy'[op.slot] # active_copy[op.slot]
         /\ op.kind # "none" /\ op' = NoOp /\ pc' # "off"
<1>1. op.slot \in Slots /\ op.generation \in Generations
  BY DEF FaultInv, ParityInv, TypeOK, Ops
<1>2. active_copy'[op.slot] = op.generation % 2
  BY <1>1 DEF Finish, Adopt, FaultInv, ParityInv, TypeOK
<1>3. active_copy'[op.slot] # active_copy[op.slot]
  <2>1. CASE learned[op.slot]
    BY <1>1, <1>2, <2>1 DEF FaultInv, ParityInv, ActiveByParity, TargetIsOther, Writing
  <2>2. CASE ~learned[op.slot]
    <3>1. active_copy[op.slot] = 255
      BY <1>1, <2>2 DEF FaultInv, ActiveIsKept, NoCopy
    <3>2. op.generation % 2 \in {0, 1}
      BY OpTypes DEF FaultInv, ParityInv, Copies
    <3>3. QED
      BY <1>2, <3>1, <3>2
  <2>3. QED
    BY <2>1, <2>2
<1>4. pc' # "off"
  BY DEF Finish, NextSlot
<1>5. op.kind # "none" /\ op' = NoOp
  BY DEF FaultInv, ParityInv, TargetIsOther, Writing, Finish
<1>6. QED
  BY <1>1, <1>3, <1>4, <1>5

\* It is acknowledged.
LEMMA Acknowledged ==
  ASSUME FaultInv, FaultNext, Finish, pc \in {"adopt", "verify"}
  PROVE  /\ acked'[op.slot] = IF op.generation > acked[op.slot]
                              THEN op.generation ELSE acked[op.slot]
         /\ \A s \in Slots : s # op.slot => acked'[s] = acked[s]
         /\ \A s \in Slots : ~abandoned'[s] =>
              \/ ~abandoned[s]
              \/ s = op.slot /\ op.kind = "save" /\ op.generation > acked[op.slot]
<1>1. Finished
  BY FinishMoves DEF Finished, Writing
<1>2. QED
  BY <1>1, FinishMoves
     DEF Writing, FaultNext, Follow, Newest, Dropped, FaultInv, HistoryTypeOK

\* Nothing else is.
LEMMA NotAcknowledged ==
  ASSUME FaultInv, FaultNext, ~(Finish /\ pc \in {"adopt", "verify"})
  PROVE  /\ acked' = acked
         /\ \A s \in Slots : ~abandoned'[s] => ~abandoned[s]
<1>1. ~Finished
  <2>1. SUFFICES ASSUME pc \in {"verify", "adopt"}, pc' # "off", active_copy' # active_copy
                 PROVE  FALSE
    BY DEF Finished
  <2>2. Next
    BY DEF FaultNext
  <2>3. CASE Boot \/ Scan \/ Migrate \/ MigrateNothing \/ Seed \/ SetBlob \/ SetBlobFails
             \/ Commit \/ CommitFails \/ PowerLoss
    BY <2>1, <2>3 DEF Boot, Scan, Migrate, MigrateNothing, Seed, SetBlob, SetBlobFails,
                      Commit, CommitFails, PowerLoss
  <2>4. CASE (\E s \in Slots, x \in Profiles : Save(s, x)) \/ \E k \in Key : Rot(k)
    BY <2>1, <2>4 DEF Save, Rot, ram
  <2>5. CASE AdoptMigrated \/ Verify
    BY <2>1, <2>5 DEF AdoptMigrated, Verify, GiveUp, ram
  <2>6. QED
    BY <2>2, <2>3, <2>4, <2>5, NextCases
<1>2. QED
  BY <1>1 DEF FaultNext, Follow, Newest, FaultInv, HistoryTypeOK

\* A write that is given up, or cut off by the power, is abandoned.
LEMMA WriteAbandoned ==
  ASSUME FaultInv, FaultNext, pc \in Writing, GiveUp \/ PowerLoss
  PROVE  op.slot \in Slots /\ abandoned'[op.slot]
<1>1. op.slot \in Slots
  BY DEF FaultInv, ParityInv, TypeOK, Ops
<1>2. op.kind # "none" /\ op'.kind = "none"
  BY DEF FaultInv, ParityInv, TargetIsOther, GiveUp, PowerLoss, NoOp
<1>3. ~Finished
  BY DEF Finished, GiveUp, PowerLoss, ram
<1>4. QED
  BY <1>1, <1>2, <1>3 DEF FaultNext, Follow, Newest, Dropped, FaultInv, HistoryTypeOK

-----------------------------------------------------------------------------
(* The parts of the invariant. *)

\* What is remembered stays typed.
LEMMA HistoryTypeStep ==
  ASSUME FaultInv, FaultNext
  PROVE  HistoryTypeOK'
<1>1. op.generation \in Generations
  BY DEF FaultInv, ParityInv, TypeOK, Ops
<1>2. QED
  BY <1>1 DEF FaultInv, HistoryTypeOK, FaultNext, Follow

\* The place for a migrated record is entered with one.
LEMMA AdoptStep ==
  ASSUME FaultInv, [Next]_vars
  PROVE  AdoptIsMigration'
<1> USE DEF FaultInv, AdoptIsMigration
<1>1. CASE Commit
  BY <1>1 DEF Commit
<1>2. CASE (\E k \in Key : Rot(k)) \/ UNCHANGED vars
  BY <1>2 DEF Rot, vars
<1>3. CASE pc' # "adopt"
  BY <1>3
<1>4. QED
  BY <1>1, <1>2, <1>3, NextCases
     DEF Boot, Scan, Migrate, MigrateNothing, Seed, Save, StartWrite, SetBlob,
         SetBlobFails, CommitFails, AdoptMigrated, Verify, GiveUp, Finish, NextSlot,
         PowerLoss

\* What was written is there when it is committed, adopted or verified.
LEMMA ThereStep ==
  ASSUME OneFault, FaultInv, [Next]_vars
  PROVE  WriteIsThere'
<1> USE DEF FaultInv, WriteIsThere
<1>0. faults \in {0, 1} /\ (faults' = faults \/ (faults = 0 /\ faults' = 1))
  BY FaultsStep DEF ParityInv
<1>1. CASE SetBlob
  <2>1. Target(op) \in Key /\ op' = op /\ Target(op)' = Target(op)
    BY <1>1, OpTypes DEF SetBlob, ParityInv, Target, key_
  <2>2. stored'[Target(op)] = NewRecord(op) \/ (stored'[Target(op)] = Invalid /\ Fault("badwrite"))
    BY <1>1, <2>1 DEF SetBlob, ParityInv, TypeOK
  <2>3. Fault("badwrite") => faults' > 0
    BY <1>0 DEF Fault
  <2>4. QED
    BY <2>1, <2>2, <2>3 DEF NewRecord
<1>2. CASE Commit
  BY <1>2 DEF Commit, Target, key_, NewRecord
<1>3. CASE \E k \in Key : Rot(k)
  <2>1. PICK k \in Key : Rot(k)
    BY <1>3
  <2>2. /\ Target(op) \in Key /\ op' = op /\ pc' = pc
        /\ stored' = [stored EXCEPT ![k] = Invalid]
        /\ faults' = faults + 1
    BY <2>1, OpTypes DEF Rot, Fault, ParityInv
  <2>3. stored'[Target(op)] = stored[Target(op)] \/ stored'[Target(op)] = Invalid
    BY <2>2 DEF ParityInv, TypeOK
  <2>4. faults' > 0
    BY <1>0, <2>2
  <2>5. QED
    BY <2>2, <2>3, <2>4 DEF Target, key_, NewRecord
<1>4. CASE UNCHANGED vars
  BY <1>4 DEF vars, Target, key_, NewRecord
<1>5. CASE pc' \notin {"commit", "adopt", "verify"}
  BY <1>5
<1>6. QED
  BY <1>1, <1>2, <1>3, <1>4, <1>5, NextCases
     DEF Boot, Scan, Migrate, MigrateNothing, Seed, Save, StartWrite, SetBlobFails,
         CommitFails, AdoptMigrated, Verify, GiveUp, Finish, NextSlot, PowerLoss

\* The record in use changes only by a fault.
LEMMA KeptStep ==
  ASSUME OneFault, FaultInv, [Next]_vars
  PROVE  ActiveIsKept'
<1> USE DEF FaultInv
<1>0. faults \in {0, 1} /\ (faults' = faults \/ (faults = 0 /\ faults' = 1))
  BY FaultsStep DEF ParityInv
<1>1. CASE UNCHANGED <<stored, afterCrash, ram>>
  BY <1>0, <1>1 DEF ActiveIsKept, ActiveKey, key_, ram
<1>2. CASE Scan
  <2>1. CASE UNCHANGED <<ram, bootSlot>>
    BY <1>1, <1>2, <2>1 DEF Scan
  <2>2. ASSUME NEW c \in Copies,
               stored[key_(bootSlot, c)] # Invalid,
               Adopt(bootSlot, c, stored[key_(bootSlot, c)].generation)
        PROVE  ActiveIsKept'
    <3>1. ASSUME NEW s \in Slots, s # bootSlot
          PROVE  /\ ActiveKey(s)' = ActiveKey(s) /\ active_copy'[s] = active_copy[s]
                 /\ generation'[s] = generation[s] /\ learned'[s] = learned[s]
      BY <2>2, <3>1 DEF Adopt, ActiveKey, key_, ParityInv, TypeOK
    <3>2. /\ active_copy'[bootSlot] = c
          /\ generation'[bootSlot] = stored[key_(bootSlot, c)].generation
          /\ learned'[bootSlot]
      BY <2>2 DEF Adopt, ActiveKey, key_, ParityInv, TypeOK
    <3>3. afterCrash[key_(bootSlot, c)] = {stored[key_(bootSlot, c)]}
      BY <1>2, SlotAssumption DEF Scan, BootSettled, Settled, ParityInv, TypeOK, Slots
    <3>4. UNCHANGED <<stored, afterCrash>>
      BY <1>2 DEF Scan
    <3>5. QED
      BY <1>0, <2>2, <3>1, <3>2, <3>3, <3>4 DEF ActiveIsKept, ActiveKey, key_
  <2>3. QED
    BY <1>2, <2>1, <2>2, ScanCases DEF ParityInv
<1>3. CASE (SetBlob \/ SetBlobFails) /\ UNCHANGED ram
  <2>1. pc \in Writing
    BY <1>3 DEF SetBlob, SetBlobFails, Writing
  <2>2. \A s \in Slots : learned[s] =>
          /\ stored'[ActiveKey(s)] = stored[ActiveKey(s)]
          /\ afterCrash'[ActiveKey(s)] = afterCrash[ActiveKey(s)]
    BY <1>3, <2>1, TargetNotActive, ActiveKeyInKey
       DEF SetBlob, SetBlobFails, ParityInv, TypeOK
  <2>3. QED
    BY <1>0, <1>3, <2>2 DEF ActiveIsKept, ActiveKey, key_, ram
<1>4. CASE Commit
  <2>1. \A s \in Slots : learned[s] =>
          afterCrash'[ActiveKey(s)] = {stored[ActiveKey(s)]}
    BY <1>4, ActiveKeyInKey DEF Commit
  <2>2. QED
    BY <1>0, <1>4, <2>1 DEF Commit, ActiveIsKept, ActiveKey, key_, ram
<1>5. CASE Finish /\ pc \in {"adopt", "verify"} /\ UNCHANGED <<stored, afterCrash>>
  <2>1. op.slot \in Slots
    BY DEF ParityInv, TypeOK, Ops
  <2>2. ASSUME NEW s \in Slots, s # op.slot
        PROVE  /\ active_copy'[s] = active_copy[s]
               /\ generation'[s] = generation[s] /\ learned'[s] = learned[s]
    BY <1>5, <2>2 DEF Finish, Adopt, ParityInv, TypeOK
  <2>3. /\ active_copy'[op.slot] = op.generation % 2
        /\ generation'[op.slot] = op.generation
        /\ learned'[op.slot]
    BY <1>5, <2>1 DEF Finish, Adopt, ParityInv, TypeOK
  <2>4. /\ afterCrash[Target(op)] = {stored[Target(op)]}
        /\ Target(op) = key_(op.slot, op.generation % 2)
    BY <1>5, <2>1, OpTypes DEF CommitSettles, Settled, Target, ParityInv
  <2>5. /\ stored[Target(op)] # Invalid => stored[Target(op)].generation = op.generation
        /\ stored[Target(op)] = Invalid => faults > 0
    BY <1>5, OpTypes, ConstantTypes DEF WriteIsThere, NewRecord, ParityInv
  <2>6. QED
    BY <1>0, <1>5, <2>1, <2>2, <2>3, <2>4, <2>5 DEF ActiveIsKept, ActiveKey, key_
<1>6. CASE PowerLoss
  BY <1>6 DEF PowerLoss, ActiveIsKept
<1>7. CASE \E k \in Key : Rot(k)
  <2>1. PICK k \in Key : Rot(k)
    BY <1>7
  <2>2. /\ stored' = [stored EXCEPT ![k] = Invalid]
        /\ afterCrash' = [afterCrash EXCEPT ![k] = {Invalid}]
        /\ faults' = faults + 1 /\ UNCHANGED ram
    BY <2>1 DEF Rot, Fault
  <2>3. faults' > 0
    BY <1>0, <2>2
  <2>4. ASSUME NEW s \in Slots, learned[s]
        PROVE  /\ afterCrash'[ActiveKey(s)] = {stored'[ActiveKey(s)]}
               /\ stored'[ActiveKey(s)] # Invalid =>
                    stored'[ActiveKey(s)].generation = generation[s]
    BY <2>2, <2>4, ActiveKeyInKey DEF ActiveIsKept, ParityInv, TypeOK
  <2>5. QED
    BY <2>2, <2>3, <2>4 DEF ActiveIsKept, ActiveKey, key_, ram
<1>8. QED
  <2>1. CASE Boot \/ Migrate \/ MigrateNothing \/ Seed \/ CommitFails
             \/ AdoptMigrated \/ Verify
    BY <1>1, <1>5, <2>1 DEF Boot, Migrate, MigrateNothing, Seed, CommitFails, AdoptMigrated,
                          Verify, GiveUp
  <2>2. CASE SetBlob \/ SetBlobFails
    BY <1>3, <2>2 DEF SetBlob, SetBlobFails, GiveUp
  <2>3. CASE \E s \in Slots, x \in Profiles : Save(s, x)
    BY <1>1, <2>3 DEF Save
  <2>4. CASE UNCHANGED vars
    BY <1>1, <2>4 DEF vars
  <2>5. QED
    BY <1>2, <1>4, <1>6, <1>7, <2>1, <2>2, <2>3, <2>4, NextCases
-----------------------------------------------------------------------------
(* What a slot can be recovered from. *)

\* No step writes the preferences of V1.
LEMMA LegacyStays ==
  ASSUME [Next]_vars
  PROVE  /\ legacy' = legacy
         /\ \A s \in Slots : BootGeneration(s)' = BootGeneration(s)
<1>1. legacy' = legacy
  BY NextCases
     DEF Boot, Scan, Migrate, MigrateNothing, Seed, Save, SetBlob, SetBlobFails, Commit,
         CommitFails, AdoptMigrated, Verify, PowerLoss, Rot, vars
<1>2. QED
  BY <1>1 DEF BootGeneration, V1Copy, key_

\* A slot whose records stay is as recoverable after a fault elsewhere.
LEMMA RecoverableStays ==
  ASSUME OneFault, FaultInv, [Next]_vars, NEW s \in Slots, Recoverable(s),
         acked'[s] = acked[s],
         \A c \in Copies : stored'[key_(s, c)] = stored[key_(s, c)]
  PROVE  Recoverable(s)'
<1>0. faults \in {0, 1} /\ (faults' = faults \/ (faults = 0 /\ faults' = 1))
  BY FaultsStep DEF FaultInv, ParityInv
<1>1. BootGeneration(s)' = BootGeneration(s) /\ BootGeneration(s) \in Nat
  BY LegacyStays, BootGenerationType DEF FaultInv, ParityInv
<1>2. acked[s] \in Nat
  BY GenerationsAreNumbers DEF FaultInv, HistoryTypeOK
<1>3. \A c \in Copies : stored[key_(s, c)] # Invalid => stored[key_(s, c)].generation \in Nat
  BY StoredType, GenerationsAreNumbers DEF FaultInv, ParityInv
<1>4. CASE faults' = faults
  BY <1>1, <1>4 DEF Recoverable, Copies, Holds, IsBlank, Restorable, Untouched
<1>5. CASE faults = 0 /\ faults' = 1
  BY <1>1, <1>2, <1>3, <1>5 DEF Recoverable, Copies, Holds, IsBlank, Restorable, Untouched
<1>6. QED
  BY <1>0, <1>4, <1>5
\* A slot whose fault it is has lost one copy and can be recovered from the other, or
\* is written again by setup().
LEMMA RecoverableRots ==
  ASSUME OneFault, FaultInv, NEW s \in Slots, NEW k \in Key, Rot(k), Recoverable(s),
         acked'[s] = acked[s]
  PROVE  Recoverable(s)'
<1>0. faults = 0 /\ faults' = 1 /\ [Next]_vars
  <2>1. Next
    BY DEF Next
  <2>2. faults' = faults + 1
    BY DEF Rot, Fault
  <2>3. QED
    BY <2>1, <2>2, FaultsStep DEF FaultInv, ParityInv
<1>1. BootGeneration(s)' = BootGeneration(s) /\ BootGeneration(s) \in Nat
  BY <1>0, LegacyStays, BootGenerationType DEF FaultInv, ParityInv
<1>2. acked[s] \in Nat
  BY GenerationsAreNumbers DEF FaultInv, HistoryTypeOK
<1>3. \A c \in Copies :
        /\ stored[key_(s, c)] # Invalid => stored[key_(s, c)].generation \in Nat
        /\ stored'[key_(s, c)] = IF key_(s, c) = k THEN Invalid ELSE stored[key_(s, c)]
  BY StoredType, GenerationsAreNumbers DEF FaultInv, ParityInv, Rot, TypeOK
<1>4. key_(s, 0) # key_(s, 1)
  BY DEF key_
<1>5. QED
  BY <1>0, <1>1, <1>2, <1>3, <1>4 DEF Recoverable, Copies, Holds, IsBlank, Restorable, Untouched

\* A scan takes the newest of the copies it sees; one that it does not see is its fault.
LEMMA ScanSees ==
  ASSUME OneFault, TypeOK, Scan
  PROVE  \E lost \in SUBSET Copies :
           /\ IF lost = {} THEN faults' = faults
              ELSE faults = 0 /\ faults' = 1 /\ \E d \in Copies : lost = {d}
           /\ \/ /\ pc' = "migrate" /\ UNCHANGED <<ram, bootSlot>>
                 /\ \A c \in Copies \ lost : IsBlank(bootSlot, c)
              \/ \E c \in Copies \ lost :
                   /\ ~IsBlank(bootSlot, c)
                   /\ \A d \in Copies \ lost : IsBlank(bootSlot, d) \/
                        stored[key_(bootSlot, d)].generation <= stored[key_(bootSlot, c)].generation
                   /\ Adopt(bootSlot, c, stored[key_(bootSlot, c)].generation)
                   /\ NextSlot
<1>1. PICK lost \in {{}, {0}, {1}} :
        /\ IF lost = {} THEN UNCHANGED faults ELSE Fault("read")
        /\ LET seen(c) == IF c \in lost THEN Invalid ELSE stored[key_(bootSlot, c)]
               winner == NewestCopy(seen(0), seen(1))
           IN IF winner = NoCopy
              THEN pc' = "migrate" /\ UNCHANGED <<ram, bootSlot>>
              ELSE /\ Adopt(bootSlot, winner, seen(winner).generation)
                   /\ NextSlot
  BY DEF Scan
<1> DEFINE seen(c) == IF c \in lost THEN Invalid ELSE stored[key_(bootSlot, c)]
           winner == NewestCopy(seen(0), seen(1))
<1>2. lost \in SUBSET Copies /\ (lost # {} => \E d \in Copies : lost = {d})
  BY DEF Copies
<1>3. IF lost = {} THEN faults' = faults ELSE faults = 0 /\ faults' = 1
  BY <1>1, FaultAssumption DEF Fault, OneFault, TypeOK
<1>4. \A c \in Copies : seen(c) # Invalid => c \notin lost /\ seen(c) = stored[key_(bootSlot, c)]
                                          /\ seen(c).generation \in Nat
  BY StoredType, GenerationsAreNumbers DEF TypeOK
<1>5. CASE winner = NoCopy
  <2>1. \A c \in Copies : seen(c) = Invalid
    BY <1>5, NoCopyIsInvalid DEF Copies
  <2>2. \A c \in Copies \ lost : IsBlank(bootSlot, c)
    BY <2>1 DEF IsBlank
  <2>3. QED
    BY <1>1, <1>2, <1>3, <1>5, <2>2
<1>6. CASE winner # NoCopy
  <2>1. winner \in Copies
    BY <1>6, NewestCopyReadable
  <2>2. seen(winner) # Invalid
    BY <2>1, NewestCopyReadable DEF Copies
  <2>3. \A d \in Copies : seen(d) = Invalid \/ seen(d).generation <= seen(winner).generation
    <3> HIDE DEF seen
    <3>1. QED
      BY <1>4, <1>6, <2>1, <2>2 DEF NewestCopy, Copies, NoCopy
  <2>4. Adopt(bootSlot, winner, seen(winner).generation) /\ NextSlot
    BY <1>1, <1>6
  <2>5. winner \in Copies \ lost /\ seen(winner) = stored[key_(bootSlot, winner)]
    BY <1>4, <2>1, <2>2
  <2>6. \A d \in Copies \ lost : seen(d) = stored[key_(bootSlot, d)]
    OBVIOUS
  <2> HIDE DEF seen, winner
  <2>7. QED
    BY <1>2, <1>3, <2>2, <2>3, <2>4, <2>5, <2>6 DEF IsBlank
<1>7. QED
  BY <1>5, <1>6
\* What ends a write, and what does not.
LEMMA EndCases ==
  ASSUME FaultInv, Next, pc \in Writing
  PROVE  \/ /\ Finish /\ pc \in {"adopt", "verify"} /\ UNCHANGED <<stored, afterCrash, faults>>
            /\ pc = "adopt" \/ Readable(op)
         \/ ~Finish /\ GiveUp
         \/ ~Finish /\ PowerLoss
         \/ ~Finish /\ op' = op /\ pc' \in Writing /\ UNCHANGED ram
<1>1. Finish => ~GiveUp
  BY FinishMoves DEF GiveUp, ram
<1>2. CASE AdoptMigrated \/ Verify
  BY <1>1, <1>2 DEF AdoptMigrated, Verify
<1>3. CASE SetBlob \/ Commit \/ \E k \in Key : Rot(k)
  BY <1>3 DEF SetBlob, Commit, Rot, Writing, Finish, NextSlot
<1>4. CASE SetBlobFails \/ CommitFails
  <2>1. GiveUp /\ op.kind # "none" /\ pc \in {"set", "commit"}
    BY <1>4 DEF SetBlobFails, CommitFails, FaultInv, ParityInv, TargetIsOther, Writing
  <2>2. QED
    BY <1>1, <2>1
<1>5. CASE PowerLoss
  BY <1>5 DEF PowerLoss, Finish, NextSlot
<1>6. CASE Boot \/ Scan \/ Migrate \/ MigrateNothing \/ Seed
           \/ \E s \in Slots, x \in Profiles : Save(s, x)
  BY <1>6 DEF Boot, Scan, Migrate, MigrateNothing, Seed, Save, Writing
<1>7. QED
  BY <1>2, <1>3, <1>4, <1>5, <1>6, NextCases

\* A save that ends has written the generation after the one in use.
LEMMA SaveEnds ==
  ASSUME FaultInv, Finish, pc \in {"adopt", "verify"}, Next, op.kind = "save"
  PROVE  /\ learned[op.slot] /\ op.generation = generation[op.slot] + 1
         /\ stored[Target(op)] # Invalid
         /\ stored[Target(op)].generation = op.generation
         /\ ActiveKey(op.slot) = key_(op.slot, active_copy[op.slot])
         /\ active_copy[op.slot] \in Copies
         /\ active_copy[op.slot] # op.generation % 2
<1>1. op.slot \in Slots /\ pc \in Writing
  BY DEF FaultInv, ParityInv, TypeOK, Ops, Writing
<1>2. learned[op.slot] /\ op.generation = generation[op.slot] + 1
  BY <1>1 DEF FaultInv, BootLeavesLearned, SaveIsNext
<1>3. pc = "verify"
  BY DEF FaultInv, AdoptIsMigration
<1>4. Readable(op)
  BY <1>1, <1>3, EndCases
<1>5. /\ active_copy[op.slot] = generation[op.slot] % 2
      /\ active_copy[op.slot] # op.generation % 2
  BY <1>1, <1>2 DEF FaultInv, ParityInv, ActiveByParity, TargetIsOther
<1>6. active_copy[op.slot] \in Copies
  BY <1>1, <1>5, GenerationAssumption DEF FaultInv, ParityInv, TypeOK, Generations, Copies
<1>7. QED
  BY <1>2, <1>4, <1>5, <1>6 DEF Readable, ActiveKey

\* A write that ends is one generation behind at most, and a save behind nothing.
LEMMA FinishAcked ==
  ASSUME OneFault, FaultInv, FaultNext, Finish, pc \in {"adopt", "verify"},
         ~abandoned'[op.slot]
  PROVE  /\ acked'[op.slot] \in Nat /\ acked'[op.slot] <= op.generation + faults
         /\ op.kind = "save" => acked'[op.slot] = op.generation
<1>0. /\ TypeOK /\ Next /\ faults \in {0, 1} /\ pc \in Writing
      /\ op.slot \in Slots /\ op.generation \in Nat /\ acked[op.slot] \in Nat
  BY FaultsStep, FinishMoves, GenerationsAreNumbers
     DEF FaultNext, FaultInv, ParityInv, HistoryTypeOK, Writing
<1>1. /\ acked'[op.slot] = IF op.generation > acked[op.slot]
                           THEN op.generation ELSE acked[op.slot]
      /\ ~abandoned[op.slot] \/ (op.kind = "save" /\ op.generation > acked[op.slot])
  BY <1>0, Acknowledged
<1>2. CASE op.kind = "save"
  <2>1. ~abandoned[op.slot] => acked[op.slot] <= op.generation
    <3>1. learned[op.slot] /\ op.generation = generation[op.slot] + 1
      BY <1>0, <1>2, SaveEnds
    <3>2. generation[op.slot] \in Nat
      BY <1>0, GenerationsAreNumbers DEF TypeOK
    <3>3. ~abandoned[op.slot] => generation[op.slot] + faults >= acked[op.slot]
      BY <1>0, <3>1 DEF FaultInv, RamIsRecent
    <3>4. QED
      BY <1>0, <3>1, <3>2, <3>3
  <2>2. QED
    BY <1>0, <1>1, <1>2, <2>1
<1>3. CASE op.kind # "save"
  <2>1. acked[op.slot] <= op.generation + faults
    BY <1>0, <1>1, <1>3 DEF FaultInv, BootWriteLosesLittle
  <2>2. QED
    BY <1>0, <1>1, <1>3, <2>1
<1>4. QED
  BY <1>2, <1>3

\* What RAM says stays recent.
LEMMA RamStep ==
  ASSUME OneFault, FaultInv, FaultNext
  PROVE  RamIsRecent'
<1> SUFFICES ASSUME NEW s \in Slots, learned'[s], ~abandoned'[s]
             PROVE  generation'[s] + faults' >= acked'[s]
  BY DEF RamIsRecent
<1>0. Next /\ TypeOK
  BY DEF FaultNext, FaultInv, ParityInv
<1>1. /\ faults \in {0, 1} /\ (faults' = faults \/ (faults = 0 /\ faults' = 1))
      /\ acked[s] \in Nat /\ generation[s] \in Nat
  BY <1>0, FaultsStep, GenerationsAreNumbers DEF FaultInv, HistoryTypeOK, TypeOK
<1>2. CASE UNCHANGED ram /\ ~(Finish /\ pc \in {"adopt", "verify"})
  BY <1>1, <1>2, NotAcknowledged DEF ram, FaultInv, RamIsRecent
<1>3. CASE Scan
  <2>1. acked' = acked /\ ~abandoned[s]
    BY <1>3, NotAcknowledged DEF Scan
  <2>2. PICK lost \in SUBSET Copies :
           /\ IF lost = {} THEN faults' = faults
              ELSE faults = 0 /\ faults' = 1 /\ \E d \in Copies : lost = {d}
           /\ \/ /\ pc' = "migrate" /\ UNCHANGED <<ram, bootSlot>>
                 /\ \A c \in Copies \ lost : IsBlank(bootSlot, c)
              \/ \E c \in Copies \ lost :
                   /\ ~IsBlank(bootSlot, c)
                   /\ \A d \in Copies \ lost : IsBlank(bootSlot, d) \/
                        stored[key_(bootSlot, d)].generation <= stored[key_(bootSlot, c)].generation
                   /\ Adopt(bootSlot, c, stored[key_(bootSlot, c)].generation)
                   /\ NextSlot
    BY <1>0, <1>3, ScanSees
  <2>3. CASE UNCHANGED ram
    BY <1>1, <2>1, <2>3 DEF ram, FaultInv, RamIsRecent
  <2>4. ASSUME NEW c \in Copies \ lost,
               ~IsBlank(bootSlot, c),
               \A d \in Copies \ lost : IsBlank(bootSlot, d) \/
                 stored[key_(bootSlot, d)].generation <= stored[key_(bootSlot, c)].generation,
               Adopt(bootSlot, c, stored[key_(bootSlot, c)].generation)
        PROVE  generation'[s] + faults' >= acked'[s]
    <3>1. CASE s # bootSlot
      <4>1. generation'[s] = generation[s] /\ learned'[s] = learned[s]
        BY <1>0, <2>4, <3>1 DEF Adopt, TypeOK
      <4>2. QED
        BY <1>1, <2>1, <4>1 DEF FaultInv, RamIsRecent
    <3>2. CASE s = bootSlot
      <4>1. generation'[s] = stored[key_(s, c)].generation
        BY <1>0, <2>4, <3>2 DEF Adopt, TypeOK
      <4>2. Recoverable(s)
        BY <1>3, <2>1 DEF FaultInv, FlashIsRecent, BeingWritten, Scan, Writing
      <4>3. \A d \in Copies : ~IsBlank(s, d) => stored[key_(s, d)].generation \in Nat
        BY <1>0, StoredType, GenerationsAreNumbers DEF IsBlank
      <4>4. CASE lost = {}
        BY <1>1, <2>1, <2>2, <2>4, <3>2, <4>1, <4>2, <4>3, <4>4
           DEF Recoverable, Untouched, Holds, IsBlank, Copies
      <4>5. CASE lost # {}
        <5>1. PICK d \in Copies : lost = {d} /\ faults = 0 /\ faults' = 1
          BY <2>2, <4>5
        <5>2. d = 1 - c
          BY <5>1 DEF Copies
        <5>3. Holds(s, c, acked[s]) \/ Holds(s, c, acked[s] - 1)
          BY <2>4, <3>2, <4>2, <5>1, <5>2 DEF Recoverable, Untouched, Copies
        <5>4. QED
          BY <1>1, <2>1, <2>4, <3>2, <4>1, <4>3, <5>1, <5>3 DEF Holds
      <4>6. QED
        BY <4>4, <4>5
    <3>3. QED
      BY <3>1, <3>2
  <2>5. QED
    BY <2>2, <2>3, <2>4 DEF ram
<1>4. CASE Finish /\ pc \in {"adopt", "verify"} /\ UNCHANGED faults
  <2>1. op.slot \in Slots /\ op.generation \in Nat /\ pc \in Writing
    BY <1>0, <1>4, GenerationsAreNumbers DEF TypeOK, Ops, Writing
  <2>2. CASE s # op.slot
    <3>1. generation'[s] = generation[s] /\ learned'[s] = learned[s]
      BY <1>0, <1>4, <2>2 DEF Finish, Adopt, TypeOK
    <3>2. acked'[s] = acked[s] /\ ~abandoned[s]
      BY <1>4, <2>2, Acknowledged
    <3>3. QED
      BY <1>1, <1>4, <3>1, <3>2 DEF FaultInv, RamIsRecent
  <2>3. CASE s = op.slot
    <3>1. generation'[s] = op.generation
      BY <1>0, <1>4, <2>3 DEF Finish, Adopt, TypeOK
    <3>2. acked'[s] \in Nat /\ acked'[s] <= op.generation + faults
      BY <1>1, <1>4, <2>1, <2>3, FinishAcked
    <3>3. faults' = faults
      BY <1>4
    <3>4. QED
      BY <1>1, <2>1, <3>1, <3>2, <3>3
  <2>4. QED
    BY <2>2, <2>3
<1>5. CASE PowerLoss
  BY <1>5 DEF PowerLoss
<1>6. QED
  <2>1. CASE pc \in Writing
    BY <1>0, <1>2, <1>4, <1>5, <2>1, EndCases DEF GiveUp
  <2>2. CASE pc \notin Writing
    <3>1. Scan \/ PowerLoss \/ UNCHANGED ram
      BY <1>0, <2>2, NextCases
         DEF Boot, Migrate, MigrateNothing, Seed, Save, SetBlob, SetBlobFails,
             Commit, CommitFails, AdoptMigrated, Verify, Rot, Writing
    <3>2. QED
      BY <1>2, <1>3, <1>5, <2>2, <3>1 DEF Writing
  <2>3. QED
    BY <2>1, <2>2
\* A slot that a write has just ended in can be recovered.
LEMMA FinishRecovers ==
  ASSUME OneFault, FaultInv, FaultNext, Finish, pc \in {"adopt", "verify"},
         UNCHANGED <<stored, afterCrash, faults>>,
         NEW s \in Slots, s = op.slot, ~abandoned'[s]
  PROVE  Settled(s)' /\ Recoverable(s)'
<1>0. TypeOK /\ Next /\ faults \in {0, 1} /\ pc \in Writing
  BY FaultsStep DEF FaultNext, FaultInv, ParityInv, Writing
<1>1. PICK e \in Copies : e = op.generation % 2
  BY <1>0, OpTypes
<1>2. Settled(s)'
  BY DEF FaultInv, CommitSettles, Settled, key_
<1>3. PICK g \in Nat : g = op.generation
  BY FinishMoves, GenerationsAreNumbers, <1>0
<1>4. /\ stored[key_(s, e)] # Invalid => stored[key_(s, e)].generation = g
      /\ stored[key_(s, e)] = Invalid => faults = 1
  BY <1>0, <1>1, <1>3, OpTypes, ConstantTypes DEF FaultInv, WriteIsThere, Target, NewRecord
<1>5. /\ BootGeneration(s)' = BootGeneration(s) /\ BootGeneration(s) \in Nat
      /\ acked[s] \in Nat
      /\ acked'[s] = IF g > acked[s] THEN g ELSE acked[s]
      /\ op.kind = "save" \/ ~abandoned[s]
      /\ op.kind = "save" => acked'[s] = g
  BY <1>0, <1>3, LegacyStays, BootGenerationType, Acknowledged, FinishAcked,
     GenerationsAreNumbers
     DEF FaultInv, HistoryTypeOK
<1>6. CASE op.kind = "save"
  <2>1. /\ stored[key_(s, e)] # Invalid
        /\ learned[s] /\ generation[s] = g - 1
        /\ active_copy[s] = 1 - e
    <3>1. generation[s] \in Nat
      BY <1>0, GenerationsAreNumbers DEF TypeOK
    <3>2. QED
      BY <1>0, <1>1, <1>3, <1>6, <3>1, SaveEnds DEF Target, Copies
  <2>2. /\ stored[key_(s, 1 - e)] # Invalid => stored[key_(s, 1 - e)].generation = g - 1
        /\ stored[key_(s, 1 - e)] = Invalid => faults > 0
    BY <2>1 DEF FaultInv, ActiveIsKept, ActiveKey
  <2>3. acked'[s] = g
    BY <1>5, <1>6
  <2>4. Recoverable(s)'
    BY <1>0, <1>1, <1>3, <1>4, <2>1, <2>2, <2>3 DEF Recoverable, Holds, Copies
  <2>5. QED
    BY <1>2, <2>4
<1>7. CASE op.kind # "save"
  <2>1. /\ acked[s] <= g + faults /\ g = BootGeneration(s)
        /\ faults = 0 => IsBlank(s, 1 - e)
        /\ stored[key_(s, e)] = Invalid =>
             acked[s] <= g /\ \A c \in Copies : IsBlank(s, c)
    <3>1. 1 - e \in Copies /\ 1 - e # e
      BY <1>1 DEF Copies
    <3>2. QED
      BY <1>0, <1>1, <1>3, <1>5, <1>7, <3>1 DEF FaultInv, BootWriteLosesLittle, Untouched, Target
  <2>2. CASE faults = 0
    <3>1. acked'[s] = g /\ Holds(s, e, g) /\ IsBlank(s, 1 - e)
      BY <1>3, <1>4, <1>5, <2>1, <2>2 DEF Holds
    <3>2. Restorable(s)'
      BY <1>3, <1>5, <2>1, <3>1 DEF Restorable
    <3>3. \E c \in Copies : Holds(s, c, g) /\ IsBlank(s, 1 - c)
      BY <1>1, <3>1
    <3>4. \E c \in Copies : /\ Holds(s, c, acked[s])'
                           /\ IsBlank(s, 1 - c)' /\ Restorable(s)'
      BY <3>1, <3>2, <3>3 DEF Holds, IsBlank, key_
    <3>5. Recoverable(s)'
      BY <2>2, <3>4 DEF Recoverable
    <3>6. QED
      BY <1>2, <3>5
  <2>3. CASE faults = 1 /\ stored[key_(s, e)] # Invalid
    <3>1. acked'[s] \in Nat /\ acked'[s] <= g + 1
      BY <1>3, <1>5, <2>1, <2>3
    <3>2. QED
      BY <1>1, <1>2, <1>3, <1>4, <2>3, <3>1 DEF Recoverable, Holds
  <2>4. CASE faults = 1 /\ stored[key_(s, e)] = Invalid
    <3>1. acked'[s] = g
      BY <1>3, <1>5, <2>1, <2>4
    <3>2. QED
      BY <1>2, <1>3, <1>5, <2>1, <2>4, <3>1 DEF Recoverable, IsBlank, Restorable, Untouched
  <2>5. QED
    BY <1>0, <2>2, <2>3, <2>4
<1>8. QED
  BY <1>6, <1>7

\* A slot that is not being written has not been written by the step, nor abandoned.
LEMMA UnwrittenBefore ==
  ASSUME FaultInv, FaultNext, ~(Finish /\ pc \in {"adopt", "verify"}),
         NEW s \in Slots, ~abandoned'[s], ~BeingWritten(s)'
  PROVE  ~abandoned[s] /\ ~BeingWritten(s) /\ acked'[s] = acked[s]
<1>1. ~abandoned[s] /\ acked'[s] = acked[s]
  BY NotAcknowledged
<1>2. ASSUME BeingWritten(s) PROVE FALSE
  <2>1. pc \in Writing /\ op.slot = s /\ Next
    BY <1>2 DEF BeingWritten, FaultNext
  <2>2. ~GiveUp /\ ~PowerLoss
    BY <2>1, WriteAbandoned
  <2>3. QED
    BY <2>1, <2>2, EndCases DEF BeingWritten
<1>3. QED
  BY <1>1, <1>2

\* A slot that is not written stays recoverable.
LEMMA FlashStep ==
  ASSUME OneFault, FaultInv, FaultNext
  PROVE  FlashIsRecent'
<1> SUFFICES ASSUME NEW s \in Slots, ~abandoned'[s], ~BeingWritten(s)'
             PROVE  Settled(s)' /\ Recoverable(s)'
  BY DEF FlashIsRecent
<1>0. TypeOK /\ Next
  BY DEF FaultNext, FaultInv, ParityInv
<1>1. CASE Finish /\ pc \in {"adopt", "verify"}
  <2>1. pc \in Writing /\ UNCHANGED <<stored, afterCrash, faults>>
    BY <1>0, <1>1, EndCases DEF Writing
  <2>2. CASE s = op.slot
    BY <1>1, <2>1, <2>2, FinishRecovers
  <2>3. CASE s # op.slot
    <3>1. ~abandoned[s] /\ acked'[s] = acked[s]
      BY <1>1, <2>3, Acknowledged
    <3>2. Settled(s) /\ Recoverable(s)
      BY <2>3, <3>1 DEF FaultInv, FlashIsRecent, BeingWritten
    <3>3. QED
      BY <1>0, <2>1, <3>1, <3>2, RecoverableStays DEF Settled, key_
  <2>4. QED
    BY <2>2, <2>3
<1>2. CASE ~(Finish /\ pc \in {"adopt", "verify"})
  <2>1. /\ ~abandoned[s] /\ ~BeingWritten(s) /\ acked'[s] = acked[s]
        /\ Settled(s) /\ Recoverable(s)
    BY <1>2, UnwrittenBefore DEF FaultInv, FlashIsRecent
  <2>2. CASE \A c \in Copies : /\ stored'[key_(s, c)] = stored[key_(s, c)]
                              /\ afterCrash'[key_(s, c)] = {stored[key_(s, c)]}
    BY <1>0, <2>1, <2>2, RecoverableStays DEF Settled, key_
  <2>3. CASE UNCHANGED <<stored, afterCrash>>
    BY <2>1, <2>2, <2>3 DEF Settled
  <2>4. CASE SetBlob \/ SetBlobFails
    <3>1. pc \in Writing /\ op.slot # s
      BY <2>1, <2>4 DEF BeingWritten, SetBlob, SetBlobFails, Writing
    <3>2. \A c \in Copies : key_(s, c) \in Key /\ key_(s, c) # Target(op)
      BY <3>1 DEF key_, Target, Key
    <3>3. QED
      BY <1>0, <2>1, <2>2, <2>4, <3>2 DEF SetBlob, SetBlobFails, TypeOK, Settled
  <2>5. CASE Commit
    BY <2>2, <2>5 DEF Commit, key_, Key
  <2>6. CASE PowerLoss
    <3>1. \A c \in Copies : key_(s, c) \in Key
      BY <1>0, StoredType
    <3>2. \A c \in Copies : /\ stored'[key_(s, c)] \in afterCrash[key_(s, c)]
                           /\ afterCrash'[key_(s, c)] = {stored'[key_(s, c)]}
      BY <2>6, <3>1 DEF PowerLoss
    <3>3. QED
      BY <2>1, <2>2, <3>2 DEF Settled
  <2>7. CASE \E k \in Key : Rot(k)
    <3>1. PICK k \in Key : Rot(k)
      BY <2>7
    <3>2. Recoverable(s)'
      BY <2>1, <3>1, RecoverableRots
    <3>3. Settled(s)'
      BY <1>0, <2>1, <3>1 DEF Rot, Settled, TypeOK, key_, Key
    <3>4. QED
      BY <3>2, <3>3
  <2>8. QED
    BY <1>0, <2>3, <2>4, <2>5, <2>6, <2>7, NextCases
       DEF Boot, Scan, Migrate, MigrateNothing, Seed, Save, CommitFails, AdoptMigrated, Verify
<1>3. QED
  BY <1>1, <1>2
\* A record as new as what setup() would write stays so.
LEMMA OldStays ==
  ASSUME FaultInv, FaultNext, NEW s \in Slots, NEW c \in Copies,
         IsBlank(s, c) \/ Holds(s, c, BootGeneration(s)),
         stored'[key_(s, c)] = stored[key_(s, c)] \/ stored'[key_(s, c)] = Invalid
  PROVE  IsBlank(s, c)' \/ Holds(s, c, BootGeneration(s))'
<1>1. BootGeneration(s)' = BootGeneration(s)
  BY LegacyStays DEF FaultNext
<1>2. QED
  BY <1>1 DEF IsBlank, Holds, key_

\* What ends a write leaves nothing older than what setup() would write.
LEMMA FinishNotOlder ==
  ASSUME OneFault, FaultInv, FaultNext, Finish, pc \in {"adopt", "verify"},
         ~abandoned'[op.slot]
  PROVE  /\ op.generation >= BootGeneration(op.slot)
         /\ \A c \in Copies : \/ IsBlank(op.slot, c)
                             \/ Holds(op.slot, c, BootGeneration(op.slot))
<1>0. /\ TypeOK /\ Next /\ pc \in Writing
      /\ op.slot \in Slots /\ op.generation \in Nat /\ acked[op.slot] \in Nat
      /\ generation[op.slot] \in Nat
      /\ BootGeneration(op.slot) \in Nat /\ acked[op.slot] >= BootGeneration(op.slot)
  BY FinishMoves, BootGenerationType, GenerationsAreNumbers
     DEF FaultNext, FaultInv, ParityInv, TypeOK, HistoryTypeOK, NothingOlder, Writing
<1>1. CASE ~abandoned[op.slot]
  <2>1. op.generation >= BootGeneration(op.slot)
    <3>1. CASE op.kind = "save"
      <4>1. learned[op.slot] /\ op.generation = generation[op.slot] + 1
        BY <1>0, <3>1, SaveEnds
      <4>2. generation[op.slot] >= BootGeneration(op.slot)
        BY <1>0, <1>1, <4>1 DEF FaultInv, NothingOlder
      <4>3. QED
        BY <1>0, <4>1, <4>2
    <3>2. CASE op.kind # "save"
      BY <1>0, <1>1, <3>2 DEF FaultInv, BootWriteLosesLittle
    <3>3. QED
      BY <3>1, <3>2
  <2>2. QED
    BY <1>0, <1>1, <2>1 DEF FaultInv, NothingOlder
<1>2. CASE abandoned[op.slot]
  <2>1. op.kind = "save" /\ op.generation > acked[op.slot]
    BY <1>0, <1>2, Acknowledged
  <2>2. PICK e \in Copies : e = op.generation % 2 /\ Target(op) = key_(op.slot, e)
    BY <1>0, OpTypes DEF Target, key_
  <2>3. /\ learned[op.slot] /\ op.generation = generation[op.slot] + 1
        /\ stored[key_(op.slot, e)].generation = op.generation
        /\ ActiveKey(op.slot) = key_(op.slot, 1 - e)
    BY <1>0, <2>1, <2>2, SaveEnds DEF Copies
  <2>4. Holds(op.slot, e, BootGeneration(op.slot)) \/ IsBlank(op.slot, e)
    BY <1>0, <2>1, <2>3 DEF Holds, IsBlank
  <2>5. Holds(op.slot, 1 - e, BootGeneration(op.slot)) \/ IsBlank(op.slot, 1 - e)
    <3>1. stored[key_(op.slot, 1 - e)] # Invalid =>
            stored[key_(op.slot, 1 - e)].generation = generation[op.slot]
      BY <1>0, <2>3 DEF FaultInv, ActiveIsKept
    <3>2. generation[op.slot] >= BootGeneration(op.slot)
      BY <1>0, <2>1, <2>3
    <3>3. QED
      BY <3>1, <3>2 DEF Holds, IsBlank
  <2>6. \A c \in Copies : c = e \/ c = 1 - e
    BY DEF Copies
  <2>7. QED
    BY <1>0, <2>1, <2>4, <2>5, <2>6
<1>3. QED
  BY <1>1, <1>2

\* What is written to a slot of which no write was abandoned is no older.
LEMMA WritesNotOlder ==
  ASSUME FaultInv, pc \in Writing, ~abandoned[op.slot]
  PROVE  op.generation >= BootGeneration(op.slot)
<1>0. /\ op.slot \in Slots /\ generation[op.slot] \in Nat
      /\ BootGeneration(op.slot) \in Nat
  BY BootGenerationType, GenerationsAreNumbers DEF FaultInv, ParityInv, TypeOK, Ops
<1>1. CASE op.kind = "save"
  <2>1. learned[op.slot] /\ op.generation = generation[op.slot] + 1
    BY <1>0, <1>1 DEF FaultInv, BootLeavesLearned, SaveIsNext
  <2>2. QED
    BY <1>0, <2>1 DEF FaultInv, NothingOlder
<1>2. CASE op.kind # "save"
  BY <1>0, <1>2 DEF FaultInv, BootWriteLosesLittle
<1>3. QED
  BY <1>1, <1>2

\* No step brings back anything older than what setup() would write.
LEMMA OlderStep ==
  ASSUME OneFault, FaultInv, FaultNext
  PROVE  NothingOlder'
<1> SUFFICES ASSUME NEW s \in Slots
             PROVE  /\ acked'[s] >= BootGeneration(s)'
                    /\ ~abandoned'[s] =>
                         /\ learned'[s] => generation'[s] >= BootGeneration(s)'
                         /\ \A c \in Copies : \/ IsBlank(s, c)'
                                             \/ Holds(s, c, BootGeneration(s))'
  BY DEF NothingOlder
<1>0. /\ TypeOK /\ Next /\ acked[s] \in Nat
      /\ BootGeneration(s) \in Nat /\ acked[s] >= BootGeneration(s)
      /\ BootGeneration(s)' = BootGeneration(s)
  BY BootGenerationType, LegacyStays, GenerationsAreNumbers
     DEF FaultNext, FaultInv, ParityInv, HistoryTypeOK, NothingOlder
<1>1. CASE Finish /\ pc \in {"adopt", "verify"}
  <2>1. /\ op.slot \in Slots /\ op.generation \in Nat
        /\ UNCHANGED <<stored, afterCrash, faults>>
    BY <1>0, <1>1, EndCases, FinishMoves, GenerationsAreNumbers DEF Writing
  <2>2. CASE s = op.slot
    <3>1. acked'[s] >= BootGeneration(s)
      BY <1>0, <1>1, <2>1, <2>2, Acknowledged
    <3>2. generation'[s] = op.generation
      BY <1>0, <1>1, <2>2 DEF Finish, Adopt, TypeOK
    <3>3. ASSUME ~abandoned'[s]
          PROVE  /\ op.generation >= BootGeneration(s)
                 /\ \A c \in Copies : IsBlank(s, c) \/ Holds(s, c, BootGeneration(s))
      BY <1>1, <2>2, <3>3, FinishNotOlder
    <3>4. ASSUME ~abandoned'[s], NEW c \in Copies
          PROVE  IsBlank(s, c)' \/ Holds(s, c, BootGeneration(s))'
      BY <2>1, <3>3, <3>4, OldStays
    <3>5. QED
      BY <1>0, <3>1, <3>2, <3>3, <3>4
  <2>3. CASE s # op.slot
    <3>1. acked'[s] = acked[s] /\ (~abandoned'[s] => ~abandoned[s])
      BY <1>1, <2>3, Acknowledged
    <3>2. generation'[s] = generation[s] /\ learned'[s] = learned[s]
      BY <1>0, <1>1, <2>3 DEF Finish, Adopt, TypeOK
    <3>3. ASSUME ~abandoned'[s], NEW c \in Copies
          PROVE  IsBlank(s, c)' \/ Holds(s, c, BootGeneration(s))'
      BY <2>1, <3>1, <3>3, OldStays DEF FaultInv, NothingOlder
    <3>4. QED
      BY <1>0, <3>1, <3>2, <3>3 DEF FaultInv, NothingOlder
  <2>4. QED
    BY <2>2, <2>3
<1>2. CASE ~(Finish /\ pc \in {"adopt", "verify"})
  <2>1. acked' = acked /\ (~abandoned'[s] => ~abandoned[s])
    BY <1>2, NotAcknowledged
  <2> SUFFICES ASSUME ~abandoned'[s], ~abandoned[s]
               PROVE  /\ learned'[s] => generation'[s] >= BootGeneration(s)'
                      /\ \A c \in Copies : \/ IsBlank(s, c)'
                                          \/ Holds(s, c, BootGeneration(s))'
    BY <1>0, <2>1
  <2>2. /\ learned[s] => generation[s] >= BootGeneration(s)
        /\ \A c \in Copies : IsBlank(s, c) \/ Holds(s, c, BootGeneration(s))
    BY DEF FaultInv, NothingOlder
  <2>3. learned'[s] => generation'[s] >= BootGeneration(s)'
    <3>1. CASE UNCHANGED ram
      BY <1>0, <2>2, <3>1 DEF ram
    <3>2. CASE PowerLoss
      BY <3>2 DEF PowerLoss
    <3>3. CASE Scan
      <4>1. CASE s = bootSlot
        <5>1. PICK c \in Copies : \/ UNCHANGED ram
                                 \/ /\ stored[key_(s, c)] # Invalid
                                    /\ Adopt(s, c, stored[key_(s, c)].generation)
          BY <1>0, <3>3, <4>1, ScanCases DEF ram, Copies
        <5>2. CASE Adopt(s, c, stored[key_(s, c)].generation) /\ stored[key_(s, c)] # Invalid
          BY <1>0, <2>2, <5>2 DEF Adopt, TypeOK, IsBlank, Holds
        <5>3. QED
          BY <3>1, <5>1, <5>2
      <4>2. CASE s # bootSlot
        <5>1. generation'[s] = generation[s] /\ learned'[s] = learned[s]
          BY <1>0, <3>3, <4>2, ScanCases DEF Adopt, TypeOK, ram
        <5>2. QED
          BY <1>0, <2>2, <5>1
      <4>3. QED
        BY <4>1, <4>2
    <3>4. Scan \/ PowerLoss \/ UNCHANGED ram
      <4>1. CASE pc \in Writing
        BY <1>0, <1>2, <4>1, EndCases DEF GiveUp
      <4>2. CASE pc \notin Writing
        BY <1>0, <4>2, NextCases
           DEF Boot, Migrate, MigrateNothing, Seed, Save, SetBlob, SetBlobFails,
               Commit, CommitFails, AdoptMigrated, Verify, Rot, Writing
      <4>3. QED
        BY <4>1, <4>2
    <3>5. QED
      BY <3>1, <3>2, <3>3, <3>4
  <2>4. ASSUME NEW c \in Copies
        PROVE  IsBlank(s, c)' \/ Holds(s, c, BootGeneration(s))'
    <3>1. CASE stored'[key_(s, c)] = stored[key_(s, c)] \/ stored'[key_(s, c)] = Invalid
      BY <2>2, <3>1, OldStays
    <3>2. CASE SetBlob
      <4>1. CASE key_(s, c) = Target(op)
        <5>1. s = op.slot /\ pc \in Writing
          BY <3>2, <4>1 DEF key_, Target, SetBlob, Writing
        <5>2. op.generation >= BootGeneration(s)
          BY <5>1, WritesNotOlder
        <5>3. stored'[key_(s, c)] = NewRecord(op) \/ stored'[key_(s, c)] = Invalid
          BY <1>0, <3>2, <4>1, StoredType DEF SetBlob, TypeOK
        <5>4. stored'[key_(s, c)] = NewRecord(op) => Holds(s, c, BootGeneration(s))'
          BY <1>0, <5>2, OpTypes, ConstantTypes DEF NewRecord, Holds, key_
        <5>5. QED
          BY <3>1, <5>3, <5>4
      <4>2. CASE key_(s, c) # Target(op)
        BY <1>0, <3>1, <3>2, <4>2, StoredType DEF SetBlob, TypeOK
      <4>3. QED
        BY <4>1, <4>2
    <3>3. CASE SetBlobFails
      <4>1. s # op.slot
        BY <3>3, WriteAbandoned DEF SetBlobFails, Writing
      <4>2. key_(s, c) # Target(op)
        BY <4>1 DEF key_, Target
      <4>3. QED
        BY <1>0, <3>1, <3>3, <4>2, StoredType DEF SetBlobFails, TypeOK
    <3>4. CASE PowerLoss
      <4>1. ~BeingWritten(s)
        BY <3>4, WriteAbandoned DEF BeingWritten
      <4>2. Settled(s)
        BY <4>1 DEF FaultInv, FlashIsRecent
      <4>3. stored'[key_(s, c)] = stored[key_(s, c)]
        BY <1>0, <3>4, <4>2, StoredType DEF PowerLoss, Settled
      <4>4. QED
        BY <3>1, <4>3
    <3>5. CASE \E k \in Key : Rot(k)
      BY <1>0, <3>1, <3>5, StoredType DEF Rot, TypeOK
    <3>6. QED
      BY <1>0, <3>1, <3>2, <3>3, <3>4, <3>5, NextCases
         DEF Boot, Scan, Migrate, MigrateNothing, Seed, Save, Commit, CommitFails,
             AdoptMigrated, Verify
  <2>5. QED
    BY <2>3, <2>4
<1>3. QED
  BY <1>1, <1>2

\* A scan that finds nothing loses little.
LEMMA ScanLosesLittle ==
  ASSUME OneFault, FaultInv, FaultNext, Scan, pc' = "migrate", UNCHANGED bootSlot,
         ~abandoned'[bootSlot]
  PROVE  /\ acked'[bootSlot] <= BootGeneration(bootSlot) + faults'
         /\ faults' = 0 => \A c \in Copies : IsBlank(bootSlot, c)
<1>0. TypeOK /\ Next /\ bootSlot \in Slots /\ faults \in {0, 1}
  BY FaultsStep DEF FaultNext, FaultInv, ParityInv, TypeOK
<1>1. /\ acked' = acked /\ ~abandoned[bootSlot] /\ Recoverable(bootSlot)
  <2>1. pc = "scan"
    BY DEF Scan
  <2>2. acked' = acked /\ ~abandoned[bootSlot]
    BY <1>0, <2>1, NotAcknowledged
  <2>3. QED
    BY <1>0, <2>1, <2>2 DEF FaultInv, FlashIsRecent, BeingWritten, Writing
<1>2. acked[bootSlot] \in Nat /\ BootGeneration(bootSlot) \in Nat
  BY <1>0, BootGenerationType, GenerationsAreNumbers DEF FaultInv, HistoryTypeOK
<1>3. PICK lost \in SUBSET Copies :
        /\ IF lost = {} THEN faults' = faults
           ELSE faults = 0 /\ faults' = 1 /\ \E d \in Copies : lost = {d}
        /\ \A c \in Copies \ lost : IsBlank(bootSlot, c)
  <2>1. ~NextSlot
    BY SlotAssumption, <1>0 DEF NextSlot, TypeOK, Slots
  <2>2. QED
    BY <1>0, <2>1, ScanSees
<1>4. CASE lost = {}
  BY <1>0, <1>1, <1>2, <1>3, <1>4 DEF Recoverable, Holds, IsBlank, Restorable, Untouched, Copies
<1>5. CASE lost # {}
  <2>1. PICK d \in Copies : lost = {d} /\ faults = 0 /\ faults' = 1
    BY <1>3, <1>5
  <2>2. IsBlank(bootSlot, 1 - d)
    BY <1>3, <2>1 DEF Copies
  <2>3. QED
    BY <1>1, <1>2, <2>1, <2>2 DEF Recoverable, Holds, IsBlank, Restorable, Untouched, Copies
<1>6. QED
  BY <1>4, <1>5

\* While the V1 copies load, the factory profile's turn comes only without one.
LEMMA NoV1Profile ==
  ASSUME OneFault, TypeOK, MigrateNothing
  PROVE  BootGeneration(bootSlot) = 1
<1>1. \A c \in Copies : legacy[key_(bootSlot, c)] = Invalid
  <2>1. CASE LegacyRecords = {}
    BY <2>1 DEF TypeOK, key_, Key
  <2>2. CASE Faults \cap {"alloc", "load"} = {}
    BY <2>2 DEF MigrateNothing, LegacyLoads, LegacySeen, Fault
  <2>3. QED
    BY <2>1, <2>2 DEF OneFault
<1>2. QED
  BY <1>1 DEF BootGeneration, V1Copy, NewestCopy, Copies, NoCopy

\* setup() turns to migration, and then to the factory profile, only when it loses
\* little.
LEMMA BootStep ==
  ASSUME OneFault, FaultInv, FaultNext
  PROVE  BootLosesLittle'
<1> SUFFICES ASSUME pc' \in {"migrate", "seed"}, ~abandoned'[bootSlot']
             PROVE  /\ acked'[bootSlot'] <= BootGeneration(bootSlot)' + faults'
                    /\ pc' = "seed" => BootGeneration(bootSlot)' = 1
                    /\ faults' = 0 => \A c \in Copies : IsBlank(bootSlot, c)'
  BY DEF BootLosesLittle
<1>0. /\ TypeOK /\ Next /\ bootSlot \in Slots
      /\ faults \in {0, 1} /\ (faults' = faults \/ (faults = 0 /\ faults' = 1))
  BY FaultsStep DEF FaultNext, FaultInv, ParityInv, TypeOK
<1>1. /\ \A s \in Slots : BootGeneration(s)' = BootGeneration(s) /\ BootGeneration(s) \in Nat
      /\ acked[bootSlot] \in Nat
  BY <1>0, LegacyStays, BootGenerationType, GenerationsAreNumbers DEF FaultInv, HistoryTypeOK
<1>2. CASE Scan
  <2>1. pc' = "migrate" /\ UNCHANGED bootSlot
    BY <1>0, <1>2, ScanCases DEF NextSlot
  <2>2. BootGeneration(bootSlot)' = BootGeneration(bootSlot)
    BY <1>2, <2>1 DEF Scan, BootGeneration, V1Copy, key_
  <2>3. QED
    BY <1>2, <2>1, <2>2, ScanLosesLittle DEF Scan, IsBlank, key_
<1>3. CASE MigrateNothing
  <2>1. acked' = acked /\ ~abandoned[bootSlot] /\ UNCHANGED <<bootSlot, stored>> /\ pc' = "seed"
    BY <1>0, <1>3, NotAcknowledged DEF MigrateNothing
  <2>2. /\ acked[bootSlot] <= BootGeneration(bootSlot) + faults
        /\ faults = 0 => \A c \in Copies : IsBlank(bootSlot, c)
    BY <1>3, <2>1 DEF FaultInv, BootLosesLittle, MigrateNothing
  <2>3. BootGeneration(bootSlot) = 1
    BY <1>0, <1>3, NoV1Profile
  <2>4. BootGeneration(bootSlot)' = BootGeneration(bootSlot)
    BY <1>0, <1>3, <2>1, LegacyStays DEF BootGeneration, V1Copy, key_
  <2>5. QED
    BY <1>0, <1>1, <2>1, <2>2, <2>3, <2>4 DEF IsBlank, key_
<1>4. CASE GiveUp /\ pc \in Writing
  <2>1. op.kind = "migrate" /\ bootSlot' = bootSlot
    BY <1>4 DEF GiveUp
  <2>2. op.slot = bootSlot
    BY <1>4, <2>1 DEF FaultInv, ParityInv, TargetIsOther
  <2>3. QED
    BY <1>4, <2>1, <2>2, WriteAbandoned
<1>5. CASE \E k \in Key : Rot(k)
  <2>1. PICK k \in Key : Rot(k)
    BY <1>5
  <2>2. /\ acked' = acked /\ ~abandoned[bootSlot] /\ UNCHANGED <<bootSlot, pc>>
        /\ faults = 0 /\ faults' = 1
    BY <1>0, <2>1, NotAcknowledged DEF Rot, Fault
  <2>3. /\ acked[bootSlot] <= BootGeneration(bootSlot)
        /\ pc = "seed" => BootGeneration(bootSlot) = 1
    BY <1>0, <1>1, <2>2 DEF FaultInv, BootLosesLittle
  <2>4. BootGeneration(bootSlot)' = BootGeneration(bootSlot) /\ BootGeneration(bootSlot) \in Nat
    BY <1>0, <1>1, <2>1, <2>2 DEF Rot, BootGeneration, V1Copy, key_
  <2>5. QED
    BY <1>1, <2>2, <2>3, <2>4
<1>6. QED
  <2>1. ~(Finish /\ pc \in {"adopt", "verify"})
    BY DEF Finish, NextSlot
  <2>2. CASE pc \in Writing
    BY <1>0, <1>4, <2>1, <2>2, EndCases DEF Writing, PowerLoss
  <2>3. CASE pc \notin Writing
    BY <1>0, <1>2, <1>3, <1>5, <2>3, NextCases
       DEF Boot, Migrate, Seed, Save, StartWrite, SetBlob, SetBlobFails,
           Commit, CommitFails, AdoptMigrated, Verify, PowerLoss, Writing
  <2>4. QED
    BY <2>2, <2>3
\* A migration writes the generation that it found.
LEMMA MigrateWrites ==
  ASSUME OneFault, TypeOK, Migrate
  PROVE  /\ op'.slot = bootSlot /\ op'.generation = BootGeneration(bootSlot)
         /\ pc' = "set" /\ pc = "migrate" /\ faults' = faults
<1>1. PICK lost \in {{}, {0}, {1}} :
        LET winner == NewestCopy(LegacySeen(lost, 0), LegacySeen(lost, 1))
        IN /\ winner # NoCopy
           /\ LegacyLoads(lost)
           /\ StartWrite("migrate", bootSlot, LegacySeen(lost, winner).profile,
                         LegacySeen(lost, winner).generation)
  BY DEF Migrate
<1>2. LegacyRecords # {}
  BY MigrateCases
<1>3. lost = {} /\ faults' = faults
  BY <1>1, <1>2 DEF OneFault, LegacyLoads, Fault
<1>4. LegacySeen(lost, 0) = legacy[key_(bootSlot, 0)] /\ LegacySeen(lost, 1) = legacy[key_(bootSlot, 1)]
  BY <1>3 DEF LegacySeen
<1>5. V1Copy(bootSlot) # NoCopy /\ V1Copy(bootSlot) \in Copies
  BY <1>1, <1>4, NewestCopyReadable DEF V1Copy
<1>6. StartWrite("migrate", bootSlot, LegacySeen(lost, V1Copy(bootSlot)).profile,
                 BootGeneration(bootSlot))
  BY <1>1, <1>3, <1>4, <1>5 DEF V1Copy, BootGeneration, LegacySeen
<1>7. QED
  BY <1>3, <1>6 DEF StartWrite, Migrate

\* Once nvs_set_blob has been called, what a write of setup() may lose is no more.
LEMMA BootWriteStep ==
  ASSUME OneFault, FaultInv, FaultNext
  PROVE  BootWriteLosesLittle'
<1> SUFFICES ASSUME pc' \in Writing, op'.kind # "save", ~abandoned'[op'.slot]
             PROVE  BootWriteLosesLittle'
  BY DEF BootWriteLosesLittle
<1>0. /\ TypeOK /\ Next /\ bootSlot \in Slots /\ op.slot \in Slots /\ op.generation \in Nat
      /\ faults \in {0, 1} /\ (faults' = faults \/ (faults = 0 /\ faults' = 1))
  BY FaultsStep, GenerationsAreNumbers DEF FaultNext, FaultInv, ParityInv, TypeOK, Ops
<1>1. acked' = acked /\ \A s \in Slots : ~abandoned'[s] => ~abandoned[s]
  BY NotAcknowledged DEF Finish, NextSlot, Writing
<1>2. \A s \in Slots : BootGeneration(s)' = BootGeneration(s) /\ BootGeneration(s) \in Nat
  BY <1>0, LegacyStays, BootGenerationType
<1>3. CASE Migrate \/ Seed
  <2>1. PICK s \in Slots : s = bootSlot
    BY <1>0
  <2>2. /\ op'.slot = s /\ pc' = "set" /\ UNCHANGED <<stored, faults>>
        /\ op'.generation = IF pc = "seed" THEN 1 ELSE BootGeneration(s)
        /\ pc \in {"migrate", "seed"}
    <3>1. CASE Migrate
      BY <1>0, <2>1, <3>1, MigrateWrites DEF Migrate
    <3>2. CASE Seed
      <4>1. ~learned[s]
        BY <1>0, <2>1, <3>2, SlotAssumption
           DEF Seed, FaultInv, ParityInv, BootUnlearned, Booting, Slots
      <4>2. QED
        BY <2>1, <3>2, <4>1 DEF Seed, StartWrite, next_generation
    <3>3. QED
      BY <1>3, <3>1, <3>2
  <2>3. ~abandoned[s]
    BY <1>1, <2>2
  <2>4. /\ acked[s] <= BootGeneration(s) + faults
        /\ pc = "seed" => BootGeneration(s) = 1
        /\ faults = 0 => \A c \in Copies : IsBlank(s, c)
    BY <2>1, <2>2, <2>3 DEF FaultInv, BootLosesLittle
  <2>5. BootGeneration(s)' = BootGeneration(s) /\ BootGeneration(s) \in Nat
    BY <1>2
  <2>6. op'.generation = BootGeneration(s)
    BY <2>2, <2>4
  <2>7. BootGeneration(op.slot)' = BootGeneration(s)
    BY <2>2, <2>5 DEF BootGeneration, V1Copy, key_
  <2>8. QED
    BY <1>1, <2>2, <2>4, <2>6, <2>7 DEF BootWriteLosesLittle, IsBlank, key_
<1>4. CASE op' = op /\ pc \in Writing
  <2>1. PICK s \in Slots, e \in Copies : /\ s = op.slot /\ e = op.generation % 2
                                        /\ Target(op) = key_(s, e) /\ key_(s, e) \in Key
    BY <1>0, OpTypes DEF key_
  <2>2. /\ ~abandoned[s]
        /\ acked[s] <= op.generation + faults
        /\ op.generation = BootGeneration(s)
        /\ faults = 0 => \A c \in Copies : c # e => IsBlank(s, c)
        /\ pc # "set" /\ stored[key_(s, e)] = Invalid => Untouched(s)
    BY <1>1, <1>4, <2>1 DEF FaultInv, BootWriteLosesLittle
  <2>3. SUFFICES
          /\ faults' = 0 => \A c \in Copies : c # e => stored'[key_(s, c)] = Invalid
          /\ pc' # "set" /\ stored'[key_(s, e)] = Invalid =>
               /\ acked[s] <= BootGeneration(s)
               /\ \A c \in Copies : stored'[key_(s, c)] = Invalid
    <3>1. /\ BootGeneration(op.slot)' = BootGeneration(s)
          /\ Target(op)' = key_(s, e)
          /\ \A c : IsBlank(op.slot, c)' <=> stored'[key_(s, c)] = Invalid
      BY <1>2, <1>4, <2>1 DEF BootGeneration, V1Copy, IsBlank, Untouched, Target, key_
    <3>2. acked[s] <= op.generation + faults'
      <4>1. acked[s] \in Nat
        BY <2>1, GenerationsAreNumbers DEF FaultInv, HistoryTypeOK
      <4>2. QED
        BY <1>0, <2>2, <4>1
    <3>3. QED
      BY <1>1, <1>4, <2>1, <2>2, <3>1, <3>2 DEF BootWriteLosesLittle, Untouched
  <2>4. CASE SetBlob
    <3>1. \A c \in Copies : c # e => stored'[key_(s, c)] = stored[key_(s, c)]
      BY <1>0, <2>1, <2>4 DEF SetBlob, TypeOK, key_, Key
    <3>2. stored'[key_(s, e)] = Invalid => faults = 0 /\ faults' # 0
      <4>1. NewRecord(op) # Invalid
        BY <1>0, OpTypes, ConstantTypes
      <4>2. QED
        BY <1>0, <2>1, <2>4, <4>1 DEF SetBlob, TypeOK, Fault
    <3>3. QED
      BY <1>0, <1>2, <2>1, <2>2, <3>1, <3>2 DEF IsBlank
  <2>5. CASE \E k \in Key : Rot(k)
    <3>1. PICK k \in Key : Rot(k)
      BY <2>5
    <3>2. faults = 0 /\ faults' = 1
      BY <1>0, <3>1 DEF Rot, Fault
    <3>3. \A c \in Copies : c # e => stored'[key_(s, c)] = Invalid
      BY <1>0, <2>2, <3>1, <3>2 DEF Rot, TypeOK, IsBlank, key_, Key
    <3>4. QED
      BY <1>0, <1>2, <2>1, <2>2, <3>2, <3>3
  <2>6. CASE UNCHANGED <<stored, faults>> /\ pc # "set"
    BY <2>2, <2>6 DEF IsBlank, Untouched
  <2>7. QED
    <3>1. SetBlob \/ (\E k \in Key : Rot(k)) \/ Commit
      BY <1>0, <1>4, NextCases
         DEF Boot, Scan, Migrate, MigrateNothing, Seed, Save, StartWrite, SetBlobFails,
             CommitFails, AdoptMigrated, Verify, GiveUp, Finish, NextSlot, PowerLoss,
             Writing
    <3>2. QED
      BY <2>4, <2>5, <2>6, <3>1 DEF Commit
<1>5. QED
  <2>1. CASE pc \in Writing
    BY <1>0, <1>4, <2>1, EndCases DEF GiveUp, PowerLoss, Finish, NextSlot, Writing
  <2>2. CASE pc \notin Writing
    BY <1>0, <1>3, <2>2, NextCases
       DEF Boot, Scan, NextSlot, MigrateNothing, Save, StartWrite, SetBlob, SetBlobFails,
           Commit, CommitFails, AdoptMigrated, Verify, PowerLoss, Rot, Writing
  <2>3. QED
    BY <2>1, <2>2

-----------------------------------------------------------------------------
(* The theorem. *)

\* Before the first boot nothing was acknowledged but what setup() will write.
LEMMA FaultsInit == FaultInit => FaultInv
<1> SUFFICES ASSUME FaultInit PROVE FaultInv
  OBVIOUS
<1>1. Init /\ HistoryTypeOK
  <2>1. Init /\ TypeOK
    BY TypeInit DEF FaultInit
  <2>2. \A s \in Slots : BootGeneration(s) \in Generations
    BY <2>1, BootGenerationType
  <2>3. HistoryTypeOK
    BY <2>2, ConstantTypes DEF FaultInit, HistoryTypeOK
  <2>4. QED
    BY <2>1, <2>3
<1>2. ParityInv /\ BootSettled /\ CommitSettles /\ BootLeavesLearned /\ SaveIsNext
  BY <1>1, StoreInit DEF StoreInv, StorageInv
<1>3. FlashIsRecent
  <2>1. \A s \in Slots : acked[s] = BootGeneration(s) /\ BootGeneration(s) \in Nat
    BY <1>1, TypeInit, BootGenerationType DEF FaultInit
  <2>2. QED
    BY <1>1, <2>1 DEF Init, FlashIsRecent, Settled, Recoverable, Untouched, IsBlank, key_, Key
<1>4. NothingOlder
  <2>1. \A s \in Slots : acked[s] = BootGeneration(s) /\ BootGeneration(s) \in Nat
    BY <1>1, TypeInit, BootGenerationType DEF FaultInit
  <2>2. QED
    BY <1>1, <2>1 DEF Init, NothingOlder, IsBlank, key_, Key
<1>5. /\ AdoptIsMigration /\ ActiveIsKept /\ RamIsRecent
      /\ BootLosesLittle /\ BootWriteLosesLittle /\ WriteIsThere
  BY <1>1 DEF Init, AdoptIsMigration, ActiveIsKept, RamIsRecent, BootLosesLittle,
              BootWriteLosesLittle, WriteIsThere, Writing
<1>6. QED
  BY <1>1, <1>2, <1>3, <1>4, <1>5 DEF FaultInv

\* Doing nothing changes nothing.
LEMMA FaultsStutter ==
  ASSUME FaultInv, UNCHANGED <<vars, acked, abandoned>>
  PROVE  FaultInv'
<1>1. /\ stored' = stored /\ afterCrash' = afterCrash /\ legacy' = legacy
      /\ learned' = learned /\ active_copy' = active_copy /\ generation' = generation
      /\ pc' = pc /\ bootSlot' = bootSlot /\ op' = op /\ faults' = faults
      /\ acked' = acked /\ abandoned' = abandoned
  BY DEF vars, ram
<1>2. ParityInv' /\ BootSettled' /\ CommitSettles' /\ BootLeavesLearned'
  BY ParityStep, BootSettledStep, SettlesStep, LeavesLearnedStep DEF FaultInv, ParityInv
<1>3. SaveIsNext' /\ HistoryTypeOK' /\ AdoptIsMigration' /\ RamIsRecent'
  BY <1>1 DEF FaultInv, SaveIsNext, HistoryTypeOK, AdoptIsMigration, RamIsRecent
<1>4. ActiveIsKept' /\ WriteIsThere'
  BY <1>1 DEF FaultInv, ActiveIsKept, WriteIsThere, ActiveKey, Target, NewRecord, key_
<1>5. FlashIsRecent'
  BY <1>1 DEF FaultInv, FlashIsRecent, BeingWritten, Settled, Recoverable, Holds, IsBlank,
              Restorable, Untouched, BootGeneration, V1Copy, key_
<1>6. NothingOlder'
  BY <1>1 DEF FaultInv, NothingOlder, Holds, IsBlank, BootGeneration, V1Copy, key_
<1>7. BootLosesLittle' /\ BootWriteLosesLittle'
  BY <1>1 DEF FaultInv, BootLosesLittle, BootWriteLosesLittle, Untouched, IsBlank, BootGeneration,
              V1Copy, Target, key_
<1>8. QED
  BY <1>2, <1>3, <1>4, <1>5, <1>6, <1>7 DEF FaultInv

\* Every step keeps the invariant.
LEMMA FaultsKept ==
  ASSUME OneFault
  PROVE  FaultInv /\ [FaultNext]_<<vars, acked, abandoned>> => FaultInv'
<1>1. ASSUME FaultInv, FaultNext PROVE FaultInv'
  <2>1. [Next]_vars /\ SaveBound < GenModulus
    BY <1>1 DEF FaultNext, OneFault
  <2>2. ParityInv' /\ BootSettled' /\ CommitSettles' /\ BootLeavesLearned' /\ SaveIsNext'
    BY <1>1, <2>1, ParityStep, BootSettledStep, SettlesStep, LeavesLearnedStep, SaveNextStep
       DEF FaultInv, ParityInv
  <2>3. HistoryTypeOK' /\ AdoptIsMigration' /\ ActiveIsKept' /\ WriteIsThere'
    BY <1>1, <2>1, HistoryTypeStep, AdoptStep, KeptStep, ThereStep
  <2>4. /\ RamIsRecent' /\ NothingOlder' /\ FlashIsRecent'
        /\ BootLosesLittle' /\ BootWriteLosesLittle'
    BY <1>1, RamStep, OlderStep, FlashStep, BootStep, BootWriteStep
  <2>5. QED
    BY <2>2, <2>3, <2>4 DEF FaultInv
<1>2. QED
  BY <1>1, FaultsStutter

\* With one fault (a record that decays, in use or not, a read that fails, a write that
\* is spoilt; where there is no V1 profile to lose, an allocation or a preference load
\* that fails), wherever the power fails: RAM and flash are one generation behind at most,
\* and never behind the V1 profile.
THEOREM FaultInvariant ==
  ASSUME OneFault
  PROVE  FaultSpec => []FaultInv
<1>1. FaultInit => FaultInv
  BY FaultsInit
<1>2. FaultInv /\ [FaultNext]_<<vars, acked, abandoned>> => FaultInv'
  BY FaultsKept
<1>3. QED
  BY <1>1, <1>2, PTL DEF FaultSpec

\* One such fault sets a slot back by one save at most, and not behind its V1 profile,
\* unless a write of it was abandoned that no newer save has made good.
THEOREM OneFaultCostsOneSave ==
  ASSUME OneFault
  PROVE  FaultSpec => []OneFaultLosesOneSave
<1>1. FaultInv => OneFaultLosesOneSave
  BY DEF FaultInv, BootLeavesLearned, RamIsRecent, NothingOlder, OneFaultLosesOneSave
<1>2. QED
  BY <1>1, FaultInvariant, PTL
=============================================================================
