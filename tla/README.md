# IRVault: specifications, model checks and proofs

IRVault is firmware for an M5Stack StickS3 (ESP32-S3, ESPHome): it learns the
infrared frames of a Mitsubishi Electric remote, keeps one per slot (Cool, Heat,
Off) in flash, and replays them from two buttons or from Home Assistant. This
directory holds TLA+ modules translated from `src/components/irvault_app/`, TLC
configurations that check them on small instances, and proofs that TLAPS checks
for every value of the constants.

## Inventory

| component | state | operations | talks to |
|---|---|---|---|
| `storage_manager` | per slot `active_copy_`, `generation_`, `learned_`; two NVS keys per slot | `setup` (scan, V1 migration, factory seed), `save_slot`, `load_slot`, `is_learned` | NVS (blobs, one handle), the ESPHome preferences of V1, the codec for the factory seed |
| `ir_manager` | `learning_`, `capture_ready_`, `error_`, `capture_`, `sending_`, `send_complete_`; `receive_done_`, `transmit_done_` shared with interrupts; the buffers `rx_symbols_`, `tx_symbols_` shared with the RMT channels | `start_learning`, `cancel_learning`, `take_capture`, `update`, `send`, `cancel_send`, `take_send_complete`; callbacks `on_receive`, `on_transmit` | RMT driver, codec |
| `app_controller` | `state_` (the page) and when it was entered, `selected_slot_`, `selected_action_`, `confirm_choice_`, the result page's title and automatic return, the shared `pending_profile_` | `loop`, `handle_event_`, `request_send_slot` | all the others; Home Assistant |
| `button_manager` | per button the raw and the debounced level with their times, the chord, two pending suppressions | `update` | GPIO 11 and 12 |
| `mitsubishi_codec` | none | sanitise, decode, validate, encode, replay length | called by `ir_manager` and `storage_manager` |
| `screen_manager` | the page drawn last and the arguments it was drawn with | one `render_*` per page | called by `app_controller` |
| `factory_defaults`, `ir_profile` | none (constants, a record) | | |
| `sticks3_hardware` | the power chip | the amplifier check before learning | called by `app_controller` |

What makes it hard: NVS writes that fail or are cut off by a power loss between
any two steps; two interrupts that come between any two steps of the main loop
and share flags and DMA buffers with it; timeouts that race late answers; one
loop that reads the clock once and handlers that read it again; requests of Home
Assistant between two loops that use the same profile and transmit buffers as
the pages; releases and presses of two buttons in any order; a receiver that
splits, shortens and loses pulses, and a decoder that must repair them and yet not
put a frame together that nobody sent; pages that are not drawn again when they
look drawn already.

What makes it correct, per component:

* storage: a slot that was learned survives any crash; a write never touches the
  record in use; a save replaces a profile at once or not at all; boots end.
* infrared manager and controller: the page and the infrared modes agree; what is
  saved was received for that slot; buffers are not touched while a channel uses
  them; "Sent" is true; learning and sending end; the loop does not stop.
* screen: the display shows the page, the slot and the choice the keys act on.
* buttons: bounces count for nothing, a chord is one event, no press is lost
  for long.
* codec: only what was sent is learned, and it is learned in spite of the
  interference it is made for; decoding inverts encoding; one frame goes out.

## Modules

| module | models | kind |
|---|---|---|
| `ProfileStore` | what the storage promises: `shown`, the profile of each slot, and `restart`, the profiles a power loss now could bring back | abstract specification |
| `StorageManager` | `storage_manager.cpp`, NVS calls one by one | detailed specification; implements `ProfileStore` (`ImplementsProfileStore`) |
| `StorageManager_proofs` | theorems about its invariants | proofs |
| `StorageRefinement_proofs` | that it implements `ProfileStore` | proofs |
| `StorageFaults_proofs` | that one silent fault costs one save at most, and never the V1 profile | proofs |
| `MCStorageManager`, `MCStorageFaults` | instances; the second adds history of what the user was told | model checking |
| `IRManager` | `ir_manager.cpp` and the two RMT channels | component, composed by the next |
| `ScreenManager` | `screen_manager.cpp` | component, composed by the next |
| `AppController` | `app_controller.cpp` over `IRManager` and `ScreenManager`: main task, interrupts, clock, buttons, Home Assistant | composed specification |
| `AppController_proofs` | theorems about it | proofs |
| `MCAppController` | instances | model checking |
| `MitsubishiFrame` | the frame, its validity, its pulses, encoding and the replay length of `mitsubishi_codec.cpp` | pure operators |
| `MitsubishiFrame_proofs` | theorems about them | proofs |
| `MitsubishiCodec` | the repair of the pulses and the decoding scans of `mitsubishi_codec.cpp` | pure operators and two recursive functions |
| `MitsubishiCodec_proofs` | theorems about the repair and the checksum | proofs |
| `IRReception` | remote, receiver with interference, `process_candidate_` and `send` of `ir_manager.cpp` over the codec | composed specification |
| `IRReception_proofs` | theorems about it, for every signal and every disturbance | proofs |
| `MCIRReception` | an instance with small frames | model checking |
| `ButtonManager` | `button_manager.cpp` | component |
| `MCButtonManager` | history of what the user did, the properties and their inductive invariant | model checking |
| `ButtonManager_proofs` | theorems about both | proofs |

### Storage

`stored` is what a read of a key returns now and `afterCrash` the records it may
hold after a power loss: `nvs_set_blob` changes the first and widens the second,
`nvs_commit` narrows `afterCrash` of every key of the handle to what is stored.
A record is readable or `Invalid`; header checks and CRC are that one predicate.
`pc` walks through `setup()` slot by slot and through `save_slot()`, whose steps
are the NVS calls; each call may fail, and a `nvs_set_blob` that fails leaves the
old record, the new one, or neither. `PowerLoss` may come at any step. `Faults`
says which silent faults a run includes: any record decays (`rot`), a record that is
not in use decays (`sparerot`), a read fails
for once (`read`), a write is spoilt although the call succeeds (`badwrite`), the
migration's allocation fails (`alloc`), the preference of a V1 copy fails to load for once
(`load`).

`ProfileStore` knows of none of this. A write is `Attempt`, then `Settle`, then
`Acknowledge`, which also is the boot that shows what every restart would show. Only a
slot in which a boot found nothing (`FindEmpty`: nothing a restart could find either) is
filled without that, by `Install` or, when `setup()` fails, not at all (`GiveUp`); between
the two it is in `filling`. What `Install` shows may then differ from what a restart
shows: when a migration fails after its record was written, the commit of the factory
seed settles that record too, and it may be the newer one.

### Infrared manager and controller

`pc` gives the main task's place in `loop()`: first half of `ir_.update()`, second
half, decode, re-arm, the page's own part, the button event, the menu timeout.
Sending (from the menu, or from Home Assistant between two loops) adds three
places: before the buffer is filled, before the flags are reset, before
`rmt_transmit`. Between any two of them `OnReceive` and `OnTransmit`, the
interrupts, and `Tick`, the clock, may happen. Time is relative: `age` is the clock
minus `state_entered_at_`, `lag` the clock minus the `now` that this `loop()` has
read, and `Elapsed` is the code's unsigned comparison, which wraps when a page was
entered after `now` was read. A signal is a frame that decodes or `"rejected"`; the
counters and texts that are only displayed are left out, and every error page has
the title `"Error"`. A press of A is an event on its release; `held` is the time
between. `setup()` is the first step; when a part of it fails, `pc` stays `"failed"`.

Every step that calls `refresh_screen_()` in the code does so in the model, with the
values it leaves behind. `ScreenManager` keeps the page drawn last (`view_`), the
arguments it remembers (`drawn_`) and the picture that is really on the display
(`display`); the code keeps remembered arguments longer than their page, but never
reads them then.

### Codec and reception

A state is the set of its one bits and pulses are the code's signed durations; the
limits are the code's. The sizes of a frame are constants. A scan is the set of the
valid states found at any start, instead of a loop that stops at the second: the
code refuses exactly when that set has several members. `sanitize_glitches` keeps
its two loops, which step back after every merge, as recursive functions.

`IRReception` starts with what the remote sends (`onAir`) as pulses and lets the
receiver disturb them, one pulse at a time, in the ways the codec's comments and
tests describe: marks split by a short space or received short, spikes, short pulses
at the edges, a damaged header, a lost or added mark, a flipped bit, a late start.
`harm`, `leaders` and `shifted` are history that the properties need: how many
disturbances may cost a frame, whether the headers are intact, whether a bit was
added. The driver's packing of pulses into symbols, two to a word, and the inversion of the
levels between an active-low receiver and an active-high transmitter are left out: no
property depends on them. `Detectable` names what the codec cannot be expected to notice,
and each part of it is a behaviour of the code that TLC found:

* a frame with a bit too many is accepted when its first bits fit the sum, as no
  gap is required after the footer;
* a frame with its header wins over one without, even if they differ: ambiguity is
  detected within one scan only, and neither the code nor its tests speak of more (no
  property covers this; it is a hazard that stays);
* the scan for frames whose first byte was lost does not look at a first byte that
  was received and is wrong, so that another remote's frame, with one flipped bit,
  may become a supported one;
* a short mark (100 to 220 us) that ends the capture is trimmed as an edge glitch,
  although marks of that length are kept elsewhere, and the last frame is lost with
  its footer (`WeakenMark`).

### Buttons

One action, `update`, for every gap between two calls and every level of the two
pins. The code keeps the times of the last change and compares differences; the model
keeps the differences, and caps them at the limits they are compared with.

## Runs

Passing runs:

| run | instance and why it is enough | shows |
|---|---|---|
| `storage_crash` | 1 slot, 2 profiles, generations up to 4 (the seed and three saves; no wrap), one spoilt write or one decayed spare record, no V1 records. Two profiles tell old from new; four generations use each copy twice | `ParityInv` (an inductive invariant, with `TypeOK`), `LearnedIsDurable`, `NeverWritesActiveCopy`, `SaveKeepsPrevious`, `ImplementsProfileStore` |
| `storage_slots` | 2 slots over one handle, V1 records of both parities in any of the 4 legacy keys, one failed allocation, failed V1 load or decayed spare, saves up to generation 3. A commit for one slot reaches the other | `StoreInv` (the inductive invariant), `ImplementsProfileStore`, `BootSettles` |
| `storage_faults` | 1 slot, 2 profiles, V1 records of generations 2 and 3, one decayed record, failed read or spoilt write at any time | `FaultInv` (the inductive invariant), `NeverWritesActiveCopy`, `OneFaultLosesOneSave` |
| `app_save` | 2 slots, 1 frame besides the factory profile, a transmit channel that may hang, every limit 1 tick and no tick within a loop: each timeout may fire in any loop | `ControllerInv` (the inductive invariant, with `TypeOK`), `ModesAgree`, `ReceiveBufferQuiet`, `ScreenIsCurrent`, `ReturnsAsItSays`, `SavesWhatWasLearned`, `CaptureIsKept` |
| `app_fast` | 1 slot, a frame takes at most 1 tick, the send limit is 3, one tick within a loop. The real figures are 2 s at most against 3 s | `ChannelInv` (the inductive invariant), `TransmitBufferStable`, `SentMeansDelivered` |
| `app_live` | 1 slot, the channel may hang, one tick within a loop | `LearningEnds`, `SendTimesOut`, `LoopRunsOn` |
| `codec` | frames of five bytes of two bits, with a signature that, as the real one (which the instance checks), does not fit itself at another bit; two equal frames, one frame, two different ones, two of another remote; two disturbances, the first of any pulse, the second of a header mark, a footer or a header space. Two are what it takes to damage both frames, or one in two ways | `LearnsOnlyWhatWasSent`, `SurvivesInterference`, `AmbiguousIsRefused`, `CaptureIsCanonical`, `SendsOneFrame`, `LearnedCanBeSent`, `LegibleIsLearned`, `UndisturbedIsLearned` |
| `buttons` | debounce 2, long press 5, calls 1 to 3 ticks apart: below, at and above the debounce limit | `ButtonInv` (the inductive invariant, with `TypeOK`), `Debounced`, `BothLongOnce`, `ChordIsSilent`, `NoSecondSwallow` |

Runs that show the code disagreeing with what the repository says of it:

* `storage_seed`: a migration that fails once (no memory, a preference that does not
  load, or an NVS error) is followed by the factory seed, whose record hides the V1
  profile for good, though
  the README says defaults "seed only new or erased slots".
* `storage_failed_save`: after "Save Error / Old profile kept" the next boot may
  show the new profile, because the commit or the read-back failed after the write, or
  `nvs_set_blob` failed having written. The old one is intact (`NeverWritesActiveCopy`) but no
  longer the newest.
* `app_menu`: the menu may close in the very loop in which it was opened or
  moved, when the clock ticks between `loop()`'s `now` and the handler's.
* `app_txreuse`: `cancel_send()` does not stop the channel, so after "Send
  Timeout" the next send overwrites the buffer it still reads. The same holds for
  the interrupt of the abandoned frame, which then completes the new send.
  `app_fast` shows that neither happens while frames end before the limit.

`ChordIsSilent` has an exception that the code really has: when A is pressed again
while B is still down, A's next release is reported as a press of its own, and if
both come up in the same call B's suppression is left over and swallows the next
press of B. `NoSecondSwallow` shows that the damage ends there.

`LearnsOnlyWhatWasSent`, `SurvivesInterference` and `AmbiguousIsRefused` speak of the
disturbances, `LegibleIsLearned` of the pulses that the repair leaves of them: each is
read as the pulse that was sent, but for a lost beginning and one bit that reads as the
other (`Legible`). The former are checked with two disturbances, the latter is proved for
any number.

Deadlock is checked in every run. History variables (`heard`, `delivered`,
`learnSlot`, and those of the MC modules) are never read by a guard.

### Fairness

`StorageManager!FairSpec`: weak fairness of the steps of `setup()` and `save_slot()`,
which one task runs without waiting; nothing of the user or of the power.
`BootSettles` speaks of behaviours with finitely many power losses.
`AppController!FairSpec`: weak fairness of the main task's own steps (ESPHome calls
`loop()` for ever) and of the clock. Nothing is assumed of the buttons, the
interrupts or Home Assistant. `SendTimesOut` speaks of a send whose `rmt_transmit`
has returned: on a channel that hangs after an earlier timeout the call itself
may wait for ever, and `LoopRunsOn` says that this is the only place where the loop
may stop.

## Proofs

Each theorem holds for every value of the constants that the assumptions named in
the modules allow; TLC evaluates those in the runs. An inductive invariant was
checked as an invariant of a run before it was proved.

### Storage: its invariants

`StorageManager_proofs` proves, for any number of slots, any profiles, any
generation width and any number of faults:

* `TypeCorrect`: `Spec => []TypeOK`.
* `ParityInvariant`: `Spec => []ParityInv`. A generation is only ever stored in
  the copy of its parity, RAM's active copy has the parity of RAM's generation, and
  a write in progress targets the other copy.
* `ActiveCopyUntouched`: `Spec => NeverWritesActiveCopy`, from the previous one. It
  holds under every fault and across a wrap of the generation, because the
  modulus is even; no run reaches a wrap, so the proofs of these two are all that is
  said of it.
* `StorageInvariant` and `LearnedSurvives`: under `ReliableFlash`, `Spec =>
  []StorageInv` and `Spec => []LearnedIsDurable`. `LearnedIsDurable` is not
  inductive: that a verified record is also committed has to be known before RAM
  adopts it (`CommittedIsDurable`), that nothing is pending when a boot adopts
  what it reads (`BootSettled`, `BootUnlearned`), and that a pending or failed
  write of the same slot is in the other copy (`ParityInv`).
* `PreviousIsKept`: under `ReliableFlash`, `Spec => SaveKeepsPrevious`, from
  `StorageInv` and the lemma that RAM's generation changes only when a boot finds a
  slot or a write ends.

Assumptions: at least one slot, an even generation modulus, model values that
differ, and `ReliableFlash` where a theorem states it: no record in use decays, and
a spoilt write is not combined with V1 records, because a migrated record is not read
back. Decay of a spare record, reads, allocations and V1 loads that fail are all
allowed.

### Storage: the refinement

`StorageRefinement_proofs` proves `StorageImplementsStore`: under `ReliableFlash` and
`BootsReadRight`, `Spec => ImplementsProfileStore`. `BootsReadRight` says that no read
fails at a boot (one that does makes the older copy win: `storage_faults` is about
that) and that no slot is saved 2^32 times, so that the later of two generations
is the greater one. `storage_crash` and `storage_slots` satisfy both hypotheses.

The argument goes step by step. `nvs_set_blob` is `Attempt`: what a restart may show
is then the old profile or the new one, because the key it writes is not the active
one (`WriteAttempts`). A commit can only leave one of the outcomes that were possible
for each slot, also those of another slot's abandoned write (`CommitSettlesAll`). A
write that is verified and adopted is `Acknowledge`, for its record is the newest of two
committed copies (`FinishShows`). A boot that finds a record shows what every restart
would show (`ScanAcknowledges`); one that finds none is `FindEmpty`, as nothing is pending
then. A power loss shows nothing (`PowerLossLoses`), and a spare
record that decays only removes an outcome (`RotDrops`). All other steps stutter. They rest
on `StoreInv`, which adds to `StorageInv` that a read finds only what a restart may
find (`StoredMayStay`), that a commit leaves nothing pending in any slot
(`CommitSettles`), that a boot leaves no slot without a profile behind it
(`BootLeavesLearned`), that a save writes the generation after the one in use
(`SaveIsNext`), and that `setup()` writes only where a restart may still find no record
(`BootWritesBlank`).

### Storage: faults

`StorageFaults_proofs` proves what `ReliableFlash` leaves out. Under `OneFault`, with power
losses anywhere, `OneFaultCostsOneSave`: `FaultSpec => []OneFaultLosesOneSave`. The history
`acked` is the newest generation acknowledged of a slot, and starts with what `setup()`
would give it, so that a V1 profile counts. One record that decays, one read that fails or
one write that is spoilt then sets the slot back by one generation at most, and never
behind its V1 profile. What that means for the user: a slot saved at least twice falls
back to a profile of the user's; one that was seeded and saved once may fall back to the
factory profile, which is the generation before.

What it does not speak of:

* slots a write of which was given up (`abandoned`): after a migration that fails the slot
  is seeded, after a save that fails the other copy is not what it was. A save that is
  newer than everything acknowledged ends that;
* allocations and preference loads that fail where there are V1 profiles. `OneFault`
  excludes them because one of either loses the V1 profile for good: that is the finding of
  `storage_seed`. Where there is no V1 profile they are harmless and allowed;
* two faults: both copies of a slot may decay;
* slots that are saved 2^32 times.

`storage_faults` satisfies `OneFault`.

`FaultInv` says why. While a slot is not being written, either its newest record has the
generation last acknowledged and the other copy the one before, or there is no other
copy because the slot still has what `setup()` gave it, and `setup()` would write the same
again (`Recoverable`); and none is older than that (`NothingOlder`). After the fault, one of
these is left. The rest is about the places where that could be given away: a scan that does
not see a copy (`ScanSees`, `ScanLosesLittle`), a boot that writes a slot again
(`BootWriteLosesLittle`), a migrated record that is adopted without being read back
(`WriteIsThere`), and RAM, which may turn only to a record that is recent (`RamIsRecent`,
`ActiveIsKept`).

### Controller, infrared channels and screen

`AppController_proofs` proves, for any number of slots, any frames and any limits,
with a transmit channel that may hang:

* `ControllerInvariant` and `TypeCorrect`. `TypeOK` alone is not inductive: what
  "Save" stores is typed because what waits for a confirmation was heard
  (`CaptureWasHeard`). The other parts are the modes that each page and each place in
  the loop allows (`ReceiverByMode`, `SenderByMode`), that only a page entered after a
  send returns by itself (`ReturnOnlyAfterSent`), and that the remembered arguments of
  the page drawn last are those on the display (`DrawnIsDisplayed`).
* `ModesAlwaysAgree`, `ReceiveBufferIsQuiet`, `ScreenAlwaysCurrent`,
  `PagesReturnAsTheySay`: the invariants of `app_save`, each from `ControllerInv`.
* `SavedWasLearned` and `CaptureAlwaysKept`: its action properties.
* Under `ChannelIsFast` (a frame plus the lateness of one loop stays below the send
  limit: 2 s at most against 3 s, `MAX_FRAME_DURATION_US` and `SENDING_TIMEOUT_MS`),
  `ChannelInvariant`, `TransmitBufferIsStable` and `SentIsDelivered`. The argument
  is one about time: a busy channel is never older than the send page allows
  (`SendIsYoung`), so the page is left only when the channel is done, and a flag is
  never set for another send (`ChannelIsOurs`). `app_fast` satisfies `ChannelIsFast`, and
  `app_txreuse` shows that without it the conclusion is false.

### Buttons

`ButtonManager_proofs` proves, for any limits and any gaps between calls, `TypeCorrect`,
`ButtonInvariant` and the four properties of the run: `AlwaysDebounced`,
`BothLongIsOnce`, `ChordStaysSilent`, `SwallowsAtMostOne`. `ButtonInv` ties the code's
variables to the history: the remembered level and its age are those of the pin
(`LevelIsRead`), a chord lasts from the call that finds both down to the one that
finds both up (`ChordIsWhereTheyMet`), what is down in a chord is suppressed until
something is pressed again (`ChordIsSuppressed`), and a press goes unanswered only by
using up a suppression (`SwallowUsesSuppression`).

### Codec and reception

`MitsubishiFrame_proofs` proves, for any number and width of bytes and any
signature:

* `DecodeInvertsEncode`: both frames of an encoded state decode to it, so that the
  codec's check of its own output never fails. It rests on the pulses of a
  concatenation of frames, element by element (`FramePulse`, `EncodedPulse`).
* `OneFrameIsSent`: of an encoded supported state exactly one frame goes out, which
  carries the state.
* `CanonicalIsUnambiguous`: no pulse of a canonical profile but its two header marks
  can begin a frame.
* `NoSuffixBeforeItsPlace`: from `SignatureAssumption`, which the real signature
  satisfies, the scan for a lost first byte cannot read a frame up to a byte too
  early. At every such place two bits of the signature do not fit, so that one flipped
  bit does not help.

`MitsubishiCodec_proofs` proves, for every signal of any length:

* `RepairEnds`: both loops of `sanitize_glitches`, which step back after a merge, end,
  with no more pulses than there were. A step forward shortens the rest, a merge
  the signal (`LoopEnds`).
* `CleanStaysAsItIs`: pulses that are long enough and alternate come out as they went in.
* `OneFlipIsNoticed`: two supported states never differ in one bit only. The sum is
  taken bit by bit in any order (`WeightByAny`), and no single weight is a multiple of
  the modulus (`BitWeight`).

These need induction over data. There are no induction schemes for it here; the proofs
take the least number, or the smallest set, for which the claim is false (`LeastNumber`,
`SmallestSet`) from `WFMin` and the well-foundedness of the orderings, whose statements
have no operator parameter, and they show of the folds of the community modules that
their `CHOOSE` has a value (`FoldExists`).

`IRReception_proofs` carries this to the whole path, for every signal and any number of
disturbances.

* `AlwaysCanonical` and `AlwaysOneFrame`: what is learned is the codec's encoding of a
  supported state, and what is sent is one frame of it. `ReceptionInvariant` is the
  conjunction of both: that one frame is sent needs that the capture is canonical, and
  that the capture is canonical needs that every state found by a scan is a supported
  one (`DecodedAreSupported`).
* `AlwaysCanBeSent`: what is learned passes the checks of sending. From
  `FrameAssumption`, which bounds the pulses of a frame (292 in the code): no pulse but
  the gap is longer than 3400 us, so that the sum stays within the limit.
* `AlwaysLegibleIsLearned`: a state that was not sent is not learned from legible
  pulses, whatever is lost at the beginning and whichever bit is flipped; one whole frame
  is enough; two whole frames with their headers that differ are refused. Wherever a
  scan begins, marks and spaces stand where they stand in a frame, so the data read there is a frame's own
  with one bit at most changed (`DataIsSent`), which the sum notices; where the first
  byte was lost, what precedes the rest is compared with the signature (`SuffixIsSent`).
* `AlwaysUndisturbedIsLearned`: what arrives as it was sent is clean (`SentIsClean`),
  thus not changed by the repair, and legible (`SentIsLegible`).

The last two rest on `VerdictInv`: the signal is still the one that the verdict was about,
and without a disturbance it is what was sent.

### Only model-checked

* Liveness under fairness: `BootSettles`, `LearningEnds`, `SendTimesOut`, `LoopRunsOn`.
* `LearnsOnlyWhatWasSent`, `SurvivesInterference`, `AmbiguousIsRefused`: they count the
  disturbances that do harm, which needs the bounds of the run. For every value of the
  constants they are not true: a transmission longer than 2 s is rejected undisturbed, and
  a remote whose frame differs from a supported one in its first byte, with the sum of
  that one, is learned as it, by the scan that does not look at the first byte. What holds
  for every value is `LegibleIsLearned`.

## Not modelled

* What is only displayed or logged: the battery, the network lights and READY marks
  of the home page, the countdown and the counters of the learning page, the
  statistics of the codec; the page `NOTICE`, which nothing enters.
* `sticks3_hardware.cpp`: one nondeterministic outcome (the amplifier check), which
  is power-chip I/O without state of its own. The states of the factory profiles are
  data.
* What a press of A means whose page changed before the release: `AppController` has
  these behaviours (A pressed on "A  CANCEL" and released after the capture has
  arrived selects "Save"), and the code does not say which page it is for.
* How pulses are packed into RMT symbols, and the polarity of the two channels.
* Code generation, `irvault.yaml`, the probes under `tools/`.
* The wrap of a generation as seen by a boot (2^32 saves of one slot): the bounds of every
  run end before it.

## Plan

The order in which it was built, the most important behaviour first.

1. `StorageManager` with `ProfileStore`: the device's one promise is that a learned
   profile is not lost. Proofs of its invariants.
2. `IRManager` under `AppController`: interrupts, timeouts, shared buffers.
3. `ButtonManager`.
4. `MitsubishiFrame`, `MitsubishiCodec` and `IRReception`: pulses, interference,
   decoding and replay. Proofs about frames and their encoding.
5. `ScreenManager` under `AppController`.
6. Proofs: the refinement of `ProfileStore`; the effect of one silent fault; the
   invariants and action properties of `AppController`; `ButtonManager` with its
   history; reception for every signal; the repair and the checksum for every length.

Left to TLC: what `Detectable` reserves, for the reason above; and liveness.
