# PDCAN firmware: a TLA+ model

The repository designs a rack-mount DC power system: a backplane with fans and a
set of carrier cards that switch and negotiate power, joined by a CAN bus that
speaks PDCAN 1.0, with a Linux host tool (`pdcan`) and a simulator
(`pdcan-sim`). Its behaviour is in the Rust workspace `src/firmware`; everything
else (KiCad projects, the documentation site, scripts) has none. This directory
models that workspace in TLA+, checks the models with TLC and proves the most
important results with TLAPS for every value of the constants.

Short names for the sources used below:

| name | file under `src/firmware/` |
|------|------|
| CORE | `crates/pdcan-core/src/lib.rs` |
| TYPES | `crates/pdcan-types/src/lib.rs` |
| PROTO | `crates/pdcan-protocol/src/lib.rs` |
| RECORD | `crates/pdcan-drivers/src/config_record.rs` |
| SW, DS, INA | `crates/pdcan-drivers/src/sw3538.rs`, `ds18b20.rs`, `ina237.rs` |
| SIM | `tools/pdcan-sim/src/lib.rs`, `main.rs` |
| HOST | `tools/pdcan/src/main.rs` |

## 1. Inventory

| component | state it keeps | operations | what makes it correct |
|---|---|---|---|
| `UpdateController` (CORE) | state, error, session, manifest, next_offset | begin, accept_chunk, begin_verification, verification_complete, activate, abort | an update in progress is tied to one runnable manifest and only moves forward |
| node update storage (SIM `handle_firmware`) | the image buffer, running version | one handler per FW_ request | a staged image is, byte for byte, the one its manifest was made for |
| `CarrierController` (CORE) | policy, emergency latch, service, faults, health | new, restore_after_startup_delay, set_policy, policy_persisted, emergency_disable, acknowledge_emergency, set_housekeeping_good, observe_output_power_good | a latched emergency keeps the output down, whatever is pending |
| `BackplaneController` (CORE) | fan settings, latch, faults | new, set_fan, fan_settings_persisted, emergency_disable, acknowledge_emergency | a fan slows down only on a command newer than the last emergency |
| `Commissioning` (CORE) | state, Node ID, conflicting UID | new, claim_window_complete, observe_claim, apply_persisted_node_id | normal traffic only under a Node ID that nobody else was heard claiming |
| codecs (PROTO) | none | 13 encoders, 13 decoders, `MESSAGE_DEFINITIONS` | what is decoded is what was encoded, and no frame has two meanings |
| simulated node (SIM) | ID, policy, fans, binding, latch | handle_commissioning, handle_control | each request is carried out by the nodes it names |
| host commands (HOST) | one process per command: request ID, attempt, deadline, window | firmware, control and commissioning commands | the exit status tells the truth and the process ends |
| configuration record (RECORD) | two flash slots | encode, decode, select_newest | a boot reads the last committed record |
| SW3538 driver (SW) | the register bank it believes selected | apply_fixed_pdo_plan, read_adc, read_status, read_identity, set_cc_undriven, send_source_capabilities, assume_base_bank | it never believes the wrong bank, touches only the register it means, and never leaves more on offer than the policy allows |
| DS18B20 driver (DS) | the ROM search: code, last discrepancy, complete | SearchState next, restart; start_conversion_all, read_temperature_centi_c | every sensor is found once; a temperature is one sample of the sensor asked for |
| INA237 driver (INA) | its configuration | configure, read_measurement | a measurement is what was measured |
| artifact format, xtask, build scripts | none | parse, pack, generate | sequential parsing and tooling, section 7 |
| applications and bootloader | pins at reset | safe levels at boot | scaffolds: the initial states of the node modules |

How they interact. A host process broadcasts or addresses a request frame, which
every node on the bus decodes (codecs), and a node hands it to one controller. A
controller touches no hardware: it *returns* an action ("drive the output low,
then persist the emergency") which its caller carries out, one step at a time,
against a pin, a fan or the flash, and it is told when the flash is done
(`policy_persisted`, `fan_settings_persisted`). Replies go back on the same bus
to every process; a process recognises its own by requester, request ID, opcode
and, for firmware, session. The settings persist through the configuration record.

What is hard: two host processes that act on one node, answers later than
their timeout, retransmission of requests that were carried out, an emergency
while the settings of older commands are still being written, power failure inside a flash
operation, wrapping generations and offsets, Node IDs claimed by two nodes, and
transfers to a chip that fail although the chip took them.
`PROJECT.json` lists each hazard at its line and the properties that cover it.

## 2. Modules

```
 AbstractUpdate <--implements-- UpdateNode --EXTENDS--> UpdateController
                                    ^
                                    +---- FirmwareTransfer   (host processes, bus)
 AtomicRecord   <--implements-- ConfigRecord
 CarrierController <--EXTENDS-- CarrierNode                  (pin, flash, power)
 BackplaneNode                                               (fans, flash, power)
 Commissioning                                               (nodes, claims)
 SimulatedNode <--EXTENDS-- ControlBus                       (host processes, bus)
 Wire <-- OperationalCodec <-- ServiceCodec <-- MessageTypes <-- Codec
 PdoPlan <-- Sw3538; RomSearch, Thermometer, Ina237          (drivers, their buses)
```

`X_proofs` holds the theorems about `X`; those about the modules an `X` is built from
are with it where they are needed: `UpdateController` and `UpdateNode` in
`FirmwareTransfer_proofs`, `CarrierController` in `CarrierNode_proofs`, the wire
modules in `Codec_proofs`, the chip drivers in `Drivers_proofs`. `MCX` gives `X` the
finite constants TLC needs; `MCCarrierAndRecord`, `MCBackplaneAndCommissioning` and
`MCDrivers` put modules that share no state into one run, one at work in a behaviour.
No module declares a RECURSIVE operator.

| module | code | state and actions |
|---|---|---|
| `UpdateController` | CORE `UpdateController`, TYPES image bounds | the variables are the struct's fields; one action per method, one disjunct per way it returns, the returned value as last parameter |
| `UpdateNode` | SIM `handle_firmware` | adds the image (a function from offsets to bytes) and the running version; one action per FW_ request with the error code of its acknowledgement. FW_FINISH calls begin_verification and verification_complete in one step, as the handler does |
| `AbstractUpdate` | the promise | nothing staged, or one whole image; the running version becomes only that of the image staged at that moment |
| `FirmwareTransfer` | HOST `stage`, `transfer_image`, `send_data_window`, `receive_window_ack`, `firmware_status`, `activate`, `abort`, `read_until` | one record per process: program counter, attempt, offset, window. `bus` holds the frames to the node, `socket` those a process has yet to read; frames may be lost in either |
| `CarrierController` | CORE `CarrierController` | fields of the struct; one action per method |
| `CarrierNode` | CORE `CarrierAction`; external executor | `output` (the pin), `flash`, the queue of `writes` and the pending `drive` of the pin; commands and emergencies come while writes are pending, a write may fail, `policy_persisted` is called whenever the settings of a `set_policy` are in flash, and the power may fail at any time |
| `BackplaneNode` | CORE `BackplaneController`; external executor | the same for two fans |
| `Commissioning` | CORE `Commissioning`; external claim scheduler | per node the struct; `claims` on the bus; ghost `heard` |
| `SimulatedNode`, `ControlBus` | SIM `handle_commissioning`, `handle_control`; HOST `scan`, `status`, `commissioning_command`, `command` | node records, one receive queue per node and per host, the processes, a ghost log of what was handled |
| `ConfigRecord` | RECORD; external writer, power and cells | two slots of four cells (header, payload, checksum, commit word); the writer erases and programs one cell at a time |
| `AtomicRecord` | the promise | a write takes effect at once or, when power fails, perhaps not at all |
| `PdoPlan`, `Sw3538` | SW; the chip is external | `PdoPlan` is the arithmetic, `Sw3538` the driver: a call is a list of register accesses, an access a series of I2C transfers, one step each. The chip has two banks, an unlock sequence and its registers; a transfer that fails may or may not have reached it |
| `RomSearch` | DS `SearchState`; the bus is external | a code is the set of its one bits; a step is a bit of a pass, answered by the sensors that still follow it. Sensors come and go between two bits |
| `Thermometer` | DS `start_conversion_all`, `read_temperature_centi_c`, `crc8`; sensors external | a step is the reset, the addressing, the function command or one `read_bit` of the 72 of a scratchpad; ghosts `samples`, what the sensor has held, and `torn` |
| `Ina237` | INA; the chip is external | a step is one write or read. Between two of them the chip converts, its input changes or it resets |
| `Wire`, `OperationalCodec`, `ServiceCodec` | PROTO | every encoder and decoder as an operator on `[identifier, payload]` |
| `MessageTypes` | PROTO, TYPES structs and enums | `Message`: what the Rust types let a message be, integers as their little-endian bytes |
| `Codec` | PROTO; external peer | a frame that was encoded and then perhaps changed |

Abstractions that hold everywhere:

- SHA-256 is injective: a digest *is* the image it was computed from. The record's
  CRC is the pair it covers. `commissioning_token` is an arbitrary function of
  UID and nonce.
- A `Result` that fails is the empty set in the codecs: which of several
  errors a decoder names is left out. In the controllers the error matters to the
  caller and is the result of the action.
- Request IDs are time stamps in the code; two processes are assumed to have
  different ones, and a process's session is derived from its ID.
- Time is not counted: a deadline may pass at any moment or, in a setup whose host is
  *patient*, only when no answer is under way.

Modelled although the code is not in the repository: the executor of the controllers'
actions (the applications are scaffolds), the claim scheduler and the writer of the
configuration slots. Each is marked external in the map. What is shown of these
compositions holds for every executor that refines the model's, which is chosen weak:
it accepts commands, acknowledgements and emergencies while settings are still being
written, in the order in which they were returned; a write may fail, and then nothing
is reported; the settings of a `set_policy` or `set_fan` are reported as persisted
when they are in flash, although an emergency came in between; and the pin or fan is
driven some time after that. It keeps one rule, which finding F-01 of the firmware's
`findings.md` asks for: at an emergency the pin is driven low, or the fans to 100%,
at once, and an actuation that was still pending is forgotten.

## 3. Runs

A *passing* run finds no error:

| run | module, configuration | question |
|---|---|---|
| `node` | `MCUpdateNode` | a node under any sequence of requests, with overlapping, conflicting, overflowing and foreign chunks: one manifest, only forward; no stale bytes; staged means verified; acknowledged bytes stay, and are those of every chunk that is acknowledged, a duplicate too; no chunk is accepted whose end wraps; the node implements `AbstractUpdate` |
| `transfer` | `MCFirmwareTransfer` | seven setups (below): the host is never ahead of the node, a success it reports happened, every process exits, and an update survives two losses of data acknowledgements or status frames |
| `carrier_record` | `MCCarrierAndRecord` | the carrier: commands and emergencies while settings are still being written, failing writes, restarts at any moment: what is in flash is always accepted at the next start, the output is off while latched, flash ends with what memory holds, and after an emergency only a new command switches the output on. The record: six writes with power failures in the middle of any operation: a boot reads the last committed record, and the slots implement `AtomicRecord`; once cells fail, a boot reads some committed record, or none |
| `backplane_commissioning` | `MCBackplaneAndCommissioning` | the backplane: the same for fans: a fan slows down only on a command newer than the last emergency, and flash ends with what memory holds. Commissioning: lost and delayed claims, reassignments: traffic only under an uncontested ID; two nodes that keep one ID both leave service |
| `control` | `MCControlBus` | five setups (below): a command reports what happened to its own request and ends, only an absent node times out, a scan finds every node, a broadcast emergency that was sent reaches every node |
| `drivers` | `MCDrivers` | each chip driver by itself on a bus that fails. SW3538: the tracked bank is true, nothing else is touched, PD is never on with more than the policy allows, Ok means done. DS18B20: the search finds each sensor once, and a temperature is one sample of the sensor it was asked of unless the reading was torn where the CRC may not tell (section 6). INA237: every value of a measurement is what the chip had converted |
| `codec` | `MCCodec` | 48 messages, and every change of one byte, of the length or of an identifier field to one of several values: thirteen decoders, one meaning |

A *violation* run finds the counterexample of its finding: the code does something
that a sentence of the repository (quoted in `PROJECT.json`) excludes.

| run | what TLC shows |
|---|---|
| `lost_frame` | the acknowledgement of FW_BEGIN is lost: the retransmitted Begin of the *same* session is refused with Busy and the update fails. One lost FW_DATA frame does the same: the Offset error of the next frame ends the transfer, and the window is not sent again |
| `update_swap` (`MCFirmwareTransfer_swap`) | `update` drops the session that its stage used and activates whatever session the node reports then: when another process aborts and a third stages in between, the update activates the third one's image and exits with success, where the help text has "Stage and then activate an image" (`tools/pdcan/src/cli.rs:420`) |
| `backplane_latch` (`BackplaneNode_latch`) | a fan command during a latched emergency lowers a fan's duty: `set_fan` does not look at the latch, and "Emergency handling keeps cooling at that safe setting" (`docs/pdcan/firmware-architecture.md:78`) |
| `carrier_fault` | a policy command enables the output while housekeeping power is bad and flagged |
| `backplane_current` (`MCDrivers_backplane`) | the calibration of the INA237 ignores the range, so that in the backplane's narrow range 8 A are reported as 32 A: `shunt_calibration` lacks the factor 4 of the datasheet's section 8.1.2 |

Other disagreements between code and documents that the models contain, and that no
run singles out:

- A simulated node executes a retransmitted control request again (SIM 265), an
  emergency that was acknowledged in between too; `docs/pdcan/protocol.md:100` has
  nodes remember requests.
- A policy command that arrives after an emergency enables a simulated carrier (SIM
  277); "Emergency and fault handling always override policy" (`README.md:57` of the firmware).
- Two simulated nodes with one Node ID both stay in service (SIM 213): the simulator
  sends no claims, contrary to `docs/pdcan/commissioning.md:22`.
- Two hosts that stage at once share no lock; the second Begin is refused under
  the session of the first, which the second host's filter ignores, so that it sees a
  timeout and not the refusal (HOST 705).

## 4. Bounds, and why they are enough

- `UpdateNode`: a partition of 3 bytes, `U32_MAX` 4, chunks of 1 or 2 bytes, so that
  end offsets both overlap and overflow; sessions 0 to 2, one of them foreign; five
  manifests: two runnable images with a common first byte, a foreign target, a digest
  that matches nothing, an empty image. One request at a time, in every order.
- `FirmwareTransfer`: chunks of 2 bytes, images of 5 and 3 bytes (three chunks and two,
  the last one short), windows of 1 or 2 frames, so that a transfer has a full and a
  partial window; up to two retries and two losses; up to three processes. What a
  behaviour starts from, its processes and its bus, is the variable `setup`, chosen
  from `Setups`: *Delays*, an update against an abort with every answer possibly late;
  *Contention* and *Interruption*, a stage, an abort and an activation with any one
  frame lost (one loss is what a request can do most with: the retransmission is the
  second copy); *Endless*, an update and an abort with every frame possibly lost;
  *Recovers*, two losses that the retries make up for; *Failing*, an update and an abort
  whose interface may fail at any moment; *Swap*, an update beside an abort and another
  process that stages.
- `ControlBus`: a carrier with ID 1, a backplane with ID 2 and the free ID 3; one
  retry. Setups: *Delays*, two fan commands (one to the carrier, which refuses it)
  against a clear-node, every answer possibly late; *Losses*, a scan, a status query and
  a command to an absent node with one loss; *Endless*, a status query and a filtered
  scan with every frame possibly lost; *Disaster*, a broadcast emergency against the
  clearing and reassigning of an address; *Failing*, a broadcast emergency and a scan
  with one loss, whose interfaces may fail at any moment.
- `CarrierNode`: a USB-PD carrier with policies below, at and above its ceiling, with a
  zero limit and without limits, enabled and disabled. Commands are accepted while
  fewer than two writes are pending (`PendingWrites`) and an emergency with two, so that
  up to three records wait: an older command's, an acknowledgement's, an emergency's.
- `BackplaneNode`: duties 0, 100 and the invalid 101 on two fans; the same queue.
- `ConfigRecord`: four generations (`HalfRange` 2), six writes, so that generations
  wrap; any number of power failures; two failed cells.
- `Commissioning`: two nodes, two IDs, three reassignments; the safety properties are
  proved for every number of nodes, and the liveness property is about pairs.
- `MCDrivers`: the drivers share nothing, so that one of them is at work in a
  behaviour. SW3538: two acceptable policies whose currents differ in high and low
  bits, one switched off, one above the ceiling, one without limits; one ADC channel
  (they differ in a written value and in units only); two failed transfers, one over
  the state that the other left. `RomSearch`: codes of 4 bits, five of them that part
  at the first bit, in the middle and at the last; two bus errors, two sensors that
  come or go, one restart. `Thermometer`: two sensors, interchangeable (SYMMETRY),
  one conversion from the 85 degrees of power-on to one of two temperatures, one
  unplugging and one failure. They are chosen because the CRC accepts a mixture of
  them: 18.06 degrees followed by silence after its first byte, and -9.88 degrees
  that replace 85 after its tenth bit. `Ina237`: the carrier's and the
  backplane's configurations, two that are refused; 30 A in both directions, next to
  nothing, full scale; one failed transfer, one change of the input and one reset.
- `Codec`: one change per frame; byte values at each type's edges; identifier fields
  at each opcode, class and node boundary.

`CHECK_DEADLOCK FALSE` is given where the system may stop: processes that all
exited, writes or assignments that are used up, a frame that can change no more.

## 5. Fairness

- `FairTransferSpec`, `FairBusSpec`: weak fairness of a node that has a frame and
  of a host process. The operating system runs both, and a blocked read ends by
  its deadline (`read_until`, HOST). Losing a frame is never forced, nor is it ruled
  out: the *Endless* setups let every frame be lost for ever.
- Commissioning `ClaimFairness`: weak fairness of each node's claim, strong fairness of
  hearing a claim. A node repeats its claim for as long as it has a Node ID
  (`docs/pdcan/commissioning.md`), so a claim that is sent again and again is heard
  in the end, however many are lost.

Everything else is checked without fairness. No caller of the chip drivers is in the
repository, so that nothing is assumed of, or shown about, how often they are called.

## 6. Proofs

Assumptions are the named ASSUMEs of the modules, which TLC evaluates in every
run: a partition fits a u32, impacts and sessions are what the types allow,
the factory settings are valid for the descriptor, and the like.

| theorem | invariant and argument |
|---|---|
| `FirmwareTransfer_proofs` `TypeCorrect`, `SessionConsistency`, `SessionsAdvance`, `AcceptedChunksReceived` | any caller of the sequencer, one that calls verification_complete out of turn too. `TypeOK /\ SessionConsistent` is inductive; the overflow check of accept_chunk is what keeps the offset a u32 |
| `FirmwareTransfer_proofs` `StagedImageVerified`, `NoStaleBytesEver`, `AcknowledgedBytesAreStable`, `AcknowledgedDataStored`, `ActivationIsFinal` | `NodeInv`: types, `SessionConsistent`, `NoStaleBytes`, `StagedVerified`. `StagedVerified` needs the rest: FW_FINISH compares the buffer with the manifest's digest, and only `SessionConsistent` and `NoStaleBytes` say that this buffer is the whole image of this manifest. Lemma `ControllerStep`: each request is a call of the sequencer (FW_FINISH two), so the sequencer's invariants carry over. `ActivationIsFinal` is stated for the proof only, and of the node: the sequencer by itself leaves Activating at a stray verification_complete, which no request makes there |
| `FirmwareTransfer_proofs` `Refinement` | `UpdateNode` implements `AbstractUpdate` under the mapping *staged = the manifest and image when state is Staged, running = firmware*: step by step a Stage, Discard, Activate or a stutter |
| `FirmwareTransfer_proofs` `NodeUnderTransfer`, `TransferRefinement` | under any number of pdcan processes and any loss of frames the node keeps `NodeInv` and implements `AbstractUpdate`: every frame on the bus is one an invocation sends (`Shapes`), so a step of the composition is a step of the node or leaves the node alone |
| `FirmwareTransfer_proofs` `HostIsNeverAhead`, `SuccessIsReal` | `TransferInv == Shapes /\ NodeInv /\ Ahead /\ Reports`. A FW_BEGIN, which would start a session over, is on the bus only while none of its data was accepted (`Fresh`), and a process's requests reach the node in order (`DataLast`), so what a process learned of its offset stays true (`NeverAhead`). Each reply under way is the trace of what it reports (`Truthful`), and a process that reports a success has read such a reply (`Course`). An activated session was staged whole (`Whole`); it is the update's own only where no other process stages (`OwnImages`), and `update_swap` shows why |
| `CarrierNode_proofs` `TypeCorrect`, `SafetyCorrect` | the controller under any caller: no persisted policy that the constructor refuses; latched means service down |
| `CarrierNode_proofs` `RestartsAlwaysAccepted`, `LatchedOutputOff`, `FlashFollowsMemory`, `OutputNeedsAuthority` | `NodeInv == Types /\ Safe /\ QueueSafe /\ FlashFollows`. `Safe` relates latch, policy, flash, output and authorization; `QueueSafe` says of each record still to be written that it is disabled if latched and, if it enables the output, is authorized or has an emergency behind it in the queue. Without it a write still to come could undo an emergency. One lemma per action |
| `BackplaneNode_proofs` `OnlyAskedDuties`, `FlashFollowsMemory`, `RestartsAlwaysAccepted` | `NodeInv == Types /\ Asked /\ BackplaneFlashFollows`. `fan_settings_persisted` reads the settings of the moment it is called in, so that of a pending write only the fans count that it is called for: for each of those the settings in memory are safe or were asked for since the last emergency (`Asked`). `RestartsAlwaysAccepted`, that the constructor accepts whatever is in flash at the next start, is stated for the proof only |
| `ConfigRecord_proofs` `LastCommittedSurvives`, `OnlyCommittedBoots` | `RecordInv`: the shape of each slot at each step of the writer, the newest valid record is the committed one, and its successor is newer by the wrapping comparison (`SuccessorIsNewer`) but is never in the slot being erased (`FreeSlotIsNotTheNewest`). Once cells fail less is true, and another invariant shows that a boot still reads some record that was committed, or none |
| `ConfigRecord_proofs` `Refinement` | the two slots implement `AtomicRecord` from the same invariant: the commit word is where a write takes effect, every other step is a stutter |
| `Commissioning_proofs` `CommissioningTypeCorrect`, `TrafficCorrect` | `CommissioningInv`: a node in service heard no foreign claim of its ID since it took it |
| `ControlBus_proofs` `ReportsHappened` | `BusInv == BusShapes /\ Honest`: a response under way, or read, is the trace of what the node it names did with that very request |
| `ControlBus_proofs` `TimeoutsMeanAbsence`, `ScansFindAll` | `RetryInv`, an account of the losses: each wanted node has been found, or owes an answer of this attempt and the losses are at least the attempts before it, or every attempt up to this one lost a frame. Where the losses are fewer than the attempts, a node that is there has answered at the end. No fairness is needed: the host is patient by a guard, not by a schedule |
| `Codec_proofs` `FramesHaveOneMeaning`, `OneMeaningCorrect`, `RegistryCorrect` | no invariant: true of any identifier and any payload. Each decoder accepts frames of a class and opcodes that no other one accepts (`Apart`), reads them in one way only, and checks what its row of `MESSAGE_DEFINITIONS` says |
| `Codec_proofs` `RoundTrip`, `EncodersAreDefinite` | no invariant: `f \in Encode(m) <=> m \in Decoded(f)` for each message of the types and each frame of 29 bits and up to 64 bytes. An encoder's payload is described by its writes: laid side by side (`Laid`), they leave a buffer that `Shows` their bytes and zeros between them, and no other does (`Payloads`, `Added`, `Padded`); an identifier is the sum of its fields, and determined by them (`Digits`, `TokenDigits`). So "is this frame" turns into what each byte and field is, and that into the decoder's conditions, for each of the 29 kinds (`...Trip`, `...Means`, `...Sent`) |
| `Codec_proofs` `DecodesCorrect`, `AcceptsCorrect` | `Legal`: the message is one of the types, the frame a legal one, and until it is changed the encoder's; then `RoundTrip`, `FramesHaveOneMeaning` and `EncodersAreDefinite` |
| `Codec_proofs` `EmergencyCorrect` | `Legal`: an identifier stays one when a field is replaced (`ReplacedField`). Every row but that of the emergency has a priority of at least 1, so at least 2^26 as an identifier, and an emergency's is below |
| `Drivers_proofs` `TypeCorrect`, `BankCorrect` | `WireInv`: types, the bank, and for each step of an access the bank and the unlock progress it starts from (`WireAt`): an address means the intended register only because of them. Any number of transfers may fail |
| `Drivers_proofs` `UntouchedCorrect`, `OfferCorrect` | `PdoInv`: `WireInv`, which registers of the new plan are written by each access of `apply_fixed_pdo_plan` (`Rewriting`), that the byte an update starts from is still in its register, and that the bits no call has a name for are kept (`RestIsKept`, by masks; `SameUnder254` and its like turn them into the divisions of the property). PD is on only before the first access and after the last, and `PlanIsAllowed` says that a whole plan keeps within its policy, by the arithmetic of `PdoPlan` (`SplitCurrent`, `LowBitsPacked`, `EnableBitsPacked`) |
| `Drivers_proofs` `OkCorrect` | `OkInv == PdoInv /\ Sampling /\ Settled`: what has been read so far is what the registers held at that access, and each access behind the present one has left its register as the call intends |
| `Drivers_proofs` `RomTypeCorrect`, `SearchCorrect` | `SearchInv`: codes are ordered by the first bit in which they differ. Between two passes every code found lies behind the last discrepancy of the stored path and every sensor not yet found ahead of it (`Between`); within a pass a sensor not yet found follows it or was left aside at or before the last zero (`PassAt`). A pass that fails keeps `Between`, as it has changed the stored path only behind the last discrepancy. For every length of a code, with no induction |

Only model-checked:

- All liveness (`EveryInvocationExits`, `RecoverableUpdatesSucceed`, `EveryCommandExits`,
  `EmergencyReachesEveryNode`, `DuplicatesBothLeaveService`): fairness and ENABLED are out of
  the proof system's reach.
- `ReadingIsOneSample`: the CRC is a fold over bits, and what it detects a computation.
  Why it is true of every word: a sensor converts at most once in a reading; two words
  mixed within their first eight bits differ from the later one in a span of eight bits
  at most, which no multiple of the CRC's polynomial has, and mixed after the sixteenth
  give the temperature of the earlier one. In between, and after a sensor that falls
  silent inside the two bytes, about one mixture in 256 is accepted. The property leaves
  out those (`torn`), and the run reaches two: -13.94 degrees from a sensor at 18.06 that is
  unplugged after its first byte, and -43 degrees from one that goes from 85 to -9.88 after
  the tenth bit.
- `MeasurementIsTrue`: bounds on rounded products of two measured quantities, nonlinear
  arithmetic that the provers do not find; true within the range of the chip's inputs only.
- Induction over data and RECURSIVE operators cannot be used here.

The type invariants of the update node, the carrier and commissioning are
proved; a run's list has only what a step of the code could break in a less obvious way.

## 7. Not modelled

- `monitor`, option parsing and output formatting of the tools; the simulator's
  periodic frames, which only read its state.
- `.pdcan` bundles: a parser without state; a bundle is a manifest and its image.
- `CliError::Codec` and `Internal`: a command encodes only values that its parsing has
  checked, so that no frame is refused by the encoders or by SocketCAN's constructors.
  (`InvalidInput` and `Artifact` come before the first frame.) A request that an interface
  fails to write counts as not sent.
- Of `MESSAGE_DEFINITIONS`, the columns `sender` and `has_request_id`: no decoder looks at
  them, and who sends a message is not in its frame.
- xtask, build scripts, the DBC generator, size budgets: sequential developer
  tooling. `MESSAGE_DEFINITIONS`, their source, is checked against the codecs.
- The startup delay, a hash of the UID: the delay it gives is a step that may come
  at any time after boot.
- The bootloader: a call into Embassy Boot, which is not in the repository.
- Of the drivers: `encode_forced_current_limit`, which nothing uses; the decoding of
  status bits and the units of ADC samples; the CRC of a ROM code. A search during which a sensor is unplugged can find
  a mixture of two codes, which the CRC is there to reject: `FindsEachDeviceOnce` is
  about searches during which sensors only come. `ConversionOverflow` of the INA237
  needs a current LSB above an ampere, `TemperatureOutOfRange` a word that no DS18B20
  gives. That a reading is fresh is the caller's to see to, and there is no caller: a
  sensor that has not converted since it was plugged in reads 85 degrees. Neither driver asks whether
  its chip was set up: `MeasurementIsTrue` is about an INA237 that has been configured
  once and has converted, and covers a configure that fails between its writes only over
  such a chip. The chips are external, as the data sheets in
  `docs/data-sheets` and the driver's register comments describe them; a future of a
  driver that is dropped between two transfers is left out, as no caller does so.

## 8. Plan

Order chosen by what fails worst. Done:

1. Update path: `UpdateController`, `UpdateNode`, `AbstractUpdate`, then the host
   processes of `FirmwareTransfer`; theorems up to the refinement, through the bus.
2. Output safety: `CarrierController`, `CarrierNode`, `BackplaneNode`; theorems for both.
3. Persistence: `ConfigRecord` and `AtomicRecord`; the boot theorems and the refinement.
4. Bus: `Commissioning`, `SimulatedNode`, `ControlBus`; every safety property a theorem.
5. Codecs: `Wire` to `Codec`; theorems about meanings, registry, arbitration and the
   round trip of every message on every payload.
6. Drivers: `PdoPlan`, `Sw3538`, `RomSearch`, `Thermometer`, `Ina237`; theorems for
   the first three.

Left, in this order:

7. Activation impact: the simulated node drops its service for a Live image too,
   to be compared with CORE's `ActivationPlan`.
8. The bundle parser and the startup delay, as pure operators.
