------------------------------- MODULE Sw3538 -------------------------------
(***************************************************************************)
(* The register driver of the SW3538 USB-PD controller,                    *)
(* firmware/crates/pdcan-drivers/src/sw3538.rs, on an I2C bus whose        *)
(* transfers may fail.                                                     *)
(*                                                                         *)
(* The chip has two banks of registers, which share the addresses on the   *)
(* wire: address w means register w in the base bank and 256 + w in the    *)
(* extended one.  The driver cannot ask which bank is selected; it keeps   *)
(* its own idea of it in `bank'.  An access of a register is a series of   *)
(* transfers, `step' being the next one, and a call a series of accesses,  *)
(* of which `pos' is under way.                                            *)
(*                                                                         *)
(* The chip is external: it takes a write to a register only after the     *)
(* unlock sequence, which one write uses up.  A transfer that fails may    *)
(* or may not have reached it.                                             *)
(***************************************************************************)
EXTENDS PdoPlan, Sequences

CONSTANTS
    Policies,       \* the policies that may be asked for
    Channels,       \* AdcChannel
    MaxFailures,    \* bounds the transfers that fail
    None

ASSUME Sw3538Assumption ==
    /\ Channels \subseteq 1..11
    /\ MaxFailures \in Nat
    /\ None \notin Policies
    /\ \A p \in Policies :
          /\ p.enabled \in BOOLEAN
          /\ Acceptable(p) => p.pd_limits \in PdLimits

VARIABLES
    bank,                       \* Sw3538.bank: "Base", "Extended" or "Unknown"
    call, pos, step,            \* the call under way and how far it is
    held, earlier,              \* the last value read and the one before, until
                                \* they are used
    outcome,                    \* the last call that returned, with its result
    chip_bank, unlocked,        \* the chip: bank and unlock progress
    memory,                     \* the chip: what its registers hold
    strayed,                    \* history: a transfer met an address that the
                                \* driver has no register at
    granted,                    \* history: the policy PD was last enabled for
    failures

driver == <<bank, call, pos, step, held, earlier, outcome>>
chip == <<chip_bank, unlocked, memory, strayed, granted>>
vars == <<driver, chip, failures>>

-----------------------------------------------------------------------------
\* The registers (module register).

I2C_ENABLE_AND_BANK == 16
PORT_CONTROL == 17
ADC_SELECT == 64
PD_COMMAND == 167
PD_CONTROL == 290
PD_VOLTAGE_ENABLE == 292
PD_FIXED_CURRENT_CONTROL == 293
CurrentHigh == [v \in Voltages |->
    CASE v = 5000 -> 294 [] v = 9000 -> 295 [] v = 12000 -> 296
      [] v = 15000 -> 297 [] v = 20000 -> 298]
PD_FIXED_CURRENT_LOW == 299
RETURN_TO_BASE_BANK == 384

CurrentRegisters ==
    {PD_FIXED_CURRENT_CONTROL, PD_FIXED_CURRENT_LOW, 294, 295, 296, 297, 298}
PdoRegisters == {PD_VOLTAGE_ENABLE} \cup CurrentRegisters
Writable == {PORT_CONTROL, ADC_SELECT, PD_COMMAND, PD_CONTROL} \cup PdoRegisters

\* CHIP_VERSION, SYSTEM_MAX_POWER, FAST_CHARGE_STATUS, SYSTEM_STATUS and
\* ONLINE_STATUS; ADC_DATA_LOW and ADC_DATA_HIGH.
StatusRegisters == {0, 2, 9, 10, 13}
AdcData == {65, 66}

Extended(register) == register >= 256

\* x & mask, for a byte.
Bit(x, weight) == (x \div weight) % 2
And(x, mask) ==
    128 * Bit(x, 128) * Bit(mask, 128) + 64 * Bit(x, 64) * Bit(mask, 64)
    + 32 * Bit(x, 32) * Bit(mask, 32) + 16 * Bit(x, 16) * Bit(mask, 16)
    + 8 * Bit(x, 8) * Bit(mask, 8) + 4 * Bit(x, 4) * Bit(mask, 4)
    + 2 * Bit(x, 2) * Bit(mask, 2) + Bit(x, 1) * Bit(mask, 1)

\* At power up the extended bank holds what the factory put there, PD enabled,
\* with bits set that the driver has no name for.
PowerUp == [r \in Writable |->
    CASE r = PD_CONTROL -> 165 [] r = PD_FIXED_CURRENT_CONTROL -> 12
      [] r = PORT_CONTROL -> 5 [] r = PD_VOLTAGE_ENABLE -> 15 [] OTHER -> 0]

-----------------------------------------------------------------------------
\* The calls, as the accesses they make.

Read(r) == [kind |-> "read", register |-> r, mask |-> 0, value |-> 0]
Write(r, v) == [kind |-> "write", register |-> r, mask |-> 255, value |-> v]

\* The write of modify_protected: the bits of the mask, and the rest as read.
Update(r, mask, v) == [kind |-> "write", register |-> r, mask |-> mask, value |-> v]

\* Mutant: PD stays enabled while the PDOs are rewritten.
apply_fixed_pdo_plan_On(plan) ==
    <<Write(PD_VOLTAGE_ENABLE, enabled_voltage_bits(plan)),
      Read(PD_FIXED_CURRENT_CONTROL),
      Update(PD_FIXED_CURRENT_CONTROL, 243, 32 + (plan.current[5000] % 4)),
      Write(CurrentHigh[5000], High(plan.current[5000])),
      Write(CurrentHigh[9000], High(plan.current[9000])),
      Write(CurrentHigh[12000], High(plan.current[12000])),
      Write(CurrentHigh[15000], High(plan.current[15000])),
      Write(CurrentHigh[20000], High(plan.current[20000])),
      Write(PD_FIXED_CURRENT_LOW, fixed_current_low(plan)),
      Read(PD_CONTROL), Update(PD_CONTROL, 1, Flag(plan.pd_enabled))>>

apply_fixed_pdo_plan(plan) ==
    <<Read(PD_CONTROL), Update(PD_CONTROL, 1, 0),
      Write(PD_VOLTAGE_ENABLE, enabled_voltage_bits(plan)),
      Read(PD_FIXED_CURRENT_CONTROL),
      Update(PD_FIXED_CURRENT_CONTROL, 243, 32 + (plan.current[5000] % 4)),
      Write(CurrentHigh[5000], High(plan.current[5000])),
      Write(CurrentHigh[9000], High(plan.current[9000])),
      Write(CurrentHigh[12000], High(plan.current[12000])),
      Write(CurrentHigh[15000], High(plan.current[15000])),
      Write(CurrentHigh[20000], High(plan.current[20000])),
      Write(PD_FIXED_CURRENT_LOW, fixed_current_low(plan)),
      Read(PD_CONTROL), Update(PD_CONTROL, 1, Flag(plan.pd_enabled))>>

read_identity == <<Read(0), Read(2)>>
read_status == <<Read(10), Read(13), Read(9)>>
read_adc(channel) == <<Write(ADC_SELECT, channel), Read(65), Read(66)>>

\* Mutant: the bits that are not named are written as zero.
set_cc_undriven_Whole(undriven) == <<Read(PORT_CONTROL), Write(PORT_CONTROL, 2 * undriven)>>

set_cc_undriven(undriven) == <<Read(PORT_CONTROL), Update(PORT_CONTROL, 2, 2 * undriven)>>
send_source_capabilities == <<Write(PD_COMMAND, 10)>>

Call(name, argument) == [name |-> name, argument |-> argument]

\* A policy that is not acceptable makes no plan.
Calls ==
    {Call("apply", p) : p \in {q \in Policies : Acceptable(q)}}
    \cup {Call("adc", c) : c \in Channels}
    \cup {Call("cc", u) : u \in {0, 1}}
    \cup {Call("capabilities", 0), Call("identity", 0), Call("status", 0)}

Program(c) ==
    CASE c.name = "apply" -> apply_fixed_pdo_plan(from_policy(c.argument))
      [] c.name = "adc" -> read_adc(c.argument)
      [] c.name = "cc" -> set_cc_undriven(c.argument)
      [] c.name = "capabilities" -> send_source_capabilities
      [] c.name = "identity" -> read_identity
      [] c.name = "status" -> read_status

-----------------------------------------------------------------------------
\* An access: read_register or write_protected, transfer by transfer.

\* A write starts in the base bank; a read in the bank of its register.
FirstStep(op, in) ==
    IF op.kind = "read" /\ (Extended(op.register) <=> in = "Extended") THEN "data"
    ELSE IF in = "Extended" THEN "return" ELSE "unlock1"

NextStep(op) ==
    CASE step = "return" -> IF op.kind = "read" THEN "data" ELSE "unlock1"
      [] step = "unlock1" -> "unlock2"
      [] step = "unlock2" -> "unlock3"
      [] step = "unlock3" -> IF Extended(op.register) THEN "enter" ELSE "data"
      [] step = "enter" -> "data"
      [] step = "data" -> IF op.kind = "write" /\ Extended(op.register)
                          THEN "leave" ELSE "done"
      [] step = "leave" -> "done"

\* What the driver believes once the transfer succeeded.
BankAfter ==
    CASE step = "enter" -> "Extended"
      [] step \in {"return", "leave"} -> "Base"
      [] OTHER -> bank

Operation == Program(call)[pos]

\* The byte that is written to the register of a write.
Value(op) ==
    IF op.mask = 255 THEN op.value
    ELSE And(held, 255 - op.mask) + And(op.value, op.mask)

\* The address of the transfer on the wire, and the byte of a write.
Address ==
    CASE step \in {"unlock1", "unlock2", "unlock3", "enter"} -> I2C_ENABLE_AND_BANK
      [] step \in {"return", "leave"} -> RETURN_TO_BASE_BANK % 256
      [] step = "data" -> Operation.register % 256

Payload ==
    CASE step = "unlock1" -> 32 [] step = "unlock2" -> 64 [] step = "unlock3" -> 128
      [] step = "enter" -> 129
      [] step \in {"return", "leave"} -> 0
      [] step = "data" -> Value(Operation)

Reads == step = "data" /\ Operation.kind = "read"

-----------------------------------------------------------------------------
\* The chip.

Target == IF chip_bank = "Extended" THEN 256 + Address ELSE Address

\* The byte a read returns; the ADC data is that of the selected channel.
Seen ==
    CASE Target \in Writable -> memory[Target]
      [] Target \in AdcData -> memory[ADC_SELECT]
      [] OTHER -> 0

ChipTakesRead ==
    /\ strayed' = (strayed \/ Target \notin Writable \cup AdcData \cup StatusRegisters)
    /\ UNCHANGED <<chip_bank, unlocked, memory, granted>>

ChipTakesControl ==
    /\ Target = I2C_ENABLE_AND_BANK
    /\ IF Payload = 129
       THEN /\ chip_bank' = IF unlocked = 3 THEN "Extended" ELSE chip_bank
            /\ UNCHANGED unlocked
       ELSE /\ unlocked' = CASE Payload = 32 -> 1
                             [] Payload = 64 /\ unlocked = 1 -> 2
                             [] Payload = 128 /\ unlocked = 2 -> 3
                             [] OTHER -> 0
            /\ UNCHANGED chip_bank
    /\ UNCHANGED <<memory, strayed, granted>>

ChipTakesReturn ==
    /\ Target = RETURN_TO_BASE_BANK
    /\ chip_bank' = "Base"
    /\ unlocked' = 0
    /\ UNCHANGED <<memory, strayed, granted>>

ChipTakesData ==
    /\ Target \notin {I2C_ENABLE_AND_BANK, RETURN_TO_BASE_BANK}
    /\ LET taken == unlocked = 3 /\ Target \in Writable
       IN  /\ memory' = IF taken THEN [memory EXCEPT ![Target] = Payload] ELSE memory
           /\ granted' = IF taken /\ Target = PD_CONTROL /\ Bit(Payload, 1) = 1
                         THEN call.argument ELSE granted
    /\ unlocked' = 0
    /\ strayed' = (strayed \/ Target \notin Writable)
    /\ UNCHANGED chip_bank

ChipTakes ==
    IF Reads THEN ChipTakesRead
    ELSE ChipTakesControl \/ ChipTakesReturn \/ ChipTakesData

-----------------------------------------------------------------------------
\* The driver.

\* assuming_base_bank, on a chip that was found in its base bank.
Init ==
    /\ bank = "Base"
    /\ call = None /\ pos = 0 /\ step = "done"
    /\ held = 0 /\ earlier = 0
    /\ outcome = None
    /\ chip_bank = "Base" /\ unlocked = 0
    /\ memory = PowerUp
    /\ strayed = FALSE
    /\ granted = None
    /\ failures = 0

Returns(result) ==
    /\ outcome' = [call |-> call, result |-> result]
    /\ call' = None /\ pos' = 0 /\ step' = "done"

Begin(c) ==
    /\ call = None
    /\ bank # "Unknown"
    /\ call' = c
    /\ pos' = 1
    /\ step' = FirstStep(Program(c)[1], bank)
    /\ held' = 0 /\ earlier' = 0
    /\ outcome' = None
    /\ UNCHANGED <<bank, chip, failures>>

\* Every access starts with return_to_base_bank or select_bank.
Refuse(c) ==
    /\ call = None
    /\ bank = "Unknown"
    /\ outcome' = [call |-> c, result |-> "BankStateUnknown"]
    /\ UNCHANGED <<bank, call, pos, step, held, earlier, chip, failures>>

\* A transfer succeeds: the rest of the access, the next one, or the end.
Transfer ==
    /\ call # None
    /\ ChipTakes
    /\ bank' = BankAfter
    /\ UNCHANGED failures
    /\ IF Reads THEN held' = Seen /\ earlier' = held
       ELSE IF step = "data" THEN held' = 0 /\ earlier' = 0
       ELSE UNCHANGED <<held, earlier>>
    /\ IF NextStep(Operation) # "done"
       THEN step' = NextStep(Operation) /\ UNCHANGED <<call, pos, outcome>>
       ELSE IF pos = Len(Program(call)) THEN Returns("Ok")
       ELSE /\ pos' = pos + 1
            /\ step' = FirstStep(Program(call)[pos + 1], bank')
            /\ UNCHANGED <<call, outcome>>

\* Mutant: an error leaves the driver's idea of the bank as it was.
TransferFails_KeepsBank ==
    /\ call # None
    /\ failures < MaxFailures
    /\ failures' = failures + 1
    /\ ChipTakes \/ UNCHANGED chip
    /\ Returns("Bus")
    /\ held' = 0 /\ earlier' = 0
    /\ UNCHANGED bank

\* The bus reports an error, whether or not the chip took the transfer.
TransferFails ==
    /\ call # None
    /\ failures < MaxFailures
    /\ failures' = failures + 1
    /\ ChipTakes \/ UNCHANGED chip
    /\ bank' = "Unknown"
    /\ Returns("Bus")
    /\ held' = 0 /\ earlier' = 0

\* The bus owner has made sure of the base bank, resetting the chip or not, and
\* says so with assume_base_bank.
Recover ==
    /\ call = None
    /\ bank = "Unknown"
    /\ bank' = "Base"
    /\ chip_bank' = "Base"
    /\ unlocked' = 0
    /\ \/ UNCHANGED <<memory, granted>>
       \/ memory' = PowerUp /\ granted' = None
    /\ UNCHANGED <<call, pos, step, held, earlier, outcome, strayed, failures>>

Next ==
    \/ \E c \in Calls : Begin(c) \/ Refuse(c)
    \/ Transfer
    \/ TransferFails
    \/ Recover

Spec == Init /\ [][Next]_vars

-----------------------------------------------------------------------------
Byte == 0..255

\* Type invariant: every register holds a byte, and a call under way is at one of
\* its accesses.
Sw3538TypeOK ==
    /\ bank \in {"Base", "Extended", "Unknown"}
    /\ call \in Calls \cup {None}
    /\ call # None => pos \in 1..Len(Program(call))
    /\ step \in {"return", "unlock1", "unlock2", "unlock3", "enter", "data", "leave", "done"}
    /\ held \in Byte /\ earlier \in Byte
    /\ chip_bank \in {"Base", "Extended"}
    /\ unlocked \in 0..3
    /\ memory \in [Writable -> Byte]
    /\ strayed \in BOOLEAN
    /\ granted \in Policies \cup {None}
    /\ failures \in 0..MaxFailures

\* The driver knows the bank that is selected, or knows that it does not: in no
\* order of calls and failures does it believe the wrong one (sw3538.rs:424).
TrackedBankIsTrue == bank # "Unknown" => bank = chip_bank

\* Every transfer meets the register it was meant for, and modify_protected keeps
\* the bits it has no name for: nothing else in the chip ever changes.
NothingElseTouched ==
    /\ ~ strayed
    /\ memory[PD_CONTROL] \div 2 = PowerUp[PD_CONTROL] \div 2
    /\ (memory[PD_FIXED_CURRENT_CONTROL] \div 4) % 4
          = (PowerUp[PD_FIXED_CURRENT_CONTROL] \div 4) % 4
    /\ memory[PORT_CONTROL] \div 4 = PowerUp[PORT_CONTROL] \div 4
    /\ memory[PORT_CONTROL] % 2 = PowerUp[PORT_CONTROL] % 2

\* What the chip offers: PD, a voltage, and its current in 10 mA.
PdOn == Bit(memory[PD_CONTROL], 1) = 1

Offers(v) == IF v = 5000 THEN TRUE ELSE Bit(memory[PD_VOLTAGE_ENABLE], Weight[v]) = 1

LowBits(v) ==
    CASE v = 5000 -> memory[PD_FIXED_CURRENT_CONTROL] % 4
      [] v = 9000 -> memory[PD_FIXED_CURRENT_LOW] % 4
      [] v = 12000 -> (memory[PD_FIXED_CURRENT_LOW] \div 4) % 4
      [] v = 15000 -> (memory[PD_FIXED_CURRENT_LOW] \div 16) % 4
      [] v = 20000 -> (memory[PD_FIXED_CURRENT_LOW] \div 64) % 4

Offered(v) == 4 * memory[CurrentHigh[v]] + LowBits(v)

\* While PD is enabled, each voltage the chip offers is one that the policy it was
\* enabled for allows, at a current and a power that this policy allows; the chip
\* never offers a mixture of an old plan and a new one, wherever
\* apply_fixed_pdo_plan was interrupted (sw3538.rs:327).
OfferWithinPolicy ==
    PdOn => IF granted = None
            THEN \A r \in PdoRegisters : memory[r] = PowerUp[r]
            ELSE \A v \in Voltages : Offers(v) => AllowedBy(granted, v, Offered(v))

\* A call that returned Ok did what it is for: the plan is in the registers, the
\* sample is one of the channel asked for, the bit and the command are written.
OkMeansDone ==
    call = None /\ outcome # None /\ outcome.result = "Ok" =>
        LET c == outcome.call
        IN  CASE c.name = "apply" ->
                   LET plan == from_policy(c.argument)
                   IN  /\ PdOn <=> plan.pd_enabled
                       /\ \A v \in Voltages : Offered(v) = plan.current[v]
                       /\ \A v \in Voltages \ {5000} : Offers(v) <=> v \in plan.enabled
              [] c.name = "adc" -> held = c.argument /\ earlier = c.argument
              [] c.name = "cc" -> Bit(memory[PORT_CONTROL], 2) = c.argument
              [] c.name = "capabilities" -> memory[PD_COMMAND] = 10
              [] OTHER -> TRUE
=============================================================================
